----------------------- MODULE DeploymentProofs -----------------------
(***************************************************************************)
(* First the releases on the server, then the cut-over before them, each   *)
(* about its own specification (they share no name).                       *)
(*                                                                         *)
(* The releases, for any set of releases, any number of commands and any   *)
(* number of faults: what runs is always of the schema's family,           *)
(* state.json is accounted for and can be started, and an operation is     *)
(* closed only as it was intended.                                         *)
(*                                                                         *)
(* The inductive invariant says of every step of every command what the    *)
(* guards before it have established and what nothing since could undo:    *)
(* which files name which release, and which heads the two releases of a   *)
(* pending operation expect.                                               *)
(***************************************************************************)
EXTENDS ReleaseDeployment, SchemaMaintenance, TLAPS

-----------------------------------------------------------------------------
(* The inductive invariant.                                                *)

\* What host.json, state.json and the intent may name.
Names == All \cup {None}

Plain == {"deploy", "restore"}
Follow == {"release", "runtime_restore"}

PlainSteps == {"apply", "restore", "stop", "up", "ready", "record", "publish", "recover",
               "resume", "raise", "retain"}
FollowSteps == PlainSteps \cup {"begin", "up_again", "validate", "undone", "proof", "close", "undo",
                                "undo_up", "undo_state", "unresolved"}
RollbackSteps == {"begin", "facts", "reverse", "legacy", "legacy_up", "legacy_state", "validate",
                  "proof", "close", "unresolved"}

\* What a phase, a kind, a command or a step is called.
Words ==
  {"adopt", "apply", "begin", "bind", "bootstrap", "bootstrap_pending", "bound",
   "close", "closed",
   "deploy", "facts", "idle", "legacy", "legacy_state", "legacy_up", "none",
   "pending", "proof", "publish", "raise", "ready", "record", "recover",
   "release", "restore", "resume", "retain", "reverse", "rollback",
   "rollback_starting", "rolled_back", "runtime_restore", "stop", "undo", "undo_state", "undo_up", "undone",
   "unresolved", "up", "up_again", "validate"}

States == [current : Names, previous : Names]
Intents == [phase : Words, id : Int, kind : Words, source : Names, target : Names]
Contexts == [phase : Words, rehearsal : {"no", "started", "passed"}, bootstrap : Names, saved : Int]
Hosts == [cmd : Words, pc : Words, source : Names, target : Names, before : Int]

TypeOK ==
  /\ state \in States
  /\ head \in Int /\ running \in Names /\ pointer \in Names
  /\ intent \in Intents
  /\ context \in Contexts
  /\ host \in Hosts
  /\ clock \in Nat

\* What runs has an image, the legacy release has one for ever, and a pending
\* operation names both its releases.
ImagesInv ==
  /\ Old \in loaded
  /\ running # None => running \in loaded
  /\ Pending => None \notin {intent.source, intent.target}

\* A command without a follow-up: nothing is bound and no operation pending.
PlainInv ==
  host.cmd \in Plain =>
    /\ host.pc \in PlainSteps /\ pointer = None /\ ~Pending
    /\ host.source \in loaded \cup {None}
    /\ host.pc \in {"apply", "restore", "stop", "up", "recover", "resume"} /\ host.source # None =>
         SameFamily(host.source)
    /\ host.pc \in {"stop", "up", "ready", "record"} =>
         host.target \in loaded /\ SameFamily(host.target)

\* An operation is the pending intent; while it is closed, everything names
\* the release it is closed on.
OperationInv ==
  host.cmd \in Follow \cup {"rollback"} /\ host.pc # "retain" =>
    /\ Pending /\ intent.kind = host.cmd /\ host.source = intent.source /\ pointer # None
    /\ host.pc # "begin" => ~Stranded
    /\ host.pc = "begin" => state.current = host.source /\ pointer = host.source
    /\ host.pc \notin {"proof", "close", "unresolved"} => host.target = intent.target
    /\ host.pc \in {"proof", "close"} =>
         /\ pointer = host.target /\ state.current = host.target /\ head = HeadOf(host.target)
         /\ host.target \in {intent.source, intent.target}
    /\ host.pc = "close" => running \in {pointer, None}

FollowInv ==
  host.cmd \in Follow =>
    /\ host.pc \in FollowSteps
    /\ host.pc = "retain" => ~Pending
    /\ host.pc # "retain" => head = 40 /\ HeadOf(intent.source) = 40 /\ HeadOf(intent.target) = 40

RollbackInv ==
  host.cmd = "rollback" =>
    /\ host.pc \in RollbackSteps /\ intent.target = Old
    /\ host.pc = "legacy_up" => head = 38

OtherInv ==
  /\ host.cmd \in Plain \cup Follow \cup {None, "rollback", "adopt", "bootstrap"}
  /\ host.cmd = "adopt" =>
       host.pc = "adopt" /\ pointer = None /\ ~Pending /\ host.target \in loaded
  /\ host.cmd = "bootstrap" =>
       /\ host.pc \in {"bind", "bound"} /\ ~Pending
       /\ host.target = state.current /\ Executor \in loaded
  /\ host.cmd = None => host = Idle

Safe ==
  /\ ImagesInv /\ FamilyServed /\ Accountable /\ ImagesKept /\ StrandedUntouched
  /\ PlainInv /\ OperationInv /\ FollowInv /\ RollbackInv /\ OtherInv

Inv == TypeOK /\ Safe

-----------------------------------------------------------------------------
(* The constants, and what the type invariant says of the parts of records.*)

\* No release is called as the legacy one or as none; the release of the
\* cut-over and the executor expect head 40.
LEMMA Distinct ==
  /\ Old \notin Releases /\ None \notin Releases /\ Old # None
  /\ Next41 \subseteq Releases
  /\ First \in Releases \ Next41 /\ Executor \in Releases \ Next41
  BY DeploymentAssumption DEF Old, None

LEMMA Named ==
  /\ Releases \subseteq Names /\ None \in Names /\ Old \in Names
  /\ \A r : HeadOf(r) \in Int
  BY DEF Names, All, HeadOf

LEMMA Said ==
  /\ "adopt" \in Words /\ "apply" \in Words /\ "begin" \in Words /\ "bind" \in Words
  /\ "bootstrap" \in Words /\ "bootstrap_pending" \in Words /\ "bound" \in Words /\ "close" \in Words
  /\ "closed" \in Words /\ "deploy" \in Words /\ "facts" \in Words
  /\ "idle" \in Words /\ "legacy" \in Words /\ "legacy_state" \in Words
  /\ "legacy_up" \in Words /\ "none" \in Words /\ "pending" \in Words
  /\ "proof" \in Words /\ "publish" \in Words /\ "raise" \in Words
  /\ "ready" \in Words /\ "record" \in Words /\ "recover" \in Words
  /\ "release" \in Words /\ "restore" \in Words /\ "resume" \in Words
  /\ "retain" \in Words /\ "reverse" \in Words /\ "rollback" \in Words
  /\ "rollback_starting" \in Words /\ "rolled_back" \in Words
  /\ "runtime_restore" \in Words /\ "stop" \in Words
  /\ "undo" \in Words /\ "undo_state" \in Words /\ "undo_up" \in Words
  /\ "undone" \in Words /\ "unresolved" \in Words /\ "up" \in Words
  /\ "up_again" \in Words /\ "validate" \in Words
  /\ None \in Words
  BY DEF Words, None

LEMMA Parts ==
  ASSUME TypeOK
  PROVE  /\ state.current \in Names /\ state.previous \in Names
         /\ intent.source \in Names /\ intent.target \in Names
         /\ host.source \in Names /\ host.target \in Names
         /\ host.cmd \in Words /\ host.pc \in Words
  BY DEF TypeOK, States, Intents, Hosts

LEMMA NewHost ==
  ASSUME NEW c \in Words, NEW a \in Words, NEW s \in Names, NEW t \in Names
  PROVE  Command(c, a, s, t) \in Hosts
  BY DEF Command, Hosts

-----------------------------------------------------------------------------
(* Initially: with or without a release state.                             *)

LEMMA InitInv == Init => Inv
<1> SUFFICES ASSUME Init PROVE Inv OBVIOUS
<1>1. First \in Names /\ state \in States
  BY Distinct, Named DEF Init, States
<1>2. host \in Hosts
  BY Named, Said, NewHost DEF Init, Idle
<1>3. intent \in Intents
  BY Named, Said DEF Init, NoIntent, Intents
<1>6. context \in Contexts
  BY Named, Said DEF Init, Contexts
<1>4. TypeOK
  BY <1>1, <1>2, <1>3, <1>6, Named DEF Init, TypeOK
<1>5. Safe
  BY Distinct
  DEF Init, Safe, ImagesInv, FamilyServed, Accountable, ImagesKept, PlainInv, OperationInv,
      FollowInv, RollbackInv, OtherInv, Family, HeadOf, Plain, Follow, Pending, NoIntent,
      Stranded, StrandedUntouched,
      Idle, Command, None, Old
<1> QED BY <1>4, <1>5 DEF Inv

-----------------------------------------------------------------------------
(* Every step keeps the types: of the command first, then of the files.    *)

LEMMA TypeNext == Inv /\ [Next]_vars => TypeOK'
<1> SUFFICES ASSUME Inv, [Next]_vars PROVE TypeOK' OBVIOUS
<1> USE DEF At, GoTo, disk, followup
<1>1. ASSUME NEW r \in Releases, StagePrepare(r) PROVE TypeOK'
  <2>1. host' \in Hosts
    BY <1>1, Named, Said DEF Inv, TypeOK, Hosts, States, Intents, Idle, Command, StagePrepare,
      Run, Load
  <2> QED
    BY <1>1, <2>1, Named, Said, Parts DEF Inv, TypeOK, States, Intents, StagePrepare, Run, Load
<1>2. ASSUME NEW r \in Releases, Deploy(r) PROVE TypeOK'
  <2>1. host' \in Hosts
    BY <1>2, Named, Said, Parts, NewHost DEF Inv, TypeOK, Idle, Deploy, Run, CurrentRuns, None
  <2> QED
    BY <1>2, <2>1, Named, Said, Parts DEF Inv, TypeOK, States, Intents, Deploy, Run,
      CurrentRuns, None
<1>3. ASSUME NEW r \in Releases, FollowupRelease(r) PROVE TypeOK'
  <2>1. host' \in Hosts
    BY <1>3, Named, Said DEF Inv, TypeOK, Hosts, States, Intents, Idle, Command,
      FollowupRelease, Handoff, Run, Bound, None, Usable, CurrentRuns, Begin,
      TakenUp, Entry
  <2> QED
    BY <1>3, <2>1, Named, Said, Parts DEF Inv, TypeOK, States, Intents, FollowupRelease,
      Handoff, Run, Bound, None, Usable, CurrentRuns, Begin,
      TakenUp, Entry
<1>4. ASSUME RestorePrevious PROVE TypeOK'
  <2>1. host' \in Hosts
    BY <1>4, Named, Said, Parts, NewHost DEF Inv, TypeOK, Idle, RestorePrevious, Run,
      CurrentRuns, None
  <2> QED
    BY <1>4, <2>1, Named, Said, Parts DEF Inv, TypeOK, States, Intents, RestorePrevious, Run,
      CurrentRuns, None
<1>5. ASSUME Apply PROVE TypeOK'
  <2>1. host' \in Hosts
    BY <1>5, Named, Said DEF Inv, TypeOK, Hosts, States, Intents, Idle, Command, Apply,
      ApplyAdmitted, Guard, Operating, Settled, None, InWindow, Load
  <2> QED
    BY <1>5, <2>1, Named, Said, Parts DEF Inv, TypeOK, States, Intents, Apply, ApplyAdmitted,
      Guard, Operating, Settled, None, InWindow, Load
<1>6. ASSUME Restore PROVE TypeOK'
  <2>1. host' \in Hosts
    BY <1>6, Named, Said DEF Inv, TypeOK, Hosts, States, Intents, Idle, Command, Restore,
      RestoreAdmitted, Guard, Operating, Settled, None, Usable, InWindow
  <2> QED
    BY <1>6, <2>1, Named, Said, Parts DEF Inv, TypeOK, States, Intents, Restore,
      RestoreAdmitted, Guard, Operating, Settled, None, Usable, InWindow
<1>7. ASSUME StopSource PROVE TypeOK'
  <2>1. host' \in Hosts
    BY <1>7, Named, Said DEF Inv, TypeOK, Hosts, States, Intents, Idle, Command, StopSource,
      InWindow, Operating, Stopped, None
  <2> QED
    BY <1>7, <2>1, Named, Said, Parts DEF Inv, TypeOK, States, Intents, StopSource, InWindow,
      Operating, Stopped, None
<1>8. ASSUME StartTarget PROVE TypeOK'
  <2>1. host' \in Hosts
    BY <1>8, Named, Said DEF Inv, TypeOK, Hosts, States, Intents, Idle, Command, StartTarget,
      InWindow, Operating, Started, Usable
  <2> QED
    BY <1>8, <2>1, Named, Said, Parts DEF Inv, TypeOK, States, Intents, StartTarget, InWindow,
      Operating, Started, Usable
<1>9. ASSUME RecordReady PROVE TypeOK'
  <2>1. host' \in Hosts
    BY <1>9, Named, Said DEF Inv, TypeOK, Hosts, States, Intents, Idle, Command, RecordReady
  <2> QED
    BY <1>9, <2>1, Named, Said, Parts DEF Inv, TypeOK, States, Intents, RecordReady
<1>10. ASSUME RecordState PROVE TypeOK'
  <2>1. host' \in Hosts
    BY <1>10, Named, Said DEF Inv, TypeOK, Hosts, States, Intents, Idle, Command, RecordState
  <2> QED
    BY <1>10, <2>1, Named, Said, Parts DEF Inv, TypeOK, States, Intents, RecordState
<1>11. ASSUME Publish PROVE TypeOK'
  <2>1. host' \in Hosts
    BY <1>11, Named, Said DEF Inv, TypeOK, Hosts, States, Intents, Idle, Command, Publish,
      Guard, Operating, None
  <2> QED
    BY <1>11, <2>1, Named, Said, Parts DEF Inv, TypeOK, States, Intents, Publish, Guard,
      Operating, None
<1>12. ASSUME Recover PROVE TypeOK'
  <2>1. host' \in Hosts
    BY <1>12, Named, Said DEF Inv, TypeOK, Hosts, States, Intents, Idle, Command, Recover, None,
      Stopped
  <2> QED
    BY <1>12, <2>1, Named, Said, Parts DEF Inv, TypeOK, States, Intents, Recover, None, Stopped
<1>13. ASSUME Resume PROVE TypeOK'
  <2>1. host' \in Hosts
    BY <1>13, Named, Said DEF Inv, TypeOK, Hosts, States, Intents, Idle, Command, Resume,
      InWindow, Operating, Started, Usable
  <2> QED
    BY <1>13, <2>1, Named, Said, Parts DEF Inv, TypeOK, States, Intents, Resume, InWindow,
      Operating, Started, Usable
<1>14. ASSUME Retain PROVE TypeOK'
  <2>1. host' \in Hosts
    BY <1>14, Named, Said DEF Inv, TypeOK, Hosts, States, Intents, Idle, Command, Retain,
      Referenced, ProtectedImages, None
  <2> QED
    BY <1>14, <2>1, Named, Said, Parts DEF Inv, TypeOK, States, Intents, Retain, Referenced,
      ProtectedImages, None
<1>15. ASSUME HandoffPrepare PROVE TypeOK'
  <2>1. host' \in Hosts
    BY <1>15, Named, Said DEF Inv, TypeOK, Hosts, States, Intents, Idle, Command,
      HandoffPrepare, Run, None
  <2> QED
    BY <1>15, <2>1, Named, Said, Parts DEF Inv, TypeOK, States, Intents, HandoffPrepare, Run,
      None
<1>16. ASSUME HandoffAdopt PROVE TypeOK'
  <2>1. host' \in Hosts
    BY <1>16, Named, Said, Parts, NewHost DEF Inv, TypeOK, Idle, HandoffAdopt, Run, None
  <2> QED
    BY <1>16, <2>1, Named, Said, Parts DEF Inv, TypeOK, States, Intents, HandoffAdopt, Run, None
<1>17. ASSUME HandoffState PROVE TypeOK'
  <2>1. host' \in Hosts
    BY <1>17, Named, Said DEF Inv, TypeOK, Hosts, States, Intents, Idle, Command, HandoffState,
      None
  <2> QED
    BY <1>17, <2>1, Named, Said, Parts DEF Inv, TypeOK, States, Intents, HandoffState, None
<1>18. ASSUME BootstrapBegin PROVE TypeOK'
  <2>1. host' \in Hosts
    BY <1>18, Named, Said, Parts, NewHost DEF Inv, TypeOK, Idle, BootstrapBegin, Run, None,
      Usable
  <2> QED
    BY <1>18, <2>1, Named, Said, Parts DEF Inv, TypeOK, States, Intents, Contexts, BootstrapBegin, Run,
      None, Usable
<1>19. ASSUME BootstrapResume PROVE TypeOK'
  <2>1. host' \in Hosts
    BY <1>19, Named, Said, Parts, NewHost DEF Inv, TypeOK, Idle, BootstrapResume, Run, None
  <2> QED
    BY <1>19, <2>1, Named, Said, Parts DEF Inv, TypeOK, States, Intents, BootstrapResume, Run,
      None
<1>20. ASSUME AppendBinding PROVE TypeOK'
  <2>1. host' \in Hosts
    BY <1>20, Named, Said DEF Inv, TypeOK, Hosts, States, Intents, Idle, Command, AppendBinding
  <2> QED
    BY <1>20, <2>1, Named, Said, Parts DEF Inv, TypeOK, States, Intents, AppendBinding
<1>21. ASSUME BootstrapReady PROVE TypeOK'
  <2>1. host' \in Hosts
    BY <1>21, Named, Said DEF Inv, TypeOK, Hosts, States, Intents, Idle, Command,
      BootstrapReady, None
  <2> QED
    BY <1>21, <2>1, Named, Said, Parts DEF Inv, TypeOK, States, Intents, Contexts, BootstrapReady, None
<1>22. ASSUME Rehearse PROVE TypeOK'
  <2>1. host' \in Hosts
    BY <1>22, Named, Said DEF Inv, TypeOK, Hosts, States, Intents, Idle, Command, Rehearse, Run,
      Bound, None, Usable
  <2> QED
    BY <1>22, <2>1, Named, Said, Parts DEF Inv, TypeOK, States, Intents, Contexts, Rehearse, Run, Bound,
      None, Usable
<1>23. ASSUME PrepareReverse PROVE TypeOK'
  <2>1. host' \in Hosts
    BY <1>23, Named, Said DEF Inv, TypeOK, Hosts, States, Intents, Idle, Command,
      PrepareReverse, Run, Bound, None, Usable
  <2> QED
    BY <1>23, <2>1, Named, Said, Parts DEF Inv, TypeOK, States, Intents, PrepareReverse, Run,
      Bound, None, Usable
<1>24. ASSUME OrdinaryRestore PROVE TypeOK'
  <2>1. host' \in Hosts
    BY <1>24, Named, Said DEF Inv, TypeOK, Hosts, States, Intents, Idle, Command,
      OrdinaryRestore, None, Handoff, Run, Bound, Usable, CurrentRuns, Begin,
      TakenUp, Entry
  <2> QED
    BY <1>24, <2>1, Named, Said, Parts DEF Inv, TypeOK, States, Intents, OrdinaryRestore, None,
      Handoff, Run, Bound, Usable, CurrentRuns, Begin,
      TakenUp, Entry
<1>25. ASSUME StartAgain PROVE TypeOK'
  <2>1. host' \in Hosts
    BY <1>25, Named, Said DEF Inv, TypeOK, Hosts, States, Intents, Idle, Command, StartAgain,
      InWindow, Operating, Started, Usable
  <2> QED
    BY <1>25, <2>1, Named, Said, Parts DEF Inv, TypeOK, States, Intents, StartAgain, InWindow,
      Operating, Started, Usable
<1>26. ASSUME Validate PROVE TypeOK'
  <2>1. host' \in Hosts
    BY <1>26, Named, Said DEF Inv, TypeOK, Hosts, States, Intents, Idle, Command, Validate,
      InWindow, Operating, Closing
  <2> QED
    BY <1>26, <2>1, Named, Said, Parts DEF Inv, TypeOK, States, Intents, Validate, InWindow,
      Operating, Closing
<1>27. ASSUME RuntimeProof PROVE TypeOK'
  <2>1. host' \in Hosts
    BY <1>27, Named, Said DEF Inv, TypeOK, Hosts, States, Intents, Idle, Command, RuntimeProof,
      InWindow, Operating
  <2> QED
    BY <1>27, <2>1, Named, Said, Parts DEF Inv, TypeOK, States, Intents, Contexts, RuntimeProof, InWindow,
      Operating
<1>28. ASSUME Close PROVE TypeOK'
  <2>1. host' \in Hosts
    BY <1>28, Named, Said DEF Inv, TypeOK, Hosts, States, Intents, Idle, Command, Close, None
  <2> QED
    BY <1>28, <2>1, Named, Said, Parts DEF Inv, TypeOK, States, Intents, Close, None
<1>29. ASSUME UndoStop PROVE TypeOK'
  <2>1. host' \in Hosts
    BY <1>29, Named, Said DEF Inv, TypeOK, Hosts, States, Intents, Idle, Command, UndoStop,
      InWindow, Operating, Stopped, None
  <2> QED
    BY <1>29, <2>1, Named, Said, Parts DEF Inv, TypeOK, States, Intents, UndoStop, InWindow,
      Operating, Stopped, None
<1>30. ASSUME UndoStart PROVE TypeOK'
  <2>1. host' \in Hosts
    BY <1>30, Named, Said DEF Inv, TypeOK, Hosts, States, Intents, Idle, Command, UndoStart,
      InWindow, Operating, Started, Usable
  <2> QED
    BY <1>30, <2>1, Named, Said, Parts DEF Inv, TypeOK, States, Intents, UndoStart, InWindow,
      Operating, Started, Usable
<1>31. ASSUME UndoState PROVE TypeOK'
  <2>1. host' \in Hosts
    BY <1>31, Named, Said DEF Inv, TypeOK, Hosts, States, Intents, Idle, Command, UndoState,
      None
  <2> QED
    BY <1>31, <2>1, Named, Said, Parts DEF Inv, TypeOK, States, Intents, UndoState, None
<1>32. ASSUME Unresolved PROVE TypeOK'
  <2>1. host' \in Hosts
    BY <1>32, Named, Said DEF Inv, TypeOK, Hosts, States, Intents, Idle, Command, Unresolved,
      Stopped, None
  <2> QED
    BY <1>32, <2>1, Named, Said, Parts DEF Inv, TypeOK, States, Intents, Unresolved, Stopped,
      None
<1>33. ASSUME RollbackBegin PROVE TypeOK'
  <2>1. host' \in Hosts
    BY <1>33, Named, Said, Parts, NewHost DEF Inv, TypeOK, Idle, RollbackBegin, Run, Bound,
      None, Usable, Begin, TakenUp, Entry
  <2> QED
    BY <1>33, <2>1, Named, Said, Parts DEF Inv, TypeOK, States, Intents, RollbackBegin, Run,
      Bound, None, Usable, Begin, TakenUp, Entry
<1>34. ASSUME RollbackFacts PROVE TypeOK'
  <2>1. host' \in Hosts
    BY <1>34, Named, Said DEF Inv, TypeOK, Hosts, States, Intents, Idle, Command, RollbackFacts,
      Stopped, None
  <2> QED
    BY <1>34, <2>1, Named, Said, Parts DEF Inv, TypeOK, States, Intents, RollbackFacts, Stopped,
      None
<1>35. ASSUME ReverseConversion PROVE TypeOK'
  <2>1. host' \in Hosts
    BY <1>35, Named, Said DEF Inv, TypeOK, Hosts, States, Intents, Idle, Command,
      ReverseConversion, None
  <2> QED
    BY <1>35, <2>1, Named, Said, Parts DEF Inv, TypeOK, States, Intents, ReverseConversion, None
<1>36. ASSUME ExchangeUnrecorded PROVE TypeOK'
  <2>1. host' \in Hosts
    BY <1>36, Named, Said DEF Inv, TypeOK, Hosts, States, Intents, Idle, Command,
      ExchangeUnrecorded, None
  <2> QED
    BY <1>36, <2>1, Named, Said, Parts DEF Inv, TypeOK, States, Intents, ExchangeUnrecorded,
      None
<1>37. ASSUME ReverseDone PROVE TypeOK'
  <2>1. host' \in Hosts
    BY <1>37, Named, Said DEF Inv, TypeOK, Hosts, States, Intents, Idle, Command, ReverseDone
  <2> QED
    BY <1>37, <2>1, Named, Said, Parts DEF Inv, TypeOK, States, Intents, ReverseDone
<1>38. ASSUME RollbackStarting PROVE TypeOK'
  <2>1. host' \in Hosts
    BY <1>38, Named, Said DEF Inv, TypeOK, Hosts, States, Intents, Idle, Command,
      RollbackStarting, LegacyAdmitted, InWindow, Operating, None, Usable
  <2> QED
    BY <1>38, <2>1, Named, Said, Parts DEF Inv, TypeOK, States, Intents, Contexts, RollbackStarting,
      LegacyAdmitted, InWindow, Operating, None, Usable
<1>39. ASSUME LegacyStart PROVE TypeOK'
  <2>1. host' \in Hosts
    BY <1>39, Named, Said DEF Inv, TypeOK, Hosts, States, Intents, Idle, Command, LegacyStart,
      InWindow, Operating, Started, Usable
  <2> QED
    BY <1>39, <2>1, Named, Said, Parts DEF Inv, TypeOK, States, Intents, LegacyStart, InWindow,
      Operating, Started, Usable
<1>40. ASSUME LegacyState PROVE TypeOK'
  <2>1. host' \in Hosts
    BY <1>40, Named, Said DEF Inv, TypeOK, Hosts, States, Intents, Idle, Command, LegacyState
  <2> QED
    BY <1>40, <2>1, Named, Said, Parts DEF Inv, TypeOK, States, Intents, LegacyState
<1>41. ASSUME Raise PROVE TypeOK'
  <2>1. host' \in Hosts
    BY <1>41, Named, Said DEF Inv, TypeOK, Hosts, States, Intents, Idle, Command, Raise,
      Blocked, ApplyAdmitted, Guard, Operating, Settled, None, InWindow, RestoreAdmitted,
      Usable, Closing, LegacyAdmitted, Failed, Handler
  <2> QED
    BY <1>41, <2>1, Named, Said, Parts DEF Inv, TypeOK, States, Intents, Raise, Blocked,
      ApplyAdmitted, Guard, Operating, Settled, None, InWindow, RestoreAdmitted, Usable,
      Closing, LegacyAdmitted, Failed, Handler
<1>42. ASSUME Fault PROVE TypeOK'
  <2>1. host' \in Hosts
    BY <1>42, Named, Said DEF Inv, TypeOK, Hosts, States, Intents, Idle, Command, Fault,
      Blocked, ApplyAdmitted, Guard, Operating, Settled, None, InWindow, RestoreAdmitted,
      Usable, Closing, LegacyAdmitted, Failed, Handler
  <2> QED
    BY <1>42, <2>1, Named, Said, Parts DEF Inv, TypeOK, States, Intents, Fault, Blocked,
      ApplyAdmitted, Guard, Operating, Settled, None, InWindow, RestoreAdmitted, Usable,
      Closing, LegacyAdmitted, Failed, Handler
<1>43. ASSUME RuntimeFails PROVE TypeOK'
  <2>1. host' \in Hosts
    BY <1>43, Named, Said DEF Inv, TypeOK, Hosts, States, Intents, Idle, Command, RuntimeFails,
      None
  <2> QED
    BY <1>43, <2>1, Named, Said, Parts DEF Inv, TypeOK, States, Intents, RuntimeFails, None
<1>44. ASSUME HostDies PROVE TypeOK'
  <2>1. host' \in Hosts
    BY <1>44, Named, Said DEF Inv, TypeOK, Hosts, States, Intents, Idle, Command, HostDies, None
  <2> QED
    BY <1>44, <2>1, Named, Said, Parts DEF Inv, TypeOK, States, Intents, HostDies, None
<1>45. ASSUME Tick PROVE TypeOK'
  <2>1. host' \in Hosts
    BY <1>45, Named, Said DEF Inv, TypeOK, Hosts, States, Intents, Idle, Command, Tick
  <2> QED
    BY <1>45, <2>1, Named, Said, Parts DEF Inv, TypeOK, States, Intents, Tick
<1>46. ASSUME SaveIntent PROVE TypeOK'
  <2>1. host' \in Hosts
    BY <1>46, Named, Said DEF Inv, TypeOK, Hosts, States, Intents, Idle, Command, SaveIntent,
      Entry, None
  <2> QED
    BY <1>46, <2>1, Named, Said, Parts DEF Inv, TypeOK, States, Intents, Contexts, SaveIntent
<1>47. CASE UNCHANGED vars
  BY <1>47 DEF Inv, TypeOK, vars
<1> QED
  BY <1>1, <1>2, <1>3, <1>4, <1>5, <1>6, <1>7, <1>8, <1>9, <1>10, <1>11, <1>12, <1>13, <1>14,
    <1>15, <1>16, <1>17, <1>18, <1>19, <1>20, <1>21, <1>22, <1>23, <1>24, <1>25, <1>26, <1>27,
    <1>28, <1>29, <1>30, <1>31, <1>32, <1>33, <1>34, <1>35, <1>36, <1>37, <1>38, <1>39, <1>40,
    <1>41, <1>42, <1>43, <1>44, <1>45, <1>46, <1>47 DEF Next

-----------------------------------------------------------------------------
(* Every step keeps what the files and the command say of each other.      *)

LEMMA SafeNext == Inv /\ [Next]_vars => Safe'
<1> SUFFICES ASSUME Inv, [Next]_vars PROVE Safe' OBVIOUS
<1> USE Distinct
<1> USE DEF Inv, Safe, Accountable, Command, Family, FamilyServed, Follow, FollowInv, FollowSteps,
          HeadOf, Hosts, Idle, ImagesInv, ImagesKept, Intents, OperationInv, OtherInv, Pending,
          Stranded, StrandedUntouched,
          Plain, PlainInv, PlainSteps, RollbackInv, RollbackSteps, SameFamily, States, TypeOK,
          None, At, GoTo, disk, followup
<1>1. ASSUME NEW r \in Releases, StagePrepare(r) PROVE Safe'
  BY <1>1 DEF StagePrepare, Run, Load
<1>2. ASSUME NEW r \in Releases, Deploy(r) PROVE Safe'
  BY <1>2 DEF Deploy, Run, CurrentRuns, None
<1>3. ASSUME NEW r \in Releases, FollowupRelease(r) PROVE Safe'
  BY <1>3 DEF FollowupRelease, Handoff, Run, Bound, None, Usable, CurrentRuns, Begin,
    TakenUp, Entry
<1>4. ASSUME RestorePrevious PROVE Safe'
  BY <1>4 DEF RestorePrevious, Run, CurrentRuns, None
<1>5. ASSUME Apply PROVE Safe'
  BY <1>5 DEF Apply, ApplyAdmitted, Guard, Operating, Settled, None, InWindow, Load
<1>6. ASSUME Restore PROVE Safe'
  BY <1>6 DEF Restore, RestoreAdmitted, Guard, Operating, Settled, None, Usable, InWindow
<1>7. ASSUME StopSource PROVE Safe'
  BY <1>7 DEF StopSource, InWindow, Operating, Stopped, None
<1>8. ASSUME StartTarget PROVE Safe'
  BY <1>8 DEF StartTarget, InWindow, Operating, Started, Usable
<1>9. ASSUME RecordReady PROVE Safe'
  BY <1>9 DEF RecordReady
<1>10. ASSUME RecordState PROVE Safe'
  BY <1>10 DEF RecordState
<1>11. ASSUME Publish PROVE Safe'
  BY <1>11 DEF Publish, Guard, Operating, None
<1>12. ASSUME Recover PROVE Safe'
  BY <1>12 DEF Recover, None, Stopped
<1>13. ASSUME Resume PROVE Safe'
  BY <1>13 DEF Resume, InWindow, Operating, Started, Usable
<1>14. ASSUME Retain PROVE Safe'
  BY <1>14 DEF Retain, Referenced, ProtectedImages, None
<1>15. ASSUME HandoffPrepare PROVE Safe'
  BY <1>15 DEF HandoffPrepare, Run, None
<1>16. ASSUME HandoffAdopt PROVE Safe'
  BY <1>16 DEF HandoffAdopt, Run, None
<1>17. ASSUME HandoffState PROVE Safe'
  BY <1>17 DEF HandoffState, None
<1>18. ASSUME BootstrapBegin PROVE Safe'
  BY <1>18 DEF BootstrapBegin, Run, None, Usable
<1>19. ASSUME BootstrapResume PROVE Safe'
  BY <1>19 DEF BootstrapResume, Run, None
<1>20. ASSUME AppendBinding PROVE Safe'
  BY <1>20 DEF AppendBinding
<1>21. ASSUME BootstrapReady PROVE Safe'
  BY <1>21 DEF BootstrapReady, None
<1>22. ASSUME Rehearse PROVE Safe'
  BY <1>22 DEF Rehearse, Run, Bound, None, Usable
<1>23. ASSUME PrepareReverse PROVE Safe'
  BY <1>23 DEF PrepareReverse, Run, Bound, None, Usable
<1>24. ASSUME OrdinaryRestore PROVE Safe'
  BY <1>24 DEF OrdinaryRestore, None, Handoff, Run, Bound, Usable, CurrentRuns, Begin,
    TakenUp, Entry
<1>25. ASSUME StartAgain PROVE Safe'
  BY <1>25 DEF StartAgain, InWindow, Operating, Started, Usable
<1>26. ASSUME Validate PROVE Safe'
  BY <1>26 DEF Validate, InWindow, Operating, Closing
<1>27. ASSUME RuntimeProof PROVE Safe'
  BY <1>27 DEF RuntimeProof, Contexts, InWindow, Operating
<1>28. ASSUME Close PROVE Safe'
  BY <1>28 DEF Close, None
<1>29. ASSUME UndoStop PROVE Safe'
  BY <1>29 DEF UndoStop, InWindow, Operating, Stopped, None
<1>30. ASSUME UndoStart PROVE Safe'
  BY <1>30 DEF UndoStart, InWindow, Operating, Started, Usable
<1>31. ASSUME UndoState PROVE Safe'
  BY <1>31 DEF UndoState, None
<1>32. ASSUME Unresolved PROVE Safe'
  BY <1>32 DEF Unresolved, Stopped, None
<1>33. ASSUME RollbackBegin PROVE Safe'
  BY <1>33 DEF RollbackBegin, Run, Bound, None, Usable, Begin, TakenUp, Entry
<1>34. ASSUME RollbackFacts PROVE Safe'
  BY <1>34 DEF RollbackFacts, Stopped, None
<1>35. ASSUME ReverseConversion PROVE Safe'
  BY <1>35 DEF ReverseConversion, None
<1>36. ASSUME ExchangeUnrecorded PROVE Safe'
  BY <1>36 DEF ExchangeUnrecorded, None
<1>37. ASSUME ReverseDone PROVE Safe'
  BY <1>37 DEF ReverseDone
<1>38. ASSUME RollbackStarting PROVE Safe'
  BY <1>38 DEF RollbackStarting, Contexts, LegacyAdmitted, InWindow, Operating, None, Usable
<1>39. ASSUME LegacyStart PROVE Safe'
  BY <1>39 DEF LegacyStart, InWindow, Operating, Started, Usable
<1>40. ASSUME LegacyState PROVE Safe'
  BY <1>40 DEF LegacyState
<1>41. ASSUME Raise PROVE Safe'
  BY <1>41 DEF Raise, Blocked, ApplyAdmitted, Guard, Operating, Settled, None, InWindow,
    RestoreAdmitted, Usable, Closing, LegacyAdmitted, Failed, Handler
<1>42. ASSUME Fault PROVE Safe'
  BY <1>42 DEF Fault, Blocked, ApplyAdmitted, Guard, Operating, Settled, None, InWindow,
    RestoreAdmitted, Usable, Closing, LegacyAdmitted, Failed, Handler
<1>43. ASSUME RuntimeFails PROVE Safe'
  BY <1>43 DEF RuntimeFails, None
<1>44. ASSUME HostDies PROVE Safe'
  BY <1>44 DEF HostDies, None
<1>45. ASSUME Tick PROVE Safe'
  BY <1>45 DEF Tick
<1>46. ASSUME SaveIntent PROVE Safe'
  BY <1>46 DEF SaveIntent, Contexts, Entry
<1>47. CASE UNCHANGED vars
  BY <1>47 DEF vars
<1> HIDE DEF Safe, Inv
<1> QED
  BY <1>1, <1>2, <1>3, <1>4, <1>5, <1>6, <1>7, <1>8, <1>9, <1>10, <1>11, <1>12, <1>13, <1>14,
    <1>15, <1>16, <1>17, <1>18, <1>19, <1>20, <1>21, <1>22, <1>23, <1>24, <1>25, <1>26, <1>27,
    <1>28, <1>29, <1>30, <1>31, <1>32, <1>33, <1>34, <1>35, <1>36, <1>37, <1>38, <1>39, <1>40,
    <1>41, <1>42, <1>43, <1>44, <1>45, <1>46, <1>47 DEF Next

-----------------------------------------------------------------------------
(* Theorems.                                                               *)

\* The invariant holds in every reachable state.
THEOREM InvHolds == Spec => []Inv
<1>1. Inv /\ [Next]_vars => Inv'
  BY TypeNext, SafeNext DEF Inv
<1> QED BY InitInv, <1>1, PTL DEF Spec

\* Whatever fails, dies or is retried (Fault, RuntimeFails, HostDies and the
\* handlers of apply, restore and rollback), no release of any set of releases
\* ever runs on a schema of the other family.
THEOREM FamilyAlwaysServed == Spec => []FamilyServed
<1>1. Inv => FamilyServed BY DEF Inv, Safe
<1> QED BY InvHolds, <1>1, PTL

\* What state.json, the active binding and the pending operation name is
\* accounted for, and its image is still there, however many commands ran and
\* however often retention removed images.
THEOREM StateAlwaysAccountable == Spec => []StateAccountable
<1>1. Inv => StateAccountable BY DEF Inv, Safe, StateAccountable
<1> QED BY InvHolds, <1>1, PTL

\* An operation of the follow-up is closed only by Close (schema_followup
\* _close), on one of its own two releases and the head that release expects.
THEOREM OperationsCloseAsIntended == Spec => ClosedAsIntended
<1> DEFINE Intended == /\ pointer \in {intent.source, intent.target} /\ state.current = pointer
                       /\ running \in {pointer, None} /\ HeadOf(pointer) = head
<1>1. ASSUME Inv, [Next]_vars, Pending, intent'.phase = "closed"
      PROVE  Intended
  <2>1. CASE Close
    BY <1>1, <2>1 DEF Inv, Safe, Close, At, OperationInv, FollowInv, PlainInv, OtherInv,
       Plain, Follow, PlainSteps, FollowSteps, RollbackInv, RollbackSteps, Idle, Command, None
  <2>2. CASE ~Close
    BY <1>1, <2>2 DEF Pending, Next, vars, followup, StagePrepare, Deploy, FollowupRelease,
      RestorePrevious, Apply, Restore, StopSource, StartTarget, RecordReady, RecordState,
      Publish, Recover, Resume, Retain, HandoffPrepare, HandoffAdopt, HandoffState,
      BootstrapBegin, BootstrapResume, AppendBinding, BootstrapReady, Rehearse, PrepareReverse,
      OrdinaryRestore, StartAgain, Validate, RuntimeProof, UndoStop, UndoStart, UndoState,
      Unresolved, RollbackBegin, RollbackFacts, ReverseConversion, ExchangeUnrecorded,
      ReverseDone, RollbackStarting, LegacyStart, LegacyState, Raise, Fault, RuntimeFails,
      HostDies, Tick, Handoff, Begin, SaveIntent
  <2> QED BY <2>1, <2>2
<1>2. Inv /\ [Next]_vars => [Pending /\ intent'.phase = "closed" => Intended]_vars
  BY <1>1
<1> QED BY InvHolds, <1>2, PTL DEF Spec, ClosedAsIntended

-----------------------------------------------------------------------------
(***************************************************************************)
(* The cut-over of the schema, for any number of writes and of processes   *)
(* that stop.                                                              *)
(*                                                                         *)
(* The inductive invariant says of every step of a command what its guards *)
(* have established and why nothing since could undo it: no release runs   *)
(* beside a command that relies on the live tables, nor beside a RENAME    *)
(* without a client, and the host starts none before both are gone.        *)
(***************************************************************************)

-----------------------------------------------------------------------------
(* The inductive invariant.                                                *)

Contents == [layout : Layouts, rows : Int, counter : Int]
Records == [schema : Schemas, layout : Layouts, manifest : Int \X Int, empty : BOOLEAN,
            drop : {"no", "pending", "done"}]

\* Before the exchange is recorded nothing is retained; after it, until a
\* cleanup begins, the archive is.
Early == {"none", "planned", "prepare_pending", "prepared", "copy_pending", "copied", "verified",
          "switch_pending"}
Exchange == {"switched", "rollback_pending"}
Late == {"rolled_back", "cleanup_pending", "cleaned"}
Phases == Early \cup Exchange \cup Late

JournalFiles == [phase : Phases, manifest : Int \X Int, before : Int \X Int,
                 retained : SUBSET Records]

Commands == {"none", "plan", "prepare", "copy", "verify", "switch", "rollback", "cleanup"}
StepsOf ==
  [none |-> {"idle"}, plan |-> {"plan"},
   prepare |-> {"prepare", "ddl", "upgrade", "archive", "prepared"},
   copy |-> {"copy", "rows", "align", "realign", "copied", "recopied"}, verify |-> {"verify"},
   switch |-> {"switch", "rename", "post"},
   rollback |-> {"rollback", "restore", "unrename", "restored"},
   cleanup |-> {"cleanup", "drop"}]
Steps == UNION {StepsOf[c] : c \in Commands}

CutoverTypeOK ==
  /\ schema \in [Schemas -> Contents]
  /\ journal \in [Journals -> JournalFiles]
  /\ cli \in [cmd : Commands, j : Journals, pc : Steps, mem : JournalFiles, attached : BOOLEAN]
  /\ cli.pc \in StepsOf[cli.cmd]
  /\ orphan \in {"none", "forward", "reverse", "unrename"}
  /\ serving \in {"none", "old", "new"}
  /\ acked \in Int
  /\ reply \in {"none", "ok", "failed"}

HostCommands == {"none", "prepare", "rehearse", "switch", "rollback", "recover"}
HostSteps ==
  {"idle", "plan", "restore", "convert", "stop", "backup", "backed", "budget", "copy", "verify",
   "exchange", "compare", "start", "up", "ready", "handler", "recover", "fast", "confirm", "resume"}

HostRecords ==
  [cmd : HostCommands, pc : HostSteps, release : {"old", "new"}, stop : Clocks, j : Journals,
   wait : BOOLEAN]

HostTypeOK ==
  /\ process \in HostRecords
  /\ maint.started \in BOOLEAN /\ maint.aborted \in BOOLEAN
  /\ maint = [phase |-> maint.phase, rehearsed |-> maint.rehearsed, started |-> maint.started,
              aborted |-> maint.aborted, backup |-> maint.backup]

\* Each journal has its own archives, one record of each.
Owned == [forward |-> {"backup", "restored_failed"}, reverse |-> {"failed"}]

RetainedOk(j, m) ==
  /\ \A r \in m.retained : r.schema \in Owned[j]
  /\ \A r, q \in m.retained : r.schema = q.schema => r = q
  /\ m.phase \in Early => m.retained = {}
  /\ m.phase \in Exchange =>
       \A r \in m.retained : r.schema = Archive[j] /\ ~r.empty /\ r.drop = "no"

JournalInv ==
  /\ \A j \in Journals : RetainedOk(j, journal[j])
  /\ journal["reverse"].phase \notin {"rollback_pending", "rolled_back"}

\* A rollback that is pending still has the tables it goes back to, unless
\* they are live again.
PendingInv ==
  journal["forward"].phase = "rollback_pending" /\ schema[Source].layout = "new" =>
    schema["backup"].layout = "old"

\* The command's memory is its journal; what each step has established.
Twins(s) == Manifest(s) = Manifest(Source)

RenameReady(j) ==
  /\ journal[j].phase = "switch_pending"
  /\ schema[Source].layout = SourceHead[j] /\ schema[Target[j]].layout = TargetHead[j]
  /\ Twins(Target[j])

RestoreReady ==
  /\ journal["forward"].phase = "rollback_pending"
  /\ schema["backup"].layout = "old" /\ Twins("backup")

CommandInv ==
  /\ cli.cmd # "none" => cli.mem = journal[cli.j]
  /\ cli.pc = "plan" => cli.mem.phase = "none"
  /\ cli.cmd = "prepare" => cli.mem.phase \in {"planned", "prepare_pending"}
  /\ cli.pc \in {"rows", "align", "realign", "copied", "recopied"} =>
       cli.mem.phase \in {"copy_pending", "copied"}
  /\ cli.pc = "rename" => RenameReady(cli.j)
  /\ cli.pc = "post" => cli.mem.phase \in {"verified", "switch_pending"}
  /\ cli.cmd = "rollback" => cli.j = "forward"
  /\ cli.pc \in {"restore", "unrename", "restored"} => cli.mem.phase = "rollback_pending"
  /\ cli.pc = "unrename" => RestoreReady /\ Manifest(Source) = cli.mem.before
  /\ cli.pc = "restored" =>
       /\ schema["backup"].layout = "empty"
       /\ Manifest("restored_failed") = cli.mem.before
  /\ cli.pc = "drop" => cli.mem.phase = "cleanup_pending"

OrphanInv ==
  /\ orphan \in Journals => RenameReady(orphan)
  /\ orphan = "unrename" => RestoreReady
  /\ orphan # "none" => cli.cmd = "none"

\* No release runs, and none is about to be started, beside a command that
\* relies on the live tables, or beside an exchange without a client.
Relying == {"copy", "verify", "switch", "rollback"}
Quiet == cli.cmd \in {"none", "cleanup"} /\ orphan = "none"
Starting == {"resume", "start", "up", "ready"}

QuietInv ==
  /\ cli.cmd \in Relying \/ orphan # "none" => serving = "none" /\ process.pc \notin Starting
  /\ reply = "ok" => Quiet
  /\ process.pc \in Starting \/ (process.pc = "compare" /\ ~process.wait) => Quiet

\* The host has stopped the releases before it relies on the live tables, and
\* probed for the one it starts.
Halted == {"backup", "backed", "budget", "copy", "verify", "exchange", "compare", "start", "up",
            "fast", "confirm", "resume"}

HostInv ==
  /\ process.pc = "idle" <=> process.cmd = "none"
  /\ process.pc \in Halted \/ (process.pc = "plan" /\ process.cmd # "prepare") => serving = "none"
  /\ process.pc \in {"start", "up"} => schema[Source].layout = process.release
  /\ serving # "none" => schema[Source].layout = serving

\* Which journal the host works on; the forward one only before either
\* release has been started again.
Fresher == ~maint.started /\ ~maint.aborted

JourneyInv ==
  /\ process.cmd \in {"prepare", "rehearse", "switch", "recover"} => process.j = "forward"
  /\ process.cmd = "prepare" => process.pc = "plan"
  /\ process.cmd = "rehearse" => process.pc \in {"restore", "convert"}
  /\ process.cmd = "switch" =>
       /\ ~maint.aborted
       /\ process.pc \notin {"up", "ready", "handler"} => ~maint.started
       /\ process.pc \notin {"plan", "restore", "convert", "recover", "fast", "confirm", "resume"}
  /\ process.cmd = "recover" =>
       /\ process.pc \in {"recover", "fast", "confirm", "resume", "start", "up", "ready"}
       /\ ~maint.started
       /\ process.pc \in {"start", "up", "ready"} => process.release = "old"
  /\ process.cmd = "rollback" =>
       /\ process.pc \in {"stop", "budget", "plan", "copy", "verify", "exchange", "compare",
                       "start", "up", "ready", "recover"}
       /\ maint.started <=> process.j = "reverse"
       /\ process.pc # "stop" => (process.pc = "recover" <=> process.j = "forward")
       /\ process.pc \in {"start", "up", "ready"} => process.release = "old"
  /\ process.pc = "start" /\ process.release = "new" =>
       journal["forward"].phase \in {"switched", "cleanup_pending", "cleaned"}

\* What is in flight belongs to the part of the cut-over that is not over.
FlightInv ==
  /\ cli.cmd \in {"copy", "verify", "switch"} =>
       IF cli.j = "forward" THEN Fresher ELSE maint.started
  /\ cli.cmd = "rollback" => ~maint.started
  /\ orphan = "forward" => Fresher
  /\ orphan = "reverse" => maint.started
  /\ orphan = "unrename" => ~maint.started
  /\ journal["forward"].phase \in {"rollback_pending", "rolled_back"} => ~maint.started


ConvInv == CutoverTypeOK /\ JournalInv /\ PendingInv /\ CommandInv /\ OrphanInv /\ DataKept
WorldInv == HostTypeOK /\ QuietInv /\ HostInv /\ JourneyInv /\ FlightInv

-----------------------------------------------------------------------------
(* The columns of the journals, and the memory of a command.               *)

LEMMA Columns ==
  /\ Target["forward"] = "refactor" /\ Target["reverse"] = "rollback"
  /\ Archive["forward"] = "backup" /\ Archive["reverse"] = "failed"
  /\ SourceHead["forward"] = "old" /\ SourceHead["reverse"] = "new"
  /\ TargetHead["forward"] = "new" /\ TargetHead["reverse"] = "old"
  /\ Owned["forward"] = {"backup", "restored_failed"} /\ Owned["reverse"] = {"failed"}
  BY DEF Target, Archive, SourceHead, TargetHead, Owned

LEMMA StepsKnown ==
  /\ StepsOf["none"] = {"idle"} /\ StepsOf["plan"] = {"plan"}
  /\ StepsOf["prepare"] = {"prepare", "ddl", "upgrade", "archive", "prepared"}
  /\ StepsOf["copy"] = {"copy", "rows", "align", "realign", "copied", "recopied"}
  /\ StepsOf["verify"] = {"verify"}
  /\ StepsOf["switch"] = {"switch", "rename", "post"}
  /\ StepsOf["rollback"] = {"rollback", "restore", "unrename", "restored"}
  /\ StepsOf["cleanup"] = {"cleanup", "drop"}
  BY DEF StepsOf

LEMMA StepsSet ==
  Steps = {"idle", "plan", "prepare", "ddl", "upgrade", "archive", "prepared", "copy", "rows",
           "align", "realign", "copied", "recopied", "verify", "switch", "rename", "post", "rollback", "restore",
           "unrename", "restored", "cleanup", "drop"}
  BY StepsKnown DEF Steps, Commands

\* What a step writes into the memory replaces those columns and no others.
LEMMA MemoryKept ==
  ASSUME CutoverTypeOK PROVE Memory(<< >>) = cli.mem
  BY DEF CutoverTypeOK, Memory, JournalFiles

LEMMA MemoryPhase ==
  ASSUME CutoverTypeOK, NEW p
  PROVE  Memory([phase |-> p]) = [cli.mem EXCEPT !.phase = p]
  BY DEF CutoverTypeOK, Memory, JournalFiles

LEMMA MemoryManifest ==
  ASSUME CutoverTypeOK, NEW p, NEW x
  PROVE  Memory([phase |-> p, manifest |-> x]) = [cli.mem EXCEPT !.phase = p, !.manifest = x]
<1> DEFINE c == [phase |-> p, manifest |-> x]
<1>1. DOMAIN c = {"phase", "manifest"} /\ c["phase"] = p /\ c["manifest"] = x
  OBVIOUS
<1>2. cli.mem \in [phase : Phases, manifest : Int \X Int, before : Int \X Int, retained : SUBSET Records]
  BY DEF CutoverTypeOK, JournalFiles
<1> HIDE DEF c
<1>3. Memory(c) = [cli.mem EXCEPT !.phase = p, !.manifest = x]
  BY <1>1, <1>2 DEF Memory
<1> QED
  BY <1>3 DEF c

LEMMA MemoryRetained ==
  ASSUME CutoverTypeOK, NEW c, DOMAIN c = {"phase", "retained"}
  PROVE  Memory(c) = [cli.mem EXCEPT !.phase = c["phase"], !.retained = c["retained"]]
<1>1. cli.mem \in [phase : Phases, manifest : Int \X Int, before : Int \X Int, retained : SUBSET Records]
  BY DEF CutoverTypeOK, JournalFiles
<1> QED
  BY <1>1 DEF Memory

LEMMA MemoryMarked ==
  ASSUME CutoverTypeOK, NEW x
  PROVE  Memory([retained |-> x]) = [cli.mem EXCEPT !.retained = x]
  BY DEF CutoverTypeOK, Memory, JournalFiles

LEMMA MemoryPending ==
  ASSUME CutoverTypeOK, NEW c, DOMAIN c = {"phase", "before", "retained"}
  PROVE  Memory(c) = [cli.mem EXCEPT !.phase = c["phase"], !.before = c["before"],
                                     !.retained = c["retained"]]
<1>1. cli.mem \in [phase : Phases, manifest : Int \X Int, before : Int \X Int, retained : SUBSET Records]
  BY DEF CutoverTypeOK, JournalFiles
<1> QED
  BY <1>1 DEF Memory

-----------------------------------------------------------------------------
(* Kinds of step.                                                          *)

CliTyped(c) ==
  /\ c \in [cmd : Commands, j : Journals, pc : Steps, mem : JournalFiles, attached : BOOLEAN]
  /\ c.pc \in StepsOf[c.cmd]

LEMMA NoCommandTyped ==
  CliTyped(NoCommand) /\ NoCommand.cmd = "none" /\ NoCommand.pc = "idle"
<1>1. NoJournal \in JournalFiles
  BY DEF NoJournal, JournalFiles, Phases, Early, NoManifest
<1> QED
  BY <1>1, StepsKnown, StepsSet DEF CliTyped, NoCommand, Commands, Journals

\* A command that goes on keeps its name and its journal.
LEMMA Advanced ==
  ASSUME CutoverTypeOK, NEW m \in JournalFiles, NEW pc \in StepsOf[cli.cmd],
         cli' = [cli EXCEPT !.pc = pc, !.mem = m]
  PROVE  /\ CliTyped(cli') /\ cli'.cmd = cli.cmd /\ cli'.j = cli.j
         /\ cli'.attached = cli.attached /\ cli'.pc = pc /\ cli'.mem = m
<1>1. pc \in Steps
  BY DEF CutoverTypeOK, Steps
<1> QED
  BY <1>1 DEF CutoverTypeOK, CliTyped

\* A step of a command leaves to the host what it relies on.
LEMMA CliWorld ==
  ASSUME ConvInv, WorldInv, cli.cmd # "none",
         UNCHANGED <<serving, process, maint, orphan>>,
         cli'.cmd \in {cli.cmd, "none"}, cli'.cmd # "none" => cli'.j = cli.j,
         reply' = "ok" => reply = "ok" \/ cli'.cmd = "none",
         schema'[Source].layout = schema[Source].layout \/ cli.cmd \in {"switch", "rollback"},
         journal'["forward"].phase \in {"rollback_pending", "rolled_back"} =>
           journal["forward"].phase \in {"rollback_pending", "rolled_back"} \/ cli.cmd = "rollback",
         cli.cmd = "cleanup" =>
           journal'["forward"].phase \in {journal["forward"].phase, "cleanup_pending", "cleaned"}
  PROVE  WorldInv'
<1> USE DEF ConvInv, WorldInv
<1>1. orphan = "none" /\ orphan' = "none"
  BY DEF OrphanInv
<1>2. HostTypeOK'
  BY DEF HostTypeOK
<1>3. QuietInv'
  BY <1>1 DEF QuietInv, Quiet, Relying
<1>4. HostInv'
  BY DEF HostInv, QuietInv, Relying, Starting
<1>5. JourneyInv'
  BY DEF JourneyInv, QuietInv, Quiet, Starting
<1>6. FlightInv'
  BY <1>1 DEF FlightInv, Fresher
<1> QED
  BY <1>2, <1>3, <1>4, <1>5, <1>6

\* A step before the exchange is recorded: nothing of this journal is kept
\* yet, and it touches its own destinations only.
LEMMA EarlyStep ==
  ASSUME ConvInv, cli.cmd # "none", NEW m \in JournalFiles,
         cli.mem.phase \in Early, m.phase \in Early, m.retained = {},
         journal' = journal \/ journal' = [journal EXCEPT ![cli.j] = m],
         schema' \in [Schemas -> Contents],
         \A s \in Schemas \ {Target[cli.j], Archive[cli.j]} : schema'[s] = schema[s],
         acked' = acked
  PROVE  JournalInv' /\ PendingInv' /\ DataKept' /\ journal' \in [Journals -> JournalFiles]
<1> USE DEF ConvInv
<1>1. cli.j \in Journals /\ journal[cli.j] = cli.mem /\ journal \in [Journals -> JournalFiles]
  BY DEF CutoverTypeOK, CommandInv
<1>2. journal' \in [Journals -> JournalFiles]
  BY <1>1
<1>3. \A j \in Journals : j # cli.j => journal'[j] = journal[j]
  BY <1>1
<1>4. journal'[cli.j].retained = {} /\ journal'[cli.j].phase \in Early
  <2>1. journal[cli.j].retained = {}
    BY <1>1 DEF JournalInv, RetainedOk
  <2> QED
    BY <1>1, <2>1
<1>5. schema'[Source] = schema[Source]
  BY <1>1, Columns DEF Source, Schemas, Journals
<1>6. \A j \in Journals : j # cli.j => \A s \in Owned[j] : s \in Schemas /\ schema'[s] = schema[s]
  BY <1>1, Columns DEF Schemas, Journals
<1>7. JournalInv'
  <2>1. ASSUME NEW j \in Journals PROVE RetainedOk(j, journal'[j])
    <3>1. CASE j = cli.j
      BY <3>1, <1>4 DEF RetainedOk, Early, Exchange
    <3>2. CASE j # cli.j
      BY <3>2, <1>3 DEF JournalInv
    <3> QED
      BY <3>1, <3>2
  <2>2. journal'["reverse"].phase \notin {"rollback_pending", "rolled_back"}
    BY <1>1, <1>3, <1>4 DEF JournalInv, Journals, Early
  <2> QED
    BY <2>1, <2>2 DEF JournalInv
<1>8. PendingInv'
  <2>1. CASE cli.j = "forward"
    BY <2>1, <1>4 DEF PendingInv, Early
  <2>2. CASE cli.j = "reverse"
    BY <2>2, <1>3, <1>5, Columns DEF PendingInv, Journals, Schemas
  <2> QED
    BY <2>1, <2>2, <1>1 DEF Journals
<1>9. NoWriteLost'
  BY <1>5 DEF DataKept, NoWriteLost, Manifest, LegacyRows
<1>10. ArchivesKept'
  <2> SUFFICES ASSUME NEW j \in Journals, NEW r \in journal'[j].retained,
                      r.drop = "no", journal'[j].phase # "rollback_pending"
               PROVE  IF r.empty THEN schema'[r.schema].layout = "empty"
                      ELSE schema'[r.schema].layout = r.layout
                           /\ <<schema'[r.schema].rows, schema'[r.schema].counter>> = r.manifest
    BY DEF ArchivesKept, Manifest, LegacyRows
  <2>1. j # cli.j /\ journal'[j] = journal[j]
    BY <1>3, <1>4
  <2>2. r.schema \in Owned[j]
    BY <2>1 DEF JournalInv, RetainedOk
  <2>3. schema'[r.schema] = schema[r.schema]
    BY <2>1, <2>2, <1>6
  <2> QED
    BY <2>1, <2>3 DEF DataKept, ArchivesKept, Manifest, LegacyRows
<1> QED
  BY <1>2, <1>7, <1>8, <1>9, <1>10 DEF DataKept

LEMMA Ended ==
  ASSUME cli' = NoCommand
  PROVE  CliTyped(cli') /\ cli'.cmd = "none" /\ CommandInv'
  BY NoCommandTyped DEF CommandInv

\* What every step of a command leaves alone, and what it may answer.
CommandStep ==
  /\ UNCHANGED <<serving, acked, process, maint, orphan>>
  /\ reply' \in {"none", "ok", "failed"}
  /\ reply' = "ok" => reply = "ok" \/ cli' = NoCommand

LEMMA EarlyInv ==
  ASSUME ConvInv, WorldInv, cli.cmd \notin {"none", "cleanup"}, CommandStep,
         NEW m \in JournalFiles,
         cli.mem.phase \in Early, m.phase \in Early, m.retained = {},
         journal' = journal \/ journal' = [journal EXCEPT ![cli.j] = m],
         schema' \in [Schemas -> Contents],
         \A s \in Schemas \ {Target[cli.j], Archive[cli.j]} : schema'[s] = schema[s],
         CliTyped(cli'), cli'.cmd \in {cli.cmd, "none"}, cli'.cmd # "none" => cli'.j = cli.j,
         CommandInv'
  PROVE  ConvInv' /\ WorldInv'
<1>1. JournalInv' /\ PendingInv' /\ DataKept' /\ journal' \in [Journals -> JournalFiles]
  BY EarlyStep DEF CommandStep
<1>2. orphan = "none" /\ orphan' = "none"
  BY DEF ConvInv, OrphanInv, CommandStep
<1>3. CutoverTypeOK'
  BY <1>1, <1>2 DEF ConvInv, CutoverTypeOK, CommandStep, CliTyped
<1>4. OrphanInv'
  BY <1>2 DEF OrphanInv, Journals
<1>5. ConvInv'
  BY <1>1, <1>3, <1>4 DEF ConvInv
<1>6. cli.j \in Journals /\ journal \in [Journals -> JournalFiles] /\ journal[cli.j] = cli.mem
  BY DEF ConvInv, CutoverTypeOK, CommandInv
<1>7. schema'[Source] = schema[Source]
  BY <1>6, Columns DEF Source, Schemas, Journals
<1>8. journal'["forward"].phase \in {journal["forward"].phase} \cup Early
  BY <1>6 DEF Journals
<1>9. cli' = NoCommand => cli'.cmd = "none"
  BY NoCommandTyped
<1>10. WorldInv'
  BY <1>7, <1>8, <1>9, CliWorld DEF CommandStep, Early
<1> QED
  BY <1>5, <1>10

\* The two ways of an early step, ended and going on.
LEMMA EarlyEnd ==
  ASSUME ConvInv, WorldInv, cli.cmd \notin {"none", "cleanup"}, cli.mem.phase \in Early,
         NEW p \in Early, Finish([phase |-> p]), UNCHANGED <<schema, orphan, outside>>,
         UNCHANGED <<process, maint>>
  PROVE  ConvInv' /\ WorldInv'
<1> DEFINE m == [cli.mem EXCEPT !.phase = p]
<1>1. cli.mem \in JournalFiles /\ cli.mem.retained = {} /\ cli.j \in Journals
      /\ schema \in [Schemas -> Contents] /\ CutoverTypeOK
  BY DEF ConvInv, CutoverTypeOK, CommandInv, JournalInv, RetainedOk
<1>2. m \in JournalFiles /\ m.phase = p /\ m.retained = {}
  BY <1>1 DEF JournalFiles, Phases
<1>3. journal' = [journal EXCEPT ![cli.j] = m] /\ cli' = NoCommand
  BY <1>1, MemoryPhase DEF Finish, Save
<1>4. CliTyped(cli') /\ cli'.cmd = "none" /\ CommandInv'
  BY <1>3, Ended
<1>5. CommandStep
  BY <1>1, <1>3 DEF CommandStep, Finish, Answer, outside, CutoverTypeOK
<1> HIDE DEF m
<1> QED
  BY <1>1, <1>2, <1>3, <1>4, <1>5, EarlyInv

LEMMA EarlyAdvance ==
  ASSUME ConvInv, WorldInv, cli.cmd \notin {"none", "cleanup"}, cli.mem.phase \in Early,
         NEW m \in JournalFiles, m.phase \in Early, m.retained = {},
         NEW pc \in StepsOf[cli.cmd], cli' = [cli EXCEPT !.pc = pc, !.mem = m],
         journal' = [journal EXCEPT ![cli.j] = m],
         schema' \in [Schemas -> Contents],
         \A s \in Schemas \ {Target[cli.j], Archive[cli.j]} : schema'[s] = schema[s],
         UNCHANGED <<reply, orphan, outside>>, UNCHANGED <<process, maint>>,
         CommandInv'
  PROVE  ConvInv' /\ WorldInv'
<1>1. CutoverTypeOK
  BY DEF ConvInv
<1>2. CliTyped(cli') /\ cli'.cmd = cli.cmd /\ cli'.j = cli.j
  BY <1>1, Advanced
<1>3. CommandStep
  BY <1>1 DEF CommandStep, outside, CutoverTypeOK
<1> QED
  BY <1>2, <1>3, EarlyInv

\* The memory is the journal, so keeping the one is keeping the other.
LEMMA InStep ==
  ASSUME ConvInv, cli.cmd # "none"
  PROVE  /\ CutoverTypeOK /\ cli.mem = journal[cli.j] /\ cli.mem \in JournalFiles /\ cli.j \in Journals
         /\ journal = [journal EXCEPT ![cli.j] = cli.mem]
         /\ cli.mem.phase \in Early => cli.mem.retained = {}
         /\ schema \in [Schemas -> Contents]
  BY DEF ConvInv, CutoverTypeOK, CommandInv, JournalInv, RetainedOk

-----------------------------------------------------------------------------
(* plan, prepare, copy and verify.                                         *)

LEMMA PlanStep ==
  ASSUME ConvInv, WorldInv, Plan, UNCHANGED <<process, maint>>
  PROVE  ConvInv' /\ WorldInv'
<1>1. cli.cmd = "plan" /\ cli.mem.phase = "none"
  BY StepsKnown DEF Plan, ConvInv, CutoverTypeOK, Commands, CommandInv
<1> QED
  BY <1>1, EarlyEnd DEF Plan, Early

LEMMA PreparedStep ==
  ASSUME ConvInv, WorldInv, Prepared, UNCHANGED <<process, maint>>
  PROVE  ConvInv' /\ WorldInv'
<1>1. cli.cmd = "prepare" /\ cli.mem.phase \in Early
  BY StepsKnown DEF Prepared, ConvInv, CutoverTypeOK, Commands, CommandInv, Early
<1> QED
  BY <1>1, EarlyEnd DEF Prepared, Early

LEMMA CopiedStep ==
  ASSUME ConvInv, WorldInv, Copied, UNCHANGED <<process, maint>>
  PROVE  ConvInv' /\ WorldInv'
<1>1. cli.cmd = "copy" /\ cli.mem.phase \in Early
  BY StepsKnown DEF Copied, ConvInv, CutoverTypeOK, Commands, CommandInv, Early
<1> QED
  BY <1>1, EarlyEnd DEF Copied, Early

LEMMA VerifyStep ==
  ASSUME ConvInv, WorldInv, Verify, UNCHANGED <<process, maint>>
  PROVE  ConvInv' /\ WorldInv'
<1>1. cli.cmd = "verify" /\ cli.mem.phase \in Early
  BY StepsKnown DEF Verify, VerifyAdmitted, ConvInv, CutoverTypeOK, Commands,
      CommandInv, Early
<1> QED
  BY <1>1, EarlyEnd DEF Verify, Early

LEMMA PrepareOwnStep ==
  ASSUME ConvInv, WorldInv, PrepareOwn, UNCHANGED <<process, maint>>
  PROVE  ConvInv' /\ WorldInv'
<1> DEFINE m == [cli.mem EXCEPT !.phase = "prepare_pending"]
<1>1. cli.cmd = "prepare" /\ cli.mem.phase \in Early
  BY StepsKnown DEF PrepareOwn, ConvInv, CutoverTypeOK, Commands, CommandInv, Early
<1>2. m \in JournalFiles /\ m.phase = "prepare_pending" /\ m.retained = {}
  BY <1>1, InStep DEF JournalFiles, Phases, Early
<1>3. journal' = [journal EXCEPT ![cli.j] = m] /\ cli' = [cli EXCEPT !.pc = "ddl", !.mem = m]
  BY <1>1, InStep, MemoryPhase DEF PrepareOwn, Save, Advance
<1>4. "ddl" \in StepsOf[cli.cmd]
  BY <1>1, StepsKnown
<1> HIDE DEF m
<1>5. CommandInv'
  <2>1. cli'.cmd = "prepare" /\ cli'.j = cli.j /\ cli'.pc = "ddl" /\ cli'.mem = m
    BY <1>1, <1>2, <1>3, <1>4, InStep, Advanced
  <2>2. journal'[cli.j] = m
    BY <1>1, <1>3, InStep DEF CutoverTypeOK
  <2> QED
    BY <1>2, <2>1, <2>2 DEF CommandInv
<1> QED
  BY <1>1, <1>2, <1>3, <1>4, <1>5, InStep, EarlyAdvance DEF PrepareOwn, Early

\* A step that changes the destinations and nothing of the journal.
LEMMA BuildStep ==
  ASSUME ConvInv, WorldInv, cli.cmd \in {"prepare", "copy"}, cli.mem.phase \in Early,
         cli.cmd = "copy" => cli.mem.phase \in {"copy_pending", "copied"},
         NEW pc \in StepsOf[cli.cmd] \ {"plan"}, Advance(pc, << >>),
         NEW s \in {Target[cli.j], Archive[cli.j]}, NEW x \in Contents,
         schema' = [schema EXCEPT ![s] = x],
         UNCHANGED <<journal, reply, orphan, outside>>, UNCHANGED <<process, maint>>
  PROVE  ConvInv' /\ WorldInv'
<1>1. cli' = [cli EXCEPT !.pc = pc, !.mem = cli.mem]
  BY InStep, MemoryKept DEF Advance
<1>2. CliTyped(cli') /\ cli'.cmd = cli.cmd /\ cli'.j = cli.j /\ cli'.pc = pc /\ cli'.mem = cli.mem
  BY <1>1, InStep, Advanced
<1>3. journal' = [journal EXCEPT ![cli.j] = cli.mem]
  BY InStep
<1>4. CommandInv'
  <2>1. journal'[cli.j] = cli.mem
    BY InStep
  <2> QED
    BY <1>2, <2>1, StepsKnown DEF CommandInv, ConvInv
<1>5. schema' \in [Schemas -> Contents]
  BY InStep
<1>6. \A t \in Schemas \ {Target[cli.j], Archive[cli.j]} : schema'[t] = schema[t]
  BY InStep
<1>7. cli.mem.retained = {} /\ cli.mem \in JournalFiles
  BY InStep
<1> QED
  BY <1>1, <1>3, <1>4, <1>5, <1>6, <1>7, EarlyAdvance

LEMMA BuildSteps ==
  ASSUME ConvInv, WorldInv, UNCHANGED <<process, maint>>,
         ResumeIsolated \/ UpgradeIsolated \/ PrepareArchive \/ CopyRows \/ AlignCounters
  PROVE  ConvInv' /\ WorldInv'
<1>0. \A s \in Schemas : schema[s] \in [layout : Layouts, rows : Int, counter : Int]
  BY DEF ConvInv, CutoverTypeOK, Contents
<1>1. cli.j \in Journals /\ Target[cli.j] \in Schemas /\ Archive[cli.j] \in Schemas
      /\ TargetHead[cli.j] \in Layouts /\ "ai" \in Schemas
  BY Columns DEF ConvInv, CutoverTypeOK, Journals, Schemas, Layouts
<1>2. CASE ResumeIsolated
  <2>1. cli.cmd = "prepare" /\ cli.mem.phase \in Early
    BY <1>2, StepsKnown DEF ResumeIsolated, ConvInv, CutoverTypeOK, Commands,
        CommandInv, Early
  <2>2. [Empty EXCEPT !.layout = "partial"] \in Contents
    BY DEF Contents, Empty, Layouts
  <2>3. "upgrade" \in StepsOf[cli.cmd] \ {"plan"}
    BY <2>1, StepsKnown
  <2> QED
    BY <1>2, <2>1, <2>2, <2>3, BuildStep DEF ResumeIsolated
<1>3. CASE UpgradeIsolated
  <2>1. cli.cmd = "prepare" /\ cli.mem.phase \in Early
    BY <1>3, StepsKnown DEF UpgradeIsolated, ConvInv, CutoverTypeOK, Commands,
        CommandInv, Early
  <2>2. Fresh(TargetHead[cli.j]) \in Contents
    BY <1>1 DEF Contents, Fresh
  <2>3. "archive" \in StepsOf[cli.cmd] \ {"plan"}
    BY <2>1, StepsKnown
  <2> QED
    BY <1>3, <2>1, <2>2, <2>3, BuildStep DEF UpgradeIsolated
<1>4. CASE PrepareArchive
  <2>1. cli.cmd = "prepare" /\ cli.mem.phase \in Early
    BY <1>4, StepsKnown DEF PrepareArchive, ConvInv, CutoverTypeOK, Commands,
        CommandInv, Early
  <2>2. Empty \in Contents
    BY DEF Contents, Empty, Layouts
  <2>3. "prepared" \in StepsOf[cli.cmd] \ {"plan"}
    BY <2>1, StepsKnown
  <2> QED
    BY <1>4, <2>1, <2>2, <2>3, BuildStep DEF PrepareArchive
<1>5. CASE CopyRows
  <2>1. cli.cmd = "copy" /\ cli.mem.phase \in Early /\ cli.mem.phase \in {"copy_pending", "copied"}
    BY <1>5, StepsKnown DEF CopyRows, ConvInv, CutoverTypeOK, Commands, CommandInv,
        Early
  <2>2. PICK n \in Projection(Source) : schema' = [schema EXCEPT ![Target[cli.j]].rows = n]
    BY <1>5 DEF CopyRows
  <2>3. [schema[Target[cli.j]] EXCEPT !.rows = n] \in Contents
    <3>1. n \in Int
      BY <2>2, <1>0, <1>1 DEF Projection, LegacyRows, Source
    <3> QED
      BY <1>0, <1>1, <3>1 DEF Contents
  <2>4. "align" \in StepsOf[cli.cmd] \ {"plan"}
    BY <2>1, StepsKnown
  <2>5. schema' = [schema EXCEPT ![Target[cli.j]] = [schema[Target[cli.j]] EXCEPT !.rows = n]]
    BY <1>1, <2>2
  <2> QED
    BY <1>5, <2>1, <2>3, <2>4, <2>5, BuildStep DEF CopyRows
<1>6. CASE AlignCounters
  <2>1. cli.cmd = "copy" /\ cli.mem.phase \in Early /\ cli.mem.phase \in {"copy_pending", "copied"}
    BY <1>6, StepsKnown DEF AlignCounters, ConvInv, CutoverTypeOK, Commands,
        CommandInv, Early
  <2>2. [schema[Target[cli.j]] EXCEPT !.counter = schema[Source].counter] \in Contents
    BY <1>0, <1>1 DEF Contents, Source
  <2> DEFINE next == IF cli.pc = "align" THEN "copied" ELSE "recopied"
  <2>3. next \in StepsOf[cli.cmd] \ {"plan"}
    BY <2>1, StepsKnown
  <2>4. schema' = [schema EXCEPT ![Target[cli.j]] = [schema[Target[cli.j]] EXCEPT !.counter = schema[Source].counter]]
    BY <1>1, <1>6 DEF AlignCounters
  <2> QED
    BY <1>6, <2>1, <2>2, <2>3, <2>4, BuildStep DEF AlignCounters
<1> QED
  BY <1>2, <1>3, <1>4, <1>5, <1>6

LEMMA CopyBeginStep ==
  ASSUME ConvInv, WorldInv, CopyBegin, UNCHANGED <<process, maint>>
  PROVE  ConvInv' /\ WorldInv'
<1> DEFINE next == IF Pristine(Target[cli.j]) THEN "rows" ELSE "realign"
           x == Manifest(Source)
           m == IF cli.mem.phase = "prepared"
                  THEN [cli.mem EXCEPT !.phase = "copy_pending", !.manifest = x] ELSE cli.mem
<1>1. cli.cmd = "copy" /\ cli.mem.phase \in {"prepared", "copy_pending", "copied"}
  BY StepsKnown DEF CopyBegin, CopyAdmitted, ConvInv, CutoverTypeOK, Commands
<1>2. x \in Int \X Int
  BY DEF Manifest, LegacyRows, ConvInv, CutoverTypeOK, Contents, Schemas,
      Source
<1>3. /\ m \in JournalFiles /\ m.phase \in {"copy_pending", "copied"}
      /\ m.retained = {}
  <2>1. cli.mem \in JournalFiles /\ cli.mem.retained = {}
    BY <1>1, InStep DEF Early
  <2> HIDE DEF x
  <2> QED
    BY <1>1, <1>2, <2>1 DEF JournalFiles, Phases, Early
<1>4. journal' = [journal EXCEPT ![cli.j] = m] /\ cli' = [cli EXCEPT !.pc = next, !.mem = m]
  <2>1. CASE cli.mem.phase = "prepared"
    <3>1. Memory([phase |-> "copy_pending", manifest |-> x]) = m
      BY <1>1, <2>1, InStep, MemoryManifest
    <3>2. /\ journal' = [journal EXCEPT ![cli.j] = Memory([phase |-> "copy_pending", manifest |-> x])]
          /\ cli' = [cli EXCEPT !.pc = next, !.mem = Memory([phase |-> "copy_pending", manifest |-> x])]
      BY <2>1 DEF CopyBegin, Save, Advance
    <3> QED
      BY <3>1, <3>2
  <2>2. CASE cli.mem.phase # "prepared"
    BY <1>1, <2>2, InStep, MemoryKept DEF CopyBegin, Save, Advance
  <2> QED
    BY <2>1, <2>2
<1>5. next \in StepsOf[cli.cmd] /\ next \in {"rows", "realign"}
  BY <1>1, StepsKnown
<1> HIDE DEF m, next
<1>6. CommandInv'
  <2>1. cli'.cmd = "copy" /\ cli'.j = cli.j /\ cli'.pc = next /\ cli'.mem = m
    BY <1>1, <1>3, <1>4, <1>5, InStep, Advanced
  <2>2. journal'[cli.j] = m
    BY <1>1, <1>4, InStep DEF CutoverTypeOK
  <2> QED
    BY <1>3, <1>5, <2>1, <2>2 DEF CommandInv
<1>7. cli.mem.phase \in Early /\ m.phase \in Early
  BY <1>1, <1>3 DEF Early
<1> QED
  BY <1>1, <1>3, <1>4, <1>5, <1>6, <1>7, InStep, EarlyAdvance DEF CopyBegin

-----------------------------------------------------------------------------
(* switch.                                                                 *)

\* A step that changes neither the tables nor the journal.
LEMMA IdleStep ==
  ASSUME ConvInv, WorldInv, cli.cmd # "none", CommandStep,
         UNCHANGED <<schema, journal>>,
         CliTyped(cli'), cli'.cmd \in {cli.cmd, "none"}, cli'.cmd # "none" => cli'.j = cli.j,
         CommandInv'
  PROVE  ConvInv' /\ WorldInv'
<1>1. orphan = "none" /\ orphan' = "none"
  BY DEF ConvInv, OrphanInv, CommandStep
<1>2. CutoverTypeOK' /\ JournalInv' /\ PendingInv'
  BY <1>1 DEF ConvInv, CutoverTypeOK, CommandStep, CliTyped, JournalInv, RetainedOk,
      PendingInv
<1>3. OrphanInv'
  BY <1>1 DEF OrphanInv, Journals
<1>4. DataKept'
  BY DEF ConvInv, CommandStep, DataKept, NoWriteLost, ArchivesKept,
      Manifest, LegacyRows
<1>5. cli' = NoCommand => cli'.cmd = "none"
  BY NoCommandTyped
<1>6. WorldInv'
  BY <1>5, CliWorld DEF CommandStep
<1> QED
  BY <1>2, <1>3, <1>4, <1>6 DEF ConvInv

LEMMA FinishedAsIs ==
  ASSUME ConvInv, WorldInv, cli.cmd # "none", Finish(<< >>),
         UNCHANGED <<schema, orphan, outside>>, UNCHANGED <<process, maint>>
  PROVE  ConvInv' /\ WorldInv'
<1>1. journal' = journal /\ cli' = NoCommand
  BY InStep, MemoryKept DEF Finish, Save
<1>2. CommandStep
  BY <1>1, InStep DEF CommandStep, Finish, Answer, outside, CutoverTypeOK
<1> QED
  BY <1>1, <1>2, Ended, IdleStep

LEMMA SwitchBeginStep ==
  ASSUME ConvInv, WorldInv, SwitchBegin, UNCHANGED <<process, maint>>
  PROVE  ConvInv' /\ WorldInv'
<1>1. cli.cmd = "switch" /\ cli.mem.phase \in {"verified", "switch_pending", "switched"}
  BY StepsKnown DEF SwitchBegin, SwitchAdmitted, ConvInv, CutoverTypeOK, Commands
<1>2. CASE cli.mem.phase = "switched" /\ Finish(<< >>)
  BY <1>1, <1>2, FinishedAsIs DEF SwitchBegin
<1>3. CASE cli.mem.phase # "switched" /\ Advance("post", << >>) /\ UNCHANGED <<journal, reply>>
  <2>1. cli' = [cli EXCEPT !.pc = "post", !.mem = cli.mem]
    BY <1>1, <1>3, InStep, MemoryKept DEF Advance
  <2>2. CliTyped(cli') /\ cli'.cmd = cli.cmd /\ cli'.j = cli.j /\ cli'.pc = "post" /\ cli'.mem = cli.mem
    BY <1>1, <2>1, StepsKnown, InStep, Advanced
  <2>3. CommandInv'
    BY <1>1, <1>3, <2>2, InStep DEF CommandInv
  <2>4. CommandStep
    BY <1>1, <1>3, InStep DEF CommandStep, SwitchBegin, outside, CutoverTypeOK
  <2> QED
    BY <1>1, <1>3, <2>2, <2>3, <2>4, IdleStep DEF SwitchBegin
<1>4. CASE /\ ~HeadExchanged(cli.j) /\ Save([phase |-> "switch_pending"])
           /\ Advance("rename", [phase |-> "switch_pending"]) /\ UNCHANGED reply
  <2> DEFINE m == [cli.mem EXCEPT !.phase = "switch_pending"]
  <2>1. VerifyAdmitted /\ cli.mem.phase \in Early
    BY <1>1, <1>4 DEF SwitchBegin, SwitchAdmitted, VerifyAdmitted, Early
  <2>2. m \in JournalFiles /\ m.phase = "switch_pending" /\ m.retained = {}
    BY <1>1, <2>1, InStep DEF JournalFiles, Phases, Early
  <2>3. journal' = [journal EXCEPT ![cli.j] = m] /\ cli' = [cli EXCEPT !.pc = "rename", !.mem = m]
    BY <1>1, <1>4, InStep, MemoryPhase DEF Save, Advance
  <2>4. "rename" \in StepsOf[cli.cmd]
    BY <1>1, StepsKnown
  <2> HIDE DEF m
  <2>5. CommandInv'
    <3>1. cli'.cmd = "switch" /\ cli'.j = cli.j /\ cli'.pc = "rename" /\ cli'.mem = m
      BY <1>1, <2>2, <2>3, <2>4, InStep, Advanced
    <3>2. journal'[cli.j] = m
      BY <1>1, <2>3, InStep DEF CutoverTypeOK
    <3>3. RenameReady(cli.j)'
      BY <2>1, <2>2, <3>1, <3>2 DEF RenameReady, SwitchBegin, VerifyAdmitted,
          LayoutsFit, Twins,
           Manifest, LegacyRows, Source
    <3> QED
      BY <2>2, <3>1, <3>2, <3>3 DEF CommandInv
  <2>6. m.phase \in Early
    BY <2>2 DEF Early
  <2> QED
    BY <1>1, <1>4, <2>1, <2>2, <2>3, <2>4, <2>5, <2>6, InStep,
        EarlyAdvance DEF SwitchBegin
<1> QED
  BY <1>2, <1>3, <1>4 DEF SwitchBegin

\* The exchange puts the verified copy in place of the live tables.
LEMMA RenameData ==
  ASSUME ConvInv, NEW j \in Journals, RenameReady(j), acked' = acked, UNCHANGED journal,
         schema' = Renamed(Target[j], Archive[j])
  PROVE  /\ schema' \in [Schemas -> Contents] /\ JournalInv' /\ PendingInv' /\ DataKept'
         /\ schema'[Source].layout = TargetHead[j]
<1>1. /\ Target[j] \in Schemas /\ Archive[j] \in Schemas /\ Source \in Schemas
      /\ Target[j] # Archive[j] /\ Target[j] # Source /\ Archive[j] # Source
  BY Columns DEF Journals, Schemas, Source
<1>2. schema \in [Schemas -> Contents] /\ Empty \in Contents
  BY DEF ConvInv, CutoverTypeOK, Empty, Contents, Layouts
<1>3. /\ schema' \in [Schemas -> Contents]
      /\ schema'[Source] = schema[Target[j]]
      /\ \A s \in Schemas \ {Source, Target[j], Archive[j]} : schema'[s] = schema[s]
  BY <1>1, <1>2 DEF Renamed
<1>4. JournalInv'
  BY DEF ConvInv, JournalInv, RetainedOk
<1>5. PendingInv'
  <2>1. CASE j = "forward"
    BY <2>1 DEF PendingInv, RenameReady
  <2>2. CASE j = "reverse"
    BY <2>2, <1>3, Columns DEF PendingInv, RenameReady
  <2> QED
    BY <2>1, <2>2 DEF Journals
<1>6. NoWriteLost'
  BY <1>3, Columns DEF ConvInv, DataKept, NoWriteLost, RenameReady, Twins,
      Manifest, LegacyRows,
       Journals
<1>7. ArchivesKept'
  <2> SUFFICES ASSUME NEW k \in Journals, NEW r \in journal[k].retained,
                      r.drop = "no", journal[k].phase # "rollback_pending"
               PROVE  IF r.empty THEN schema'[r.schema].layout = "empty"
                      ELSE schema'[r.schema].layout = r.layout
                           /\ <<schema'[r.schema].rows, schema'[r.schema].counter>> = r.manifest
    BY DEF ArchivesKept, Manifest, LegacyRows
  <2>1. journal[j].retained = {}
    BY DEF ConvInv, JournalInv, RetainedOk, RenameReady, Early
  <2>2. k # j /\ r.schema \in Owned[k]
    BY <2>1 DEF ConvInv, JournalInv, RetainedOk
  <2>3. schema'[r.schema] = schema[r.schema]
    BY <2>2, <1>3, Columns DEF Journals, Schemas, Source
  <2> QED
    BY <2>3 DEF ConvInv, DataKept, ArchivesKept, Manifest, LegacyRows
<1> QED
  BY <1>3, <1>4, <1>5, <1>6, <1>7 DEF DataKept, RenameReady

LEMMA SwitchRenameStep ==
  ASSUME ConvInv, WorldInv, SwitchRename, UNCHANGED <<process, maint>>
  PROVE  ConvInv' /\ WorldInv'
<1>1. cli.cmd = "switch" /\ RenameReady(cli.j)
  BY StepsKnown DEF SwitchRename, ConvInv, CutoverTypeOK, Commands, CommandInv
<1>2. cli' = [cli EXCEPT !.pc = "post", !.mem = cli.mem]
  BY <1>1, InStep, MemoryKept DEF SwitchRename, Advance
<1>3. CliTyped(cli') /\ cli'.cmd = cli.cmd /\ cli'.j = cli.j /\ cli'.pc = "post" /\ cli'.mem = cli.mem
  BY <1>1, <1>2, StepsKnown, InStep, Advanced
<1>4. schema' \in [Schemas -> Contents] /\ JournalInv' /\ PendingInv' /\ DataKept'
  BY <1>1, InStep, RenameData DEF SwitchRename, outside
<1>5. CommandInv'
  BY <1>1, <1>3, InStep DEF CommandInv, SwitchRename, RenameReady
<1>6. orphan = "none" /\ orphan' = "none"
  BY <1>1 DEF ConvInv, OrphanInv, SwitchRename
<1>7. CutoverTypeOK' /\ OrphanInv'
  BY <1>3, <1>4, <1>6 DEF ConvInv, CutoverTypeOK, SwitchRename, outside, CliTyped,
      OrphanInv, Journals
<1>8. WorldInv'
  BY <1>1, <1>3, CliWorld DEF SwitchRename, outside
<1> QED
  BY <1>4, <1>5, <1>7, <1>8 DEF ConvInv

-----------------------------------------------------------------------------
(* The end of a switch, rollback and cleanup: steps that write what the    *)
(* journal retains, or change archives of their own journal only.          *)

KeptIn(tables, r) ==
  IF r.empty THEN tables[r.schema].layout = "empty"
  ELSE /\ tables[r.schema].layout = r.layout
       /\ <<tables[r.schema].rows, tables[r.schema].counter>> = r.manifest

LEMMA KeptNow ==
  ASSUME ConvInv, NEW j \in Journals, journal[j].phase # "rollback_pending",
         NEW r \in journal[j].retained, r.drop = "no"
  PROVE  KeptIn(schema, r)
  BY DEF ConvInv, DataKept, ArchivesKept, KeptIn, Manifest, LegacyRows

LEMMA LateStep ==
  ASSUME ConvInv, WorldInv, cli.cmd # "none", CommandStep, NEW m \in JournalFiles,
         journal' = [journal EXCEPT ![cli.j] = m],
         RetainedOk(cli.j, m),
         m.phase \in {"rollback_pending", "rolled_back"} => cli.cmd = "rollback",
         cli.cmd = "cleanup" => m.phase \in {"cleanup_pending", "cleaned"},
         schema' \in [Schemas -> Contents],
         \A s \in Schemas \ Owned[cli.j] : schema'[s] = schema[s],
         m.phase # "rollback_pending" => \A r \in m.retained : r.drop = "no" => KeptIn(schema', r),
         PendingInv',
         CliTyped(cli'), cli'.cmd \in {cli.cmd, "none"}, cli'.cmd # "none" => cli'.j = cli.j,
         CommandInv'
  PROVE  ConvInv' /\ WorldInv'
<1>1. cli.j \in Journals /\ journal \in [Journals -> JournalFiles] /\ cli.mem = journal[cli.j]
  BY InStep DEF CutoverTypeOK
<1>2. /\ journal' \in [Journals -> JournalFiles] /\ journal'[cli.j] = m
      /\ \A k \in Journals : k # cli.j => journal'[k] = journal[k]
  BY <1>1
<1>3. schema'[Source] = schema[Source]
  BY <1>1, Columns DEF Source, Schemas, Journals
<1>4. orphan = "none" /\ orphan' = "none"
  BY DEF ConvInv, OrphanInv, CommandStep
<1>5. CutoverTypeOK' /\ OrphanInv'
  BY <1>2, <1>4 DEF ConvInv, CutoverTypeOK, CommandStep, CliTyped, OrphanInv, Journals
<1>6. JournalInv'
  <2>1. ASSUME NEW k \in Journals PROVE RetainedOk(k, journal'[k])
    <3>1. CASE k = cli.j
      BY <3>1, <1>2
    <3>2. CASE k # cli.j
      BY <3>2, <1>2 DEF ConvInv, JournalInv
    <3> QED
      BY <3>1, <3>2
  <2>2. journal'["reverse"].phase \notin {"rollback_pending", "rolled_back"}
    BY <1>1, <1>2 DEF ConvInv, JournalInv, Journals, CommandInv
  <2> QED
    BY <2>1, <2>2 DEF JournalInv
<1>7. NoWriteLost'
  BY <1>3 DEF ConvInv, CommandStep, DataKept, NoWriteLost, Manifest,
      LegacyRows
<1>8. ArchivesKept'
  <2> SUFFICES ASSUME NEW k \in Journals, NEW r \in journal'[k].retained,
                      r.drop = "no", journal'[k].phase # "rollback_pending"
               PROVE  KeptIn(schema', r)
    BY DEF ArchivesKept, Manifest, LegacyRows, KeptIn
  <2>1. CASE k = cli.j
    BY <2>1, <1>2
  <2>2. CASE k # cli.j
    <3>1. r \in journal[k].retained /\ journal[k].phase # "rollback_pending" /\ r.schema \in Owned[k]
      BY <2>2, <1>2 DEF ConvInv, JournalInv, RetainedOk
    <3>2. schema'[r.schema] = schema[r.schema]
      BY <2>2, <3>1, <1>1, Columns DEF Journals, Schemas
    <3>3. KeptIn(schema, r)
      BY <3>1, KeptNow
    <3> QED
      BY <3>2, <3>3 DEF KeptIn
  <2> QED
    BY <2>1, <2>2
<1>9. ConvInv'
  BY <1>5, <1>6, <1>7, <1>8 DEF ConvInv, DataKept
<1>10. cli' = NoCommand => cli'.cmd = "none"
  BY NoCommandTyped
<1>11. WorldInv'
  BY <1>1, <1>2, <1>3, <1>10, CliWorld DEF CommandStep, Journals
<1> QED
  BY <1>9, <1>11

\* The tables stay, so a pending rollback has what it had.
LEMMA PendingKept ==
  ASSUME ConvInv, cli.cmd # "none", NEW m \in JournalFiles, journal' = [journal EXCEPT ![cli.j] = m],
         m.phase # "rollback_pending", UNCHANGED schema
  PROVE  PendingInv'
  BY InStep DEF PendingInv, ConvInv, CutoverTypeOK, Journals

LEMMA RecordTyped ==
  ASSUME CutoverTypeOK, NEW s \in Schemas, NEW x \in Int \X Int
  PROVE  /\ Retained(s, x) \in Records /\ Retained(s, x).schema = s
         /\ Retained(s, x).layout = schema[s].layout /\ Retained(s, x).manifest = x
         /\ ~Retained(s, x).empty /\ Retained(s, x).drop = "no"
  BY DEF CutoverTypeOK, Retained, Records, Contents

LEMMA SwitchedStep ==
  ASSUME ConvInv, WorldInv, Switched, UNCHANGED <<process, maint>>
  PROVE  ConvInv' /\ WorldInv'
<1> DEFINE rec == Retained(Archive[cli.j], cli.mem.manifest)
           records == cli.mem.retained \cup {rec}
           m == [cli.mem EXCEPT !.phase = "switched", !.retained = records]
<1>1. cli.cmd = "switch" /\ cli.mem.phase \in Early
  BY StepsKnown DEF Switched, ConvInv, CutoverTypeOK, Commands, CommandInv, Early
<1>2. cli.mem.retained = {} /\ cli.mem \in JournalFiles /\ cli.j \in Journals /\ CutoverTypeOK
  BY <1>1, InStep
<1>3. /\ Archive[cli.j] \in Schemas /\ Archive[cli.j] \in Owned[cli.j]
      /\ cli.mem.manifest \in Int \X Int
  BY <1>2, Columns DEF Journals, Schemas, JournalFiles
<1>4. /\ rec \in Records /\ rec.schema = Archive[cli.j] /\ rec.layout = schema[Archive[cli.j]].layout
      /\ rec.manifest = cli.mem.manifest /\ ~rec.empty /\ rec.drop = "no"
  BY <1>2, <1>3, RecordTyped
<1>5. journal' = [journal EXCEPT ![cli.j] = m] /\ cli' = NoCommand
  <2> DEFINE c == [phase |-> "switched", retained |-> records]
  <2>1. DOMAIN c = {"phase", "retained"} /\ c["phase"] = "switched" /\ c["retained"] = records
    OBVIOUS
  <2> HIDE DEF c
  <2>2. Memory(c) = m
    BY <1>2, <2>1, MemoryRetained
  <2> QED
    BY <2>2 DEF Switched, Finish, Save, c
<1> HIDE DEF rec
<1>6. m \in JournalFiles /\ m.phase = "switched" /\ m.retained = {rec}
  BY <1>2, <1>4 DEF JournalFiles, Phases, Exchange
<1>7. CommandStep
  BY <1>2, <1>5 DEF CommandStep, Switched, Finish, Answer, outside,
      CutoverTypeOK
<1> HIDE DEF m
<1>8. RetainedOk(cli.j, m)
  BY <1>3, <1>4, <1>6 DEF RetainedOk, Early
<1>9. KeptIn(schema, rec)
  BY <1>4 DEF KeptIn, Switched, PostAdmitted, Manifest, LegacyRows
<1>10. UNCHANGED schema
  BY DEF Switched
<1>11. PendingInv'
  BY <1>1, <1>5, <1>6, <1>10, PendingKept
<1>12. schema \in [Schemas -> Contents]
  BY <1>2 DEF CutoverTypeOK
<1> QED
  BY <1>1, <1>5, <1>6, <1>7, <1>8, <1>9, <1>10, <1>11, <1>12, Ended, LateStep

LEMMA RollbackBeginStep ==
  ASSUME ConvInv, WorldInv, RollbackStart, UNCHANGED <<process, maint>>
  PROVE  ConvInv' /\ WorldInv'
<1>1. /\ cli.cmd = "rollback" /\ cli.j = "forward" /\ CutoverTypeOK
      /\ cli.mem.phase \in {"switched", "switch_pending", "rollback_pending", "rolled_back"}
  BY StepsKnown DEF RollbackStart, RollbackAdmitted, ConvInv, CutoverTypeOK,
      Commands, CommandInv
<1>2. CASE cli.mem.phase = "rolled_back" /\ Finish(<< >>)
  BY <1>1, <1>2, FinishedAsIs DEF RollbackStart
<1>3. CASE /\ cli.mem.phase = "rollback_pending" /\ Advance("restore", << >>)
           /\ UNCHANGED <<journal, reply>>
  <2>1. cli' = [cli EXCEPT !.pc = "restore", !.mem = cli.mem]
    BY <1>1, <1>3, MemoryKept DEF Advance
  <2>2. /\ CliTyped(cli') /\ cli'.cmd = cli.cmd /\ cli'.j = cli.j /\ cli'.pc = "restore"
        /\ cli'.mem = cli.mem
    BY <1>1, <2>1, StepsKnown, InStep, Advanced
  <2>3. CommandInv'
    BY <1>1, <1>3, <2>2, InStep DEF CommandInv
  <2>4. CommandStep
    BY <1>1, <1>3 DEF CommandStep, RollbackStart, outside, CutoverTypeOK
  <2> QED
    BY <1>1, <1>3, <2>2, <2>3, <2>4, IdleStep DEF RollbackStart
<1>4. ASSUME cli.mem.phase \in {"switched", "switch_pending"}, NEW records,
             records = IF {r \in cli.mem.retained : r.schema = Archive[cli.j]} # {}
                      THEN cli.mem.retained ELSE {Retained(Archive[cli.j], cli.mem.manifest)},
             Save([phase |-> "rollback_pending", before |-> Manifest(Source), retained |-> records]),
             Advance("restore", [phase |-> "rollback_pending", before |-> Manifest(Source),
                                 retained |-> records]),
             UNCHANGED reply
      PROVE  ConvInv' /\ WorldInv'
  <2> DEFINE x == Manifest(Source)
             m == [cli.mem EXCEPT !.phase = "rollback_pending", !.before = x, !.retained = records]
  <2>1. cli.mem \in JournalFiles /\ RetainedOk("forward", cli.mem) /\ Archive[cli.j] = "backup"
    BY <1>1, InStep, Columns DEF ConvInv, JournalInv, Journals
  <2>2. x \in Int \X Int /\ "backup" \in Schemas
    BY <1>1 DEF CutoverTypeOK, Manifest, LegacyRows, Contents, Schemas,
        Source
  <2>3. /\ Retained("backup", cli.mem.manifest) \in Records
        /\ Retained("backup", cli.mem.manifest).schema = "backup"
        /\ ~Retained("backup", cli.mem.manifest).empty
        /\ Retained("backup", cli.mem.manifest).drop = "no"
    BY <1>1, <2>1, <2>2, RecordTyped DEF JournalFiles
  <2>4. /\ records \in SUBSET Records
        /\ \A r \in records : r.schema = "backup" /\ ~r.empty /\ r.drop = "no"
        /\ \A r, q \in records : r = q
    <3>1. CASE cli.mem.phase = "switch_pending"
      BY <1>4, <2>1, <2>3, <3>1 DEF RetainedOk, Early
    <3>2. CASE cli.mem.phase = "switched"
      <4>1. \A r \in cli.mem.retained : r.schema = "backup" /\ ~r.empty /\ r.drop = "no"
        BY <2>1, <3>2, Columns DEF RetainedOk, Exchange
      <4>2. cli.mem.retained \in SUBSET Records /\ \A r, q \in cli.mem.retained : r = q
        BY <2>1, <4>1 DEF RetainedOk, JournalFiles
      <4> QED
        BY <1>4, <2>1, <2>3, <4>1, <4>2
    <3> QED
      BY <1>4, <3>1, <3>2
  <2>5. journal' = [journal EXCEPT ![cli.j] = m] /\ cli' = [cli EXCEPT !.pc = "restore", !.mem = m]
    <3>1. Memory([phase |-> "rollback_pending", before |-> x, retained |-> records]) = m
      <4> DEFINE c == [phase |-> "rollback_pending", before |-> x, retained |-> records]
      <4>1. /\ DOMAIN c = {"phase", "before", "retained"}
            /\ c["phase"] = "rollback_pending" /\ c["before"] = x /\ c["retained"] = records
        OBVIOUS
      <4> HIDE DEF c
      <4>2. Memory(c) = m
        BY <1>1, <4>1, MemoryPending
      <4> QED
        BY <4>2 DEF c
    <3> QED
      BY <1>4, <3>1 DEF Save, Advance
  <2> HIDE DEF x
  <2>6. m \in JournalFiles /\ m.phase = "rollback_pending" /\ m.retained = records
    BY <2>1, <2>2, <2>4 DEF JournalFiles, Phases, Exchange
  <2> HIDE DEF m
  <2>7. /\ CliTyped(cli') /\ cli'.cmd = cli.cmd /\ cli'.j = cli.j /\ cli'.pc = "restore"
        /\ cli'.mem = m
    <3>1. "restore" \in StepsOf[cli.cmd]
      BY <1>1, StepsKnown
    <3> QED
      BY <1>1, <2>5, <2>6, <3>1, Advanced
  <2>8. journal'["forward"] = m
    BY <1>1, <2>5 DEF CutoverTypeOK, Journals
  <2>9. CommandInv'
    BY <1>1, <2>6, <2>7, <2>8 DEF CommandInv
  <2>10. RetainedOk(cli.j, m)
    BY <1>1, <2>4, <2>6, Columns DEF RetainedOk, Early
  <2>11. PendingInv'
    BY <1>1, <1>4, Columns DEF PendingInv, RollbackStart, RollbackAdmitted,
        Recognized, HeadExchanged
  <2>12. CommandStep
    BY <1>1, <1>4 DEF CommandStep, RollbackStart, outside, CutoverTypeOK
  <2>13. UNCHANGED schema /\ schema \in [Schemas -> Contents]
    BY <1>1 DEF RollbackStart, CutoverTypeOK
  <2> QED
    BY <1>1, <2>5, <2>6, <2>7, <2>9, <2>10, <2>11, <2>12, <2>13, LateStep
<1> QED
  BY <1>2, <1>3, <1>4 DEF RollbackStart

LEMMA RollbackPrepareStep ==
  ASSUME ConvInv, WorldInv, RollbackPrepare, UNCHANGED <<process, maint>>
  PROVE  ConvInv' /\ WorldInv'
<1>1. /\ cli.cmd = "rollback" /\ cli.j = "forward" /\ CutoverTypeOK /\ cli.mem.phase = "rollback_pending"
      /\ cli.mem = journal["forward"] /\ cli.mem \in JournalFiles
  BY StepsKnown DEF RollbackPrepare, ConvInv, CutoverTypeOK, Commands, CommandInv,
      Journals
<1>2. CommandStep
  BY <1>1 DEF CommandStep, RollbackPrepare, outside, CutoverTypeOK
<1>3. schema \in [Schemas -> Contents] /\ Empty \in Contents
  BY <1>1 DEF CutoverTypeOK, Empty, Contents, Layouts
<1>4. CASE RolledBack(cli.j) /\ schema' = schema /\ Advance("restored", << >>)
  <2>1. cli' = [cli EXCEPT !.pc = "restored", !.mem = cli.mem]
    BY <1>1, <1>4, MemoryKept DEF Advance
  <2>2. /\ CliTyped(cli') /\ cli'.cmd = cli.cmd /\ cli'.j = cli.j /\ cli'.pc = "restored"
        /\ cli'.mem = cli.mem
    <3>1. "restored" \in StepsOf[cli.cmd]
      BY <1>1, StepsKnown
    <3> QED
      BY <1>1, <2>1, <3>1, Advanced
  <2>3. schema["backup"].layout = "empty" /\ Manifest("restored_failed") = cli.mem.before
    BY <1>1, <1>4, Columns DEF RollbackPrepare, RestorationAdmitted
  <2>4. CommandInv'
    BY <1>1, <1>4, <2>2, <2>3, InStep DEF CommandInv, RollbackPrepare, Manifest,
        LegacyRows
  <2> QED
    BY <1>1, <1>2, <1>4, <2>2, <2>4, IdleStep DEF RollbackPrepare
<1>5. CASE /\ ~RolledBack(cli.j) /\ schema' = [schema EXCEPT !["restored_failed"] = Empty]
           /\ Advance("unrename", << >>)
  <2>1. cli' = [cli EXCEPT !.pc = "unrename", !.mem = cli.mem]
    BY <1>1, <1>5, MemoryKept DEF Advance
  <2>2. /\ CliTyped(cli') /\ cli'.cmd = cli.cmd /\ cli'.j = cli.j /\ cli'.pc = "unrename"
        /\ cli'.mem = cli.mem
    <3>1. "unrename" \in StepsOf[cli.cmd]
      BY <1>1, StepsKnown
    <3> QED
      BY <1>1, <2>1, <3>1, Advanced
  <2>3. /\ schema' \in [Schemas -> Contents]
        /\ \A s \in Schemas \ {"restored_failed"} : schema'[s] = schema[s]
    BY <1>3, <1>5
  <2>4. Manifest(Source) = cli.mem.before /\ Manifest("backup") = cli.mem.before
    BY <1>1, <1>5, Columns DEF RollbackPrepare, RestorationAdmitted
  <2>5. schema["backup"].layout = "old"
    BY <1>1, <1>5, Columns DEF RolledBack, ConvInv, DataKept, NoWriteLost,
        PendingInv
  <2>6. schema'["backup"] = schema["backup"] /\ schema'[Source] = schema[Source]
    BY <2>3 DEF Schemas, Source
  <2>7. UNCHANGED journal
    BY DEF RollbackPrepare
  <2>8. RestoreReady' /\ (Manifest(Source) = cli.mem.before)'
    BY <1>1, <2>2, <2>4, <2>5, <2>6, <2>7 DEF RestoreReady, Twins, Manifest,
        LegacyRows, Source
  <2>9. CommandInv'
    BY <1>1, <2>2, <2>7, <2>8 DEF CommandInv
  <2>10. PendingInv'
    BY <2>5, <2>6 DEF PendingInv
  <2>11. journal' = [journal EXCEPT ![cli.j] = cli.mem] /\ RetainedOk(cli.j, cli.mem)
    BY <1>1, <2>7, InStep DEF ConvInv, JournalInv, Journals
  <2>12. \A s \in Schemas \ Owned[cli.j] : schema'[s] = schema[s]
    BY <1>1, <2>3, Columns
  <2> QED
    BY <1>1, <1>2, <2>2, <2>3, <2>9, <2>10, <2>11, <2>12, LateStep
<1> QED
  BY <1>4, <1>5 DEF RollbackPrepare

\* The exchange back puts the old tables in place again.
LEMMA UnrenameData ==
  ASSUME ConvInv, RestoreReady, acked' = acked, UNCHANGED journal,
         schema' = Renamed("backup", "restored_failed")
  PROVE  /\ schema' \in [Schemas -> Contents] /\ JournalInv' /\ PendingInv' /\ DataKept'
         /\ schema'[Source].layout = "old"
         /\ schema'["backup"].layout = "empty" /\ schema'["restored_failed"] = schema[Source]
<1>1. "backup" \in Schemas /\ "restored_failed" \in Schemas /\ Source \in Schemas /\ Source = "ai"
  BY DEF Schemas, Source
<1>2. schema \in [Schemas -> Contents] /\ Empty \in Contents /\ Empty.layout = "empty"
  BY DEF ConvInv, CutoverTypeOK, Empty, Contents, Layouts
<1>3. /\ schema' \in [Schemas -> Contents]
      /\ schema'[Source] = schema["backup"] /\ schema'["backup"] = Empty
      /\ schema'["restored_failed"] = schema[Source]
      /\ \A s \in Schemas \ {Source, "backup", "restored_failed"} : schema'[s] = schema[s]
  BY <1>1, <1>2 DEF Renamed
<1>4. JournalInv'
  BY DEF ConvInv, JournalInv, RetainedOk
<1>5. schema'[Source].layout = "old" /\ PendingInv'
  BY <1>3 DEF PendingInv, RestoreReady
<1>6. NoWriteLost'
  BY <1>3, <1>5 DEF ConvInv, DataKept, NoWriteLost, RestoreReady, Twins,
      Manifest, LegacyRows
<1>7. ArchivesKept'
  <2> SUFFICES ASSUME NEW k \in Journals, NEW r \in journal[k].retained,
                      r.drop = "no", journal[k].phase # "rollback_pending"
               PROVE  KeptIn(schema', r)
    BY DEF ArchivesKept, Manifest, LegacyRows, KeptIn
  <2>1. k = "reverse"
    BY DEF RestoreReady, Journals
  <2>2. r.schema = "failed"
    BY <2>1, Columns DEF ConvInv, JournalInv, RetainedOk
  <2>3. schema'[r.schema] = schema[r.schema]
    BY <2>2, <1>3 DEF Schemas, Source
  <2>4. KeptIn(schema, r)
    BY KeptNow
  <2> QED
    BY <2>3, <2>4 DEF KeptIn
<1> QED
  BY <1>2, <1>3, <1>4, <1>5, <1>6, <1>7 DEF DataKept

LEMMA RollbackRenameStep ==
  ASSUME ConvInv, WorldInv, RollbackRename, UNCHANGED <<process, maint>>
  PROVE  ConvInv' /\ WorldInv'
<1>1. /\ cli.cmd = "rollback" /\ cli.j = "forward" /\ RestoreReady
      /\ Manifest(Source) = cli.mem.before /\ cli.mem.phase = "rollback_pending"
  BY StepsKnown DEF RollbackRename, ConvInv, CutoverTypeOK, Commands, CommandInv
<1>2. cli' = [cli EXCEPT !.pc = "restored", !.mem = cli.mem]
  BY <1>1, InStep, MemoryKept DEF RollbackRename, Advance
<1>3. /\ CliTyped(cli') /\ cli'.cmd = cli.cmd /\ cli'.j = cli.j /\ cli'.pc = "restored"
      /\ cli'.mem = cli.mem
  <2>1. "restored" \in StepsOf[cli.cmd]
    BY <1>1, StepsKnown
  <2> QED
    BY <1>1, <1>2, <2>1, InStep, Advanced
<1>4. /\ schema' \in [Schemas -> Contents] /\ JournalInv' /\ PendingInv' /\ DataKept'
      /\ schema'["backup"].layout = "empty" /\ schema'["restored_failed"] = schema[Source]
  BY <1>1, Columns, UnrenameData DEF RollbackRename, outside
<1>5. CommandInv'
  BY <1>1, <1>3, <1>4, InStep DEF CommandInv, RollbackRename, Manifest,
      LegacyRows
<1>6. orphan = "none" /\ orphan' = "none"
  BY <1>1 DEF ConvInv, OrphanInv, RollbackRename
<1>7. CutoverTypeOK' /\ OrphanInv'
  BY <1>3, <1>4, <1>6 DEF ConvInv, CutoverTypeOK, RollbackRename, outside,
      CliTyped, OrphanInv, Journals
<1>8. WorldInv'
  BY <1>1, <1>3, CliWorld DEF RollbackRename, outside
<1> QED
  BY <1>4, <1>5, <1>7, <1>8 DEF ConvInv

LEMMA RollbackDoneStep ==
  ASSUME ConvInv, WorldInv, RollbackDone, UNCHANGED <<process, maint>>
  PROVE  ConvInv' /\ WorldInv'
<1> DEFINE rec == Retained("restored_failed", cli.mem.before)
           m == [cli.mem EXCEPT !.phase = "rolled_back", !.retained = RollbackRecords]
<1>1. /\ cli.cmd = "rollback" /\ cli.j = "forward" /\ cli.mem.phase = "rollback_pending"
      /\ schema["backup"].layout = "empty" /\ Manifest("restored_failed") = cli.mem.before
      /\ CutoverTypeOK /\ cli.mem = journal["forward"] /\ cli.mem \in JournalFiles
  BY StepsKnown DEF RollbackDone, ConvInv, CutoverTypeOK, Commands, CommandInv,
      Journals
<1>2. /\ cli.mem.retained \in SUBSET Records
      /\ \A r \in cli.mem.retained : r.schema = "backup"
      /\ \A r, q \in cli.mem.retained : r = q
  BY <1>1, Columns DEF ConvInv, JournalInv, RetainedOk, Exchange, Journals, JournalFiles
<1>3. /\ rec \in Records /\ rec.schema = "restored_failed"
      /\ rec.layout = schema["restored_failed"].layout
      /\ rec.manifest = cli.mem.before /\ ~rec.empty
  BY <1>1, RecordTyped DEF JournalFiles, Schemas
<1> HIDE DEF rec
<1>4. RollbackRecords = {[r EXCEPT !.empty = TRUE] : r \in cli.mem.retained} \cup {rec}
  BY <1>1, <1>2, Columns DEF RollbackRecords, rec
<1>5. /\ RollbackRecords \in SUBSET Records
      /\ \A r \in RollbackRecords : r = rec \/ (r.schema = "backup" /\ r.empty)
      /\ \A r, q \in RollbackRecords : r.schema = q.schema => r = q
  <2> DEFINE e(r) == [r EXCEPT !.empty = TRUE]
             S == {e(r) : r \in cli.mem.retained}
  <2>1. \A r \in cli.mem.retained : e(r) \in Records /\ e(r).schema = "backup" /\ e(r).empty
    BY <1>2 DEF Records
  <2> HIDE DEF e
  <2>2. \A r \in S : r \in Records /\ r.schema = "backup" /\ r.empty
    BY <2>1
  <2>3. \A r, q \in S : r = q
    BY <1>2
  <2> HIDE DEF S
  <2>4. RollbackRecords = S \cup {rec}
    BY <1>4 DEF S, e
  <2> QED
    BY <1>3, <2>2, <2>3, <2>4
<1>6. journal' = [journal EXCEPT ![cli.j] = m] /\ cli' = NoCommand
  <2> DEFINE c == [phase |-> "rolled_back", retained |-> RollbackRecords]
  <2>1. /\ DOMAIN c = {"phase", "retained"}
        /\ c["phase"] = "rolled_back" /\ c["retained"] = RollbackRecords
    OBVIOUS
  <2> HIDE DEF c
  <2>2. Memory(c) = m
    BY <1>1, <2>1, MemoryRetained
  <2> QED
    BY <2>2 DEF RollbackDone, Finish, Save, c
<1>7. m \in JournalFiles /\ m.phase = "rolled_back" /\ m.retained = RollbackRecords
  BY <1>1, <1>5 DEF JournalFiles, Phases, Late
<1>8. CommandStep
  BY <1>1, <1>6 DEF CommandStep, RollbackDone, Finish, Answer, outside,
      CutoverTypeOK
<1> HIDE DEF m
<1>9. RetainedOk(cli.j, m)
  BY <1>1, <1>3, <1>5, <1>7, Columns DEF RetainedOk, Early, Exchange
<1>10. \A r \in m.retained : KeptIn(schema, r)
  BY <1>1, <1>3, <1>5, <1>7 DEF KeptIn, Manifest, LegacyRows
<1>11. UNCHANGED schema /\ schema \in [Schemas -> Contents]
  BY <1>1 DEF RollbackDone, CutoverTypeOK
<1>12. PendingInv'
  BY <1>1, <1>6, <1>7, <1>11, PendingKept
<1> QED
  BY <1>1, <1>6, <1>7, <1>8, <1>9, <1>10, <1>11, <1>12, Ended, LateStep

\* A step of the cleanup: nothing is kept any more that its journal does not
\* say, and what it says is in place.
LEMMA CleanupStep ==
  ASSUME ConvInv, WorldInv, cli.cmd = "cleanup", CommandStep, NEW m \in JournalFiles,
         m.phase \in {"cleanup_pending", "cleaned"},
         journal' = [journal EXCEPT ![cli.j] = m],
         \A r \in m.retained : r.schema \in Owned[cli.j],
         \A r, q \in m.retained : r.schema = q.schema => r = q,
         schema' \in [Schemas -> Contents],
         \A s \in Schemas \ Owned[cli.j] : schema'[s] = schema[s],
         \A r \in m.retained : r.drop = "no" => KeptIn(schema', r),
         cli' = NoCommand \/ (cli' = [cli EXCEPT !.pc = "drop", !.mem = m] /\ m.phase = "cleanup_pending")
  PROVE  ConvInv' /\ WorldInv'
<1>1. CutoverTypeOK /\ cli.j \in Journals
  BY InStep
<1>2. RetainedOk(cli.j, m)
  BY DEF RetainedOk, Early, Exchange
<1>3. PendingInv'
  <2>1. CASE cli.j = "forward"
    BY <1>1, <2>1 DEF PendingInv, CutoverTypeOK, Journals
  <2>2. CASE cli.j = "reverse"
    <3>1. schema'["backup"] = schema["backup"] /\ schema'[Source] = schema[Source]
      BY <2>2, Columns DEF Schemas, Source
    <3>2. journal'["forward"] = journal["forward"]
      BY <1>1, <2>2 DEF CutoverTypeOK, Journals
    <3> QED
      BY <3>1, <3>2 DEF ConvInv, PendingInv
  <2> QED
    BY <1>1, <2>1, <2>2 DEF Journals
<1>4. CliTyped(cli') /\ cli'.cmd \in {cli.cmd, "none"} /\ (cli'.cmd # "none" => cli'.j = cli.j) /\ CommandInv'
  <2>1. CASE cli' = NoCommand
    BY <2>1, Ended
  <2>2. CASE cli' = [cli EXCEPT !.pc = "drop", !.mem = m] /\ m.phase = "cleanup_pending"
    <3>1. /\ CliTyped(cli') /\ cli'.cmd = "cleanup" /\ cli'.j = cli.j /\ cli'.pc = "drop"
          /\ cli'.mem = m
      BY <1>1, <2>2, StepsKnown, Advanced
    <3>2. journal'[cli.j] = m
      BY <1>1 DEF CutoverTypeOK
    <3> QED
      BY <2>2, <3>1, <3>2 DEF CommandInv
  <2> QED
    BY <2>1, <2>2
<1> QED
  BY <1>2, <1>3, <1>4, LateStep

LEMMA CleanupPhaseSteps ==
  ASSUME ConvInv, WorldInv, UNCHANGED <<process, maint>>, CleanupBegin \/ Cleaned
  PROVE  ConvInv' /\ WorldInv'
<1> DEFINE p == IF CleanupBegin THEN "cleanup_pending" ELSE "cleaned"
           m == [cli.mem EXCEPT !.phase = p]
<1>1. cli.cmd = "cleanup" /\ cli.mem.phase # "rollback_pending" /\ UNCHANGED schema
  BY StepsKnown DEF CleanupBegin, CleanupAdmitted, Cleaned, ConvInv,
      CutoverTypeOK, Commands, CommandInv
<1>2. CutoverTypeOK /\ cli.mem \in JournalFiles /\ cli.mem = journal[cli.j] /\ cli.j \in Journals
      /\ schema \in [Schemas -> Contents]
  BY <1>1, InStep
<1>3. m \in JournalFiles /\ m.phase \in {"cleanup_pending", "cleaned"} /\ m.retained = cli.mem.retained
  BY <1>2 DEF JournalFiles, Phases, Late
<1>4. /\ \A r \in cli.mem.retained : r.schema \in Owned[cli.j]
      /\ \A r, q \in cli.mem.retained : r.schema = q.schema => r = q
  BY <1>2 DEF ConvInv, JournalInv, RetainedOk
<1>5. \A r \in cli.mem.retained : r.drop = "no" => KeptIn(schema', r)
  BY <1>1, <1>2, KeptNow
<1>6. CASE CleanupBegin
  <2>1. journal' = [journal EXCEPT ![cli.j] = m] /\ cli' = [cli EXCEPT !.pc = "drop", !.mem = m]
    BY <1>2, <1>6, MemoryPhase DEF CleanupBegin, Save, Advance
  <2>2. CommandStep
    BY <1>2, <1>6 DEF CommandStep, CleanupBegin, outside, CutoverTypeOK
  <2>3. m.phase = "cleanup_pending"
    BY <1>2, <1>6 DEF JournalFiles
  <2> HIDE DEF m
  <2> QED
    BY <1>1, <1>2, <1>3, <1>4, <1>5, <2>1, <2>2, <2>3, CleanupStep
<1>7. CASE Cleaned /\ ~CleanupBegin
  <2>1. journal' = [journal EXCEPT ![cli.j] = m] /\ cli' = NoCommand
    BY <1>2, <1>7, MemoryPhase DEF Cleaned, Finish, Save
  <2>2. CommandStep
    BY <1>2, <1>7, <2>1 DEF CommandStep, Cleaned, Finish, Answer, outside,
        CutoverTypeOK
  <2>3. /\ \A r \in m.retained : r.schema \in Owned[cli.j]
        /\ \A r, q \in m.retained : r.schema = q.schema => r = q
        /\ \A r \in m.retained : r.drop = "no" => KeptIn(schema', r)
    BY <1>3, <1>4, <1>5
  <2>4. /\ schema' \in [Schemas -> Contents]
        /\ \A s \in Schemas \ Owned[cli.j] : schema'[s] = schema[s]
    BY <1>1, <1>2
  <2>5. cli' = NoCommand \/ (cli' = [cli EXCEPT !.pc = "drop", !.mem = m] /\ m.phase = "cleanup_pending")
    BY <2>1
  <2> HIDE DEF m, p
  <2> QED
    BY <1>1, <1>3, <2>1, <2>2, <2>3, <2>4, <2>5, CleanupStep
<1> QED
  BY <1>6, <1>7

LEMMA CleanupRecordSteps ==
  ASSUME ConvInv, WorldInv, UNCHANGED <<process, maint>>,
         NEW r \in cli.mem.retained, CleanupMark(r) \/ CleanupDrop(r)
  PROVE  ConvInv' /\ WorldInv'
<1>1. cli.cmd = "cleanup" /\ cli.mem.phase = "cleanup_pending"
  BY StepsKnown DEF CleanupMark, CleanupDrop, ConvInv, CutoverTypeOK, Commands,
      CommandInv
<1>2. CutoverTypeOK /\ cli.mem \in JournalFiles /\ cli.mem = journal[cli.j] /\ cli.j \in Journals
      /\ schema \in [Schemas -> Contents] /\ journal = [journal EXCEPT ![cli.j] = cli.mem]
  BY <1>1, InStep
<1>3. /\ \A q \in cli.mem.retained : q \in Records /\ q.schema \in Owned[cli.j]
      /\ \A q, p \in cli.mem.retained : q.schema = p.schema => q = p
  BY <1>2 DEF ConvInv, JournalInv, RetainedOk, JournalFiles
<1>4. \A q \in cli.mem.retained : q.drop = "no" => KeptIn(schema, q)
  BY <1>1, <1>2, KeptNow
<1>5. ASSUME NEW mark \in {"pending", "done"}, NEW m, m = [cli.mem EXCEPT !.retained = Marked(r, mark)]
      PROVE  /\ m \in JournalFiles /\ m.phase = "cleanup_pending"
             /\ \A q \in m.retained : q.schema \in Owned[cli.j]
             /\ \A q, p \in m.retained : q.schema = p.schema => q = p
             /\ \A q \in m.retained : q.drop = "no" => q \in cli.mem.retained /\ q.schema # r.schema
  <2> DEFINE n == [r EXCEPT !.drop = mark]
  <2>1. n \in Records /\ n.schema = r.schema /\ n.drop = mark
    BY <1>3 DEF Records
  <2>2. Marked(r, mark) = (cli.mem.retained \ {r}) \cup {n}
    BY DEF Marked
  <2> HIDE DEF n
  <2>3. /\ m.retained = (cli.mem.retained \ {r}) \cup {n}
        /\ m.phase = "cleanup_pending" /\ m \in JournalFiles
    BY <1>1, <1>2, <1>5, <2>1, <2>2, <1>3 DEF JournalFiles
  <2> QED
    BY <1>3, <2>1, <2>3
<1>6. CASE CleanupMark(r)
  <2> DEFINE m == [cli.mem EXCEPT !.retained = Marked(r, "pending")]
  <2>1. journal' = [journal EXCEPT ![cli.j] = m] /\ cli' = [cli EXCEPT !.pc = "drop", !.mem = m]
    BY <1>2, <1>6, MemoryMarked DEF CleanupMark, Save, Advance
  <2>2. CommandStep /\ UNCHANGED schema
    BY <1>2, <1>6 DEF CommandStep, CleanupMark, outside, CutoverTypeOK
  <2>3. /\ m \in JournalFiles /\ m.phase = "cleanup_pending"
        /\ \A q \in m.retained : q.schema \in Owned[cli.j]
        /\ \A q, p \in m.retained : q.schema = p.schema => q = p
        /\ \A q \in m.retained : q.drop = "no" => q \in cli.mem.retained
    BY <1>5
  <2> HIDE DEF m
  <2> QED
    BY <1>1, <1>2, <1>4, <2>1, <2>2, <2>3, CleanupStep
<1>7. CASE CleanupDrop(r)
  <2> DEFINE m == [cli.mem EXCEPT !.retained = Marked(r, "done")]
  <2>1. r.schema \in Owned[cli.j] /\ r.schema \in Schemas /\ Absent \in Contents
    BY <1>3 DEF Records, Absent, Contents, Layouts
  <2>2. /\ schema' \in [Schemas -> Contents]
        /\ \A s \in Schemas \ {r.schema} : schema'[s] = schema[s]
    BY <1>2, <1>7, <2>1 DEF CleanupDrop
  <2>3. \A q \in cli.mem.retained : q.drop = "no" /\ q.schema # r.schema => KeptIn(schema', q)
    BY <1>3, <1>4, <2>2 DEF KeptIn, Records
  <2>4. r.drop = "pending"
    BY <1>7 DEF CleanupDrop
  <2>5. CASE Save([retained |-> Marked(r, "done")]) /\ Advance("drop", [retained |-> Marked(r, "done")])
             /\ UNCHANGED <<reply, stops>>
    <3>1. journal' = [journal EXCEPT ![cli.j] = m] /\ cli' = [cli EXCEPT !.pc = "drop", !.mem = m]
      BY <1>2, <2>5, MemoryMarked DEF Save, Advance
    <3>2. CommandStep
      BY <1>2, <1>7, <2>5 DEF CommandStep, CleanupDrop, CutoverTypeOK
    <3>3. /\ m \in JournalFiles /\ m.phase = "cleanup_pending"
          /\ \A q \in m.retained : q.schema \in Owned[cli.j]
          /\ \A q, p \in m.retained : q.schema = p.schema => q = p
          /\ \A q \in m.retained : q.drop = "no" => q \in cli.mem.retained /\ q.schema # r.schema
      BY <1>5
    <3> HIDE DEF m
    <3> QED
      BY <1>1, <2>1, <2>2, <2>3, <3>1, <3>2, <3>3, CleanupStep
  <2>6. CASE cli' = NoCommand /\ Answer("failed") /\ UNCHANGED journal
    <3>1. CommandStep
      BY <1>2, <1>7, <2>6 DEF CommandStep, CleanupDrop, Answer, CutoverTypeOK
    <3>2. \A q \in cli.mem.retained : q.drop = "no" => KeptIn(schema', q)
      BY <1>3, <2>3, <2>4
    <3> QED
      BY <1>1, <1>2, <1>3, <2>1, <2>2, <2>6, <3>1, <3>2, CleanupStep
  <2> QED
    BY <1>7, <2>5, <2>6 DEF CleanupDrop
<1> QED
  BY <1>6, <1>7

-----------------------------------------------------------------------------
(* Errors, stopped processes, orphans and writes.                          *)

\* A command is there exactly when its step is not "idle".
LEMMA ActiveNamed ==
  ASSUME CutoverTypeOK PROVE Active <=> cli.cmd # "none"
  BY StepsKnown DEF CutoverTypeOK, Active, Commands

LEMMA RefuseStep ==
  ASSUME ConvInv, WorldInv, Refuse, UNCHANGED <<process, maint>>
  PROVE  ConvInv' /\ WorldInv'
<1>1. CutoverTypeOK /\ cli.cmd # "none"
  BY ActiveNamed DEF ConvInv, Refuse
<1>2. CommandStep
  BY <1>1 DEF CommandStep, Refuse, Answer, outside, CutoverTypeOK
<1> QED
  BY <1>1, <1>2, Ended, IdleStep DEF Refuse

\* What a stopped command was about to rename is ready for it.
LEMMA StopStep ==
  ASSUME ConvInv, WorldInv, Stop, UNCHANGED <<process, maint>>
  PROVE  ConvInv' /\ WorldInv'
<1>1. CutoverTypeOK /\ cli.cmd # "none" /\ orphan = "none" /\ cli.j \in Journals
  BY ActiveNamed DEF ConvInv, Stop, OrphanInv, CutoverTypeOK
<1>2. CliTyped(cli') /\ cli'.cmd = "none" /\ CommandInv'
  BY Ended DEF Stop
<1>3. \/ orphan' = "none"
      \/ orphan' = cli.j /\ cli.pc = "rename"
      \/ orphan' = "unrename" /\ cli.pc = "unrename"
  BY <1>1 DEF Stop
<1>4. UNCHANGED <<schema, journal, serving, acked>>
  BY DEF Stop
<1>5. reply' \in {"failed", reply}
  BY DEF Stop, Answer
<1>6. cli.pc = "rename" => cli.cmd = "switch" /\ RenameReady(cli.j)
  BY <1>1, StepsKnown DEF ConvInv, CommandInv, CutoverTypeOK, Commands
<1>7. cli.pc = "unrename" => cli.cmd = "rollback" /\ RestoreReady
  BY <1>1, StepsKnown DEF ConvInv, CommandInv, CutoverTypeOK, Commands
<1>8. CutoverTypeOK'
  BY <1>1, <1>2, <1>3, <1>4, <1>5 DEF CutoverTypeOK, CliTyped, Journals
<1>9. JournalInv' /\ PendingInv' /\ DataKept'
  BY <1>4 DEF ConvInv, JournalInv, RetainedOk, PendingInv, DataKept, NoWriteLost,
      ArchivesKept,
       Manifest, LegacyRows
<1>10. OrphanInv'
  <2>1. ASSUME NEW j \in Journals, RenameReady(j) PROVE RenameReady(j)'
    BY <1>4, <2>1 DEF RenameReady, Twins, Manifest, LegacyRows
  <2>2. RestoreReady => RestoreReady'
    BY <1>4 DEF RestoreReady, Twins, Manifest, LegacyRows
  <2>3. CASE orphan' = "none"
    BY <2>3 DEF OrphanInv, Journals
  <2>4. CASE orphan' = cli.j /\ cli.pc = "rename"
    <3>1. PICK j \in Journals : j = cli.j
      BY <1>1
    <3>2. RenameReady(j)' /\ orphan' = j
      BY <1>6, <2>1, <2>4, <3>1
    <3> QED
      BY <1>2, <3>1, <3>2 DEF OrphanInv, Journals
  <2>5. CASE orphan' = "unrename" /\ cli.pc = "unrename"
    BY <1>2, <1>7, <2>2, <2>5 DEF OrphanInv, Journals
  <2> QED
    BY <1>3, <2>3, <2>4, <2>5
<1>11. HostTypeOK' /\ HostInv' /\ JourneyInv'
  BY <1>4 DEF WorldInv, HostTypeOK, HostInv, JourneyInv
<1>12. QuietInv'
  BY <1>1, <1>2, <1>3, <1>4, <1>5, <1>6, <1>7 DEF WorldInv, QuietInv, Quiet, Relying,
      Starting
<1>13. FlightInv'
  BY <1>1, <1>2, <1>3, <1>4, <1>6, <1>7 DEF WorldInv, FlightInv, Fresher, ConvInv,
      CommandInv, Journals
<1> QED
  BY <1>2, <1>8, <1>9, <1>10, <1>11, <1>12, <1>13 DEF ConvInv, WorldInv

LEMMA OrphanStep ==
  ASSUME ConvInv, WorldInv, OrphanLands \/ OrphanEnds, UNCHANGED <<process, maint>>
  PROVE  ConvInv' /\ WorldInv'
<1>1. /\ CutoverTypeOK /\ cli.cmd = "none" /\ orphan # "none" /\ orphan' = "none" /\ serving = "none"
      /\ process.pc \notin Starting /\ UNCHANGED <<journal, cli, reply, serving, acked>>
  BY DEF ConvInv, WorldInv, OrphanInv, OrphanLands, OrphanEnds, QuietInv,
      outside
<1>2. schema' \in [Schemas -> Contents] /\ JournalInv' /\ PendingInv' /\ DataKept'
  <2>1. CASE OrphanEnds
    BY <2>1 DEF ConvInv, CutoverTypeOK, OrphanEnds, outside, JournalInv,
        RetainedOk, PendingInv, DataKept,
         NoWriteLost, ArchivesKept, Manifest, LegacyRows
  <2>2. CASE OrphanLands /\ orphan = "unrename"
    BY <1>1, <2>2, Columns, UnrenameData DEF ConvInv, OrphanInv, OrphanLands,
        Journals
  <2>3. CASE OrphanLands /\ orphan # "unrename"
    <3>1. orphan \in Journals
      BY <1>1, <2>3 DEF CutoverTypeOK, Journals
    <3>2. RenameReady(orphan) /\ schema' = Renamed(Target[orphan], Archive[orphan])
      BY <2>3, <3>1 DEF ConvInv, OrphanInv, OrphanLands
    <3> QED
      BY <1>1, <3>1, <3>2, RenameData
  <2> QED
    BY <2>1, <2>2, <2>3
<1>3. CutoverTypeOK'
  BY <1>1, <1>2 DEF CutoverTypeOK
<1>4. cli.pc = "idle"
  BY <1>1, StepsKnown DEF CutoverTypeOK
<1>5. CommandInv' /\ OrphanInv'
  BY <1>1, <1>4 DEF CommandInv, OrphanInv, Journals
<1>6. WorldInv'
  <2>1. HostTypeOK' /\ JourneyInv'
    BY <1>1 DEF WorldInv, HostTypeOK, JourneyInv
  <2>2. QuietInv'
    BY <1>1 DEF WorldInv, QuietInv, Quiet, Relying
  <2>3. HostInv'
    BY <1>1 DEF WorldInv, HostInv, Starting
  <2>4. FlightInv'
    BY <1>1 DEF WorldInv, FlightInv, Fresher
  <2> QED
    BY <2>1, <2>2, <2>3, <2>4 DEF WorldInv
<1> QED
  BY <1>2, <1>3, <1>5, <1>6 DEF ConvInv

LEMMA WriteStep ==
  ASSUME ConvInv, WorldInv, Write, UNCHANGED <<process, maint>>
  PROVE  ConvInv' /\ WorldInv'
<1>1. /\ CutoverTypeOK /\ cli.cmd \notin Relying /\ orphan = "none"
      /\ UNCHANGED <<journal, cli, reply, orphan, serving>> /\ acked' = acked + 1
  BY DEF ConvInv, WorldInv, Write, QuietInv
<1>2. schema \in [Schemas -> [layout : Layouts, rows : Int, counter : Int]] /\ Source \in Schemas
      /\ Source = "ai" /\ acked \in Int
  BY <1>1 DEF CutoverTypeOK, Contents, Schemas, Source
<1>3. schema' = [schema EXCEPT ![Source] =
                   [layout |-> schema[Source].layout, rows |-> schema[Source].rows + 1,
                    counter |-> schema[Source].counter + 1]]
  BY <1>2 DEF Write
<1>4. /\ schema' \in [Schemas -> Contents]
      /\ schema'[Source].layout = schema[Source].layout
      /\ schema'[Source].rows = schema[Source].rows + 1
      /\ schema'[Source].counter = schema[Source].counter + 1
      /\ \A s \in Schemas \ {Source} : schema'[s] = schema[s]
  BY <1>2, <1>3 DEF Contents
<1>5. CutoverTypeOK'
  BY <1>1, <1>2, <1>4 DEF CutoverTypeOK
<1>6. JournalInv' /\ PendingInv'
  BY <1>1, <1>2, <1>4 DEF ConvInv, JournalInv, RetainedOk, PendingInv, Schemas
<1>7. CommandInv' /\ OrphanInv'
  <2>1. cli.pc \notin {"rename", "unrename", "restored"}
    BY <1>1, StepsKnown DEF CutoverTypeOK, Commands, Relying
  <2> QED
    BY <1>1, <2>1 DEF ConvInv, CommandInv, OrphanInv, Journals
<1>8. NoWriteLost'
  BY <1>1, <1>2, <1>4 DEF ConvInv, DataKept, NoWriteLost, Manifest,
      LegacyRows
<1>9. ArchivesKept'
  <2> SUFFICES ASSUME NEW k \in Journals, NEW r \in journal[k].retained,
                      r.drop = "no", journal[k].phase # "rollback_pending"
               PROVE  KeptIn(schema', r)
    BY <1>1 DEF ArchivesKept, Manifest, LegacyRows, KeptIn
  <2>1. r.schema \in Schemas \ {Source}
    BY <1>2, Columns DEF ConvInv, JournalInv, RetainedOk, Journals, Schemas
  <2>2. KeptIn(schema, r)
    BY KeptNow
  <2> QED
    BY <1>4, <2>1, <2>2 DEF KeptIn
<1>10. WorldInv'
  <2>1. HostTypeOK' /\ JourneyInv' /\ QuietInv'
    BY <1>1 DEF WorldInv, HostTypeOK, JourneyInv, QuietInv, Quiet
  <2>2. HostInv' /\ FlightInv'
    BY <1>1, <1>4 DEF WorldInv, HostInv, FlightInv, Fresher
  <2> QED
    BY <2>1, <2>2 DEF WorldInv
<1> QED
  BY <1>5, <1>6, <1>7, <1>8, <1>9, <1>10 DEF ConvInv, DataKept

\* Time, retention, and steps of the host beside the conversion.
LEMMA ConversionKept ==
  ASSUME ConvInv, UNCHANGED <<schema, journal, cli, orphan, acked>>,
         serving' \in {"none", "old", "new"}, reply' \in {"none", "ok", "failed"}
  PROVE  ConvInv'
<1>1. CutoverTypeOK' /\ JournalInv' /\ PendingInv'
  BY DEF ConvInv, CutoverTypeOK, JournalInv, RetainedOk, PendingInv
<1>2. CommandInv' /\ OrphanInv'
  BY DEF ConvInv, CommandInv, OrphanInv, RenameReady, RestoreReady, Twins, Manifest,
      LegacyRows
<1>3. DataKept'
  BY DEF ConvInv, DataKept, NoWriteLost, ArchivesKept, Manifest,
      LegacyRows
<1> QED
  BY <1>1, <1>2, <1>3 DEF ConvInv

LEMMA WorldKept ==
  ASSUME WorldInv, UNCHANGED <<schema, journal, cli, reply, orphan, serving, process, maint>>
  PROVE  WorldInv'
  BY DEF WorldInv, HostTypeOK, QuietInv, Quiet, HostInv, JourneyInv, FlightInv, Fresher

LEMMA ConversionSteps ==
  ASSUME ConvInv, WorldInv, ConversionNext, UNCHANGED <<maint, files, current, process>>
  PROVE  ConvInv' /\ WorldInv'
<1>0. UNCHANGED <<process, maint>>
  OBVIOUS
<1>1. CASE \/ Plan \/ PrepareOwn \/ ResumeIsolated \/ UpgradeIsolated \/ PrepareArchive \/ Prepared
           \/ CopyBegin \/ CopyRows \/ AlignCounters \/ Copied \/ Verify
  BY <1>0, <1>1, PlanStep, PrepareOwnStep, BuildSteps, PreparedStep, CopyBeginStep,
      CopiedStep, VerifyStep
<1>2. CASE SwitchBegin \/ SwitchRename \/ Switched
  BY <1>0, <1>2, SwitchBeginStep, SwitchRenameStep, SwitchedStep
<1>3. CASE RollbackStart \/ RollbackPrepare \/ RollbackRename \/ RollbackDone
  BY <1>0, <1>3, RollbackBeginStep, RollbackPrepareStep, RollbackRenameStep,
      RollbackDoneStep
<1>4. CASE CleanupBegin \/ Cleaned
  BY <1>0, <1>4, CleanupPhaseSteps
<1>5. CASE \E r \in cli.mem.retained : CleanupMark(r) \/ CleanupDrop(r)
  BY <1>0, <1>5, CleanupRecordSteps
<1>6. CASE Refuse \/ Stop \/ OrphanLands \/ OrphanEnds \/ Write
  BY <1>0, <1>6, RefuseStep, StopStep, OrphanStep, WriteStep
<1>7. CASE (\E k \in Clocks : WindowTick(k)) \/ (\E s \in Schemas : Age(s))
  <2>1. UNCHANGED <<schema, journal, cli, reply, orphan, serving, acked>>
    BY <1>7 DEF WindowTick, Age
  <2>2. reply \in {"none", "ok", "failed"} /\ serving \in {"none", "old", "new"}
    BY DEF ConvInv, CutoverTypeOK
  <2> QED
    BY <1>0, <2>1, <2>2, ConversionKept, WorldKept
<1> QED
  BY <1>1, <1>2, <1>3, <1>4, <1>5, <1>6, <1>7 DEF ConversionNext

-----------------------------------------------------------------------------
(* The host.                                                               *)

LEMMA CallStep ==
  ASSUME ConvInv, WorldInv, NEW cmd \in Commands \ {"none", "cleanup"},
         NEW pc \in {"plan", "verify", "exchange", "compare", "confirm"}, Call(cmd, pc),
         cmd = "plan" => journal[process.j].phase = "none",
         cmd = "prepare" => journal[process.j].phase \in {"planned", "prepare_pending"},
         cmd \in Relying => serving = "none",
         cmd = "rollback" => process.j = "forward" /\ ~maint.started,
         cmd \in {"copy", "verify", "switch"} =>
           IF process.j = "forward" THEN Fresher ELSE maint.started,
         HostInv', JourneyInv'
  PROVE  ConvInv' /\ WorldInv'
<1>1. /\ process' \in HostRecords /\ process'.cmd = process.cmd /\ process'.pc = pc /\ process'.wait = TRUE
      /\ process'.j = process.j /\ process'.release = process.release /\ process.j \in Journals /\ CutoverTypeOK /\ UNCHANGED <<schema, journal, orphan, serving, acked, maint>>
  <2>1. HostTypeOK /\ pc \in HostSteps /\ process' = [process EXCEPT !.pc = pc, !.wait = TRUE]
    BY DEF WorldInv, HostSteps, Call
  <2>2. /\ process' \in HostRecords /\ process'.cmd = process.cmd /\ process'.pc = pc /\ process'.wait = TRUE
        /\ process'.j = process.j /\ process'.release = process.release
    BY ONLY <2>1 DEF HostTypeOK, HostRecords
  <2> QED
    BY <2>2 DEF WorldInv, HostTypeOK, HostRecords, ConvInv, Call, Invoke
<1>2. HostTypeOK'
  BY <1>1 DEF WorldInv, HostTypeOK, HostSteps
<1>3. CASE cli' = cli /\ reply' = "failed"
  <2>1. ConvInv'
    BY <1>1, <1>3, ConversionKept DEF CutoverTypeOK
  <2>2. QuietInv' /\ FlightInv'
    BY <1>1, <1>3 DEF WorldInv, QuietInv, Quiet, FlightInv, Fresher, Starting
  <2> QED
    BY <1>2, <2>1, <2>2 DEF WorldInv
<1>4. CASE /\ ~Locked /\ reply' = "none"
           /\ cli' = [cmd |-> cmd, j |-> process.j, pc |-> cmd, mem |-> journal[process.j], attached |-> TRUE]
  <2>1. orphan = "none" /\ orphan' = "none"
    BY <1>1, <1>4 DEF Locked
  <2>2. CliTyped(cli') /\ cli'.cmd = cmd /\ cli'.j = process.j /\ cli'.pc = cmd /\ cli'.mem = journal[process.j]
    <3>1. cmd \in StepsOf[cmd] /\ cmd \in Steps
      BY StepsKnown, StepsSet DEF Commands
    <3> QED
      BY <1>1, <1>4, <3>1 DEF CliTyped, CutoverTypeOK
  <2>3. CommandInv'
    BY <1>1, <2>2 DEF CommandInv, Commands
  <2>4. CutoverTypeOK' /\ JournalInv' /\ PendingInv'
    BY <1>1, <1>4, <2>2 DEF ConvInv, CutoverTypeOK, CliTyped, JournalInv, RetainedOk,
        PendingInv
  <2>5. DataKept' /\ OrphanInv'
    BY <1>1, <2>1 DEF ConvInv, DataKept, NoWriteLost, ArchivesKept,
        Manifest, LegacyRows, OrphanInv,
         Journals
  <2>6. QuietInv'
    BY <1>1, <1>4, <2>1, <2>2 DEF QuietInv, Starting
  <2>7. FlightInv'
    BY <1>1, <2>1, <2>2 DEF WorldInv, FlightInv, Fresher
  <2> QED
    BY <1>2, <2>3, <2>4, <2>5, <2>6, <2>7 DEF ConvInv, WorldInv
<1> QED
  BY <1>3, <1>4 DEF Call, Invoke

LEMMA NoHostTyped ==
  /\ NoHost = [cmd |-> "none", pc |-> "idle", release |-> "old", stop |-> "stop",
               j |-> "forward", wait |-> FALSE]
  /\ NoHost \in HostRecords
  BY DEF NoHost, HostRecords, HostCommands, HostSteps, Clocks, Journals

\* The host ends, or another begins: it relies on nothing.
LEMMA HostEnds ==
  ASSUME ConvInv, WorldInv, process' = NoHost,
         UNCHANGED <<schema, journal, cli, orphan, acked>>, serving' \in {serving, "none"},
         reply' \in {reply, "none"},
         maint'.started = maint.started, maint'.aborted = maint.aborted,
         maint' = [phase |-> maint'.phase, rehearsed |-> maint'.rehearsed,
                   started |-> maint'.started, aborted |-> maint'.aborted, backup |-> maint'.backup]
  PROVE  ConvInv' /\ WorldInv'
<1>1. ConvInv'
  BY ConversionKept DEF ConvInv, CutoverTypeOK
<1>2. HostTypeOK'
  BY NoHostTyped DEF WorldInv, HostTypeOK
<1>3. QuietInv'
  BY NoHostTyped DEF WorldInv, QuietInv, Quiet, Starting
<1>4. HostInv'
  BY NoHostTyped DEF WorldInv, HostInv, Halted
<1>5. JourneyInv'
  BY NoHostTyped DEF WorldInv, JourneyInv
<1>6. FlightInv'
  BY DEF WorldInv, FlightInv, Fresher
<1> QED
  BY <1>1, <1>2, <1>3, <1>4, <1>5, <1>6 DEF WorldInv

\* An error: the handler of a switch, or the end of the program.
LEMMA HostFails ==
  ASSUME ConvInv, WorldInv, Fail, process.pc # "idle",
         UNCHANGED <<schema, journal, cli, orphan, acked, maint>>, serving' \in {serving, "none"},
         reply' \in {reply, "none"}
  PROVE  ConvInv' /\ WorldInv'
<1>1. CASE process' = NoHost
  BY <1>1, HostEnds DEF WorldInv, HostTypeOK
<1>2. CASE process.cmd = "switch" /\ process' = [process EXCEPT !.pc = "handler", !.wait = FALSE]
  <2>1. /\ process' \in HostRecords /\ process'.cmd = "switch" /\ process'.pc = "handler" /\ process'.wait = FALSE
        /\ process'.j = process.j
    <3>1. HostTypeOK /\ "handler" \in HostSteps
      BY DEF WorldInv, HostSteps
    <3> QED
      BY <1>2, <3>1 DEF HostTypeOK, HostRecords
  <2>2. ConvInv'
    BY ConversionKept DEF ConvInv, CutoverTypeOK
  <2>3. HostTypeOK'
    BY <2>1 DEF WorldInv, HostTypeOK, HostSteps, HostCommands
  <2>4. QuietInv'
    BY <2>1 DEF WorldInv, QuietInv, Quiet, Starting
  <2>5. HostInv'
    BY <2>1 DEF WorldInv, HostInv, Halted
  <2>6. JourneyInv'
    BY <1>2, <2>1 DEF WorldInv, JourneyInv
  <2>7. FlightInv'
    BY DEF WorldInv, FlightInv, Fresher
  <2> QED
    BY <2>2, <2>3, <2>4, <2>5, <2>6, <2>7 DEF WorldInv
<1> QED
  BY <1>1, <1>2 DEF Fail, Handled

\* The host goes on by itself; what it relies on next is given.
LEMMA HostGoes ==
  ASSUME ConvInv, WorldInv,
         process' \in HostRecords,
         maint'.started \in BOOLEAN, maint'.aborted \in BOOLEAN,
         maint' = [phase |-> maint'.phase, rehearsed |-> maint'.rehearsed,
                   started |-> maint'.started, aborted |-> maint'.aborted, backup |-> maint'.backup],
         UNCHANGED <<schema, journal, cli, orphan, acked>>,
         serving' \in {"none", "old", "new"}, reply' \in {"none", "ok", "failed"},
         QuietInv', HostInv', JourneyInv', FlightInv'
  PROVE  ConvInv' /\ WorldInv'
<1>1. ConvInv'
  BY ConversionKept
<1>2. HostTypeOK'
  BY DEF HostTypeOK
<1> QED
  BY <1>1, <1>2 DEF WorldInv

\* host.json as far as it matters here.
MaintKept ==
  /\ maint'.started = maint.started /\ maint'.aborted = maint.aborted
  /\ maint' = [phase |-> maint'.phase, rehearsed |-> maint'.rehearsed, started |-> maint'.started,
               aborted |-> maint'.aborted, backup |-> maint'.backup]

\* A step of the host to its next point.
LEMMA GoesTo ==
  ASSUME ConvInv, WorldInv, NEW p \in HostSteps \ {"idle"}, process' = [process EXCEPT !.pc = p],
         process.cmd # "none", MaintKept,
         UNCHANGED <<schema, journal, cli, reply, orphan, acked>>, serving' \in {serving, "none"},
         p \in Starting \/ (p = "compare" /\ ~process.wait) => Quiet,
         p \in Halted \/ (p = "plan" /\ process.cmd # "prepare") => serving' = "none",
         p \in {"start", "up"} => schema[Source].layout = process.release,
         JourneyInv'
  PROVE  ConvInv' /\ WorldInv'
<1>1. /\ process' \in HostRecords /\ process'.cmd = process.cmd /\ process'.pc = p /\ process'.wait = process.wait
      /\ process'.release = process.release
  BY DEF WorldInv, HostTypeOK, HostRecords
<1>2. QuietInv'
  BY <1>1 DEF WorldInv, QuietInv, Quiet, Relying
<1>3. HostInv'
  BY <1>1 DEF WorldInv, HostInv
<1>4. FlightInv'
  BY DEF WorldInv, FlightInv, Fresher, MaintKept
<1>5. /\ maint'.started \in BOOLEAN /\ maint'.aborted \in BOOLEAN
      /\ maint' = [phase |-> maint'.phase, rehearsed |-> maint'.rehearsed,
                   started |-> maint'.started, aborted |-> maint'.aborted, backup |-> maint'.backup]
  BY DEF WorldInv, HostTypeOK, MaintKept
<1>6. serving' \in {"none", "old", "new"} /\ reply' \in {"none", "ok", "failed"}
  BY DEF ConvInv, CutoverTypeOK
<1> QED
  BY <1>1, <1>2, <1>3, <1>4, <1>5, <1>6, HostGoes

\* A host that begins.
LEMMA HostBegins ==
  ASSUME ConvInv, WorldInv, process' \in HostRecords, process'.cmd # "none", MaintKept,
         process'.pc \notin Halted \cup Starting \cup {"idle", "compare"},
         process'.pc = "plan" => process'.cmd = "prepare",
         UNCHANGED <<schema, journal, cli, reply, orphan, acked, serving>>,
         JourneyInv'
  PROVE  ConvInv' /\ WorldInv'
<1>1. QuietInv'
  BY DEF WorldInv, QuietInv, Quiet, Relying
<1>2. HostInv'
  BY DEF WorldInv, HostInv, Halted
<1>3. FlightInv'
  BY DEF WorldInv, FlightInv, Fresher, MaintKept
<1>4. /\ maint'.started \in BOOLEAN /\ maint'.aborted \in BOOLEAN
      /\ maint' = [phase |-> maint'.phase, rehearsed |-> maint'.rehearsed,
                   started |-> maint'.started, aborted |-> maint'.aborted, backup |-> maint'.backup]
  BY DEF WorldInv, HostTypeOK, MaintKept
<1>5. serving' \in {"none", "old", "new"} /\ reply' \in {"none", "ok", "failed"}
  BY DEF ConvInv, CutoverTypeOK
<1> QED
  BY <1>1, <1>2, <1>3, <1>4, <1>5, HostGoes

LEMMA MaintUnchanged ==
  ASSUME WorldInv, UNCHANGED maint PROVE MaintKept
  BY DEF WorldInv, HostTypeOK, MaintKept

LEMMA BeginSteps ==
  ASSUME ConvInv, WorldInv, PrepareHost \/ RehearseBackup \/ SwitchHost \/ RollbackHost
  PROVE  ConvInv' /\ WorldInv'
<1>1. CASE PrepareHost
  <2>1. /\ process' \in HostRecords /\ process'.cmd = "prepare" /\ process'.pc = "plan" /\ process'.j = "forward"
    BY <1>1, NoHostTyped DEF PrepareHost, HostBegin, HostRecords, HostCommands,
        HostSteps
  <2>2. MaintKept
    BY <1>1 DEF PrepareHost, MaintKept, WorldInv, HostTypeOK
  <2>3. UNCHANGED <<schema, journal, cli, orphan, acked, serving, reply>>
    BY <1>1 DEF PrepareHost, Locally, conversion
  <2>4. JourneyInv'
    BY <2>1 DEF JourneyInv
  <2> QED
    BY <2>1, <2>2, <2>3, <2>4, HostBegins DEF Halted, Starting
<1>2. CASE RehearseBackup
  <2>1. /\ process' \in HostRecords /\ process'.cmd = "rehearse" /\ process'.pc = "restore" /\ process'.j = "forward"
    BY <1>2, NoHostTyped DEF RehearseBackup, HostBegin, HostRecords, HostCommands,
        HostSteps
  <2>2. MaintKept
    BY <1>2, MaintUnchanged DEF RehearseBackup
  <2>3. UNCHANGED <<schema, journal, cli, orphan, acked, serving, reply>>
    BY <1>2 DEF RehearseBackup, Locally, conversion
  <2>4. JourneyInv'
    BY <2>1 DEF JourneyInv
  <2> QED
    BY <2>1, <2>2, <2>3, <2>4, HostBegins DEF Halted, Starting
<1>3. CASE SwitchHost
  <2>1. /\ process' \in HostRecords /\ process'.cmd = "switch" /\ process'.pc = "stop" /\ process'.j = "forward"
    BY <1>3, NoHostTyped DEF SwitchHost, HostBegin, HostRecords, HostCommands, HostSteps
  <2>2. MaintKept /\ ~maint.started /\ ~maint.aborted
    BY <1>3, MaintUnchanged DEF SwitchHost
  <2>3. UNCHANGED <<schema, journal, cli, orphan, acked, serving, reply>>
    BY <1>3 DEF SwitchHost
  <2>4. JourneyInv'
    BY <2>1, <2>2 DEF JourneyInv, MaintKept
  <2> QED
    BY <2>1, <2>2, <2>3, <2>4, HostBegins DEF Halted, Starting
<1>4. CASE RollbackHost
  <2>1. /\ process' \in HostRecords /\ process'.cmd = "rollback" /\ process'.pc = "stop"
        /\ process'.j = IF maint.started THEN "reverse" ELSE "forward"
    BY <1>4, NoHostTyped DEF RollbackHost, HostRecords, HostCommands, HostSteps,
        Clocks, Journals
  <2>2. MaintKept
    BY <1>4, MaintUnchanged DEF RollbackHost
  <2>3. UNCHANGED <<schema, journal, cli, orphan, acked, serving, reply>>
    BY <1>4 DEF RollbackHost
  <2>4. JourneyInv'
    BY <2>1, <2>2 DEF JourneyInv, MaintKept, WorldInv, HostTypeOK
  <2> QED
    BY <2>1, <2>2, <2>3, <2>4, HostBegins DEF Halted, Starting
<1> QED
  BY <1>1, <1>2, <1>3, <1>4

\* The journey of a host that goes on under the same command.
LEMMA SameJourney ==
  ASSUME ConvInv, WorldInv, NEW p \in HostSteps, process' = [process EXCEPT !.pc = p], MaintKept,
         UNCHANGED journal,
         process.cmd = "rehearse" => p = "convert",
         process.cmd = "prepare" => p = "plan",
         process.cmd = "switch" => ~maint.started \/ p \in {"ready"},
         process.cmd = "switch" => p \notin {"plan", "restore", "convert", "recover", "fast", "confirm", "resume"},
         process.cmd = "recover" => p \in {"recover", "fast", "confirm", "resume", "up", "ready"},
         process.cmd = "recover" /\ p = "up" => process.release = "old",
         process.cmd = "recover" /\ p = "ready" => process.release = "old",
         process.cmd = "rollback" =>
           /\ p \in {"stop", "budget", "plan", "copy", "verify", "exchange", "compare", "up", "ready",
                     "recover"}
           /\ p # "stop" => (p = "recover" <=> process.j = "forward")
           /\ p \in {"up", "ready"} => process.release = "old",
         p # "start"
  PROVE  JourneyInv'
<1>1. /\ process'.cmd = process.cmd /\ process'.pc = p /\ process'.j = process.j /\ process'.release = process.release
  BY DEF WorldInv, HostTypeOK, HostRecords
<1> QED
  BY <1>1 DEF WorldInv, JourneyInv, MaintKept

LEMMA StopReleasesStep ==
  ASSUME ConvInv, WorldInv, StopReleases PROVE ConvInv' /\ WorldInv'
<1> DEFINE p == IF process.cmd = "switch" THEN "backup" ELSE IF maint.started THEN "budget" ELSE "recover"
<1>1. process' = [process EXCEPT !.pc = p] /\ p \in HostSteps /\ p \notin {"idle", "start", "up", "compare"} \cup Starting
  BY DEF StopReleases, HostGoTo, HostSteps, Starting
<1>2. process.pc = "stop" /\ process.cmd \in {"switch", "rollback"} /\ ~process.wait
  BY DEF StopReleases, HostAt, WorldInv, HostInv, JourneyInv, HostTypeOK, HostRecords,
      HostCommands
<1>3. MaintKept /\ UNCHANGED <<schema, journal, cli, reply, orphan, acked>> /\ serving' = "none"
  BY MaintUnchanged DEF StopReleases
<1>4. JourneyInv'
  <2>1. process.cmd = "switch" => ~maint.started
    BY <1>2 DEF WorldInv, JourneyInv
  <2>2. process.cmd = "rollback" => p \in {"budget", "recover"} /\ (p = "recover" <=> process.j = "forward")
    BY <1>2 DEF WorldInv, JourneyInv, HostTypeOK, HostRecords, Journals
  <2>3. process.cmd = "switch" => p = "backup"
    OBVIOUS
  <2> HIDE DEF p
  <2> QED
    BY <1>1, <1>2, <1>3, <2>1, <2>2, <2>3, SameJourney
<1> HIDE DEF p
<1> QED
  BY <1>1, <1>2, <1>3, <1>4, GoesTo

LEMMA RehearseSteps ==
  ASSUME ConvInv, WorldInv, RehearseRestore \/ RehearseConvert PROVE ConvInv' /\ WorldInv'
<1>1. UNCHANGED <<schema, journal, cli, reply, orphan, acked, serving>>
  BY DEF RehearseRestore, RehearseConvert, Locally, conversion
<1>2. CASE RehearseRestore
  <2>1. process.pc = "restore" /\ process.cmd = "rehearse" /\ process' = [process EXCEPT !.pc = "convert"]
    BY <1>2 DEF RehearseRestore, HostAt, HostGoTo, WorldInv, HostInv, JourneyInv,
        HostTypeOK, HostRecords, HostCommands
  <2>2. MaintKept
    BY <1>2, MaintUnchanged DEF RehearseRestore
  <2>3. "convert" \in HostSteps \ {"idle"} /\ "convert" \notin Starting \cup Halted
    BY DEF HostSteps, Starting, Halted
  <2>4. JourneyInv'
    BY <1>1, <2>1, <2>2, <2>3, SameJourney
  <2> QED
    BY <1>1, <2>1, <2>2, <2>3, <2>4, GoesTo
<1>3. CASE RehearseConvert
  BY <1>1, <1>3, HostEnds DEF RehearseConvert, WorldInv, HostTypeOK
<1> QED
  BY <1>2, <1>3

LEMMA PlanJournalStep ==
  ASSUME ConvInv, WorldInv, PlanJournal PROVE ConvInv' /\ WorldInv'
<1>1. /\ process.pc = "plan" /\ ~process.wait /\ process.cmd \in {"prepare", "rollback"}
      /\ process.cmd = "rollback" => process.j = "reverse" /\ serving = "none"
      /\ HostTypeOK
  BY DEF PlanJournal, HostAt, WorldInv, HostInv, JourneyInv, HostTypeOK, HostRecords,
      HostCommands, Journals
<1>2. CASE Call("plan", "plan") /\ journal[process.j].phase = "none"
  <2>1. /\ process'.cmd = process.cmd /\ process'.pc = "plan" /\ process'.j = process.j
        /\ UNCHANGED <<serving, schema, maint, journal>>
    BY <1>1, <1>2 DEF Call, Invoke, HostTypeOK, HostRecords
  <2>2. HostInv' /\ JourneyInv'
    BY <1>1, <2>1 DEF WorldInv, HostInv, JourneyInv, Halted
  <2> QED
    BY <1>2, <2>2, CallStep DEF Commands, Relying
<1>3. CASE Call("prepare", "plan") /\ journal[process.j].phase \in {"planned", "prepare_pending"}
  <2>1. /\ process'.cmd = process.cmd /\ process'.pc = "plan" /\ process'.j = process.j
        /\ UNCHANGED <<serving, schema, maint, journal>>
    BY <1>1, <1>3 DEF Call, Invoke, HostTypeOK, HostRecords
  <2>2. HostInv' /\ JourneyInv'
    BY <1>1, <2>1 DEF WorldInv, HostInv, JourneyInv, Halted
  <2> QED
    BY <1>3, <2>2, CallStep DEF Commands, Relying
<1>4. CASE /\ IF process.cmd = "prepare"
                THEN process' = NoHost /\ maint' = [maint EXCEPT !.phase = "prepared"]
                ELSE HostGoTo("copy") /\ UNCHANGED maint
           /\ Locally
  <2>1. UNCHANGED <<schema, journal, cli, reply, orphan, acked, serving>>
    BY <1>4 DEF Locally, conversion
  <2>2. CASE process.cmd = "prepare"
    BY <1>4, <2>1, <2>2, HostEnds DEF WorldInv, HostTypeOK
  <2>3. CASE process.cmd = "rollback"
    <3>1. process' = [process EXCEPT !.pc = "copy"] /\ MaintKept
      BY <1>4, <2>3, MaintUnchanged DEF HostGoTo
    <3>2. "copy" \in HostSteps \ {"idle"} /\ "copy" \notin Starting
      BY DEF HostSteps, Starting
    <3>3. JourneyInv'
      BY <1>1, <2>1, <2>3, <3>1, <3>2, SameJourney
    <3> QED
      BY <1>1, <2>1, <2>3, <3>1, <3>2, <3>3, GoesTo
  <2> QED
    BY <1>1, <2>2, <2>3
<1> QED
  BY <1>2, <1>3, <1>4 DEF PlanJournal

\* Between the stop and the exchange: forward in a switch, reverse in a
\* rollback, and no release runs.
LEMMA Between ==
  ASSUME ConvInv, WorldInv, process.pc \in {"backup", "backed", "budget", "copy", "verify", "exchange"}
  PROVE  /\ process.cmd \in {"switch", "rollback"} /\ serving = "none" /\ HostTypeOK
         /\ process.cmd = "switch" => process.j = "forward" /\ ~maint.started /\ ~maint.aborted
         /\ process.cmd = "rollback" =>
              process.j = "reverse" /\ maint.started /\ process.pc \notin {"backup", "backed"}
         /\ IF process.j = "forward" THEN Fresher ELSE maint.started
  BY DEF WorldInv, HostInv, JourneyInv, HostTypeOK, HostRecords, HostCommands,
      Journals, Halted, Fresher

LEMMA GoesBetween ==
  ASSUME ConvInv, WorldInv, process.pc \in {"backup", "backed", "budget", "copy", "verify", "exchange"},
         NEW p \in {"backed", "budget", "copy", "verify", "exchange", "plan"},
         process.cmd = "rollback" => p # "backed", process.cmd = "switch" => p # "plan",
         process' = [process EXCEPT !.pc = p], MaintKept, Locally
  PROVE  ConvInv' /\ WorldInv'
<1>1. UNCHANGED <<schema, journal, cli, reply, orphan, acked, serving>>
  BY DEF Locally, conversion
<1>2. p \in HostSteps \ {"idle"} /\ p \notin Starting \cup {"start", "up", "ready", "recover", "compare"}
  BY DEF HostSteps, Starting
<1>3. JourneyInv'
  <2>1. process.cmd = "rollback" =>
          /\ p \in {"stop", "budget", "plan", "copy", "verify", "exchange", "compare", "up", "ready",
                    "recover"}
          /\ p # "stop" => (p = "recover" <=> process.j = "forward")
          /\ p \in {"up", "ready"} => process.release = "old"
    BY Between, <1>2
  <2>2. process.cmd = "switch" => ~maint.started /\ p \notin {"plan", "restore", "convert", "recover", "fast", "confirm", "resume"}
    BY Between
  <2> QED
    BY <1>1, <1>2, <2>1, <2>2, Between, SameJourney
<1> QED
  BY <1>1, <1>2, <1>3, Between, GoesTo

LEMMA BackupSteps ==
  ASSUME ConvInv, WorldInv, TakeBackup \/ SaveBackup \/ Budget PROVE ConvInv' /\ WorldInv'
<1>1. CASE TakeBackup
  <2>1. process.pc = "backup" /\ process' = [process EXCEPT !.pc = "backed"] /\ Locally /\ UNCHANGED maint
    BY <1>1 DEF TakeBackup, HostAt
  <2> QED
    BY <2>1, Between, MaintUnchanged, GoesBetween
<1>2. CASE SaveBackup
  <2>1. process.pc \in {"backup", "backed"} /\ process' = [process EXCEPT !.pc = "budget"] /\ Locally
    BY <1>2 DEF SaveBackup, HostAt, HostGoTo
  <2>2. MaintKept
    <3>1. CASE UNCHANGED maint
      BY <3>1, MaintUnchanged
    <3>2. CASE maint' = [maint EXCEPT !.backup = Manifest(Source)]
      BY <3>2 DEF WorldInv, HostTypeOK, MaintKept
    <3> QED
      BY <1>2, <3>1, <3>2 DEF SaveBackup
  <2> QED
    BY <2>1, <2>2, GoesBetween
<1>3. CASE Budget
  <2>1. process.pc = "budget" /\ Locally /\ UNCHANGED maint
        /\ process' = [process EXCEPT !.pc = IF process.cmd = "switch" THEN "copy" ELSE "plan"]
    BY <1>3 DEF Budget, HostAt, HostGoTo
  <2>2. CASE process.cmd = "switch"
    BY <2>1, <2>2, MaintUnchanged, GoesBetween
  <2>3. CASE process.cmd # "switch"
    BY <2>1, <2>3, MaintUnchanged, GoesBetween
  <2> QED
    BY <2>2, <2>3
<1> QED
  BY <1>1, <1>2, <1>3

LEMMA CallBetween ==
  ASSUME ConvInv, WorldInv, process.pc \in {"copy", "verify", "exchange"},
         NEW cmd \in {"copy", "verify", "switch"}, NEW p \in {"verify", "exchange", "compare"},
         Call(cmd, p)
  PROVE  ConvInv' /\ WorldInv'
<1>1. /\ process'.cmd = process.cmd /\ process'.pc = p /\ process'.j = process.j /\ process'.release = process.release
      /\ UNCHANGED <<serving, schema, maint, journal>>
  BY DEF Call, Invoke, WorldInv, HostTypeOK, HostRecords
<1>2. HostInv'
  BY <1>1, Between DEF WorldInv, HostInv, Halted
<1>3. JourneyInv'
  BY <1>1, Between DEF JourneyInv
<1>4. cmd \in Commands \ {"none", "cleanup"}
  BY DEF Commands
<1> QED
  BY <1>2, <1>3, <1>4, Between, CallStep

LEMMA ExchangeSteps ==
  ASSUME ConvInv, WorldInv, ExchangeCopy \/ ExchangeVerify \/ ExchangeSwitch PROVE ConvInv' /\ WorldInv'
<1>1. CASE ExchangeCopy
  <2>1. process.pc = "copy"
    BY <1>1 DEF ExchangeCopy, HostAt
  <2>2. CASE Call("copy", "verify")
    BY <2>1, <2>2, CallBetween
  <2>3. CASE process' = [process EXCEPT !.pc = "verify"] /\ UNCHANGED maint /\ Locally
    BY <2>1, <2>3, MaintUnchanged, GoesBetween
  <2> QED
    BY <1>1, <2>2, <2>3 DEF ExchangeCopy, HostGoTo
<1>2. CASE ExchangeVerify
  <2>1. process.pc = "verify"
    BY <1>2 DEF ExchangeVerify, HostAt
  <2>2. CASE Call("verify", "exchange")
    BY <2>1, <2>2, CallBetween
  <2>3. CASE process' = [process EXCEPT !.pc = "exchange"] /\ UNCHANGED maint /\ Locally
    BY <2>1, <2>3, MaintUnchanged, GoesBetween
  <2> QED
    BY <1>2, <2>2, <2>3 DEF ExchangeVerify, HostGoTo
<1>3. CASE ExchangeSwitch
  BY <1>3, CallBetween DEF ExchangeSwitch, HostAt
<1> QED
  BY <1>1, <1>2, <1>3

-----------------------------------------------------------------------------
(* Starting a release, recovering the old one, and the ends of a host.     *)

LEMMA CompareStep ==
  ASSUME ConvInv, WorldInv, Compare PROVE ConvInv' /\ WorldInv'
<1> DEFINE release == IF process.cmd = "switch" THEN "new" ELSE "old"
<1>1. /\ process.pc = "compare" /\ ~process.wait /\ HostTypeOK
      /\ process' = [process EXCEPT !.pc = "start", !.release = release]
      /\ schema[Source].layout = release /\ journal[process.j].phase = "switched"
      /\ UNCHANGED maint
  BY DEF Compare, HostAt, Accepted, ProbedFor, RuntimeSchema, WorldInv
<1>2. UNCHANGED <<schema, journal, cli, reply, orphan, acked, serving>>
  BY DEF Compare, Locally, conversion
<1>3. /\ process' \in HostRecords /\ process'.cmd = process.cmd /\ process'.pc = "start" /\ process'.release = release
      /\ process'.j = process.j /\ process'.wait = process.wait
  BY <1>1 DEF HostTypeOK, HostRecords, HostSteps
<1>4. Quiet /\ serving = "none" /\ process.cmd \in {"switch", "rollback"}
  BY <1>1 DEF WorldInv, QuietInv, HostInv, Halted, JourneyInv, HostTypeOK, HostRecords,
      HostCommands
<1>5. QuietInv'
  BY <1>2, <1>3, <1>4 DEF QuietInv, Quiet, Relying
<1>6. HostInv'
  BY <1>1, <1>2, <1>3, <1>4 DEF HostInv
<1>7. JourneyInv'
  BY <1>1, <1>2, <1>3, <1>4 DEF WorldInv, JourneyInv
<1>8. FlightInv'
  BY <1>1, <1>2 DEF WorldInv, FlightInv, Fresher
<1>9. serving' \in {"none", "old", "new"} /\ reply' \in {"none", "ok", "failed"}
  BY <1>2 DEF ConvInv, CutoverTypeOK
<1> QED
  BY <1>1, <1>2, <1>3, <1>5, <1>6, <1>7, <1>8, <1>9, HostGoes DEF HostTypeOK

LEMMA StartSaveStep ==
  ASSUME ConvInv, WorldInv, StartSave PROVE ConvInv' /\ WorldInv'
<1>1. /\ process.pc = "start" /\ ~process.wait /\ HostTypeOK /\ process' = [process EXCEPT !.pc = "up"]
      /\ maint' = [maint EXCEPT !.started = @ \/ process.release = "new", !.phase = "starting"]
  BY DEF StartSave, HostAt, HostGoTo, WorldInv
<1>2. UNCHANGED <<schema, journal, cli, reply, orphan, acked, serving>>
  BY DEF StartSave, Locally, conversion
<1>3. /\ process' \in HostRecords /\ process'.cmd = process.cmd /\ process'.pc = "up" /\ process'.release = process.release
      /\ process'.j = process.j /\ process'.wait = process.wait
  BY <1>1 DEF HostTypeOK, HostRecords, HostSteps
<1>4. /\ maint'.started = (maint.started \/ process.release = "new") /\ maint'.aborted = maint.aborted
      /\ maint' = [phase |-> maint'.phase, rehearsed |-> maint'.rehearsed,
                   started |-> maint'.started, aborted |-> maint'.aborted, backup |-> maint'.backup]
      /\ maint'.started \in BOOLEAN /\ maint'.aborted \in BOOLEAN
  BY <1>1 DEF HostTypeOK
<1>5. Quiet /\ serving = "none" /\ schema[Source].layout = process.release
  BY <1>1 DEF WorldInv, QuietInv, Starting, HostInv, Halted
<1>6. QuietInv'
  BY <1>2, <1>3, <1>5 DEF QuietInv, Quiet, Relying
<1>7. HostInv'
  BY <1>1, <1>2, <1>3, <1>5 DEF WorldInv, HostInv
<1>8. JourneyInv'
  BY <1>1, <1>2, <1>3, <1>4 DEF WorldInv, JourneyInv
<1>9. FlightInv'
  BY <1>1, <1>2, <1>4, <1>5 DEF WorldInv, FlightInv, Fresher, Quiet, JourneyInv
<1>10. serving' \in {"none", "old", "new"} /\ reply' \in {"none", "ok", "failed"}
  BY <1>2 DEF ConvInv, CutoverTypeOK
<1> QED
  BY <1>2, <1>3, <1>4, <1>6, <1>7, <1>8, <1>9, <1>10, HostGoes

LEMMA StartUpStep ==
  ASSUME ConvInv, WorldInv, StartUp PROVE ConvInv' /\ WorldInv'
<1>1. /\ process.pc = "up" /\ ~process.wait /\ HostTypeOK /\ process' = [process EXCEPT !.pc = "ready"]
      /\ serving' = process.release /\ UNCHANGED <<schema, journal, cli, reply, orphan, acked, maint>>
  BY DEF StartUp, HostAt, HostGoTo, WorldInv
<1>2. /\ process' \in HostRecords /\ process'.cmd = process.cmd /\ process'.pc = "ready" /\ process'.release = process.release
      /\ process'.j = process.j /\ process'.wait = process.wait /\ process.release \in {"old", "new"}
  BY <1>1 DEF HostTypeOK, HostRecords, HostSteps
<1>3. Quiet /\ schema[Source].layout = process.release
  BY <1>1 DEF WorldInv, QuietInv, Starting, HostInv
<1>4. QuietInv'
  BY <1>1, <1>2, <1>3 DEF QuietInv, Quiet, Relying
<1>5. HostInv'
  BY <1>1, <1>2, <1>3 DEF WorldInv, HostInv, Halted
<1>6. JourneyInv' /\ FlightInv'
  BY <1>1, <1>2 DEF WorldInv, JourneyInv, FlightInv, Fresher
<1>7. reply' \in {"none", "ok", "failed"}
  BY <1>1 DEF ConvInv, CutoverTypeOK
<1> QED
  BY <1>1, <1>2, <1>4, <1>5, <1>6, <1>7, HostGoes DEF HostTypeOK

LEMMA ReadySteps ==
  ASSUME ConvInv, WorldInv, RecordCutover \/ StartFails PROVE ConvInv' /\ WorldInv'
<1>1. CASE RecordCutover
  <2>1. UNCHANGED <<schema, journal, cli, reply, orphan, acked, serving>> /\ process' = NoHost
    BY <1>1 DEF RecordCutover, Locally, conversion
  <2>2. MaintKept
    BY <1>1 DEF RecordCutover, MaintKept, WorldInv, HostTypeOK
  <2> QED
    BY <2>1, <2>2, HostEnds DEF MaintKept
<1>2. CASE StartFails
  BY <1>2, HostFails DEF StartFails, HostAt
<1> QED
  BY <1>1, <1>2

LEMMA HandlerStep ==
  ASSUME ConvInv, WorldInv, HostHandler PROVE ConvInv' /\ WorldInv'
<1>1. /\ process.pc = "handler" /\ ~process.wait /\ HostTypeOK
      /\ UNCHANGED <<schema, journal, cli, reply, orphan, acked, maint>>
  BY DEF HostHandler, HostAt, WorldInv
<1>2. CASE maint.started /\ serving' = "none" /\ process' = NoHost
  BY <1>1, <1>2, HostEnds DEF HostTypeOK
<1>3. CASE /\ ~maint.started /\ serving' = serving
           /\ process' = [process EXCEPT !.cmd = "recover", !.pc = "recover"]
  <2>1. process' \in HostRecords /\ process'.cmd = "recover" /\ process'.pc = "recover" /\ process'.j = process.j
    BY <1>1, <1>3 DEF HostTypeOK, HostRecords, HostSteps, HostCommands
  <2>2. process.cmd = "switch"
    BY <1>1 DEF WorldInv, HostInv, JourneyInv, HostTypeOK, HostRecords, HostCommands
  <2>3. JourneyInv'
    BY <1>1, <1>3, <2>1, <2>2 DEF WorldInv, JourneyInv
  <2> QED
    BY <1>1, <1>3, <2>1, <2>3, MaintUnchanged, HostBegins DEF Halted, Starting
<1> QED
  BY <1>1, <1>2, <1>3 DEF HostHandler, HostTypeOK

\* Where the old release is recovered, the new one was never started.
LEMMA Recovering ==
  ASSUME ConvInv, WorldInv, process.pc \in {"recover", "fast", "confirm", "resume"}
  PROVE  /\ process.j = "forward" /\ ~maint.started /\ process.cmd \in {"recover", "rollback"} /\ HostTypeOK
         /\ process.pc # "recover" => process.cmd = "recover" /\ serving = "none"
  BY DEF WorldInv, HostInv, JourneyInv, HostTypeOK, HostRecords, HostCommands, Halted

LEMMA RecoverSteps ==
  ASSUME ConvInv, WorldInv, RecoverOld \/ FastRollback \/ ConfirmRollback PROVE ConvInv' /\ WorldInv'
<1>1. CASE RecoverOld
  <2> DEFINE p == IF schema[Source].layout = "new" THEN "fast" ELSE "resume"
  <2>1. /\ process.pc = "recover" /\ ~process.wait /\ process' = [process EXCEPT !.cmd = "recover", !.pc = p]
        /\ serving = "none" /\ orphan = "none" /\ ~Active /\ UNCHANGED maint
    BY <1>1 DEF RecoverOld, HostAt, ValidatedFenced, Fenced
  <2>2. UNCHANGED <<schema, journal, cli, reply, orphan, acked, serving>>
    BY <1>1 DEF RecoverOld, Locally, conversion
  <2>3. p \in {"fast", "resume"}
    OBVIOUS
  <2> HIDE DEF p
  <2>4. /\ process' \in HostRecords /\ process'.cmd = "recover" /\ process'.pc = p /\ process'.j = process.j
        /\ process'.wait = process.wait
    BY <2>1, <2>3, Recovering DEF HostTypeOK, HostRecords, HostSteps, HostCommands
  <2>5. cli.cmd = "none" /\ Quiet
    BY <2>1, ActiveNamed DEF ConvInv, Quiet
  <2>6. QuietInv'
    BY <2>2, <2>5 DEF QuietInv, Quiet, Relying, OrphanInv
  <2>7. HostInv'
    BY <2>1, <2>2, <2>3, <2>4 DEF HostInv
  <2>8. JourneyInv'
    BY <2>1, <2>2, <2>3, <2>4, Recovering DEF JourneyInv
  <2>9. FlightInv'
    BY <2>1, <2>2 DEF WorldInv, FlightInv, Fresher
  <2>10. serving' \in {"none", "old", "new"} /\ reply' \in {"none", "ok", "failed"}
    BY <2>2 DEF ConvInv, CutoverTypeOK
  <2> QED
    BY <2>1, <2>2, <2>4, <2>6, <2>7, <2>8, <2>9, <2>10, HostGoes DEF WorldInv, HostTypeOK
<1>2. CASE FastRollback
  <2>1. process.pc = "fast" /\ Call("rollback", "confirm")
    BY <1>2 DEF FastRollback, HostAt
  <2>2. /\ process'.cmd = process.cmd /\ process'.pc = "confirm" /\ process'.j = process.j
        /\ UNCHANGED <<serving, schema, maint, journal>>
    BY <2>1, Recovering DEF Call, Invoke, HostTypeOK, HostRecords
  <2>3. HostInv' /\ JourneyInv'
    BY <2>1, <2>2, Recovering DEF WorldInv, HostInv, JourneyInv
  <2> QED
    BY <2>1, <2>3, Recovering, CallStep DEF Commands, Relying
<1>3. CASE ConfirmRollback
  <2>1. /\ process.pc = "confirm" /\ ~process.wait /\ process' = [process EXCEPT !.pc = "resume"]
        /\ orphan = "none" /\ ~Active /\ UNCHANGED maint
    BY <1>3 DEF ConfirmRollback, HostAt, ValidatedFenced, Fenced, HostGoTo
  <2>2. UNCHANGED <<schema, journal, cli, reply, orphan, acked, serving>>
    BY <1>3 DEF ConfirmRollback, Locally, conversion
  <2>3. Quiet
    BY <2>1, ActiveNamed DEF ConvInv, Quiet
  <2>4. "resume" \in HostSteps \ {"idle"}
    BY DEF HostSteps
  <2>5. MaintKept
    BY <2>1, MaintUnchanged
  <2>6. JourneyInv'
    BY <2>1, <2>2, <2>4, <2>5, Recovering, SameJourney
  <2> QED
    BY <2>1, <2>2, <2>3, <2>4, <2>5, <2>6, Recovering, GoesTo
<1> QED
  BY <1>1, <1>2, <1>3

LEMMA ResumeOldStep ==
  ASSUME ConvInv, WorldInv, ResumeOld PROVE ConvInv' /\ WorldInv'
<1>1. /\ process.pc = "resume" /\ ~process.wait
      /\ process' = [process EXCEPT !.pc = "start", !.release = "old"]
      /\ maint' = [maint EXCEPT !.aborted = TRUE] /\ schema[Source].layout = "old"
  BY DEF ResumeOld, HostAt, ProbedFor, RuntimeSchema
<1>2. UNCHANGED <<schema, journal, cli, reply, orphan, acked, serving>>
  BY DEF ResumeOld, Locally, conversion
<1>3. /\ process' \in HostRecords /\ process'.cmd = process.cmd /\ process'.pc = "start" /\ process'.release = "old"
      /\ process'.j = process.j /\ process'.wait = process.wait
  BY <1>1, Recovering DEF HostTypeOK, HostRecords, HostSteps
<1>4. /\ maint'.started = maint.started /\ maint'.aborted = TRUE
      /\ maint' = [phase |-> maint'.phase, rehearsed |-> maint'.rehearsed,
                   started |-> maint'.started, aborted |-> maint'.aborted, backup |-> maint'.backup]
      /\ maint'.started \in BOOLEAN
  BY <1>1 DEF WorldInv, HostTypeOK
<1>5. Quiet
  BY <1>1 DEF WorldInv, QuietInv, Starting
<1>6. QuietInv'
  BY <1>2, <1>3, <1>5 DEF QuietInv, Quiet, Relying
<1>7. HostInv'
  BY <1>1, <1>2, <1>3, Recovering DEF HostInv
<1>8. JourneyInv'
  BY <1>1, <1>3, <1>4, Recovering DEF JourneyInv
<1>9. FlightInv'
  BY <1>1, <1>2, <1>4, <1>5, Recovering DEF WorldInv, FlightInv, Fresher, Quiet
<1>10. serving' \in {"none", "old", "new"} /\ reply' \in {"none", "ok", "failed"}
  BY <1>2 DEF ConvInv, CutoverTypeOK
<1> QED
  BY <1>2, <1>3, <1>4, <1>6, <1>7, <1>8, <1>9, <1>10, HostGoes

LEMMA ReturnStep ==
  ASSUME ConvInv, WorldInv, Return PROVE ConvInv' /\ WorldInv'
<1>1. /\ process.wait /\ reply' = "none" /\ HostTypeOK
      /\ UNCHANGED <<schema, journal, cli, orphan, serving, acked, maint>>
  BY DEF Return, WorldInv
<1>2. CASE reply = "ok" /\ process' = [process EXCEPT !.wait = FALSE]
  <2>1. /\ process' \in HostRecords /\ process'.cmd = process.cmd /\ process'.pc = process.pc /\ process'.j = process.j
        /\ process'.release = process.release /\ ~process'.wait
    BY <1>1, <1>2 DEF HostTypeOK, HostRecords
  <2>2. QuietInv'
    BY <1>1, <1>2, <2>1 DEF WorldInv, QuietInv, Quiet
  <2>3. HostInv' /\ JourneyInv' /\ FlightInv'
    BY <1>1, <2>1 DEF WorldInv, HostInv, JourneyInv, FlightInv, Fresher
  <2>4. serving' \in {"none", "old", "new"}
    BY <1>1 DEF ConvInv, CutoverTypeOK
  <2> QED
    BY <1>1, <2>1, <2>2, <2>3, <2>4, HostGoes DEF HostTypeOK
<1>3. CASE Fail
  <2>1. CASE process.pc # "idle"
    BY <1>1, <1>3, <2>1, HostFails
  <2>2. CASE process.pc = "idle"
    <3>1. process' = NoHost
      BY <1>3, <2>2 DEF Fail, Handled, WorldInv, HostInv
    <3> QED
      BY <1>1, <3>1, HostEnds DEF HostTypeOK
  <2> QED
    BY <2>1, <2>2
<1> QED
  BY <1>2, <1>3 DEF Return

LEMMA ErrorSteps ==
  ASSUME ConvInv, WorldInv, HostRaise \/ HostError \/ HostStops PROVE ConvInv' /\ WorldInv'
<1>1. CASE HostRaise
  BY <1>1, HostFails DEF HostRaise, Locally, conversion
<1>2. CASE HostError
  BY <1>2, HostFails DEF HostError
<1>3. CASE HostStops
  <2>1. /\ process' = NoHost /\ reply' = "none" /\ UNCHANGED <<schema, journal, orphan, serving, acked, maint>>
        /\ CutoverTypeOK /\ cli' = [cli EXCEPT !.attached = FALSE]
    BY <1>3 DEF HostStops, ConvInv
  <2>2. CliTyped(cli') /\ cli'.cmd = cli.cmd /\ cli'.j = cli.j /\ cli'.pc = cli.pc /\ cli'.mem = cli.mem
    BY <2>1 DEF CutoverTypeOK, CliTyped
  <2>3. CutoverTypeOK' /\ JournalInv' /\ PendingInv'
    BY <2>1, <2>2 DEF ConvInv, CutoverTypeOK, CliTyped, JournalInv, RetainedOk, PendingInv
  <2>4. CommandInv'
    BY <2>1, <2>2 DEF ConvInv, CommandInv, RenameReady, RestoreReady, Twins, Manifest,
        LegacyRows
  <2>5. OrphanInv' /\ DataKept'
    BY <2>1, <2>2 DEF ConvInv, OrphanInv, RenameReady, RestoreReady, Twins, Manifest,
        LegacyRows,
         DataKept, NoWriteLost, ArchivesKept
  <2>6. HostTypeOK'
    BY <2>1, NoHostTyped DEF WorldInv, HostTypeOK
  <2>7. QuietInv' /\ HostInv'
    BY <2>1, <2>2, NoHostTyped DEF WorldInv, QuietInv, Quiet, Starting, HostInv, Halted
  <2>8. JourneyInv' /\ FlightInv'
    BY <2>1, <2>2, NoHostTyped DEF WorldInv, JourneyInv, FlightInv, Fresher
  <2> QED
    BY <2>3, <2>4, <2>5, <2>6, <2>7, <2>8 DEF ConvInv, WorldInv
<1> QED
  BY <1>1, <1>2, <1>3

LEMMA OperatorStep ==
  ASSUME ConvInv, WorldInv, NEW j \in Journals, OperatorCleanup(j) PROVE ConvInv' /\ WorldInv'
<1>1. /\ cli' = [cmd |-> "cleanup", j |-> j, pc |-> "cleanup", mem |-> journal[j], attached |-> FALSE]
      /\ UNCHANGED <<schema, journal, reply, orphan, serving, acked, maint, process>>
      /\ orphan = "none" /\ cli.cmd = "none" /\ CutoverTypeOK
  BY ActiveNamed DEF OperatorCleanup, Locked, ConvInv
<1>2. CliTyped(cli') /\ cli'.cmd = "cleanup" /\ cli'.j = j /\ cli'.pc = "cleanup" /\ cli'.mem = journal[j]
  BY <1>1, StepsKnown, StepsSet DEF CliTyped, CutoverTypeOK, Commands
<1>3. CutoverTypeOK' /\ JournalInv' /\ PendingInv'
  BY <1>1, <1>2 DEF ConvInv, CutoverTypeOK, CliTyped, JournalInv, RetainedOk, PendingInv
<1>4. CommandInv'
  BY <1>1, <1>2 DEF CommandInv
<1>5. OrphanInv' /\ DataKept'
  BY <1>1 DEF ConvInv, OrphanInv, DataKept, NoWriteLost, ArchivesKept,
      Manifest, LegacyRows, Journals
<1>6. HostTypeOK' /\ HostInv' /\ JourneyInv'
  BY <1>1 DEF WorldInv, HostTypeOK, HostInv, JourneyInv
<1>7. QuietInv' /\ FlightInv'
  BY <1>1, <1>2 DEF WorldInv, QuietInv, Quiet, Relying, FlightInv, Fresher
<1> QED
  BY <1>3, <1>4, <1>5, <1>6, <1>7 DEF ConvInv, WorldInv

LEMMA HostNextSteps ==
  ASSUME ConvInv, WorldInv, HostNext PROVE ConvInv' /\ WorldInv'
  BY BeginSteps, RehearseSteps, PlanJournalStep, StopReleasesStep, BackupSteps,
      ExchangeSteps,
     CompareStep, StartSaveStep, StartUpStep, ReadySteps, HandlerStep, RecoverSteps,
     ResumeOldStep,
     ReturnStep, ErrorSteps, OperatorStep
     DEF HostNext

-----------------------------------------------------------------------------
(* The theorems.                                                           *)

Invariant == ConvInv /\ WorldInv

\* The state in which a cut-over begins satisfies the invariant.
LEMMA CutoverStarts ==
  ASSUME CutoverInit PROVE Invariant
<1>1. schema \in [Schemas -> Contents] /\ schema[Source] = [layout |-> "old", rows |-> 1, counter |-> 1]
  BY DEF CutoverInit, ConversionInit, Contents, Layouts, Absent, Source,
      Schemas
<1>2. NoJournal \in JournalFiles /\ NoJournal.phase = "none" /\ NoJournal.retained = {}
  BY DEF NoJournal, JournalFiles, Phases, Early, NoManifest
<1>3. \A j \in Journals : journal[j] = NoJournal
  BY DEF CutoverInit, ConversionInit
<1>4. CutoverTypeOK
  BY <1>1, <1>2, NoCommandTyped DEF CutoverInit, ConversionInit, CutoverTypeOK, CliTyped
<1>5. JournalInv /\ PendingInv
  BY <1>2, <1>3 DEF JournalInv, RetainedOk, PendingInv, Journals, Early, Exchange
<1>6. CommandInv /\ OrphanInv
  BY NoCommandTyped DEF CutoverInit, ConversionInit, CommandInv, OrphanInv, Journals
<1>7. DataKept
  BY <1>1, <1>2, <1>3 DEF CutoverInit, ConversionInit, DataKept, NoWriteLost,
      ArchivesKept, Manifest, LegacyRows
<1>8. HostTypeOK
  BY NoHostTyped DEF CutoverInit, HostTypeOK
<1>9. QuietInv /\ HostInv
  BY <1>1, NoHostTyped, NoCommandTyped DEF CutoverInit, ConversionInit, QuietInv, HostInv,
      Relying, Starting, Halted
<1>10. JourneyInv /\ FlightInv
  BY <1>2, <1>3, NoHostTyped, NoCommandTyped DEF CutoverInit, ConversionInit, JourneyInv,
      FlightInv, Journals
<1> QED
  BY <1>4, <1>5, <1>6, <1>7, <1>8, <1>9, <1>10 DEF Invariant, ConvInv, WorldInv

LEMMA CutoverSteps ==
  ASSUME Invariant, [CutoverNext]_(cutover) PROVE Invariant'
<1>1. CASE HostNext
  BY <1>1, HostNextSteps DEF Invariant
<1>2. CASE ConversionNext /\ UNCHANGED <<maint, files, current, process>>
  BY <1>2, ConversionSteps DEF Invariant
<1>3. CASE UNCHANGED cutover
  <2>1. UNCHANGED <<schema, journal, cli, reply, orphan, serving, acked, process, maint>>
    BY <1>3 DEF cutover, conversion
  <2>2. reply \in {"none", "ok", "failed"} /\ serving \in {"none", "old", "new"}
    BY DEF Invariant, ConvInv, CutoverTypeOK
  <2> QED
    BY <2>1, <2>2, ConversionKept, WorldKept DEF Invariant
<1> QED
  BY <1>1, <1>2, <1>3 DEF CutoverNext

\* The invariant of the cut-over holds in every reachable state: whatever
\* command of the conversion runs, stops or leaves a statement behind
\* (SchemaConversion), and whatever the host does about it (SchemaMaintenance).
THEOREM InvariantHolds == CutoverSpec => []Invariant
<1>1. CutoverInit => Invariant
  BY CutoverStarts
<1>2. Invariant /\ [CutoverNext]_(cutover) => Invariant'
  BY CutoverSteps
<1> QED
  BY <1>1, <1>2, PTL DEF CutoverSpec

\* No step of prepare, copy, verify, switch, rollback or cleanup, no process
\* that stops at any point of one and no RENAME that ends without its client
\* loses an acknowledged write or what a journal says it retains, for any
\* number of writes and of stops.
THEOREM DataIsKept == CutoverSpec => []DataKept
<1>1. Invariant => DataKept
  BY DEF Invariant, ConvInv
<1> QED
  BY <1>1, InvariantHolds, PTL

\* A release that runs finds, under the live names, tables of the layout it
\* was built for: the host starts one only after it has seen which side of
\* the switch the database is on, and no command is left that could move it.
THEOREM LayoutAlwaysServed == CutoverSpec => []LayoutServed
<1>1. Invariant => LayoutServed
  BY DEF Invariant, WorldInv, HostInv, LayoutServed
<1> QED
  BY <1>1, InvariantHolds, PTL

\* Only a RENAME gives the live schema another layout.
LEMMA HostKeepsTables ==
  ASSUME HostNext PROVE UNCHANGED schema
  BY DEF HostNext, PrepareHost, PlanJournal, RehearseBackup,
      RehearseRestore, RehearseConvert,
     SwitchHost, StopReleases, TakeBackup, SaveBackup, Budget,
     ExchangeCopy, ExchangeVerify,
     ExchangeSwitch, Compare, StartSave, StartUp, RecordCutover,
     StartFails, HostHandler, RecoverOld,
     FastRollback, ConfirmRollback, ResumeOld, RollbackHost, Return,
     HostRaise, HostError, HostStops,
     OperatorCleanup, Locally, conversion, Call, Invoke

LEMMA LayoutMoves ==
  ASSUME Invariant, ConversionNext, schema'[Source].layout # schema[Source].layout
  PROVE  SwitchRename \/ RollbackRename \/ OrphanLands
<1>1. cli.j \in Journals /\ schema \in [Schemas -> Contents]
  BY DEF Invariant, ConvInv, CutoverTypeOK
<1>2. /\ Target[cli.j] \in Schemas /\ Archive[cli.j] \in Schemas
      /\ Source \notin {Target[cli.j], Archive[cli.j], "restored_failed"} /\ Source \in Schemas
  BY <1>1, Columns DEF Source, Schemas, Journals
<1>3. ASSUME NEW s, s # Source, NEW x, schema' = [schema EXCEPT ![s] = x] PROVE FALSE
  BY <1>1, <1>2, <1>3
<1>4. UNCHANGED schema => FALSE
  OBVIOUS
<1>5. ~(ResumeIsolated \/ UpgradeIsolated \/ PrepareArchive)
  BY <1>2, <1>3 DEF ResumeIsolated, UpgradeIsolated, PrepareArchive
<1>6. ~(CopyRows \/ AlignCounters)
  BY <1>1, <1>2 DEF CopyRows, AlignCounters
<1>7. ~RollbackPrepare
  BY <1>2, <1>3, <1>4 DEF RollbackPrepare
<1>8. ~(\E r \in cli.mem.retained : CleanupMark(r) \/ CleanupDrop(r))
  <2> SUFFICES ASSUME NEW r \in cli.mem.retained, CleanupMark(r) \/ CleanupDrop(r) PROVE FALSE
    OBVIOUS
  <2>1. CleanupDrop(r)
    BY <1>4 DEF CleanupMark
  <2>2. cli.cmd # "none"
    BY <2>1, StepsKnown DEF CleanupDrop, Invariant, ConvInv, CutoverTypeOK
  <2>3. r.schema # Source
    BY <1>1, <2>2, Columns DEF Invariant, ConvInv, CommandInv, JournalInv, RetainedOk,
        Journals, Source
  <2> QED
    BY <1>3, <2>1, <2>3 DEF CleanupDrop
<1>9. ~Write
  BY <1>1, <1>2 DEF Write, Contents
<1>10. ~(Plan \/ PrepareOwn \/ Prepared \/ CopyBegin \/ Copied \/ Verify \/ SwitchBegin \/ Switched
         \/ RollbackStart \/ RollbackDone \/ CleanupBegin \/ Cleaned)
  BY <1>4 DEF Plan, PrepareOwn, Prepared, CopyBegin, Copied,
      Verify, SwitchBegin, Switched,
       RollbackStart, RollbackDone, CleanupBegin, Cleaned
<1>11. ~(Refuse \/ Stop \/ OrphanEnds \/ (\E k \in Clocks : WindowTick(k)) \/ (\E s \in Schemas : Age(s)))
  BY <1>4 DEF Refuse, Stop, OrphanEnds, WindowTick, Age
<1> QED
  BY <1>5, <1>6, <1>7, <1>8, <1>9, <1>10, <1>11 DEF ConversionNext

\* The live tables pass from the old layout to the new one (the RENAME of
\* switch) only while no release may have written on the new layout and the
\* old one has not resumed: the host's sentinels stop every later run of the
\* cut-over before its command, also after a stop between two of its steps.
THEOREM ForwardHappensOnce == CutoverSpec => ForwardOnce
<1> DEFINE A == schema[Source].layout = "old" /\ schema'[Source].layout = "new"
                  => ~maint.started /\ ~maint.aborted
<1>1. ASSUME Invariant, [CutoverNext]_(cutover) PROVE [A]_(cutover)
  <2> SUFFICES ASSUME schema[Source].layout = "old", schema'[Source].layout = "new"
               PROVE  Fresher
    BY DEF Fresher
  <2>0. ConvInv /\ WorldInv /\ CutoverTypeOK /\ acked' = acked
    <3>1. ConversionNext
      BY <1>1, HostKeepsTables DEF CutoverNext, cutover, conversion
    <3>2. SwitchRename \/ RollbackRename \/ OrphanLands
      BY <1>1, <3>1, LayoutMoves
    <3> QED
      BY <1>1, <3>2 DEF Invariant, ConvInv, SwitchRename, RollbackRename,
          OrphanLands, outside
  <2>1. ConversionNext
    BY <1>1, HostKeepsTables DEF CutoverNext, cutover, conversion
  <2>2. CASE SwitchRename
    <3>1. cli.cmd = "switch" /\ RenameReady(cli.j) /\ cli.j \in Journals
      BY <2>0, <2>2, StepsKnown DEF SwitchRename, ConvInv, CutoverTypeOK, Commands,
          CommandInv
    <3>2. schema'[Source].layout = TargetHead[cli.j]
      BY <2>0, <2>2, <3>1, RenameData DEF SwitchRename
    <3> QED
      BY <2>0, <3>1, <3>2, Columns DEF WorldInv, FlightInv, Journals
  <2>3. CASE RollbackRename
    <3>1. cli.j = "forward" /\ RestoreReady
      BY <2>0, <2>3, StepsKnown DEF RollbackRename, ConvInv, CutoverTypeOK, Commands,
          CommandInv
    <3> QED
      BY <2>0, <2>3, <3>1, Columns, UnrenameData DEF RollbackRename
  <2>4. CASE OrphanLands
    <3>1. CASE orphan = "unrename"
      BY <2>0, <2>4, <3>1, Columns, UnrenameData DEF ConvInv, OrphanInv, OrphanLands,
          Journals
    <3>2. CASE orphan # "unrename"
      <4>1. orphan \in Journals
        BY <2>0, <2>4, <3>2 DEF OrphanLands, CutoverTypeOK, Journals
      <4>2. RenameReady(orphan) /\ schema' = Renamed(Target[orphan], Archive[orphan])
        BY <2>0, <2>4, <3>2, <4>1 DEF ConvInv, OrphanInv, OrphanLands
      <4>3. schema'[Source].layout = TargetHead[orphan]
        BY <2>0, <2>4, <4>1, <4>2, RenameData DEF OrphanLands
      <4> QED
        BY <2>0, <4>1, <4>3, Columns DEF WorldInv, FlightInv, Journals
    <3> QED
      BY <3>1, <3>2
  <2> QED
    BY <1>1, <2>1, <2>2, <2>3, <2>4, LayoutMoves
<1>2. Invariant /\ [CutoverNext]_(cutover) => [A]_(cutover)
  BY <1>1
<1>3. CutoverSpec => [][A]_(cutover)
  BY <1>2, InvariantHolds, PTL DEF CutoverSpec
<1> QED
  BY <1>3 DEF ForwardOnce
=============================================================================
