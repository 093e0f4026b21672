---------------------------- MODULE FuTransactionsProofs ----------------------------
(***************************************************************************)
(* For every set of skills, contents and commands and every bound: fu's    *)
(* transactions never overlap, every step of a command, its recovery, gc   *)
(* and the user leaves well-formed data behind, the branch they write is   *)
(* the history StoreHistory promises, and what a user wrote is lost only   *)
(* as a record says.                                                       *)
(***************************************************************************)
EXTENDS FuTransactions, TLAPS

(* From the recovery that begins a command until its first revision.       *)
Early == {"load", "sweep", "preflight", "start"}

(* The journal is a sequence of records.                                   *)
Ledger(s) ==
    \E n \in Nat : /\ s = [i \in 1 .. n |-> s[i]]
                   /\ \A i \in 1 .. n : "status" \in DOMAIN s[i]

(* OneOpen alone is not inductive: StartTxn keeps it only because nothing  *)
(* has been pending since the command recovered.                           *)
OInv == /\ Ledger(txns)
        /\ OneOpen
        /\ pc \in Early => Pending = {}

(* Every step but Recovered and StartTxn opens nothing, and does not enter *)
(* the part of a command where nothing may be pending.                     *)
Calm == /\ Ledger(txns')
        /\ Pending' \subseteq Pending
        /\ pc' \in Early => pc \in Early

(* The steps every command shares.                                         *)
LEMMA RunCalm ==
    ASSUME Ledger(txns), RunStep, ~Recovered, ~StartTxn
    PROVE  Calm
<1>1. CASE LoadConfig
  BY <1>1 DEF Ledger, Calm, Pending, Early, LoadConfig, Goto
<1>2. CASE Sweep
  BY <1>2 DEF Ledger, Calm, Pending, Early, Sweep, Goto
<1>3. CASE ReserveStagedRoot
  BY <1>3 DEF Ledger, Calm, Pending, Early, ReserveStagedRoot, Goto
<1>4. CASE LogReserved
  BY <1>4 DEF Ledger, Calm, Pending, Early, LogReserved, WriteTxn, Me, Goto
<1>5. CASE PublishRoot
  BY <1>5 DEF Ledger, Calm, Pending, Early, PublishRoot, OrAbort, Abort, Goto
<1>6. CASE LogRoot
  BY <1>6 DEF Ledger, Calm, Pending, Early, LogRoot, WriteTxn, Me, Goto
<1>7. CASE CopyStaged
  BY <1>7 DEF Ledger, Calm, Pending, Early, CopyStaged, OrAbort, Abort, Goto
<1>8. CASE SaveConfig
  BY <1>8 DEF Ledger, Calm, Pending, Early, SaveConfig, OrAbort, Abort, Goto
<1>9. CASE LogSaved
  BY <1>9 DEF Ledger, Calm, Pending, Early, LogSaved, WriteTxn, Me, Goto
<1>10. CASE LogPublished
  BY <1>10 DEF Ledger, Calm, Pending, Early, LogPublished, WriteTxn, Me, Goto
<1>11. CASE PrepareCommit
  BY <1>11 DEF Ledger, Calm, Pending, Early, PrepareCommit, Goto
<1>12. CASE ValidatePrepared
  BY <1>12 DEF Ledger, Calm, Pending, Early, ValidatePrepared, OrAbort, Abort, Goto
<1>13. CASE LogTree
  BY <1>13 DEF Ledger, Calm, Pending, Early, LogTree, WriteTxn, Me, Goto
<1>14. CASE CommitPrepared
  BY <1>14 DEF Ledger, Calm, Pending, Early, CommitPrepared, OrAbort, Abort, Goto
<1>15. CASE ClearTxn
  BY <1>15 DEF Ledger, Calm, Pending, Early, ClearTxn, WriteTxn, Me, Goto
<1>16. CASE UndoConfig
  BY <1>16 DEF Ledger, Calm, Pending, Early, UndoConfig, RestoreTxnConfig,
      OrConflict, Conflict, Exit, Goto
<1>17. CASE UndoClear
  BY <1>17 DEF Ledger, Calm, Pending, Early, UndoClear, WriteTxn, Me, Goto
<1>18. CASE FinishClear
  BY <1>18 DEF Ledger, Calm, Pending, Early, FinishClear, WriteTxn, Me, Goto
<1> QED BY <1>1, <1>2, <1>3, <1>4, <1>5, <1>6, <1>7, <1>8, <1>9, <1>10, <1>11,
    <1>12, <1>13, <1>14, <1>15, <1>16, <1>17, <1>18 DEF RunStep

(* Install, its rollback and its compensation.                             *)
LEMMA InstallCalm ==
    ASSUME Ledger(txns), InstallStep
    PROVE  Calm
<1>1. CASE InstallPreflight
  BY <1>1 DEF Ledger, Calm, Pending, Early, InstallPreflight, Preflight, Exit, Goto
<1>2. CASE InstallMutate
  BY <1>2 DEF Ledger, Calm, Pending, Early, InstallMutate, OrAbort, Abort, Goto
<1>3. CASE InstallLogCopied
  BY <1>3 DEF Ledger, Calm, Pending, Early, InstallLogCopied, WriteTxn, Me, Goto
<1>4. CASE InstallLogPrepared
  BY <1>4 DEF Ledger, Calm, Pending, Early, InstallLogPrepared, OrAbort, Abort,
      WriteTxn, Me, Goto
<1>5. CASE InstallPublish
  BY <1>5 DEF Ledger, Calm, Pending, Early, InstallPublish, OrAbort, Abort, Goto
<1>6. CASE InstallReclaim
  BY <1>6 DEF Ledger, Calm, Pending, Early, InstallReclaim, Exit
<1>7. CASE \E i \in DOMAIN txns : InstallUndo(i)
  BY <1>7 DEF Ledger, Calm, Pending, Early, InstallUndo, Handle, OrConflict,
      Conflict, Exit, Goto
<1>8. CASE \E i \in DOMAIN txns : InstallCompensate(i)
  BY <1>8 DEF Ledger, Calm, Pending, Early, InstallCompensate, Handle, OrConflict,
      Conflict, Exit, Goto
<1>9. CASE InstallUndoRoot
  BY <1>9 DEF Ledger, Calm, Pending, Early, InstallUndoRoot, OrConflict, Conflict,
      Exit, Goto
<1>10. CASE InstallUndoLogRoot
  BY <1>10 DEF Ledger, Calm, Pending, Early, InstallUndoLogRoot, WriteTxn, Me, Goto
<1>11. CASE InstallUndoEntries
  <2>1. CASE Conflict
    BY <2>1 DEF Ledger, Calm, Pending, Early, Conflict, Exit
  <2>2. CASE /\ WriteTxn([Me EXCEPT !.payload.c = staging[Me.name].c, !.declared = NONE])
              /\ pc' = "undo-quarantine"
    BY <2>2 DEF Ledger, Calm, Pending, Early, WriteTxn, Me
  <2>3. CASE UNCHANGED txns /\ pc' = "undo-quarantine"
    BY <2>3 DEF Ledger, Calm, Pending, Early
  <2>4. QED BY <1>11, <2>1, <2>2, <2>3 DEF InstallUndoEntries, OrConflict, Goto
<1>12. CASE InstallUndoQuarantine
  BY <1>12 DEF Ledger, Calm, Pending, Early, InstallUndoQuarantine, OrConflict,
      Conflict, Exit, Goto
<1>13. CASE InstallUndoArchive
  BY <1>13 DEF Ledger, Calm, Pending, Early, InstallUndoArchive, ArchivePayload,
      OrConflict, Conflict, Exit, Goto
<1>14. CASE CompLogStart
  BY <1>14 DEF Ledger, Calm, Pending, Early, CompLogStart, WriteTxn, Me, Goto
<1>15. CASE CompQuarantine
  BY <1>15 DEF Ledger, Calm, Pending, Early, CompQuarantine, OrConflict, Conflict,
      Exit, Goto
<1>16. CASE CompConfig
  BY <1>16 DEF Ledger, Calm, Pending, Early, CompConfig, RestoreTxnConfig,
      OrConflict, Conflict, Exit, Goto
<1>17. CASE CompLogReady
  BY <1>17 DEF Ledger, Calm, Pending, Early, CompLogReady, WriteTxn, Me, Goto
<1>18. CASE CompPrepare
  BY <1>18 DEF Ledger, Calm, Pending, Early, CompPrepare, OrConflict, Conflict, Exit, Goto
<1>19. CASE CompLogTree
  <2>1. CASE Conflict
    BY <2>1 DEF Ledger, Calm, Pending, Early, Conflict, Exit
  <2>2. CASE WriteTxn([Me EXCEPT !.comp = {p.snap : p \in cand}]) /\ pc' = "comp-commit"
    BY <2>2 DEF Ledger, Calm, Pending, Early, WriteTxn, Me
  <2>3. QED BY <1>19, <2>1, <2>2 DEF CompLogTree, OrConflict, Goto
<1>20. CASE CompCommit
  BY <1>20 DEF Ledger, Calm, Pending, Early, CompCommit, OrConflict, Conflict, Exit, Goto
<1>21. CASE CompLogCommitted
  BY <1>21 DEF Ledger, Calm, Pending, Early, CompLogCommitted, WriteTxn, Me, Goto
<1>22. CASE CompFinish
  <2>1. CASE Conflict
    BY <2>1 DEF Ledger, Calm, Pending, Early, Conflict, Exit
  <2>2. CASE WriteTxn([Me EXCEPT !.stage = "compensation-committed"]) /\ pc' = "comp-archive"
    BY <2>2 DEF Ledger, Calm, Pending, Early, WriteTxn, Me
  <2>3. QED BY <1>22, <2>1, <2>2 DEF CompFinish, OrConflict, Goto
<1>23. CASE CompArchive
  BY <1>23 DEF Ledger, Calm, Pending, Early, CompArchive, ArchivePayload,
      OrConflict, Conflict, Exit, Goto
<1> QED BY <1>1, <1>2, <1>3, <1>4, <1>5, <1>6, <1>7, <1>8, <1>9, <1>10, <1>11,
    <1>12, <1>13, <1>14, <1>15, <1>16, <1>17, <1>18, <1>19, <1>20, <1>21, <1>22,
    <1>23 DEF InstallStep

(* Remove and its recovery.                                                *)
LEMMA RemoveCalm ==
    ASSUME Ledger(txns), RemoveStep
    PROVE  Calm
<1>1. CASE RemovePreflight
  BY <1>1 DEF Ledger, Calm, Pending, Early, RemovePreflight, Preflight, Exit, Goto
<1>2. CASE RemoveMutate
  BY <1>2 DEF Ledger, Calm, Pending, Early, RemoveMutate, Goto
<1>3. CASE RemoveLogSnapshot
  BY <1>3 DEF Ledger, Calm, Pending, Early, RemoveLogSnapshot, WriteTxn, Me, Goto
<1>4. CASE RemoveQuarantine
  BY <1>4 DEF Ledger, Calm, Pending, Early, RemoveQuarantine, OrAbort, Abort, Goto
<1>5. CASE RemoveLogQuarantined
  BY <1>5 DEF Ledger, Calm, Pending, Early, RemoveLogQuarantined, WriteTxn, Me, Goto
<1>6. CASE RemoveReclaim
  BY <1>6 DEF Ledger, Calm, Pending, Early, RemoveReclaim, ReclaimStep,
      AfterReclaim, Exit, Goto
<1>7. CASE \E i \in DOMAIN txns : RemoveUndo(i)
  BY <1>7 DEF Ledger, Calm, Pending, Early, RemoveUndo, Handle, OrConflict,
      Conflict, Exit, Goto
<1>8. CASE \E i \in DOMAIN txns : RemoveFinish(i)
  BY <1>8 DEF Ledger, Calm, Pending, Early, RemoveFinish, Handle, OrConflict,
      Conflict, Exit, Goto
<1>9. CASE RemoveUndoRestore
  BY <1>9 DEF Ledger, Calm, Pending, Early, RemoveUndoRestore, OrConflict, Conflict,
      Exit, Goto
<1> QED BY <1>1, <1>2, <1>3, <1>4, <1>5, <1>6, <1>7, <1>8, <1>9 DEF RemoveStep

(* Update and its recovery.                                                *)
LEMMA UpdateCalm ==
    ASSUME Ledger(txns), UpdateStep
    PROVE  Calm
<1>1. CASE UpdatePreflight
  BY <1>1 DEF Ledger, Calm, Pending, Early, UpdatePreflight, Preflight, Exit, Goto
<1>2. CASE UpdateMutate
  BY <1>2 DEF Ledger, Calm, Pending, Early, UpdateMutate, OrAbort, Abort, Goto
<1>3. CASE UpdateLogSnapshot
  BY <1>3 DEF Ledger, Calm, Pending, Early, UpdateLogSnapshot, WriteTxn, Me, Goto
<1>4. CASE UpdateLogCopied
  BY <1>4 DEF Ledger, Calm, Pending, Early, UpdateLogCopied, WriteTxn, Me, Goto
<1>5. CASE UpdateValidateStaged
  BY <1>5 DEF Ledger, Calm, Pending, Early, UpdateValidateStaged, OrAbort, Abort, Goto
<1>6. CASE UpdatePublish
  BY <1>6 DEF Ledger, Calm, Pending, Early, UpdatePublish, Exchange, OrAbort, Abort, Goto
<1>7. CASE UpdateLogExchanged
  BY <1>7 DEF Ledger, Calm, Pending, Early, UpdateLogExchanged, WriteTxn, Me, Goto
<1>8. CASE UpdateReclaim
  BY <1>8 DEF Ledger, Calm, Pending, Early, UpdateReclaim, ReclaimStep,
      AfterReclaim, Exit, Goto
<1>9. CASE \E i \in DOMAIN txns : UpdateUndo(i)
  BY <1>9 DEF Ledger, Calm, Pending, Early, UpdateUndo, Handle, OrConflict,
      Conflict, Exit, Goto
<1>10. CASE \E i \in DOMAIN txns : UpdateFinish(i)
  BY <1>10 DEF Ledger, Calm, Pending, Early, UpdateFinish, Handle, OrConflict,
      Conflict, Exit, Goto
<1>11. CASE UpdateUndoExchange
  BY <1>11 DEF Ledger, Calm, Pending, Early, UpdateUndoExchange, Exchange,
      OrConflict, Conflict, Exit, Goto
<1>12. CASE UpdateUndoRoot
  BY <1>12 DEF Ledger, Calm, Pending, Early, UpdateUndoRoot, OrConflict, Conflict,
      Exit, Goto
<1>13. CASE UpdateUndoDiscard
  BY <1>13 DEF Ledger, Calm, Pending, Early, UpdateUndoDiscard, OrConflict,
      Conflict, Exit, Goto
<1> QED BY <1>1, <1>2, <1>3, <1>4, <1>5, <1>6, <1>7, <1>8, <1>9, <1>10, <1>11,
    <1>12, <1>13 DEF UpdateStep

(* What begins and ends processes, gc, and the user.                       *)
LEMMA RestCalm ==
    ASSUME Ledger(txns),
           BeginCommand \/ BeginRestore \/ Fail \/ Crash \/ GcStep \/ User
    PROVE  Calm
<1>1. CASE BeginCommand
  BY <1>1 DEF Ledger, Calm, Pending, Early, BeginCommand, BeginInstall, BeginRemove,
      BeginUpdate, Begin, Goto
<1>2. CASE BeginRestore
  BY <1>2 DEF Ledger, Calm, Pending, Early, BeginRestore, Goto
<1>3. CASE Fail
  BY <1>3 DEF Ledger, Calm, Pending, Early, Fail, Goto
<1>4. CASE Crash
  BY <1>4 DEF Ledger, Calm, Pending, Early, Crash, Exit
<1>5. CASE GcReclaimLease
  BY <1>5 DEF Ledger, Calm, Pending, Early, GcReclaimLease
<1>6. CASE \E i \in DOMAIN txns : GcPruneRemove(i)
  BY <1>6 DEF Ledger, Calm, Pending, Early, GcPruneRemove, ReclaimThenPrune, Pruned
<1>7. CASE \E i \in DOMAIN txns : GcPruneUpdate(i)
  BY <1>7 DEF Ledger, Calm, Pending, Early, GcPruneUpdate, ReclaimThenPrune, Pruned
<1>8. CASE \E i \in DOMAIN txns : GcPruneInstall(i)
  BY <1>8 DEF Ledger, Calm, Pending, Early, GcPruneInstall, Pruned
<1>9. CASE User
  BY <1>9 DEF Ledger, Calm, Pending, Early, User, UserEdit, UserPlace, UserStage,
      UserConfig, UserRemove, UserCommit, UserUnchanged
<1> QED BY <1>1, <1>2, <1>3, <1>4, <1>5, <1>6, <1>7, <1>8, <1>9 DEF GcStep

--------------------------------------------------------------------------------
(* StartTxn is the one step that opens a transaction.                      *)
LEMMA StartOpens ==
    ASSUME Ledger(txns), StartTxn
    PROVE  Ledger(txns') /\ Pending' \subseteq Pending \cup {Len(txns) + 1}
<1> DEFINE r == [op |-> cmd.op, name |-> cmd.name, status |-> "open", stage |-> "started",
          start |-> HEAD, before |-> seen, resv |-> NoTree, declared |-> NONE,
          payload |-> NoTree, prev |-> NoTree, ctree |-> {}, comp |-> {}]
<1>1. txns' = Append(txns, r)
  BY DEF StartTxn
<1>2. "status" \in DOMAIN r
  OBVIOUS
<1> HIDE DEF r
<1>3. PICK n \in Nat : /\ txns = [i \in 1 .. n |-> txns[i]]
                       /\ \A i \in 1 .. n : "status" \in DOMAIN txns[i]
  BY DEF Ledger
<1> DEFINE S == {txns[i] : i \in 1 .. n} \cup {r}
<1>4. txns \in Seq(S)
  BY <1>3
<1>5. Len(txns) = n /\ DOMAIN txns = 1 .. n
  BY <1>3, <1>4
<1>6. txns' = [i \in 1 .. n + 1 |-> IF i <= n THEN txns[i] ELSE r]
  <2>1. /\ txns' \in Seq(S) /\ Len(txns') = n + 1
        /\ \A i \in 1 .. n + 1 : txns'[i] = IF i <= n THEN txns[i] ELSE r
    BY <1>1, <1>4, <1>5
  <2>2. txns' = [i \in 1 .. n + 1 |-> txns'[i]]
    BY <2>1
  <2>3. QED BY <2>1, <2>2
<1>7. Ledger(txns')
  BY <1>2, <1>3, <1>6 DEF Ledger
<1>8. Pending' \subseteq Pending \cup {n + 1}
  BY <1>5, <1>6 DEF Pending
<1>9. QED BY <1>5, <1>7, <1>8

(* An empty journal.                                                       *)
LEMMA InitOInv == Init => OInv
<1> SUFFICES ASSUME txns = <<>>, pc = "idle" PROVE OInv
  BY DEF Init
<1>1. txns = [i \in 1 .. 0 |-> txns[i]] /\ DOMAIN txns = {}
  OBVIOUS
<1>2. Ledger(txns)
  BY <1>1 DEF Ledger
<1>3. QED BY <1>1, <1>2 DEF OInv, OneOpen, Pending, Early

(* The induction.                                                          *)
LEMMA StepOInv == OInv /\ [Next]_vars => OInv'
<1> SUFFICES ASSUME OInv, [Next]_vars PROVE OInv'
  OBVIOUS
<1>1. CASE Calm
  BY <1>1 DEF Calm, OInv, OneOpen
<1>2. CASE StartTxn
  <2>1. Pending = {} /\ pc' \notin Early
    BY <1>2 DEF StartTxn, OInv, Early, Goto
  <2>2. PICK k : Ledger(txns') /\ Pending' \subseteq Pending \cup {k}
    BY <1>2, StartOpens DEF OInv
  <2>3. QED BY <2>1, <2>2 DEF OInv, OneOpen
<1>3. CASE Recovered
  BY <1>3 DEF Recovered, NothingPending, OInv, OneOpen, Pending, Early
<1>4. CASE UNCHANGED vars
  BY <1>4 DEF vars, OInv, OneOpen, Pending, Early
<1>5. Ledger(txns)
  BY DEF OInv
<1>6. CASE Step
  BY <1>1, <1>2, <1>3, <1>5, <1>6, RunCalm, InstallCalm, RemoveCalm, UpdateCalm DEF Step
<1>7. CASE BeginCommand \/ BeginRestore \/ Fail \/ Crash \/ GcStep \/ User
  BY <1>1, <1>5, <1>7, RestCalm
<1>8. QED BY <1>4, <1>6, <1>7 DEF Next

(* Every write command recovers before it starts, so that no two           *)
(* transactions are ever pending at once: recovery is never asked to judge *)
(* one against what another has done (engine/txn.go, RecoverPending).      *)
THEOREM NoOverlap == Spec => []OneOpen
<1>1. Init => OInv
  BY InitOInv
<1>2. OInv /\ [Next]_vars => OInv'
  BY StepOInv
<1>3. OInv => OneOpen
  BY DEF OInv
<1>4. QED BY <1>1, <1>2, <1>3, PTL DEF Spec

--------------------------------------------------------------------------------
(* Type correctness by its parts: what is on disk,                         *)
PayloadDir == [at : PayloadName, tree : Tree]

DiskTyped ==
    /\ config \in Config
    /\ skills \in [Names -> TreeOrNone]
    /\ staging \in [Names -> TreeOrNone]
    /\ private \subseteq Tree
    /\ recovery \subseteq PayloadDir
    /\ archive \subseteq PayloadDir
    /\ nextId \in 1 .. MaxId + 1

(* what Git has and the journal,                                           *)
BranchTyped == commits \in Seq(Commit) /\ commits # <<>>
JournalTyped == txns \in Seq(Txn)

(* and what the process has in memory.                                     *)
MemoryTyped ==
    /\ cmd \in Command /\ mode \in {"command", "abort"}
    /\ held \in TreeOrNone
    /\ seen \in Config
    /\ cand \subseteq [parent : Nat, snap : Snapshot]
    /\ last \in {"none", "ok", "refused", "rolled back", "conflict", "crashed"}

CountersTyped ==
    /\ started \in 0 .. MaxCommands
    /\ faults \in 0 .. MaxFaults
    /\ authored \subseteq Edits

(* A process has a command, whose arguments are those of its kind, and one *)
(* past its first revision, or called by recovery, has a transaction.      *)
Write == {"install", "rm", "update"}
Places == {"idle", "recover"} \cup CommandPcs \cup UndoPcs \cup FinishPcs
Driving == (CommandPcs \ Early) \cup UndoPcs \cup FinishPcs
Staging == {"reserve", "log-reserved", "publish-root", "log-root", "copy", "fill", "log-copied"}
CommandInv ==
    /\ pc \in Places
    /\ pc # "idle" => cmd.op \in Write \cup {"restore"}
    /\ pc \in CommandPcs => cmd.op # "restore"
    /\ pc \in Staging => cmd.op \in {"install", "update"}
    /\ cmd.op \in Write => cmd.name \in Names
    /\ cmd.op \in {"install", "update"} => cmd.c \in Upstream
DrivenInv == self \in 0 .. Len(txns) /\ (pc \in Driving => self # 0)

TInv == /\ DiskTyped /\ BranchTyped /\ JournalTyped /\ MemoryTyped /\ CountersTyped
        /\ CommandInv /\ DrivenInv

--------------------------------------------------------------------------------
(* Trees, directories of payloads, snapshots and records, by their parts.  *)
LEMMA Literals ==
    /\ NONE \notin Contents /\ EMPTY \in Contents /\ TORN \in Contents
    /\ Upstream \subseteq Contents /\ Edits \subseteq Contents
    /\ NoTree \notin Tree /\ NoTree \in TreeOrNone
<1>1. NONE # EMPTY /\ NONE # TORN
  BY DEF NONE, EMPTY, TORN
<1>2. NoTree \notin Tree
  BY DEF NoTree, Tree
<1> QED BY <1>1, <1>2, ConstantsAssumption DEF Contents, TreeOrNone

LEMMA TreeParts ==
    ASSUME NEW t \in TreeOrNone
    PROVE  /\ t.c \in Contents \cup {NONE}
           /\ Present(t) => t \in Tree /\ t.c \in Contents /\ t.id \in 1 .. MaxId
           /\ t.c = NONE => t = NoTree
           /\ t.c # NONE => t \in Tree
BY Literals DEF Tree, TreeOrNone, NoTree, Present

LEMMA TreeHolding ==
    ASSUME NEW t \in Tree, NEW c \in Contents
    PROVE  [t EXCEPT !.c = c] \in Tree
BY DEF Tree

LEMMA AtTyped ==
    ASSUME NEW dir, dir \subseteq PayloadDir, NEW p
    PROVE  At(dir, p) \in TreeOrNone
BY DEF At, PayloadDir, TreeOrNone

LEMMA PutTyped ==
    ASSUME NEW dir, dir \subseteq PayloadDir, NEW p \in PayloadName, NEW t \in Tree
    PROVE  Put(dir, p, t) \subseteq PayloadDir
BY DEF Put, PayloadDir

LEMMA TakeTyped ==
    ASSUME NEW dir, dir \subseteq PayloadDir, NEW p
    PROVE  Take(dir, p) \subseteq PayloadDir
BY DEF Take, PayloadDir

LEMMA NamesTyped ==
    ASSUME NEW t \in Txn
    PROVE  /\ RemovedName(t) \in PayloadName
           /\ RollbackName(t) \in PayloadName
           /\ UncommittedName(t) \in PayloadName
BY DEF Txn, PayloadName, RemovedName, RollbackName, UncommittedName

LEMMA LeftTyped ==
    ASSUME NEW t \in TreeOrNone, NEW e, NEW left \in Leftovers(t, e)
    PROVE  left \in TreeOrNone
BY Literals, TreeParts, TreeHolding DEF Leftovers, Removable, TreeOrNone

LEMMA WorktreeTyped ==
    ASSUME config \in Config, skills \in [Names -> TreeOrNone]
    PROVE  Worktree \in Snapshot
BY TreeParts DEF Worktree, Snapshot

LEMMA RegTyped ==
    ASSUME NEW cfg \in Config, NEW n \in Names, NEW d \in Contents \cup {NONE}
    PROVE  SetReg(cfg, n, d) \in Config
BY DEF Config, SetReg

LEMMA ExpectedTyped ==
    ASSUME NEW t \in Txn
    PROVE  ExpectedConfig(t) \in Config
BY RegTyped, TreeParts DEF Txn, ExpectedConfig

LEMMA MeTyped ==
    ASSUME txns \in Seq(Txn), self \in DOMAIN txns
    PROVE  Me \in Txn
BY DEF Me

LEMMA LogTyped ==
    ASSUME txns \in Seq(Txn), self \in DOMAIN txns, NEW r \in Txn, WriteTxn(r)
    PROVE  txns' \in Seq(Txn) /\ Len(txns') = Len(txns) /\ DOMAIN txns' = DOMAIN txns
BY DEF WriteTxn

(* What an archive and an interrupted removal leave of a directory.        *)
LEMMA ArchiveDisk ==
    ASSUME DiskTyped, NEW p \in PayloadName, NEW next, ArchivePayload(p, next)
    PROVE  DiskTyped'
<1> DEFINE here == At(recovery, p)
<1>1. here \in TreeOrNone /\ Take(recovery, p) \subseteq PayloadDir
  BY AtTyped, TakeTyped DEF DiskTyped
<1>2. Present(here) => Put(archive, p, here) \subseteq PayloadDir
  BY <1>1, TreeParts, PutTyped DEF DiskTyped
<1>3. \/ UNCHANGED <<disk, nextId>>
      \/ /\ recovery' = Take(recovery, p)
         /\ archive' = IF Present(here) THEN Put(archive, p, here) ELSE archive
         /\ UNCHANGED <<config, skills, staging, private, nextId>>
  BY DEF ArchivePayload, OrConflict, Conflict
<1> QED BY <1>1, <1>2, <1>3 DEF DiskTyped, disk

LEMMA LeftDisk ==
    ASSUME DiskTyped, NEW p \in PayloadName, NEW e, NEW left \in Leftovers(At(recovery, p), e)
    PROVE  (IF Present(left) THEN Put(Take(recovery, p), p, left) ELSE Take(recovery, p))
              \subseteq PayloadDir
<1>1. Take(recovery, p) \subseteq PayloadDir /\ left \in TreeOrNone
  BY AtTyped, TakeTyped, LeftTyped DEF DiskTyped
<1> QED BY <1>1, TreeParts, PutTyped

(* No step of a command, of recovery, of gc or of a user puts anything but *)
(* trees and well-formed config on disk.                                   *)
LEMMA RunDisk ==
    ASSUME TInv, RunStep
    PROVE  DiskTyped'
<1> USE DEF TInv
<1>1. CASE Recovered
  BY <1>1 DEF DiskTyped, disk, Recovered, Exit, Goto
<1>2. CASE LoadConfig
  BY <1>2 DEF DiskTyped, disk, LoadConfig, Goto
<1>3. CASE Sweep
  BY <1>3 DEF DiskTyped, disk, Sweep, Goto
<1>4. CASE StartTxn
  BY <1>4 DEF DiskTyped, disk, StartTxn, Goto
<1>5. CASE ReserveStagedRoot
  <2>1. held' \in Tree
    BY <1>5, Literals, ConstantsAssumption DEF ReserveStagedRoot, DiskTyped, Tree
  <2>2. nextId' \in 1 .. MaxId + 1
    BY <1>5, ConstantsAssumption DEF ReserveStagedRoot, DiskTyped
  <2> QED BY <1>5, <2>1, <2>2 DEF ReserveStagedRoot, DiskTyped
<1>6. CASE LogReserved
  BY <1>6 DEF DiskTyped, disk, LogReserved, WriteTxn, Goto
<1>7. CASE PublishRoot
  <2>1. ASSUME held \in private, staging' = [staging EXCEPT ![cmd.name] = held]
        PROVE  staging' \in [Names -> TreeOrNone]
    BY <2>1 DEF DiskTyped, TreeOrNone
  <2> QED BY <1>7, <2>1 DEF PublishRoot, OrAbort, Abort, Goto, DiskTyped, disk
<1>8. CASE LogRoot
  BY <1>8 DEF DiskTyped, disk, LogRoot, WriteTxn, Goto
<1>9. CASE CopyStaged
  <2>1. CASE Abort
    BY <2>1 DEF Abort, disk, DiskTyped
  <2>2. ASSUME NEW k \in {EMPTY, TORN}, NEW c \in {TORN, cmd.c},
               staging[cmd.name] = [held EXCEPT !.c = k],
               staging' = [staging EXCEPT ![cmd.name].c = c]
        PROVE  staging' \in [Names -> TreeOrNone]
    <3>1. cmd.name \in Names /\ c \in Contents
      BY <1>9, Literals DEF CopyStaged, CommandInv, CommandPcs, Staging, Write
    <3>2. staging[cmd.name] \in TreeOrNone /\ staging[cmd.name].c = k
      BY <2>2, <3>1 DEF DiskTyped, MemoryTyped, TreeOrNone, Tree, NoTree
    <3>3. staging[cmd.name] \in Tree
      BY <3>2, TreeParts DEF NONE, EMPTY, TORN
    <3>4. [staging[cmd.name] EXCEPT !.c = c] \in TreeOrNone
      BY <3>1, <3>3, TreeHolding DEF TreeOrNone
    <3> QED BY <2>2, <3>1, <3>4 DEF DiskTyped
  <2> QED BY <1>9, <2>1, <2>2 DEF CopyStaged, OrAbort, DiskTyped
<1>10. CASE SaveConfig
  <2>1. pc = "save" => ExpectedConfig(Me) \in Config
    BY MeTyped, ExpectedTyped DEF DrivenInv, Driving, CommandPcs, Early, JournalTyped
  <2> QED BY <1>10, <2>1 DEF SaveConfig, OrAbort, Abort, Goto, DiskTyped, disk
<1>11. CASE LogSaved
  BY <1>11 DEF DiskTyped, disk, LogSaved, WriteTxn, Goto
<1>12. CASE LogPublished
  BY <1>12 DEF DiskTyped, disk, LogPublished, WriteTxn, Goto
<1>13. CASE PrepareCommit
  BY <1>13 DEF DiskTyped, disk, PrepareCommit, Goto
<1>14. CASE ValidatePrepared
  BY <1>14 DEF DiskTyped, disk, ValidatePrepared, OrAbort, Abort, Goto
<1>15. CASE LogTree
  BY <1>15 DEF DiskTyped, disk, LogTree, WriteTxn, Goto
<1>16. CASE CommitPrepared
  BY <1>16 DEF DiskTyped, disk, CommitPrepared, OrAbort, Abort, Goto
<1>17. CASE ClearTxn
  BY <1>17 DEF DiskTyped, disk, ClearTxn, WriteTxn, Goto
<1>18. CASE UndoConfig
  <2>1. pc = "undo-config" => Me.before \in Config
    BY MeTyped DEF DrivenInv, Driving, UndoPcs, JournalTyped, Txn
  <2> QED BY <1>18, <2>1 DEF UndoConfig, RestoreTxnConfig, OrConflict, Conflict, Goto, DiskTyped,
             disk
<1>19. CASE UndoClear
  BY <1>19 DEF DiskTyped, disk, UndoClear, WriteTxn, Goto
<1>20. CASE FinishClear
  BY <1>20 DEF DiskTyped, disk, FinishClear, WriteTxn, Goto
<1> QED BY <1>1, <1>2, <1>3, <1>4, <1>5, <1>6, <1>7, <1>8, <1>9, <1>10, <1>11, <1>12,
    <1>13, <1>14, <1>15, <1>16, <1>17, <1>18, <1>19, <1>20 DEF RunStep

LEMMA InstallDisk ==
    ASSUME TInv, InstallStep
    PROVE  DiskTyped'
<1> USE DEF TInv
<1>1. CASE InstallPreflight
  BY <1>1 DEF DiskTyped, disk, InstallPreflight, Preflight, Exit, Goto
<1>2. CASE InstallMutate
  BY <1>2 DEF DiskTyped, disk, InstallMutate, OrAbort, Abort, Goto
<1>3. CASE InstallLogCopied
  BY <1>3 DEF DiskTyped, disk, InstallLogCopied, WriteTxn, Goto
<1>4. CASE InstallLogPrepared
  BY <1>4 DEF DiskTyped, disk, InstallLogPrepared, OrAbort, Abort, WriteTxn, Goto
<1>5. CASE InstallPublish
  <2>1. cmd.name \in Names /\ Me.payload \in TreeOrNone
    BY <1>5, MeTyped DEF InstallPublish, CommandInv, Write, DrivenInv, Driving, CommandPcs,
       Early, JournalTyped, Txn
  <2> QED BY <1>5, <2>1, Literals DEF InstallPublish, OrAbort, Abort, Goto, DiskTyped, disk
<1>6. CASE InstallReclaim
  BY <1>6 DEF DiskTyped, disk, InstallReclaim, Exit
<1>7. CASE \E i \in DOMAIN txns : InstallUndo(i)
  BY <1>7 DEF DiskTyped, disk, InstallUndo, Handle, OrConflict, Conflict, Exit, Goto, Recovering
<1>8. CASE \E i \in DOMAIN txns : InstallCompensate(i)
  BY <1>8 DEF DiskTyped, disk, InstallCompensate, Handle, OrConflict, Conflict, Exit, Goto,
     Recovering
<1>9. CASE InstallUndoRoot
  <2>1. Me \in Txn
    BY <1>9, MeTyped DEF InstallUndoRoot, DrivenInv, Driving, UndoPcs, JournalTyped
  <2>2. Me.name \in Names /\ Me.resv \in TreeOrNone
    BY <2>1 DEF Txn
  <2> QED BY <1>9, <2>2 DEF InstallUndoRoot, OrConflict, Conflict, Goto, DiskTyped, disk
<1>10. CASE InstallUndoLogRoot
  BY <1>10 DEF DiskTyped, disk, InstallUndoLogRoot, WriteTxn, Goto
<1>11. CASE InstallUndoEntries
  BY <1>11 DEF DiskTyped, disk, InstallUndoEntries, OrConflict, Conflict, Exit, WriteTxn, Goto
<1>12. CASE InstallUndoQuarantine
  <2>1. Me \in Txn
    BY <1>12, MeTyped DEF InstallUndoQuarantine, DrivenInv, Driving, UndoPcs, JournalTyped
  <2>2. Me.name \in Names /\ Me.payload \in TreeOrNone /\ UncommittedName(Me) \in PayloadName
    BY <2>1, NamesTyped DEF Txn
  <2>3. CASE UNCHANGED <<disk, nextId>>
    BY <2>3 DEF DiskTyped, disk
  <2>4. CASE Present(Me.payload) /\ ~UNCHANGED <<disk, nextId>>
    <3>1. recovery' \subseteq PayloadDir
      BY <1>12, <2>2, <2>4, TreeParts, PutTyped
      DEF InstallUndoQuarantine, OrConflict, Conflict, DiskTyped
    <3> QED BY <1>12, <2>2, <2>4, <3>1, Literals
            DEF InstallUndoQuarantine, OrConflict, Conflict, Goto, DiskTyped
  <2> QED BY <1>12, <2>3, <2>4 DEF InstallUndoQuarantine, OrConflict, Conflict
<1>13. CASE InstallUndoArchive
  <2>1. UncommittedName(Me) \in PayloadName
    BY <1>13, MeTyped, NamesTyped DEF InstallUndoArchive, DrivenInv, Driving, UndoPcs, JournalTyped
  <2> QED BY <1>13, <2>1, ArchiveDisk DEF InstallUndoArchive
<1>14. CASE CompLogStart
  BY <1>14 DEF DiskTyped, disk, CompLogStart, WriteTxn, Goto
<1>15. CASE CompQuarantine
  <2>1. Me \in Txn
    BY <1>15, MeTyped DEF CompQuarantine, DrivenInv, Driving, FinishPcs, JournalTyped
  <2>2. Me.name \in Names /\ Me.payload \in TreeOrNone /\ RollbackName(Me) \in PayloadName
    BY <2>1, NamesTyped DEF Txn
  <2>3. CASE Conflict
    BY <2>3 DEF Conflict, DiskTyped, disk
  <2>4. CASE ~Conflict
    <3>1. Present(skills[Me.name]) => Present(Me.payload)
      BY <1>15, <2>4 DEF CompQuarantine, OrConflict, Present
    <3>2. recovery' \subseteq PayloadDir
      BY <1>15, <2>2, <2>4, <3>1, TreeParts, PutTyped DEF CompQuarantine, OrConflict, DiskTyped
    <3> QED BY <1>15, <2>2, <2>4, <3>2, Literals DEF CompQuarantine, OrConflict, DiskTyped
  <2> QED BY <2>3, <2>4
<1>16. CASE CompConfig
  <2>1. pc = "comp-config" => Me.before \in Config
    BY MeTyped DEF DrivenInv, Driving, FinishPcs, JournalTyped, Txn
  <2> QED BY <1>16, <2>1 DEF CompConfig, RestoreTxnConfig, OrConflict, Conflict, Goto, DiskTyped,
             disk
<1>17. CASE CompLogReady
  BY <1>17 DEF DiskTyped, disk, CompLogReady, WriteTxn, Goto
<1>18. CASE CompPrepare
  BY <1>18 DEF DiskTyped, disk, CompPrepare, OrConflict, Conflict, Exit, Goto
<1>19. CASE CompLogTree
  BY <1>19 DEF DiskTyped, disk, CompLogTree, OrConflict, Conflict, Exit, WriteTxn, Goto
<1>20. CASE CompCommit
  BY <1>20 DEF DiskTyped, disk, CompCommit, OrConflict, Conflict, Exit, Goto
<1>21. CASE CompLogCommitted
  BY <1>21 DEF DiskTyped, disk, CompLogCommitted, WriteTxn, Goto
<1>22. CASE CompFinish
  BY <1>22 DEF DiskTyped, disk, CompFinish, OrConflict, Conflict, Exit, WriteTxn, Goto
<1>23. CASE CompArchive
  <2>1. RollbackName(Me) \in PayloadName
    BY <1>23, MeTyped, NamesTyped DEF CompArchive, DrivenInv, Driving, FinishPcs, JournalTyped
  <2> QED BY <1>23, <2>1, ArchiveDisk DEF CompArchive
<1> QED BY <1>1, <1>2, <1>3, <1>4, <1>5, <1>6, <1>7, <1>8, <1>9, <1>10, <1>11, <1>12,
    <1>13, <1>14, <1>15, <1>16, <1>17, <1>18, <1>19, <1>20, <1>21, <1>22, <1>23 DEF
    InstallStep

LEMMA RemoveDisk ==
    ASSUME TInv, RemoveStep
    PROVE  DiskTyped'
<1> USE DEF TInv
<1>1. CASE RemovePreflight
  BY <1>1 DEF DiskTyped, disk, RemovePreflight, Preflight, Exit, Goto
<1>2. CASE RemoveMutate
  BY <1>2 DEF DiskTyped, disk, RemoveMutate, Goto
<1>3. CASE RemoveLogSnapshot
  BY <1>3 DEF DiskTyped, disk, RemoveLogSnapshot, WriteTxn, Goto
<1>4. CASE RemoveQuarantine
  <2>1. Me \in Txn /\ cmd.name \in Names
    BY <1>4, MeTyped DEF RemoveQuarantine, DrivenInv, Driving, CommandPcs, Early, JournalTyped,
       CommandInv, Write
  <2>2. Me.payload \in TreeOrNone /\ RemovedName(Me) \in PayloadName
    BY <2>1, NamesTyped DEF Txn
  <2>3. CASE Abort
    BY <2>3 DEF Abort, DiskTyped, disk
  <2>4. CASE ~Abort
    <3>1. recovery' \subseteq PayloadDir
      BY <1>4, <2>2, <2>4, TreeParts, PutTyped DEF RemoveQuarantine, OrAbort, OwnsPayload, DiskTyped
    <3> QED BY <1>4, <2>1, <2>4, <3>1, Literals DEF RemoveQuarantine, OrAbort, DiskTyped
  <2> QED BY <2>3, <2>4
<1>5. CASE RemoveLogQuarantined
  BY <1>5 DEF DiskTyped, disk, RemoveLogQuarantined, WriteTxn, Goto
<1>6. CASE RemoveReclaim
  <2>1. RemovedName(Me) \in PayloadName
    BY <1>6, MeTyped, NamesTyped DEF RemoveReclaim, DrivenInv, Driving, CommandPcs, Early,
       FinishPcs,
       JournalTyped
  <2> QED BY <1>6, <2>1, LeftDisk DEF RemoveReclaim, DiskTyped
<1>7. CASE \E i \in DOMAIN txns : RemoveUndo(i)
  BY <1>7 DEF DiskTyped, disk, RemoveUndo, Handle, OrConflict, Conflict, Exit, Goto, Recovering
<1>8. CASE \E i \in DOMAIN txns : RemoveFinish(i)
  BY <1>8 DEF DiskTyped, disk, RemoveFinish, Handle, OrConflict, Conflict, Exit, Goto, Recovering
<1>9. CASE RemoveUndoRestore
  <2>1. Me.name \in Names
    BY <1>9, MeTyped DEF RemoveUndoRestore, DrivenInv, Driving, UndoPcs, JournalTyped, Txn
  <2>2. At(recovery, RemovedName(Me)) \in TreeOrNone
          /\ Take(recovery, RemovedName(Me)) \subseteq PayloadDir
    BY AtTyped, TakeTyped DEF DiskTyped
  <2> QED BY <1>9, <2>1, <2>2 DEF RemoveUndoRestore, OrConflict, Conflict, DiskTyped, disk
<1> QED BY <1>1, <1>2, <1>3, <1>4, <1>5, <1>6, <1>7, <1>8, <1>9 DEF RemoveStep

LEMMA UpdateDisk ==
    ASSUME TInv, UpdateStep
    PROVE  DiskTyped'
<1> USE DEF TInv
<1>1. CASE UpdatePreflight
  BY <1>1 DEF DiskTyped, disk, UpdatePreflight, Preflight, Exit, Goto
<1>2. CASE UpdateMutate
  BY <1>2 DEF DiskTyped, disk, UpdateMutate, OrAbort, Abort, Goto
<1>3. CASE UpdateLogSnapshot
  BY <1>3 DEF DiskTyped, disk, UpdateLogSnapshot, WriteTxn, Goto
<1>4. CASE UpdateLogCopied
  BY <1>4 DEF DiskTyped, disk, UpdateLogCopied, WriteTxn, Goto
<1>5. CASE UpdateValidateStaged
  BY <1>5 DEF DiskTyped, disk, UpdateValidateStaged, OrAbort, Abort, Goto
<1>6. CASE UpdatePublish
  <2>1. cmd.name \in Names /\ Me.payload \in TreeOrNone /\ Me.prev \in TreeOrNone
    BY <1>6, MeTyped DEF UpdatePublish, CommandInv, Write, DrivenInv, Driving, CommandPcs, Early,
       JournalTyped, Txn
  <2> QED BY <1>6, <2>1 DEF UpdatePublish, Exchange, OrAbort, Abort, Goto, DiskTyped, disk
<1>7. CASE UpdateLogExchanged
  BY <1>7 DEF DiskTyped, disk, UpdateLogExchanged, WriteTxn, Goto
<1>8. CASE UpdateReclaim
  <2>1. Me.name \in Names
    BY <1>8, MeTyped DEF UpdateReclaim, DrivenInv, Driving, CommandPcs, Early, FinishPcs,
       JournalTyped, Txn
  <2> QED BY <1>8, <2>1, LeftTyped DEF UpdateReclaim, DiskTyped
<1>9. CASE \E i \in DOMAIN txns : UpdateUndo(i)
  BY <1>9 DEF DiskTyped, disk, UpdateUndo, Handle, OrConflict, Conflict, Exit, Goto, Recovering
<1>10. CASE \E i \in DOMAIN txns : UpdateFinish(i)
  BY <1>10 DEF DiskTyped, disk, UpdateFinish, Handle, OrConflict, Conflict, Exit, Goto, Recovering
<1>11. CASE UpdateUndoExchange
  <2>1. Me.name \in Names /\ Me.payload \in TreeOrNone /\ Me.prev \in TreeOrNone
    BY <1>11, MeTyped DEF UpdateUndoExchange, DrivenInv, Driving, UndoPcs, JournalTyped, Txn
  <2> QED BY <1>11, <2>1 DEF UpdateUndoExchange, Exchange, OrConflict, Conflict, Goto, DiskTyped,
             disk
<1>12. CASE UpdateUndoRoot
  <2>1. Me.name \in Names /\ Me.resv \in TreeOrNone
    BY <1>12, MeTyped DEF UpdateUndoRoot, DrivenInv, Driving, UndoPcs, JournalTyped, Txn
  <2> QED BY <1>12, <2>1 DEF UpdateUndoRoot, OrConflict, Conflict, Goto, DiskTyped, disk
<1>13. CASE UpdateUndoDiscard
  <2>1. Me.name \in Names
    BY <1>13, MeTyped DEF UpdateUndoDiscard, DrivenInv, Driving, UndoPcs, JournalTyped, Txn
  <2>2. staging[Me.name] \in TreeOrNone
    BY <2>1 DEF DiskTyped
  <2>3. CASE Conflict
    BY <2>3 DEF Conflict, DiskTyped, disk
  <2>4. CASE ~Conflict
    <3>1. \E left \in TreeOrNone : staging' = [staging EXCEPT ![Me.name] = left]
      BY <1>13, <2>2, <2>4, LeftTyped DEF UpdateUndoDiscard, OrConflict
    <3> QED BY <1>13, <2>1, <2>4, <3>1 DEF UpdateUndoDiscard, OrConflict, DiskTyped
  <2> QED BY <2>3, <2>4
<1> QED BY <1>1, <1>2, <1>3, <1>4, <1>5, <1>6, <1>7, <1>8, <1>9, <1>10, <1>11, <1>12,
    <1>13 DEF UpdateStep

LEMMA RestDisk ==
    ASSUME TInv, BeginCommand \/ BeginRestore \/ Fail \/ Crash \/ GcStep \/ User
    PROVE  DiskTyped'
<1> USE DEF TInv
<1>1. CASE BeginCommand
  BY <1>1 DEF DiskTyped, disk, BeginCommand, BeginInstall, BeginRemove, BeginUpdate, Begin, Goto
<1>2. CASE BeginRestore
  BY <1>2 DEF DiskTyped, disk, BeginRestore, Goto
<1>3. CASE Fail
  BY <1>3 DEF DiskTyped, disk, Fail, Goto
<1>4. CASE Crash
  BY <1>4 DEF DiskTyped, disk, Crash, Exit
<1>5. CASE GcReclaimLease
  BY <1>5 DEF DiskTyped, disk, GcReclaimLease
<1>6. CASE \E i \in DOMAIN txns : GcPruneRemove(i)
  <2>1. PICK i \in DOMAIN txns : GcPruneRemove(i)
    BY <1>6
  <2>2. RemovedName(txns[i]) \in PayloadName
    BY NamesTyped DEF JournalTyped
  <2> QED BY <2>1, <2>2, LeftDisk DEF GcPruneRemove, DiskTyped
<1>7. CASE \E i \in DOMAIN txns : GcPruneUpdate(i)
  <2>1. PICK i \in DOMAIN txns : GcPruneUpdate(i)
    BY <1>7
  <2>2. txns[i] \in Txn
    BY DEF JournalTyped
  <2>3. txns[i].name \in Names
    BY <2>2 DEF Txn
  <2> QED BY <2>1, <2>3, LeftTyped DEF GcPruneUpdate, DiskTyped
<1>8. CASE \E i \in DOMAIN txns : GcPruneInstall(i)
  BY <1>8 DEF DiskTyped, disk, GcPruneInstall, Pruned
<1>9. CASE User
  <2>1. CASE \E n \in Names, e \in Edits : UserEdit(n, e)
    <3>1. PICK n \in Names, e \in Edits : UserEdit(n, e)
      BY <2>1
    <3>2. [skills[n] EXCEPT !.c = e] \in TreeOrNone
      BY <3>1, Literals, TreeParts, TreeHolding DEF UserEdit, DiskTyped, TreeOrNone
    <3> QED BY <3>1, <3>2 DEF UserEdit, UserUnchanged, DiskTyped
  <2>2. CASE \E n \in Names, e \in Edits : UserPlace(n, e) \/ UserStage(n, e)
    <3>1. PICK n \in Names, e \in Edits : UserPlace(n, e) \/ UserStage(n, e)
      BY <2>2
    <3>2. [id |-> nextId, c |-> e] \in TreeOrNone
      BY <3>1, Literals, ConstantsAssumption DEF UserPlace, UserStage, DiskTyped, TreeOrNone, Tree
    <3> QED BY <3>1, <3>2, ConstantsAssumption DEF UserPlace, UserStage, UserUnchanged, DiskTyped
  <2>3. CASE \E e \in Edits : UserConfig(e)
    <3>1. PICK e \in Edits : UserConfig(e)
      BY <2>3
    <3>2. [config EXCEPT !.note = e] \in Config
      BY DEF DiskTyped, Config
    <3> QED BY <3>1, <3>2 DEF UserConfig, UserUnchanged, DiskTyped
  <2>4. CASE (\E n \in Names : UserRemove(n)) \/ UserCommit
    BY <2>4, Literals DEF UserRemove, UserCommit, UserUnchanged, DiskTyped
  <2> QED BY <1>9, <2>1, <2>2, <2>3, <2>4 DEF User
<1> QED BY <1>1, <1>2, <1>3, <1>4, <1>5, <1>6, <1>7, <1>8, <1>9 DEF GcStep

(* What gc leaves of one is still a record.                                *)
LEMMA PrunedTyped ==
    ASSUME JournalTyped, NEW i \in DOMAIN txns, Pruned(i)
    PROVE  JournalTyped' /\ Len(txns') = Len(txns)
<1>1. txns[i] \in Txn
  BY DEF JournalTyped
<1>2. [txns[i] EXCEPT !.status = "pruned"] \in Txn
  BY <1>1 DEF Txn
<1> QED BY <1>2 DEF JournalTyped, Pruned

(* Every revision of a record is a record.                                 *)
LEMMA RunJournal ==
    ASSUME TInv, RunStep
    PROVE  JournalTyped' /\ Len(txns) <= Len(txns')
<1> USE DEF TInv
<1>1. CASE Recovered
  <2>1. UNCHANGED txns
    BY <1>1, Zenon DEF Recovered, Exit
  <2> QED BY <2>1 DEF JournalTyped
<1>2. CASE LoadConfig
  BY <1>2 DEF JournalTyped, LoadConfig
<1>3. CASE Sweep
  BY <1>3 DEF JournalTyped, Sweep
<1>4. CASE StartTxn
  <2> DEFINE r == [op |-> cmd.op, name |-> cmd.name, status |-> "open", stage |-> "started",
          start |-> HEAD, before |-> seen, resv |-> NoTree, declared |-> NONE,
          payload |-> NoTree, prev |-> NoTree, ctree |-> {}, comp |-> {}]
  <2>1. cmd.op \in Write /\ cmd.name \in Names
    BY <1>4 DEF StartTxn, CommandInv, CommandPcs, Write
  <2>2. HEAD \in Nat
    BY DEF BranchTyped, HEAD
  <2>3. r \in Txn
    BY <2>1, <2>2, Literals DEF Txn, Stage, MemoryTyped, Write
  <2>4. txns' = Append(txns, r)
    BY <1>4 DEF StartTxn
  <2> HIDE DEF r
  <2> QED BY <2>3, <2>4 DEF JournalTyped
<1>5. CASE ReserveStagedRoot
  BY <1>5 DEF JournalTyped, ReserveStagedRoot
<1>6. CASE LogReserved
  <2>1. ASSUME WriteTxn([Me EXCEPT !.resv = held, !.declared = cmd.c])
        PROVE  JournalTyped' /\ Len(txns) <= Len(txns')
    <3>1. cmd.c \in Contents \cup {NONE}
      BY DEF MemoryTyped, Command
    <3>2. Me \in Txn /\ self \in DOMAIN txns
      BY <1>6, MeTyped DEF LogReserved, DrivenInv, Driving, CommandPcs, Early, UndoPcs,
         FinishPcs, JournalTyped
    <3>3. [Me EXCEPT !.resv = held, !.declared = cmd.c] \in Txn
      BY <3>1, <3>2, Literals DEF Txn, Stage, MemoryTyped
    <3> QED BY <2>1, <3>2, <3>3, LogTyped DEF JournalTyped
  <2> QED BY <1>6, <2>1 DEF LogReserved, JournalTyped
<1>7. CASE PublishRoot
  BY <1>7 DEF JournalTyped, PublishRoot, OrAbort, Abort
<1>8. CASE LogRoot
  <2>1. ASSUME WriteTxn([Me EXCEPT !.resv = NoTree, !.payload = held])
        PROVE  JournalTyped' /\ Len(txns) <= Len(txns')
    <3>2. Me \in Txn /\ self \in DOMAIN txns
      BY <1>8, MeTyped DEF LogRoot, DrivenInv, Driving, CommandPcs, Early, UndoPcs, FinishPcs,
         JournalTyped
    <3>3. [Me EXCEPT !.resv = NoTree, !.payload = held] \in Txn
      BY <3>2, Literals DEF Txn, Stage, MemoryTyped
    <3> QED BY <2>1, <3>2, <3>3, LogTyped DEF JournalTyped
  <2> QED BY <1>8, <2>1 DEF LogRoot, JournalTyped
<1>9. CASE CopyStaged
  <2>1. UNCHANGED txns
    BY <1>9, Zenon DEF CopyStaged, OrAbort, Abort
  <2> QED BY <2>1 DEF JournalTyped
<1>10. CASE SaveConfig
  BY <1>10 DEF JournalTyped, SaveConfig, OrAbort, Abort
<1>11. CASE LogSaved
  <2>1. ASSUME WriteTxn([Me EXCEPT !.stage = "config-saved"])
        PROVE  JournalTyped' /\ Len(txns) <= Len(txns')
    <3>2. Me \in Txn /\ self \in DOMAIN txns
      BY <1>11, MeTyped DEF LogSaved, DrivenInv, Driving, CommandPcs, Early, UndoPcs, FinishPcs,
         JournalTyped
    <3>3. [Me EXCEPT !.stage = "config-saved"] \in Txn
      BY <3>2, Literals DEF Txn, Stage, MemoryTyped
    <3> QED BY <2>1, <3>2, <3>3, LogTyped DEF JournalTyped
  <2> QED BY <1>11, <2>1 DEF LogSaved, JournalTyped
<1>12. CASE LogPublished
  <2>1. ASSUME WriteTxn([Me EXCEPT !.stage = "published"])
        PROVE  JournalTyped' /\ Len(txns) <= Len(txns')
    <3>2. Me \in Txn /\ self \in DOMAIN txns
      BY <1>12, MeTyped DEF LogPublished, DrivenInv, Driving, CommandPcs, Early, UndoPcs,
         FinishPcs, JournalTyped
    <3>3. [Me EXCEPT !.stage = "published"] \in Txn
      BY <3>2, Literals DEF Txn, Stage, MemoryTyped
    <3> QED BY <2>1, <3>2, <3>3, LogTyped DEF JournalTyped
  <2> QED BY <1>12, <2>1 DEF LogPublished, JournalTyped
<1>13. CASE PrepareCommit
  BY <1>13 DEF JournalTyped, PrepareCommit
<1>14. CASE ValidatePrepared
  BY <1>14 DEF JournalTyped, ValidatePrepared, OrAbort, Abort
<1>15. CASE LogTree
  <2>1. ASSUME WriteTxn([Me EXCEPT !.ctree = {p.snap : p \in cand}])
        PROVE  JournalTyped' /\ Len(txns) <= Len(txns')
    <3>1. {p.snap : p \in cand} \subseteq Snapshot
      <4>1. \A p \in cand : p.snap \in Snapshot
        BY DEF MemoryTyped
      <4> QED BY <4>1
    <3>2. Me \in Txn /\ self \in DOMAIN txns
      BY <1>15, MeTyped DEF LogTree, DrivenInv, Driving, CommandPcs, Early, UndoPcs, FinishPcs,
         JournalTyped
    <3>3. [Me EXCEPT !.ctree = {p.snap : p \in cand}] \in Txn
      BY <3>1, <3>2, Literals DEF Txn, Stage, MemoryTyped
    <3> QED BY <2>1, <3>2, <3>3, LogTyped DEF JournalTyped
  <2> QED BY <1>15, <2>1 DEF LogTree, JournalTyped
<1>16. CASE CommitPrepared
  BY <1>16 DEF JournalTyped, CommitPrepared, OrAbort, Abort
<1>17. CASE ClearTxn
  <2>1. ASSUME WriteTxn([Me EXCEPT !.status = "done"])
        PROVE  JournalTyped' /\ Len(txns) <= Len(txns')
    <3>2. Me \in Txn /\ self \in DOMAIN txns
      BY <1>17, MeTyped DEF ClearTxn, DrivenInv, Driving, CommandPcs, Early, UndoPcs, FinishPcs,
         JournalTyped
    <3>3. [Me EXCEPT !.status = "done"] \in Txn
      BY <3>2, Literals DEF Txn, Stage, MemoryTyped
    <3> QED BY <2>1, <3>2, <3>3, LogTyped DEF JournalTyped
  <2> QED BY <1>17, <2>1 DEF ClearTxn, JournalTyped
<1>18. CASE UndoConfig
  BY <1>18 DEF JournalTyped, UndoConfig, RestoreTxnConfig, OrConflict, Conflict
<1>19. CASE UndoClear
  <2>1. ASSUME WriteTxn([Me EXCEPT !.status = "done"])
        PROVE  JournalTyped' /\ Len(txns) <= Len(txns')
    <3>2. Me \in Txn /\ self \in DOMAIN txns
      BY <1>19, MeTyped DEF UndoClear, DrivenInv, Driving, CommandPcs, Early, UndoPcs, FinishPcs,
         JournalTyped
    <3>3. [Me EXCEPT !.status = "done"] \in Txn
      BY <3>2, Literals DEF Txn, Stage, MemoryTyped
    <3> QED BY <2>1, <3>2, <3>3, LogTyped DEF JournalTyped
  <2> QED BY <1>19, <2>1 DEF UndoClear, JournalTyped
<1>20. CASE FinishClear
  <2>1. ASSUME WriteTxn([Me EXCEPT !.status = "done"])
        PROVE  JournalTyped' /\ Len(txns) <= Len(txns')
    <3>2. Me \in Txn /\ self \in DOMAIN txns
      BY <1>20, MeTyped DEF FinishClear, DrivenInv, Driving, CommandPcs, Early, UndoPcs,
         FinishPcs, JournalTyped
    <3>3. [Me EXCEPT !.status = "done"] \in Txn
      BY <3>2, Literals DEF Txn, Stage, MemoryTyped
    <3> QED BY <2>1, <3>2, <3>3, LogTyped DEF JournalTyped
  <2> QED BY <1>20, <2>1 DEF FinishClear, JournalTyped
<1> QED BY <1>1, <1>2, <1>3, <1>4, <1>5, <1>6, <1>7, <1>8, <1>9, <1>10, <1>11, <1>12,
    <1>13, <1>14, <1>15, <1>16, <1>17, <1>18, <1>19, <1>20 DEF RunStep

LEMMA InstallJournal ==
    ASSUME TInv, InstallStep
    PROVE  JournalTyped' /\ Len(txns) <= Len(txns')
<1> USE DEF TInv
<1>1. CASE InstallPreflight
  BY <1>1 DEF JournalTyped, InstallPreflight, Preflight
<1>2. CASE InstallMutate
  BY <1>2 DEF JournalTyped, InstallMutate, OrAbort, Abort
<1>3. CASE InstallLogCopied
  <2>1. ASSUME WriteTxn([Me EXCEPT !.payload = held, !.declared = NONE])
        PROVE  JournalTyped' /\ Len(txns) <= Len(txns')
    <3>2. Me \in Txn /\ self \in DOMAIN txns
      BY <1>3, MeTyped DEF InstallLogCopied, DrivenInv, Driving, CommandPcs, Early, UndoPcs,
         FinishPcs, JournalTyped
    <3>3. [Me EXCEPT !.payload = held, !.declared = NONE] \in Txn
      BY <3>2, Literals DEF Txn, Stage, MemoryTyped
    <3> QED BY <2>1, <3>2, <3>3, LogTyped DEF JournalTyped
  <2> QED BY <1>3, <2>1 DEF InstallLogCopied, JournalTyped
<1>4. CASE InstallLogPrepared
  <2>1. ASSUME WriteTxn([Me EXCEPT !.stage = "prepared"])
        PROVE  JournalTyped' /\ Len(txns) <= Len(txns')
    <3>2. Me \in Txn /\ self \in DOMAIN txns
      BY <1>4, MeTyped DEF InstallLogPrepared, DrivenInv, Driving, CommandPcs, Early, UndoPcs,
         FinishPcs, JournalTyped
    <3>3. [Me EXCEPT !.stage = "prepared"] \in Txn
      BY <3>2, Literals DEF Txn, Stage, MemoryTyped
    <3> QED BY <2>1, <3>2, <3>3, LogTyped DEF JournalTyped
  <2> QED BY <1>4, <2>1 DEF InstallLogPrepared, JournalTyped, OrAbort, Abort
<1>5. CASE InstallPublish
  BY <1>5 DEF JournalTyped, InstallPublish, OrAbort, Abort
<1>6. CASE InstallReclaim
  BY <1>6 DEF JournalTyped, InstallReclaim
<1>7. CASE \E i \in DOMAIN txns : InstallUndo(i)
  BY <1>7 DEF JournalTyped, InstallUndo, Handle, OrConflict, Conflict, Recovering
<1>8. CASE \E i \in DOMAIN txns : InstallCompensate(i)
  BY <1>8 DEF JournalTyped, InstallCompensate, Handle, OrConflict, Conflict, Recovering
<1>9. CASE InstallUndoRoot
  BY <1>9 DEF JournalTyped, InstallUndoRoot, OrConflict, Conflict
<1>10. CASE InstallUndoLogRoot
  <2>1. ASSUME WriteTxn([Me EXCEPT !.payload = Me.resv, !.resv = NoTree])
        PROVE  JournalTyped' /\ Len(txns) <= Len(txns')
    <3>2. Me \in Txn /\ self \in DOMAIN txns
      BY <1>10, MeTyped DEF InstallUndoLogRoot, DrivenInv, Driving, CommandPcs, Early, UndoPcs,
         FinishPcs, JournalTyped
    <3>3. [Me EXCEPT !.payload = Me.resv, !.resv = NoTree] \in Txn
      BY <3>2, Literals DEF Txn, Stage, MemoryTyped
    <3> QED BY <2>1, <3>2, <3>3, LogTyped DEF JournalTyped
  <2> QED BY <1>10, <2>1 DEF InstallUndoLogRoot, JournalTyped
<1>11. CASE InstallUndoEntries
  <2>1. Me \in Txn /\ self \in DOMAIN txns
    BY <1>11, MeTyped DEF InstallUndoEntries, DrivenInv, Driving, UndoPcs, JournalTyped
  <2>2. CASE UNCHANGED txns
    BY <2>2 DEF JournalTyped
  <2>3. CASE ~UNCHANGED txns
    <3> DEFINE t == staging[Me.name]
               r == [Me EXCEPT !.payload.c = t.c, !.declared = NONE]
    <3>1. Present(Me.payload) /\ Present(t) /\ WriteTxn(r)
      BY <1>11, <2>3 DEF InstallUndoEntries, OrConflict, Conflict
    <3>2. t \in TreeOrNone /\ Me.payload \in TreeOrNone
      BY <2>1 DEF DiskTyped, Txn
    <3>3. [Me.payload EXCEPT !.c = t.c] \in Tree
      BY <3>1, <3>2, TreeParts, TreeHolding
    <3>4. r = [Me EXCEPT !.payload = [Me.payload EXCEPT !.c = t.c], !.declared = NONE]
      BY <2>1 DEF Txn
    <3>5. r \in Txn
      BY <2>1, <3>3, <3>4 DEF Txn, TreeOrNone
    <3> HIDE DEF r
    <3> QED BY <2>1, <3>1, <3>5, LogTyped DEF JournalTyped
  <2> QED BY <2>2, <2>3
<1>12. CASE InstallUndoQuarantine
  BY <1>12 DEF JournalTyped, InstallUndoQuarantine, OrConflict, Conflict
<1>13. CASE InstallUndoArchive
  <2>1. UNCHANGED txns
    BY <1>13, Zenon DEF InstallUndoArchive, ArchivePayload, OrConflict, Conflict
  <2> QED BY <2>1 DEF JournalTyped
<1>14. CASE CompLogStart
  <2>1. ASSUME WriteTxn([Me EXCEPT !.stage = "compensating"])
        PROVE  JournalTyped' /\ Len(txns) <= Len(txns')
    <3>2. Me \in Txn /\ self \in DOMAIN txns
      BY <1>14, MeTyped DEF CompLogStart, DrivenInv, Driving, CommandPcs, Early, UndoPcs,
         FinishPcs, JournalTyped
    <3>3. [Me EXCEPT !.stage = "compensating"] \in Txn
      BY <3>2, Literals DEF Txn, Stage, MemoryTyped
    <3> QED BY <2>1, <3>2, <3>3, LogTyped DEF JournalTyped
  <2> QED BY <1>14, <2>1 DEF CompLogStart, JournalTyped
<1>15. CASE CompQuarantine
  <2>1. UNCHANGED txns
    BY <1>15, Zenon DEF CompQuarantine, OrConflict, Conflict
  <2> QED BY <2>1 DEF JournalTyped
<1>16. CASE CompConfig
  BY <1>16 DEF JournalTyped, CompConfig, RestoreTxnConfig, OrConflict, Conflict
<1>17. CASE CompLogReady
  <2>1. ASSUME WriteTxn([Me EXCEPT !.stage = "compensation-ready"])
        PROVE  JournalTyped' /\ Len(txns) <= Len(txns')
    <3>2. Me \in Txn /\ self \in DOMAIN txns
      BY <1>17, MeTyped DEF CompLogReady, DrivenInv, Driving, CommandPcs, Early, UndoPcs,
         FinishPcs, JournalTyped
    <3>3. [Me EXCEPT !.stage = "compensation-ready"] \in Txn
      BY <3>2, Literals DEF Txn, Stage, MemoryTyped
    <3> QED BY <2>1, <3>2, <3>3, LogTyped DEF JournalTyped
  <2> QED BY <1>17, <2>1 DEF CompLogReady, JournalTyped
<1>18. CASE CompPrepare
  <2>1. UNCHANGED txns
    BY <1>18, Zenon DEF CompPrepare, OrConflict, Conflict
  <2> QED BY <2>1 DEF JournalTyped
<1>19. CASE CompLogTree
  <2>1. ASSUME WriteTxn([Me EXCEPT !.comp = {p.snap : p \in cand}])
        PROVE  JournalTyped' /\ Len(txns) <= Len(txns')
    <3>1. {p.snap : p \in cand} \subseteq Snapshot
      <4>1. \A p \in cand : p.snap \in Snapshot
        BY DEF MemoryTyped
      <4> QED BY <4>1
    <3>2. Me \in Txn /\ self \in DOMAIN txns
      BY <1>19, MeTyped DEF CompLogTree, DrivenInv, Driving, CommandPcs, Early, UndoPcs,
         FinishPcs, JournalTyped
    <3>3. [Me EXCEPT !.comp = {p.snap : p \in cand}] \in Txn
      BY <3>1, <3>2, Literals DEF Txn, Stage, MemoryTyped
    <3> QED BY <2>1, <3>2, <3>3, LogTyped DEF JournalTyped
  <2> QED BY <1>19, <2>1 DEF CompLogTree, JournalTyped, OrConflict, Conflict
<1>20. CASE CompCommit
  BY <1>20 DEF JournalTyped, CompCommit, OrConflict, Conflict
<1>21. CASE CompLogCommitted
  <2>1. ASSUME WriteTxn([Me EXCEPT !.stage = "compensation-committed"])
        PROVE  JournalTyped' /\ Len(txns) <= Len(txns')
    <3>2. Me \in Txn /\ self \in DOMAIN txns
      BY <1>21, MeTyped DEF CompLogCommitted, DrivenInv, Driving, CommandPcs, Early, UndoPcs,
         FinishPcs, JournalTyped
    <3>3. [Me EXCEPT !.stage = "compensation-committed"] \in Txn
      BY <3>2, Literals DEF Txn, Stage, MemoryTyped
    <3> QED BY <2>1, <3>2, <3>3, LogTyped DEF JournalTyped
  <2> QED BY <1>21, <2>1 DEF CompLogCommitted, JournalTyped
<1>22. CASE CompFinish
  <2>1. ASSUME WriteTxn([Me EXCEPT !.stage = "compensation-committed"])
        PROVE  JournalTyped' /\ Len(txns) <= Len(txns')
    <3>2. Me \in Txn /\ self \in DOMAIN txns
      BY <1>22, MeTyped DEF CompFinish, DrivenInv, Driving, CommandPcs, Early, UndoPcs,
         FinishPcs, JournalTyped
    <3>3. [Me EXCEPT !.stage = "compensation-committed"] \in Txn
      BY <3>2, Literals DEF Txn, Stage, MemoryTyped
    <3> QED BY <2>1, <3>2, <3>3, LogTyped DEF JournalTyped
  <2>2. UNCHANGED txns \/ WriteTxn([Me EXCEPT !.stage = "compensation-committed"])
    BY <1>22, Zenon DEF CompFinish, OrConflict, Conflict
  <2> QED BY <2>1, <2>2 DEF JournalTyped
<1>23. CASE CompArchive
  <2>1. UNCHANGED txns
    BY <1>23, Zenon DEF CompArchive, ArchivePayload, OrConflict, Conflict
  <2> QED BY <2>1 DEF JournalTyped
<1> QED BY <1>1, <1>2, <1>3, <1>4, <1>5, <1>6, <1>7, <1>8, <1>9, <1>10, <1>11, <1>12,
    <1>13, <1>14, <1>15, <1>16, <1>17, <1>18, <1>19, <1>20, <1>21, <1>22, <1>23 DEF
    InstallStep

LEMMA RemoveJournal ==
    ASSUME TInv, RemoveStep
    PROVE  JournalTyped' /\ Len(txns) <= Len(txns')
<1> USE DEF TInv
<1>1. CASE RemovePreflight
  BY <1>1 DEF JournalTyped, RemovePreflight, Preflight
<1>2. CASE RemoveMutate
  BY <1>2 DEF JournalTyped, RemoveMutate
<1>3. CASE RemoveLogSnapshot
  <2>1. ASSUME WriteTxn([Me EXCEPT !.payload = held, !.stage = "snapshotted"])
        PROVE  JournalTyped' /\ Len(txns) <= Len(txns')
    <3>2. Me \in Txn /\ self \in DOMAIN txns
      BY <1>3, MeTyped DEF RemoveLogSnapshot, DrivenInv, Driving, CommandPcs, Early, UndoPcs,
         FinishPcs, JournalTyped
    <3>3. [Me EXCEPT !.payload = held, !.stage = "snapshotted"] \in Txn
      BY <3>2, Literals DEF Txn, Stage, MemoryTyped
    <3> QED BY <2>1, <3>2, <3>3, LogTyped DEF JournalTyped
  <2> QED BY <1>3, <2>1 DEF RemoveLogSnapshot, JournalTyped
<1>4. CASE RemoveQuarantine
  BY <1>4 DEF JournalTyped, RemoveQuarantine, OrAbort, Abort
<1>5. CASE RemoveLogQuarantined
  <2>1. ASSUME WriteTxn([Me EXCEPT !.stage = "quarantined"])
        PROVE  JournalTyped' /\ Len(txns) <= Len(txns')
    <3>2. Me \in Txn /\ self \in DOMAIN txns
      BY <1>5, MeTyped DEF RemoveLogQuarantined, DrivenInv, Driving, CommandPcs, Early, UndoPcs,
         FinishPcs, JournalTyped
    <3>3. [Me EXCEPT !.stage = "quarantined"] \in Txn
      BY <3>2, Literals DEF Txn, Stage, MemoryTyped
    <3> QED BY <2>1, <3>2, <3>3, LogTyped DEF JournalTyped
  <2> QED BY <1>5, <2>1 DEF RemoveLogQuarantined, JournalTyped
<1>6. CASE RemoveReclaim
  BY <1>6 DEF JournalTyped, RemoveReclaim, ReclaimStep, AfterReclaim
<1>7. CASE \E i \in DOMAIN txns : RemoveUndo(i)
  BY <1>7 DEF JournalTyped, RemoveUndo, Handle, OrConflict, Conflict, Recovering
<1>8. CASE \E i \in DOMAIN txns : RemoveFinish(i)
  BY <1>8 DEF JournalTyped, RemoveFinish, Handle, OrConflict, Conflict, Recovering
<1>9. CASE RemoveUndoRestore
  <2>1. UNCHANGED txns
    BY <1>9, Zenon DEF RemoveUndoRestore, OrConflict, Conflict
  <2> QED BY <2>1 DEF JournalTyped
<1> QED BY <1>1, <1>2, <1>3, <1>4, <1>5, <1>6, <1>7, <1>8, <1>9 DEF RemoveStep

LEMMA UpdateJournal ==
    ASSUME TInv, UpdateStep
    PROVE  JournalTyped' /\ Len(txns) <= Len(txns')
<1> USE DEF TInv
<1>1. CASE UpdatePreflight
  BY <1>1 DEF JournalTyped, UpdatePreflight, Preflight
<1>2. CASE UpdateMutate
  BY <1>2 DEF JournalTyped, UpdateMutate, OrAbort, Abort
<1>3. CASE UpdateLogSnapshot
  <2>1. ASSUME WriteTxn([Me EXCEPT !.prev = held, !.stage = "snapshotted"])
        PROVE  JournalTyped' /\ Len(txns) <= Len(txns')
    <3>2. Me \in Txn /\ self \in DOMAIN txns
      BY <1>3, MeTyped DEF UpdateLogSnapshot, DrivenInv, Driving, CommandPcs, Early, UndoPcs,
         FinishPcs, JournalTyped
    <3>3. [Me EXCEPT !.prev = held, !.stage = "snapshotted"] \in Txn
      BY <3>2, Literals DEF Txn, Stage, MemoryTyped
    <3> QED BY <2>1, <3>2, <3>3, LogTyped DEF JournalTyped
  <2> QED BY <1>3, <2>1 DEF UpdateLogSnapshot, JournalTyped
<1>4. CASE UpdateLogCopied
  <2>1. ASSUME WriteTxn([Me EXCEPT !.payload = held, !.declared = NONE, !.stage = "staged"])
        PROVE  JournalTyped' /\ Len(txns) <= Len(txns')
    <3>2. Me \in Txn /\ self \in DOMAIN txns
      BY <1>4, MeTyped DEF UpdateLogCopied, DrivenInv, Driving, CommandPcs, Early, UndoPcs,
         FinishPcs, JournalTyped
    <3>3. [Me EXCEPT !.payload = held, !.declared = NONE, !.stage = "staged"] \in Txn
      BY <3>2, Literals DEF Txn, Stage, MemoryTyped
    <3> QED BY <2>1, <3>2, <3>3, LogTyped DEF JournalTyped
  <2> QED BY <1>4, <2>1 DEF UpdateLogCopied, JournalTyped
<1>5. CASE UpdateValidateStaged
  BY <1>5 DEF JournalTyped, UpdateValidateStaged, OrAbort, Abort
<1>6. CASE UpdatePublish
  BY <1>6 DEF JournalTyped, UpdatePublish, Exchange, OrAbort, Abort
<1>7. CASE UpdateLogExchanged
  <2>1. ASSUME WriteTxn([Me EXCEPT !.stage = "exchanged"])
        PROVE  JournalTyped' /\ Len(txns) <= Len(txns')
    <3>2. Me \in Txn /\ self \in DOMAIN txns
      BY <1>7, MeTyped DEF UpdateLogExchanged, DrivenInv, Driving, CommandPcs, Early, UndoPcs,
         FinishPcs, JournalTyped
    <3>3. [Me EXCEPT !.stage = "exchanged"] \in Txn
      BY <3>2, Literals DEF Txn, Stage, MemoryTyped
    <3> QED BY <2>1, <3>2, <3>3, LogTyped DEF JournalTyped
  <2> QED BY <1>7, <2>1 DEF UpdateLogExchanged, JournalTyped
<1>8. CASE UpdateReclaim
  BY <1>8 DEF JournalTyped, UpdateReclaim, ReclaimStep, AfterReclaim
<1>9. CASE \E i \in DOMAIN txns : UpdateUndo(i)
  BY <1>9 DEF JournalTyped, UpdateUndo, Handle, OrConflict, Conflict, Recovering
<1>10. CASE \E i \in DOMAIN txns : UpdateFinish(i)
  BY <1>10 DEF JournalTyped, UpdateFinish, Handle, OrConflict, Conflict, Recovering
<1>11. CASE UpdateUndoExchange
  BY <1>11 DEF JournalTyped, UpdateUndoExchange, Exchange, OrConflict, Conflict
<1>12. CASE UpdateUndoRoot
  BY <1>12 DEF JournalTyped, UpdateUndoRoot, OrConflict, Conflict
<1>13. CASE UpdateUndoDiscard
  BY <1>13 DEF JournalTyped, UpdateUndoDiscard, OrConflict, Conflict
<1> QED BY <1>1, <1>2, <1>3, <1>4, <1>5, <1>6, <1>7, <1>8, <1>9, <1>10, <1>11, <1>12,
    <1>13 DEF UpdateStep

LEMMA RestJournal ==
    ASSUME TInv, BeginCommand \/ BeginRestore \/ Fail \/ Crash \/ GcStep \/ User
    PROVE  JournalTyped' /\ Len(txns) <= Len(txns')
<1> USE DEF TInv
<1>1. CASE BeginCommand
  BY <1>1 DEF JournalTyped, BeginCommand, BeginInstall, BeginRemove, BeginUpdate, Begin
<1>2. CASE BeginRestore
  BY <1>2 DEF JournalTyped, BeginRestore
<1>3. CASE Fail
  BY <1>3 DEF JournalTyped, Fail
<1>4. CASE Crash
  BY <1>4 DEF JournalTyped, Crash
<1>5. CASE GcReclaimLease
  BY <1>5 DEF JournalTyped, GcReclaimLease
<1>6. CASE \E i \in DOMAIN txns : GcPruneRemove(i)
  <2>1. \E i \in DOMAIN txns : Pruned(i) \/ UNCHANGED txns
    BY <1>6 DEF GcPruneRemove, ReclaimThenPrune
  <2> QED BY <2>1, PrunedTyped DEF JournalTyped
<1>7. CASE \E i \in DOMAIN txns : GcPruneUpdate(i)
  <2>1. \E i \in DOMAIN txns : Pruned(i) \/ UNCHANGED txns
    BY <1>7 DEF GcPruneUpdate, ReclaimThenPrune
  <2> QED BY <2>1, PrunedTyped DEF JournalTyped
<1>8. CASE \E i \in DOMAIN txns : GcPruneInstall(i)
  <2>1. \E i \in DOMAIN txns : Pruned(i)
    BY <1>8 DEF GcPruneInstall
  <2> QED BY <2>1, PrunedTyped DEF JournalTyped
<1>9. CASE User
  BY <1>9 DEF JournalTyped, User, UserEdit, UserPlace, UserStage, UserConfig, UserRemove,
     UserCommit,
      UserUnchanged
<1> QED BY <1>1, <1>2, <1>3, <1>4, <1>5, <1>6, <1>7, <1>8, <1>9 DEF GcStep

(* The branch only grows, by one commit at a time.                         *)
Grows == commits' = commits \/ \E c \in Commit : commits' = Append(commits, c)

(* A commit of a well-formed snapshot is one.                              *)
LEMMA CommitTyped ==
    ASSUME NEW kind \in {"op", "recover", "external", "direct"}, NEW op \in Write \cup {NONE},
           NEW n \in Names \cup {NONE}, NEW snap \in Snapshot,
           AppendCommit(CommitMsg(kind, op, n), snap)
    PROVE  Grows
<1>1. [msg |-> CommitMsg(kind, op, n), snap |-> snap] \in Commit
  BY DEF Commit, CommitMsg, Message, Write
<1> QED BY <1>1 DEF AppendCommit, Grows

(* The branch only grows, by well-formed commits: HEAD is never rewritten. *)
LEMMA RunGrows ==
    ASSUME TInv, RunStep
    PROVE  Grows
<1> USE DEF TInv
<1>w. Worktree \in Snapshot
  BY WorktreeTyped DEF DiskTyped
<1>1. CASE Recovered
  BY <1>1, Zenon DEF Grows, Recovered, Exit
<1>2. CASE LoadConfig
  BY <1>2, Zenon DEF Grows, LoadConfig
<1>3. CASE Sweep
  BY <1>3, <1>w, CommitTyped DEF Sweep, Grows, Write
<1>4. CASE StartTxn
  BY <1>4, Zenon DEF Grows, StartTxn
<1>5. CASE ReserveStagedRoot
  BY <1>5, Zenon DEF Grows, ReserveStagedRoot
<1>6. CASE LogReserved
  BY <1>6, Zenon DEF Grows, LogReserved
<1>7. CASE PublishRoot
  BY <1>7, Zenon DEF Grows, PublishRoot, OrAbort, Abort
<1>8. CASE LogRoot
  BY <1>8, Zenon DEF Grows, LogRoot
<1>9. CASE CopyStaged
  BY <1>9, Zenon DEF Grows, CopyStaged, OrAbort, Abort
<1>10. CASE SaveConfig
  BY <1>10, Zenon DEF Grows, SaveConfig, OrAbort, Abort
<1>11. CASE LogSaved
  BY <1>11, Zenon DEF Grows, LogSaved
<1>12. CASE LogPublished
  BY <1>12, Zenon DEF Grows, LogPublished
<1>13. CASE PrepareCommit
  BY <1>13, Zenon DEF Grows, PrepareCommit
<1>14. CASE ValidatePrepared
  BY <1>14, Zenon DEF Grows, ValidatePrepared, OrAbort, Abort
<1>15. CASE LogTree
  BY <1>15, Zenon DEF Grows, LogTree
<1>16. CASE CommitPrepared
  <2>1. CASE Abort
    BY <2>1 DEF Abort, Grows
  <2>2. CASE ~Abort
    <3>1. PICK p \in cand
          : UNCHANGED commits \/ AppendCommit(CommitMsg("op", cmd.op, cmd.name), p.snap)
      BY <1>16, <2>2 DEF CommitPrepared, OrAbort
    <3>2. p.snap \in Snapshot /\ cmd.op \in Write /\ cmd.name \in Names
      BY <1>16 DEF CommitPrepared, MemoryTyped, CommandInv, CommandPcs, Write
    <3> QED BY <3>1, <3>2, CommitTyped DEF Grows
  <2> QED BY <2>1, <2>2
<1>17. CASE ClearTxn
  BY <1>17, Zenon DEF Grows, ClearTxn
<1>18. CASE UndoConfig
  BY <1>18, Zenon DEF Grows, UndoConfig, RestoreTxnConfig, OrConflict, Conflict, Exit
<1>19. CASE UndoClear
  BY <1>19, Zenon DEF Grows, UndoClear
<1>20. CASE FinishClear
  BY <1>20, Zenon DEF Grows, FinishClear
<1> QED BY <1>1, <1>2, <1>3, <1>4, <1>5, <1>6, <1>7, <1>8, <1>9, <1>10, <1>11, <1>12,
    <1>13, <1>14, <1>15, <1>16, <1>17, <1>18, <1>19, <1>20 DEF RunStep

LEMMA InstallGrows ==
    ASSUME TInv, InstallStep
    PROVE  Grows
<1> USE DEF TInv
<1>w. Worktree \in Snapshot
  BY WorktreeTyped DEF DiskTyped
<1>1. CASE InstallPreflight
  BY <1>1, Zenon DEF Grows, InstallPreflight, Preflight, Exit
<1>2. CASE InstallMutate
  BY <1>2, Zenon DEF Grows, InstallMutate, OrAbort, Abort
<1>3. CASE InstallLogCopied
  BY <1>3, Zenon DEF Grows, InstallLogCopied
<1>4. CASE InstallLogPrepared
  BY <1>4, Zenon DEF Grows, InstallLogPrepared, OrAbort, Abort
<1>5. CASE InstallPublish
  BY <1>5, Zenon DEF Grows, InstallPublish, OrAbort, Abort
<1>6. CASE InstallReclaim
  BY <1>6, Zenon DEF Grows, InstallReclaim, Exit
<1>7. CASE \E i \in DOMAIN txns : InstallUndo(i)
  BY <1>7, Zenon DEF Grows, InstallUndo, Handle, OrConflict, Conflict, Exit, Recovering
<1>8. CASE \E i \in DOMAIN txns : InstallCompensate(i)
  BY <1>8, Zenon DEF Grows, InstallCompensate, Handle, OrConflict, Conflict, Exit, Recovering
<1>9. CASE InstallUndoRoot
  BY <1>9, Zenon DEF Grows, InstallUndoRoot, OrConflict, Conflict, Exit
<1>10. CASE InstallUndoLogRoot
  BY <1>10, Zenon DEF Grows, InstallUndoLogRoot
<1>11. CASE InstallUndoEntries
  BY <1>11, Zenon DEF Grows, InstallUndoEntries, OrConflict, Conflict, Exit
<1>12. CASE InstallUndoQuarantine
  BY <1>12, Zenon DEF Grows, InstallUndoQuarantine, OrConflict, Conflict, Exit
<1>13. CASE InstallUndoArchive
  BY <1>13, Zenon DEF Grows, InstallUndoArchive, ArchivePayload, OrConflict, Conflict, Exit
<1>14. CASE CompLogStart
  BY <1>14, Zenon DEF Grows, CompLogStart
<1>15. CASE CompQuarantine
  BY <1>15, Zenon DEF Grows, CompQuarantine, OrConflict, Conflict, Exit
<1>16. CASE CompConfig
  BY <1>16, Zenon DEF Grows, CompConfig, RestoreTxnConfig, OrConflict, Conflict, Exit
<1>17. CASE CompLogReady
  BY <1>17, Zenon DEF Grows, CompLogReady
<1>18. CASE CompPrepare
  BY <1>18, Zenon DEF Grows, CompPrepare, OrConflict, Conflict, Exit
<1>19. CASE CompLogTree
  BY <1>19, Zenon DEF Grows, CompLogTree, OrConflict, Conflict, Exit
<1>20. CASE CompCommit
  <2>1. CASE Conflict
    BY <2>1 DEF Conflict, Grows
  <2>2. CASE ~Conflict
    <3>1. PICK p \in cand : AppendCommit(CommitMsg("recover", Me.op, Me.name), p.snap)
      BY <1>20, <2>2 DEF CompCommit, OrConflict
    <3>2. Me \in Txn
      BY <1>20, MeTyped DEF CompCommit, DrivenInv, Driving, FinishPcs, JournalTyped
    <3>3. p.snap \in Snapshot /\ Me.op \in Write /\ Me.name \in Names
      BY <3>2 DEF MemoryTyped, Txn, Write
    <3> QED BY <3>1, <3>3, CommitTyped
  <2> QED BY <2>1, <2>2
<1>21. CASE CompLogCommitted
  BY <1>21, Zenon DEF Grows, CompLogCommitted
<1>22. CASE CompFinish
  BY <1>22, Zenon DEF Grows, CompFinish, OrConflict, Conflict, Exit
<1>23. CASE CompArchive
  BY <1>23, Zenon DEF Grows, CompArchive, ArchivePayload, OrConflict, Conflict, Exit
<1> QED BY <1>1, <1>2, <1>3, <1>4, <1>5, <1>6, <1>7, <1>8, <1>9, <1>10, <1>11, <1>12,
    <1>13, <1>14, <1>15, <1>16, <1>17, <1>18, <1>19, <1>20, <1>21, <1>22, <1>23 DEF
    InstallStep

LEMMA RemoveGrows ==
    ASSUME TInv, RemoveStep
    PROVE  Grows
<1> USE DEF TInv
<1>w. Worktree \in Snapshot
  BY WorktreeTyped DEF DiskTyped
<1>1. CASE RemovePreflight
  BY <1>1, Zenon DEF Grows, RemovePreflight, Preflight, Exit
<1>2. CASE RemoveMutate
  BY <1>2, Zenon DEF Grows, RemoveMutate
<1>3. CASE RemoveLogSnapshot
  BY <1>3, Zenon DEF Grows, RemoveLogSnapshot
<1>4. CASE RemoveQuarantine
  BY <1>4, Zenon DEF Grows, RemoveQuarantine, OrAbort, Abort
<1>5. CASE RemoveLogQuarantined
  BY <1>5, Zenon DEF Grows, RemoveLogQuarantined
<1>6. CASE RemoveReclaim
  BY <1>6, Zenon DEF Grows, RemoveReclaim, ReclaimStep, AfterReclaim, Exit
<1>7. CASE \E i \in DOMAIN txns : RemoveUndo(i)
  BY <1>7, Zenon DEF Grows, RemoveUndo, Handle, OrConflict, Conflict, Exit, Recovering
<1>8. CASE \E i \in DOMAIN txns : RemoveFinish(i)
  BY <1>8, Zenon DEF Grows, RemoveFinish, Handle, OrConflict, Conflict, Exit, Recovering
<1>9. CASE RemoveUndoRestore
  BY <1>9, Zenon DEF Grows, RemoveUndoRestore, OrConflict, Conflict, Exit
<1> QED BY <1>1, <1>2, <1>3, <1>4, <1>5, <1>6, <1>7, <1>8, <1>9 DEF RemoveStep

LEMMA UpdateGrows ==
    ASSUME TInv, UpdateStep
    PROVE  Grows
<1> USE DEF TInv
<1>w. Worktree \in Snapshot
  BY WorktreeTyped DEF DiskTyped
<1>1. CASE UpdatePreflight
  BY <1>1, Zenon DEF Grows, UpdatePreflight, Preflight, Exit
<1>2. CASE UpdateMutate
  BY <1>2, Zenon DEF Grows, UpdateMutate, OrAbort, Abort
<1>3. CASE UpdateLogSnapshot
  BY <1>3, Zenon DEF Grows, UpdateLogSnapshot
<1>4. CASE UpdateLogCopied
  BY <1>4, Zenon DEF Grows, UpdateLogCopied
<1>5. CASE UpdateValidateStaged
  BY <1>5, Zenon DEF Grows, UpdateValidateStaged, OrAbort, Abort
<1>6. CASE UpdatePublish
  BY <1>6, Zenon DEF Grows, UpdatePublish, Exchange, OrAbort, Abort
<1>7. CASE UpdateLogExchanged
  BY <1>7, Zenon DEF Grows, UpdateLogExchanged
<1>8. CASE UpdateReclaim
  BY <1>8, Zenon DEF Grows, UpdateReclaim, ReclaimStep, AfterReclaim, Exit
<1>9. CASE \E i \in DOMAIN txns : UpdateUndo(i)
  BY <1>9, Zenon DEF Grows, UpdateUndo, Handle, OrConflict, Conflict, Exit, Recovering
<1>10. CASE \E i \in DOMAIN txns : UpdateFinish(i)
  BY <1>10, Zenon DEF Grows, UpdateFinish, Handle, OrConflict, Conflict, Exit, Recovering
<1>11. CASE UpdateUndoExchange
  BY <1>11, Zenon DEF Grows, UpdateUndoExchange, Exchange, OrConflict, Conflict, Exit
<1>12. CASE UpdateUndoRoot
  BY <1>12, Zenon DEF Grows, UpdateUndoRoot, OrConflict, Conflict, Exit
<1>13. CASE UpdateUndoDiscard
  BY <1>13, Zenon DEF Grows, UpdateUndoDiscard, OrConflict, Conflict, Exit
<1> QED BY <1>1, <1>2, <1>3, <1>4, <1>5, <1>6, <1>7, <1>8, <1>9, <1>10, <1>11, <1>12,
    <1>13 DEF UpdateStep

LEMMA RestGrows ==
    ASSUME TInv, BeginCommand \/ BeginRestore \/ Fail \/ Crash \/ GcStep \/ User
    PROVE  Grows
<1> USE DEF TInv
<1>w. Worktree \in Snapshot
  BY WorktreeTyped DEF DiskTyped
<1>1. CASE BeginCommand
  BY <1>1, Zenon DEF Grows, BeginCommand, BeginInstall, BeginRemove, BeginUpdate, Begin
<1>2. CASE BeginRestore
  BY <1>2, Zenon DEF Grows, BeginRestore
<1>3. CASE Fail
  BY <1>3, Zenon DEF Grows, Fail
<1>4. CASE Crash
  BY <1>4, Zenon DEF Grows, Crash, Exit
<1>5. CASE GcReclaimLease
  BY <1>5, Zenon DEF Grows, GcReclaimLease
<1>6. CASE \E i \in DOMAIN txns : GcPruneRemove(i)
  BY <1>6, Zenon DEF Grows, GcPruneRemove
<1>7. CASE \E i \in DOMAIN txns : GcPruneUpdate(i)
  BY <1>7, Zenon DEF Grows, GcPruneUpdate
<1>8. CASE \E i \in DOMAIN txns : GcPruneInstall(i)
  BY <1>8, Zenon DEF Grows, GcPruneInstall
<1>9. CASE User
  <2>1. CASE UserCommit
    BY <2>1, <1>w, CommitTyped DEF UserCommit, Write
  <2>2. CASE UNCHANGED commits
    BY <2>2 DEF Grows
  <2> QED BY <1>9, <2>1, <2>2 DEF User, UserEdit, UserPlace, UserStage, UserConfig, UserRemove
<1> QED BY <1>1, <1>2, <1>3, <1>4, <1>5, <1>6, <1>7, <1>8, <1>9 DEF GcStep

(* A process that ends forgets everything.                                 *)
LEMMA Ended ==
    ASSUME NEW how \in {"none", "ok", "refused", "rolled back", "conflict", "crashed"}, Exit(how)
    PROVE  MemoryTyped'
<1>1. NoCommand \in Command
  BY DEF NoCommand, Command
<1>2. [reg |-> [n \in Names |-> NONE], note |-> NONE] \in Config
  BY DEF Config
<1> QED BY <1>1, <1>2, Literals DEF Exit, MemoryTyped

(* So does a handler that meets a conflict; one that goes on only takes    *)
(* the config and a tree from disk.                                        *)
LEMMA HandledTyped ==
    ASSUME TInv, NEW i, NEW ok, NEW next, Handle(i, ok, next)
    PROVE  MemoryTyped'
<1>1. \/ Conflict
      \/ seen' = config /\ UNCHANGED <<cmd, mode, held, cand, last>>
  BY Zenon DEF Handle, OrConflict
<1>2. CASE Conflict
  BY <1>2, Ended DEF Conflict
<1> QED BY <1>1, <1>2 DEF TInv, MemoryTyped, DiskTyped

(* What a process takes from disk or from its arguments is well formed.    *)
LEMMA RunMemory ==
    ASSUME TInv, RunStep
    PROVE  MemoryTyped'
<1> USE DEF TInv
<1>1. CASE Recovered
  BY <1>1, Ended DEF MemoryTyped, local, Recovered
<1>2. CASE LoadConfig
  BY <1>2 DEF LoadConfig, DiskTyped, MemoryTyped
<1>3. CASE Sweep
  BY <1>3 DEF MemoryTyped, local, Sweep
<1>4. CASE StartTxn
  BY <1>4 DEF MemoryTyped, local, StartTxn
<1>5. CASE ReserveStagedRoot
  <2>1. held' \in TreeOrNone
    BY <1>5, Literals, ConstantsAssumption DEF ReserveStagedRoot, DiskTyped, TreeOrNone, Tree
  <2> QED BY <1>5, <2>1 DEF ReserveStagedRoot, MemoryTyped
<1>6. CASE LogReserved
  BY <1>6 DEF MemoryTyped, local, LogReserved
<1>7. CASE PublishRoot
  BY <1>7 DEF MemoryTyped, local, PublishRoot, OrAbort, Abort
<1>8. CASE LogRoot
  BY <1>8 DEF MemoryTyped, local, LogRoot
<1>9. CASE CopyStaged
  <2>1. CASE Abort
    BY <2>1 DEF Abort, MemoryTyped
  <2>2. CASE ~Abort
    <3>1. PICK k \in {EMPTY, TORN}, c \in {TORN, cmd.c} :
             /\ staging[cmd.name] = [held EXCEPT !.c = k]
             /\ held' = IF c = TORN THEN held ELSE [held EXCEPT !.c = c]
             /\ UNCHANGED <<cmd, mode, seen, cand, last>>
      BY <1>9, <2>2 DEF CopyStaged, OrAbort
    <3>2. cmd.name \in Names /\ c \in Contents
      BY <1>9, Literals DEF CopyStaged, CommandInv, CommandPcs, Staging, Write
    <3>3. staging[cmd.name] \in TreeOrNone /\ held \in TreeOrNone
      BY <3>2 DEF DiskTyped, MemoryTyped
    <3>4. held \in Tree
      BY <3>1, <3>3 DEF TreeOrNone, Tree, NoTree, NONE, EMPTY, TORN
    <3> QED BY <3>1, <3>2, <3>4, TreeHolding DEF MemoryTyped, TreeOrNone
  <2> QED BY <2>1, <2>2
<1>10. CASE SaveConfig
  BY <1>10 DEF MemoryTyped, local, SaveConfig, OrAbort, Abort
<1>11. CASE LogSaved
  BY <1>11 DEF MemoryTyped, local, LogSaved
<1>12. CASE LogPublished
  BY <1>12 DEF MemoryTyped, local, LogPublished
<1>13. CASE PrepareCommit
  <2>1. HEAD \in Nat /\ Worktree \in Snapshot
    BY WorktreeTyped DEF BranchTyped, HEAD, DiskTyped
  <2>2. [parent |-> HEAD, snap |-> Worktree] \in [parent : Nat, snap : Snapshot]
    BY <2>1
  <2> QED BY <1>13, <2>2 DEF PrepareCommit, MemoryTyped
<1>14. CASE ValidatePrepared
  BY <1>14 DEF MemoryTyped, local, ValidatePrepared, OrAbort, Abort
<1>15. CASE LogTree
  BY <1>15 DEF MemoryTyped, local, LogTree
<1>16. CASE CommitPrepared
  BY <1>16 DEF MemoryTyped, local, CommitPrepared, OrAbort, Abort
<1>17. CASE ClearTxn
  BY <1>17 DEF MemoryTyped, local, ClearTxn
<1>18. CASE UndoConfig
  BY <1>18, Ended DEF MemoryTyped, local, UndoConfig, RestoreTxnConfig, OrConflict, Conflict
<1>19. CASE UndoClear
  BY <1>19 DEF MemoryTyped, local, UndoClear
<1>20. CASE FinishClear
  BY <1>20 DEF MemoryTyped, local, FinishClear
<1> QED BY <1>1, <1>2, <1>3, <1>4, <1>5, <1>6, <1>7, <1>8, <1>9, <1>10, <1>11, <1>12,
    <1>13, <1>14, <1>15, <1>16, <1>17, <1>18, <1>19, <1>20 DEF RunStep

LEMMA InstallMemory ==
    ASSUME TInv, InstallStep
    PROVE  MemoryTyped'
<1> USE DEF TInv
<1>1. CASE InstallPreflight
  BY <1>1, Ended DEF MemoryTyped, local, InstallPreflight, Preflight
<1>2. CASE InstallMutate
  BY <1>2 DEF MemoryTyped, local, InstallMutate, OrAbort, Abort
<1>3. CASE InstallLogCopied
  BY <1>3 DEF MemoryTyped, local, InstallLogCopied
<1>4. CASE InstallLogPrepared
  BY <1>4 DEF MemoryTyped, local, InstallLogPrepared, OrAbort, Abort
<1>5. CASE InstallPublish
  BY <1>5 DEF MemoryTyped, local, InstallPublish, OrAbort, Abort
<1>6. CASE InstallReclaim
  BY <1>6, Ended DEF MemoryTyped, local, InstallReclaim
<1>7. CASE \E i \in DOMAIN txns : InstallUndo(i)
  BY <1>7, HandledTyped, Zenon DEF InstallUndo
<1>8. CASE \E i \in DOMAIN txns : InstallCompensate(i)
  BY <1>8, HandledTyped, Zenon DEF InstallCompensate
<1>9. CASE InstallUndoRoot
  BY <1>9, Ended DEF MemoryTyped, local, InstallUndoRoot, OrConflict, Conflict
<1>10. CASE InstallUndoLogRoot
  BY <1>10 DEF MemoryTyped, local, InstallUndoLogRoot
<1>11. CASE InstallUndoEntries
  BY <1>11, Ended DEF MemoryTyped, local, InstallUndoEntries, OrConflict, Conflict
<1>12. CASE InstallUndoQuarantine
  BY <1>12, Ended DEF MemoryTyped, local, InstallUndoQuarantine, OrConflict, Conflict
<1>13. CASE InstallUndoArchive
  BY <1>13, Ended DEF MemoryTyped, local, InstallUndoArchive, ArchivePayload, OrConflict, Conflict
<1>14. CASE CompLogStart
  BY <1>14 DEF MemoryTyped, local, CompLogStart
<1>15. CASE CompQuarantine
  <2>1. ExpectedConfig(Me) \in Config
    BY <1>15, MeTyped, ExpectedTyped DEF CompQuarantine, DrivenInv, Driving, FinishPcs, JournalTyped
  <2>2. CASE Conflict
    BY <2>2, Ended DEF Conflict
  <2>3. CASE ~Conflict
    <3>1. /\ seen' \in {config, ExpectedConfig(Me)}
          /\ UNCHANGED <<cmd, mode, held, cand, last>>
      BY <1>15, <2>3 DEF CompQuarantine, OrConflict
    <3> QED BY <2>1, <3>1 DEF DiskTyped, MemoryTyped
  <2> QED BY <2>2, <2>3
<1>16. CASE CompConfig
  BY <1>16, Ended DEF MemoryTyped, local, CompConfig, RestoreTxnConfig, OrConflict, Conflict
<1>17. CASE CompLogReady
  BY <1>17 DEF MemoryTyped, local, CompLogReady
<1>18. CASE CompPrepare
  <2>1. HEAD \in Nat /\ Worktree \in Snapshot
    BY WorktreeTyped DEF BranchTyped, HEAD, DiskTyped
  <2>2. CASE Conflict
    BY <2>2, Ended DEF Conflict
  <2>3. [parent |-> HEAD, snap |-> Worktree] \in [parent : Nat, snap : Snapshot]
    BY <2>1
  <2>4. CASE ~Conflict
    <3>1. /\ cand' = {[parent |-> HEAD, snap |-> Worktree]}
          /\ UNCHANGED <<cmd, mode, held, seen, last>>
      BY <1>18, <2>4, Zenon DEF CompPrepare, OrConflict
    <3> QED BY <3>1, <2>3 DEF MemoryTyped
  <2> QED BY <2>2, <2>4
<1>19. CASE CompLogTree
  BY <1>19, Ended DEF MemoryTyped, local, CompLogTree, OrConflict, Conflict
<1>20. CASE CompCommit
  BY <1>20, Ended DEF MemoryTyped, local, CompCommit, OrConflict, Conflict
<1>21. CASE CompLogCommitted
  BY <1>21 DEF MemoryTyped, local, CompLogCommitted
<1>22. CASE CompFinish
  BY <1>22, Ended DEF MemoryTyped, local, CompFinish, OrConflict, Conflict
<1>23. CASE CompArchive
  BY <1>23, Ended DEF MemoryTyped, local, CompArchive, ArchivePayload, OrConflict, Conflict
<1> QED BY <1>1, <1>2, <1>3, <1>4, <1>5, <1>6, <1>7, <1>8, <1>9, <1>10, <1>11, <1>12,
    <1>13, <1>14, <1>15, <1>16, <1>17, <1>18, <1>19, <1>20, <1>21, <1>22, <1>23 DEF
    InstallStep

LEMMA RemoveMemory ==
    ASSUME TInv, RemoveStep
    PROVE  MemoryTyped'
<1> USE DEF TInv
<1>1. CASE RemovePreflight
  BY <1>1, Ended DEF MemoryTyped, local, RemovePreflight, Preflight
<1>2. CASE RemoveMutate
  <2>1. cmd.name \in Names
    BY <1>2 DEF RemoveMutate, CommandInv, Write
  <2> QED BY <1>2, <2>1 DEF RemoveMutate, DiskTyped, MemoryTyped
<1>3. CASE RemoveLogSnapshot
  BY <1>3 DEF MemoryTyped, local, RemoveLogSnapshot
<1>4. CASE RemoveQuarantine
  BY <1>4 DEF MemoryTyped, local, RemoveQuarantine, OrAbort, Abort
<1>5. CASE RemoveLogQuarantined
  BY <1>5 DEF MemoryTyped, local, RemoveLogQuarantined
<1>6. CASE RemoveReclaim
  BY <1>6, Ended DEF MemoryTyped, local, RemoveReclaim, ReclaimStep, AfterReclaim
<1>7. CASE \E i \in DOMAIN txns : RemoveUndo(i)
  BY <1>7, HandledTyped, Zenon DEF RemoveUndo
<1>8. CASE \E i \in DOMAIN txns : RemoveFinish(i)
  BY <1>8, HandledTyped, Zenon DEF RemoveFinish
<1>9. CASE RemoveUndoRestore
  BY <1>9, Ended DEF MemoryTyped, local, RemoveUndoRestore, OrConflict, Conflict
<1> QED BY <1>1, <1>2, <1>3, <1>4, <1>5, <1>6, <1>7, <1>8, <1>9 DEF RemoveStep

LEMMA UpdateMemory ==
    ASSUME TInv, UpdateStep
    PROVE  MemoryTyped'
<1> USE DEF TInv
<1>1. CASE UpdatePreflight
  BY <1>1, Ended DEF MemoryTyped, local, UpdatePreflight, Preflight
<1>2. CASE UpdateMutate
  <2>1. cmd.name \in Names
    BY <1>2 DEF UpdateMutate, CommandInv, Write
  <2> QED BY <1>2, <2>1 DEF UpdateMutate, OrAbort, Abort, DiskTyped, MemoryTyped
<1>3. CASE UpdateLogSnapshot
  BY <1>3 DEF MemoryTyped, local, UpdateLogSnapshot
<1>4. CASE UpdateLogCopied
  BY <1>4 DEF MemoryTyped, local, UpdateLogCopied
<1>5. CASE UpdateValidateStaged
  BY <1>5 DEF MemoryTyped, local, UpdateValidateStaged, OrAbort, Abort
<1>6. CASE UpdatePublish
  BY <1>6 DEF MemoryTyped, local, UpdatePublish, Exchange, OrAbort, Abort
<1>7. CASE UpdateLogExchanged
  BY <1>7 DEF MemoryTyped, local, UpdateLogExchanged
<1>8. CASE UpdateReclaim
  BY <1>8, Ended DEF MemoryTyped, local, UpdateReclaim, ReclaimStep, AfterReclaim
<1>9. CASE \E i \in DOMAIN txns : UpdateUndo(i)
  BY <1>9, HandledTyped, Zenon DEF UpdateUndo
<1>10. CASE \E i \in DOMAIN txns : UpdateFinish(i)
  BY <1>10, HandledTyped, Zenon DEF UpdateFinish
<1>11. CASE UpdateUndoExchange
  BY <1>11, Ended DEF MemoryTyped, local, UpdateUndoExchange, Exchange, OrConflict, Conflict
<1>12. CASE UpdateUndoRoot
  BY <1>12, Ended DEF MemoryTyped, local, UpdateUndoRoot, OrConflict, Conflict
<1>13. CASE UpdateUndoDiscard
  BY <1>13, Ended DEF MemoryTyped, local, UpdateUndoDiscard, OrConflict, Conflict
<1> QED BY <1>1, <1>2, <1>3, <1>4, <1>5, <1>6, <1>7, <1>8, <1>9, <1>10, <1>11, <1>12,
    <1>13 DEF UpdateStep

LEMMA RestMemory ==
    ASSUME TInv, BeginCommand \/ BeginRestore \/ Fail \/ Crash \/ GcStep \/ User
    PROVE  MemoryTyped'
<1> USE DEF TInv
<1>1. CASE BeginCommand
  <2>1. \E op \in Write, n \in Names, c \in Upstream \cup {NONE}, force \in BOOLEAN
          : Begin(op, n, c, force)
    BY <1>1 DEF BeginCommand, BeginInstall, BeginRemove, BeginUpdate, Write
  <2>2. PICK op \in Write, n \in Names, c \in Upstream \cup {NONE}, force \in BOOLEAN
          : Begin(op, n, c, force)
    BY <2>1
  <2>3. [op |-> op, name |-> n, c |-> c, force |-> force] \in Command
    BY Literals DEF Write, Command
  <2>4. /\ cmd' = [op |-> op, name |-> n, c |-> c, force |-> force] /\ last' = "none"
        /\ UNCHANGED <<mode, held, seen, cand>>
    BY <2>2 DEF Begin
  <2> QED BY <2>3, <2>4 DEF MemoryTyped
<1>2. CASE BeginRestore
  <2>1. cmd' \in Command
    BY <1>2, Literals DEF BeginRestore, NoCommand, Command
  <2> QED BY <1>2, <2>1 DEF BeginRestore, MemoryTyped
<1>3. CASE Fail
  BY <1>3 DEF MemoryTyped, local, Fail
<1>4. CASE Crash
  BY <1>4, Ended DEF MemoryTyped, local, Crash
<1>5. CASE GcReclaimLease
  BY <1>5 DEF MemoryTyped, local, GcReclaimLease
<1>6. CASE \E i \in DOMAIN txns : GcPruneRemove(i)
  BY <1>6 DEF MemoryTyped, local, GcPruneRemove, ReclaimThenPrune, Pruned
<1>7. CASE \E i \in DOMAIN txns : GcPruneUpdate(i)
  BY <1>7 DEF MemoryTyped, local, GcPruneUpdate, ReclaimThenPrune, Pruned
<1>8. CASE \E i \in DOMAIN txns : GcPruneInstall(i)
  BY <1>8 DEF MemoryTyped, local, GcPruneInstall, Pruned
<1>9. CASE User
  BY <1>9 DEF MemoryTyped, local, User, UserEdit, UserPlace, UserStage, UserConfig, UserRemove,
     UserCommit, UserUnchanged
<1> QED BY <1>1, <1>2, <1>3, <1>4, <1>5, <1>6, <1>7, <1>8, <1>9 DEF GcStep

(* An idle process and one that turns to recovery owe nothing more.        *)
LEMMA EndedControl ==
    ASSUME NEW how, Exit(how), Len(txns') \in Nat
    PROVE  CommandInv' /\ DrivenInv'
BY DEF Exit, NoCommand, NONE, CommandInv, DrivenInv, Places, CommandPcs, UndoPcs, FinishPcs,
   Driving,
       Early, Staging, Write

LEMMA TurnedControl ==
    ASSUME CommandInv, pc # "idle", pc' = "recover", self' = 0, UNCHANGED cmd, Len(txns') \in Nat
    PROVE  CommandInv' /\ DrivenInv'
BY DEF CommandInv, DrivenInv, Places, CommandPcs, UndoPcs, FinishPcs, Driving, Early, Staging

(* Where each step goes, and that a step which reads the record of its own *)
(* transaction has one.                                                    *)
LEMMA RunControl ==
    ASSUME TInv, RunStep
    PROVE  CommandInv' /\ DrivenInv'
<1> USE DEF TInv
<1>0. /\ Len(txns) \in Nat /\ Len(txns') \in Nat /\ Len(txns) <= Len(txns')
      /\ DOMAIN txns = 1 .. Len(txns) /\ DOMAIN txns' = 1 .. Len(txns')
  BY RunJournal DEF JournalTyped
<1>1. CASE Recovered
  <2>1. \/ Exit("rolled back") \/ Exit("ok")
        \/ cmd.op # "restore" /\ pc = "recover" /\ pc' = "load" /\ UNCHANGED <<cmd, self>>
    BY <1>1, Zenon DEF Recovered, Goto, local
  <2>2. CASE Exit("rolled back") \/ Exit("ok")
    BY <2>2, <1>0, EndedControl
  <2>3. CASE cmd.op # "restore" /\ pc = "recover" /\ pc' = "load" /\ UNCHANGED <<cmd, self>>
    BY <2>3, <1>0 DEF CommandInv, DrivenInv, Places, CommandPcs, UndoPcs, FinishPcs, Driving,
       Early, Staging
  <2> QED BY <2>1, <2>2, <2>3
<1>2. CASE LoadConfig
  <2>1. pc = "load" /\ pc' = "sweep" /\ UNCHANGED <<cmd, self>>
    BY <1>2, Zenon DEF LoadConfig, Goto, local
  <2> QED BY <2>1, <1>0 DEF CommandInv, DrivenInv, Places, CommandPcs, UndoPcs, FinishPcs,
             Driving, Early, Staging
<1>3. CASE Sweep
  <2>1. pc = "sweep" /\ pc' = "preflight" /\ UNCHANGED <<cmd, self>>
    BY <1>3, Zenon DEF Sweep, Goto, local
  <2> QED BY <2>1, <1>0 DEF CommandInv, DrivenInv, Places, CommandPcs, UndoPcs, FinishPcs,
             Driving, Early, Staging
<1>4. CASE StartTxn
  <2>1. Len(txns') = Len(txns) + 1
    BY <1>4 DEF StartTxn, JournalTyped
  <2> QED BY <1>4, <2>1, <1>0 DEF CommandInv, DrivenInv, Places, CommandPcs, UndoPcs, FinishPcs,
             Driving, Early, Staging, StartTxn, Goto
<1>5. CASE ReserveStagedRoot
  <2>1. pc = "reserve" /\ pc' = "log-reserved" /\ UNCHANGED <<cmd, self>>
    BY <1>5, Zenon DEF ReserveStagedRoot, Goto, local
  <2> QED BY <2>1, <1>0 DEF CommandInv, DrivenInv, Places, CommandPcs, UndoPcs, FinishPcs,
             Driving, Early, Staging
<1>6. CASE LogReserved
  <2>1. pc = "log-reserved" /\ pc' = "publish-root" /\ UNCHANGED <<cmd, self>>
    BY <1>6, Zenon DEF LogReserved, Goto, local
  <2> QED BY <2>1, <1>0 DEF CommandInv, DrivenInv, Places, CommandPcs, UndoPcs, FinishPcs,
             Driving, Early, Staging
<1>7. CASE PublishRoot
  <2>1. pc = "publish-root"
    BY <1>7, Zenon DEF PublishRoot
  <2>2. Abort \/ (pc' = "log-root" /\ UNCHANGED <<cmd, self>>)
    BY <1>7, Zenon DEF PublishRoot, OrAbort, Goto, local
  <2> QED BY <2>1, <2>2, <1>0, TurnedControl DEF Abort, Goto, CommandInv, DrivenInv, Places,
             CommandPcs, UndoPcs, FinishPcs, Driving, Early, Staging
<1>8. CASE LogRoot
  <2>1. pc = "log-root" /\ pc' = "copy" /\ UNCHANGED <<cmd, self>>
    BY <1>8, Zenon DEF LogRoot, Goto, local
  <2> QED BY <2>1, <1>0 DEF CommandInv, DrivenInv, Places, CommandPcs, UndoPcs, FinishPcs,
             Driving, Early, Staging
<1>9. CASE CopyStaged
  <2>1. pc \in {"copy", "fill"}
    BY <1>9, Zenon DEF CopyStaged
  <2>2. Abort \/ (pc' \in {"fill", "log-copied"} /\ UNCHANGED <<cmd, self>>)
    BY <1>9, Zenon DEF CopyStaged, OrAbort, Goto, local
  <2> QED BY <2>1, <2>2, <1>0, TurnedControl DEF Abort, Goto, CommandInv, DrivenInv, Places,
             CommandPcs, UndoPcs, FinishPcs, Driving, Early, Staging
<1>10. CASE SaveConfig
  <2>1. pc = "save"
    BY <1>10, Zenon DEF SaveConfig
  <2>2. Abort \/ (pc' = "log-saved" /\ UNCHANGED <<cmd, self>>)
    BY <1>10, Zenon DEF SaveConfig, OrAbort, Goto, local
  <2> QED BY <2>1, <2>2, <1>0, TurnedControl DEF Abort, Goto, CommandInv, DrivenInv, Places,
             CommandPcs, UndoPcs, FinishPcs, Driving, Early, Staging
<1>11. CASE LogSaved
  <2>1. pc = "log-saved" /\ pc' \in {"prepare", "publish"} /\ UNCHANGED <<cmd, self>>
    BY <1>11, Zenon DEF LogSaved, Goto, local
  <2> QED BY <2>1, <1>0 DEF CommandInv, DrivenInv, Places, CommandPcs, UndoPcs, FinishPcs,
             Driving, Early, Staging
<1>12. CASE LogPublished
  <2>1. pc = "log-published" /\ pc' = "prepare" /\ UNCHANGED <<cmd, self>>
    BY <1>12, Zenon DEF LogPublished, Goto, local
  <2> QED BY <2>1, <1>0 DEF CommandInv, DrivenInv, Places, CommandPcs, UndoPcs, FinishPcs,
             Driving, Early, Staging
<1>13. CASE PrepareCommit
  <2>1. pc = "prepare" /\ pc' = "validate" /\ UNCHANGED <<cmd, self>>
    BY <1>13, Zenon DEF PrepareCommit, Goto, local
  <2> QED BY <2>1, <1>0 DEF CommandInv, DrivenInv, Places, CommandPcs, UndoPcs, FinishPcs,
             Driving, Early, Staging
<1>14. CASE ValidatePrepared
  <2>1. pc = "validate"
    BY <1>14, Zenon DEF ValidatePrepared
  <2>2. Abort \/ (pc' = "log-tree" /\ UNCHANGED <<cmd, self>>)
    BY <1>14, Zenon DEF ValidatePrepared, OrAbort, Goto, local
  <2> QED BY <2>1, <2>2, <1>0, TurnedControl DEF Abort, Goto, CommandInv, DrivenInv, Places,
             CommandPcs, UndoPcs, FinishPcs, Driving, Early, Staging
<1>15. CASE LogTree
  <2>1. pc = "log-tree" /\ pc' = "commit" /\ UNCHANGED <<cmd, self>>
    BY <1>15, Zenon DEF LogTree, Goto, local
  <2> QED BY <2>1, <1>0 DEF CommandInv, DrivenInv, Places, CommandPcs, UndoPcs, FinishPcs,
             Driving, Early, Staging
<1>16. CASE CommitPrepared
  <2>1. pc = "commit"
    BY <1>16, Zenon DEF CommitPrepared
  <2>2. Abort \/ (pc' = "clear" /\ UNCHANGED <<cmd, self>>)
    BY <1>16, Zenon DEF CommitPrepared, OrAbort, Goto, local
  <2> QED BY <2>1, <2>2, <1>0, TurnedControl DEF Abort, Goto, CommandInv, DrivenInv, Places,
             CommandPcs, UndoPcs, FinishPcs, Driving, Early, Staging
<1>17. CASE ClearTxn
  <2>1. pc = "clear" /\ pc' = "reclaim" /\ UNCHANGED <<cmd, self>>
    BY <1>17, Zenon DEF ClearTxn, Goto, local
  <2> QED BY <2>1, <1>0 DEF CommandInv, DrivenInv, Places, CommandPcs, UndoPcs, FinishPcs,
             Driving, Early, Staging
<1>18. CASE UndoConfig
  <2>1. pc = "undo-config"
    BY <1>18, Zenon DEF UndoConfig
  <2>2. Conflict \/ (pc' = "undo-clear" /\ UNCHANGED <<cmd, self>>)
    BY <1>18, Zenon DEF UndoConfig, RestoreTxnConfig, OrConflict, Goto, local
  <2> QED BY <2>1, <2>2, <1>0, EndedControl DEF Conflict, CommandInv, DrivenInv, Places,
             CommandPcs, UndoPcs, FinishPcs, Driving, Early, Staging
<1>19. CASE UndoClear
  BY <1>19, <1>0, TurnedControl DEF UndoClear, Goto
<1>20. CASE FinishClear
  <2>1. pc = "finish-clear" /\ pc' = "finish-reclaim" /\ UNCHANGED <<cmd, self>>
    BY <1>20, Zenon DEF FinishClear, Goto, local
  <2> QED BY <2>1, <1>0 DEF CommandInv, DrivenInv, Places, CommandPcs, UndoPcs, FinishPcs,
             Driving, Early, Staging
<1> QED BY <1>1, <1>2, <1>3, <1>4, <1>5, <1>6, <1>7, <1>8, <1>9, <1>10, <1>11, <1>12,
    <1>13, <1>14, <1>15, <1>16, <1>17, <1>18, <1>19, <1>20 DEF RunStep

LEMMA InstallControl ==
    ASSUME TInv, InstallStep
    PROVE  CommandInv' /\ DrivenInv'
<1> USE DEF TInv
<1>0. /\ Len(txns) \in Nat /\ Len(txns') \in Nat /\ Len(txns) <= Len(txns')
      /\ DOMAIN txns = 1 .. Len(txns) /\ DOMAIN txns' = 1 .. Len(txns')
  BY InstallJournal DEF JournalTyped
<1>1. CASE InstallPreflight
  <2>1. pc = "preflight"
    BY <1>1, Zenon DEF InstallPreflight, Preflight
  <2>2. Exit("refused") \/ (pc' = "start" /\ UNCHANGED <<cmd, self>>)
    BY <1>1, Zenon DEF InstallPreflight, Preflight, Goto, local
  <2> QED BY <2>1, <2>2, <1>0, EndedControl DEF CommandInv, DrivenInv, Places, CommandPcs,
             UndoPcs, FinishPcs, Driving, Early, Staging
<1>2. CASE InstallMutate
  <2>1. pc = "mutate" /\ cmd.op = "install"
    BY <1>2, Zenon DEF InstallMutate
  <2>2. Abort \/ (pc' = "reserve" /\ UNCHANGED <<cmd, self>>)
    BY <1>2, Zenon DEF InstallMutate, OrAbort, Goto, local
  <2> QED BY <2>1, <2>2, <1>0, TurnedControl DEF Abort, Goto, CommandInv, DrivenInv, Places,
             CommandPcs, UndoPcs, FinishPcs, Driving, Early, Staging
<1>3. CASE InstallLogCopied
  <2>1. pc = "log-copied" /\ pc' = "log-prepared" /\ UNCHANGED <<cmd, self>>
    BY <1>3, Zenon DEF InstallLogCopied, Goto, local
  <2> QED BY <2>1, <1>0 DEF CommandInv, DrivenInv, Places, CommandPcs, UndoPcs, FinishPcs,
             Driving, Early, Staging
<1>4. CASE InstallLogPrepared
  <2>1. pc = "log-prepared"
    BY <1>4, Zenon DEF InstallLogPrepared
  <2>2. Abort \/ (pc' = "save" /\ UNCHANGED <<cmd, self>>)
    BY <1>4, Zenon DEF InstallLogPrepared, OrAbort, Goto, local
  <2> QED BY <2>1, <2>2, <1>0, TurnedControl DEF Abort, Goto, CommandInv, DrivenInv, Places,
             CommandPcs, UndoPcs, FinishPcs, Driving, Early, Staging
<1>5. CASE InstallPublish
  <2>1. pc = "publish"
    BY <1>5, Zenon DEF InstallPublish
  <2>2. Abort \/ (pc' = "log-published" /\ UNCHANGED <<cmd, self>>)
    BY <1>5, Zenon DEF InstallPublish, OrAbort, Goto, local
  <2> QED BY <2>1, <2>2, <1>0, TurnedControl DEF Abort, Goto, CommandInv, DrivenInv, Places,
             CommandPcs, UndoPcs, FinishPcs, Driving, Early, Staging
<1>6. CASE InstallReclaim
  BY <1>6, <1>0, EndedControl DEF InstallReclaim
<1>7. CASE \E i \in DOMAIN txns : InstallUndo(i)
  <2>1. PICK i \in DOMAIN txns : InstallUndo(i)
    BY <1>7
  <2>2. pc = "recover"
          /\ (Conflict \/ (self' = i /\ pc' \in Driving \ CommandPcs /\ UNCHANGED <<txns, cmd>>))
    BY <2>1 DEF InstallUndo, Recovering, Handle, OrConflict, Goto, Driving, UndoPcs, FinishPcs,
       CommandPcs
  <2>3. CASE Conflict
    BY <2>2, <2>3, <1>0, EndedControl DEF Conflict
  <2> QED BY <2>2, <2>3, <1>0 DEF CommandInv, DrivenInv, Places, CommandPcs, UndoPcs, FinishPcs,
             Driving, Early, Staging
<1>8. CASE \E i \in DOMAIN txns : InstallCompensate(i)
  <2>1. PICK i \in DOMAIN txns : InstallCompensate(i)
    BY <1>8
  <2>2. pc = "recover"
          /\ (Conflict \/ (self' = i /\ pc' \in Driving \ CommandPcs /\ UNCHANGED <<txns, cmd>>))
    BY <2>1 DEF InstallCompensate, Recovering, Handle, OrConflict, Goto, Driving, UndoPcs,
       FinishPcs, CommandPcs
  <2>3. CASE Conflict
    BY <2>2, <2>3, <1>0, EndedControl DEF Conflict
  <2> QED BY <2>2, <2>3, <1>0 DEF CommandInv, DrivenInv, Places, CommandPcs, UndoPcs, FinishPcs,
             Driving, Early, Staging
<1>9. CASE InstallUndoRoot
  <2>1. pc = "undo-root"
    BY <1>9, Zenon DEF InstallUndoRoot
  <2>2. Conflict \/ (pc' \in {"undo-entries", "undo-log-root"} /\ UNCHANGED <<cmd, self>>)
    BY <1>9, Zenon DEF InstallUndoRoot, OrConflict, Goto, local
  <2> QED BY <2>1, <2>2, <1>0, EndedControl DEF Conflict, CommandInv, DrivenInv, Places,
             CommandPcs, UndoPcs, FinishPcs, Driving, Early, Staging
<1>10. CASE InstallUndoLogRoot
  <2>1. pc = "undo-log-root" /\ pc' = "undo-entries" /\ UNCHANGED <<cmd, self>>
    BY <1>10, Zenon DEF InstallUndoLogRoot, Goto, local
  <2> QED BY <2>1, <1>0 DEF CommandInv, DrivenInv, Places, CommandPcs, UndoPcs, FinishPcs,
             Driving, Early, Staging
<1>11. CASE InstallUndoEntries
  <2>1. pc = "undo-entries"
    BY <1>11, Zenon DEF InstallUndoEntries
  <2>2. Conflict \/ (pc' = "undo-quarantine" /\ UNCHANGED <<cmd, self>>)
    BY <1>11, Zenon DEF InstallUndoEntries, OrConflict, Goto, local
  <2> QED BY <2>1, <2>2, <1>0, EndedControl DEF Conflict, CommandInv, DrivenInv, Places,
             CommandPcs, UndoPcs, FinishPcs, Driving, Early, Staging
<1>12. CASE InstallUndoQuarantine
  <2>1. pc = "undo-quarantine"
    BY <1>12, Zenon DEF InstallUndoQuarantine
  <2>2. Conflict \/ (pc' \in {"undo-config", "undo-archive"} /\ UNCHANGED <<cmd, self>>)
    BY <1>12, Zenon DEF InstallUndoQuarantine, OrConflict, Goto, local
  <2> QED BY <2>1, <2>2, <1>0, EndedControl DEF Conflict, CommandInv, DrivenInv, Places,
             CommandPcs, UndoPcs, FinishPcs, Driving, Early, Staging
<1>13. CASE InstallUndoArchive
  <2>1. pc = "undo-archive"
    BY <1>13, Zenon DEF InstallUndoArchive
  <2>2. Conflict \/ (pc' = "undo-config" /\ UNCHANGED <<cmd, self>>)
    BY <1>13, Zenon DEF InstallUndoArchive, ArchivePayload, OrConflict, Goto, local
  <2> QED BY <2>1, <2>2, <1>0, EndedControl DEF Conflict, CommandInv, DrivenInv, Places,
             CommandPcs, UndoPcs, FinishPcs, Driving, Early, Staging
<1>14. CASE CompLogStart
  <2>1. pc = "comp-log-start" /\ pc' = "comp-quarantine" /\ UNCHANGED <<cmd, self>>
    BY <1>14, Zenon DEF CompLogStart, Goto, local
  <2> QED BY <2>1, <1>0 DEF CommandInv, DrivenInv, Places, CommandPcs, UndoPcs, FinishPcs,
             Driving, Early, Staging
<1>15. CASE CompQuarantine
  <2>1. pc = "comp-quarantine"
    BY <1>15, Zenon DEF CompQuarantine
  <2>2. Conflict \/ (pc' = "comp-config" /\ UNCHANGED <<cmd, self>>)
    BY <1>15, Zenon DEF CompQuarantine, OrConflict, Goto, local
  <2> QED BY <2>1, <2>2, <1>0, EndedControl DEF Conflict, CommandInv, DrivenInv, Places,
             CommandPcs, UndoPcs, FinishPcs, Driving, Early, Staging
<1>16. CASE CompConfig
  <2>1. pc = "comp-config"
    BY <1>16, Zenon DEF CompConfig
  <2>2. Conflict \/ (pc' = "comp-log-ready" /\ UNCHANGED <<cmd, self>>)
    BY <1>16, Zenon DEF CompConfig, RestoreTxnConfig, OrConflict, Goto, local
  <2> QED BY <2>1, <2>2, <1>0, EndedControl DEF Conflict, CommandInv, DrivenInv, Places,
             CommandPcs, UndoPcs, FinishPcs, Driving, Early, Staging
<1>17. CASE CompLogReady
  <2>1. pc = "comp-log-ready" /\ pc' = "comp-prepare" /\ UNCHANGED <<cmd, self>>
    BY <1>17, Zenon DEF CompLogReady, Goto, local
  <2> QED BY <2>1, <1>0 DEF CommandInv, DrivenInv, Places, CommandPcs, UndoPcs, FinishPcs,
             Driving, Early, Staging
<1>18. CASE CompPrepare
  <2>1. pc = "comp-prepare"
    BY <1>18, Zenon DEF CompPrepare
  <2>2. Conflict \/ (pc' = "comp-log-tree" /\ UNCHANGED <<cmd, self>>)
    BY <1>18, Zenon DEF CompPrepare, OrConflict, Goto, local
  <2> QED BY <2>1, <2>2, <1>0, EndedControl DEF Conflict, CommandInv, DrivenInv, Places,
             CommandPcs, UndoPcs, FinishPcs, Driving, Early, Staging
<1>19. CASE CompLogTree
  <2>1. pc = "comp-log-tree"
    BY <1>19, Zenon DEF CompLogTree
  <2>2. Conflict \/ (pc' = "comp-commit" /\ UNCHANGED <<cmd, self>>)
    BY <1>19, Zenon DEF CompLogTree, OrConflict, Goto, local
  <2> QED BY <2>1, <2>2, <1>0, EndedControl DEF Conflict, CommandInv, DrivenInv, Places,
             CommandPcs, UndoPcs, FinishPcs, Driving, Early, Staging
<1>20. CASE CompCommit
  <2>1. pc = "comp-commit"
    BY <1>20, Zenon DEF CompCommit
  <2>2. Conflict \/ (pc' = "comp-log-committed" /\ UNCHANGED <<cmd, self>>)
    BY <1>20, Zenon DEF CompCommit, OrConflict, Goto, local
  <2> QED BY <2>1, <2>2, <1>0, EndedControl DEF Conflict, CommandInv, DrivenInv, Places,
             CommandPcs, UndoPcs, FinishPcs, Driving, Early, Staging
<1>21. CASE CompLogCommitted
  <2>1. pc = "comp-log-committed" /\ pc' = "comp-finish" /\ UNCHANGED <<cmd, self>>
    BY <1>21, Zenon DEF CompLogCommitted, Goto, local
  <2> QED BY <2>1, <1>0 DEF CommandInv, DrivenInv, Places, CommandPcs, UndoPcs, FinishPcs,
             Driving, Early, Staging
<1>22. CASE CompFinish
  <2>1. pc = "comp-finish"
    BY <1>22, Zenon DEF CompFinish
  <2>2. Conflict \/ (pc' = "comp-archive" /\ UNCHANGED <<cmd, self>>)
    BY <1>22, Zenon DEF CompFinish, OrConflict, Goto, local
  <2> QED BY <2>1, <2>2, <1>0, EndedControl DEF Conflict, CommandInv, DrivenInv, Places,
             CommandPcs, UndoPcs, FinishPcs, Driving, Early, Staging
<1>23. CASE CompArchive
  <2>1. pc = "comp-archive"
    BY <1>23, Zenon DEF CompArchive
  <2>2. Conflict \/ (pc' = "undo-clear" /\ UNCHANGED <<cmd, self>>)
    BY <1>23, Zenon DEF CompArchive, ArchivePayload, OrConflict, Goto, local
  <2> QED BY <2>1, <2>2, <1>0, EndedControl DEF Conflict, CommandInv, DrivenInv, Places,
             CommandPcs, UndoPcs, FinishPcs, Driving, Early, Staging
<1> QED BY <1>1, <1>2, <1>3, <1>4, <1>5, <1>6, <1>7, <1>8, <1>9, <1>10, <1>11, <1>12,
    <1>13, <1>14, <1>15, <1>16, <1>17, <1>18, <1>19, <1>20, <1>21, <1>22, <1>23 DEF
    InstallStep

LEMMA RemoveControl ==
    ASSUME TInv, RemoveStep
    PROVE  CommandInv' /\ DrivenInv'
<1> USE DEF TInv
<1>0. /\ Len(txns) \in Nat /\ Len(txns') \in Nat /\ Len(txns) <= Len(txns')
      /\ DOMAIN txns = 1 .. Len(txns) /\ DOMAIN txns' = 1 .. Len(txns')
  BY RemoveJournal DEF JournalTyped
<1>1. CASE RemovePreflight
  <2>1. pc = "preflight"
    BY <1>1, Zenon DEF RemovePreflight, Preflight
  <2>2. Exit("refused") \/ (pc' = "start" /\ UNCHANGED <<cmd, self>>)
    BY <1>1, Zenon DEF RemovePreflight, Preflight, Goto, local
  <2> QED BY <2>1, <2>2, <1>0, EndedControl DEF CommandInv, DrivenInv, Places, CommandPcs,
             UndoPcs, FinishPcs, Driving, Early, Staging
<1>2. CASE RemoveMutate
  <2>1. pc = "mutate" /\ pc' = "log-snapshot" /\ UNCHANGED <<cmd, self>>
    BY <1>2, Zenon DEF RemoveMutate, Goto, local
  <2> QED BY <2>1, <1>0 DEF CommandInv, DrivenInv, Places, CommandPcs, UndoPcs, FinishPcs,
             Driving, Early, Staging
<1>3. CASE RemoveLogSnapshot
  <2>1. pc = "log-snapshot" /\ pc' = "quarantine" /\ UNCHANGED <<cmd, self>>
    BY <1>3, Zenon DEF RemoveLogSnapshot, Goto, local
  <2> QED BY <2>1, <1>0 DEF CommandInv, DrivenInv, Places, CommandPcs, UndoPcs, FinishPcs,
             Driving, Early, Staging
<1>4. CASE RemoveQuarantine
  <2>1. pc = "quarantine"
    BY <1>4, Zenon DEF RemoveQuarantine
  <2>2. Abort \/ (pc' = "log-quarantined" /\ UNCHANGED <<cmd, self>>)
    BY <1>4, Zenon DEF RemoveQuarantine, OrAbort, Goto, local
  <2> QED BY <2>1, <2>2, <1>0, TurnedControl DEF Abort, Goto, CommandInv, DrivenInv, Places,
             CommandPcs, UndoPcs, FinishPcs, Driving, Early, Staging
<1>5. CASE RemoveLogQuarantined
  <2>1. pc = "log-quarantined" /\ pc' = "save" /\ UNCHANGED <<cmd, self>>
    BY <1>5, Zenon DEF RemoveLogQuarantined, Goto, local
  <2> QED BY <2>1, <1>0 DEF CommandInv, DrivenInv, Places, CommandPcs, UndoPcs, FinishPcs,
             Driving, Early, Staging
<1>6. CASE RemoveReclaim
  <2>1. pc \in {"reclaim", "finish-reclaim"}
    BY <1>6, Zenon DEF RemoveReclaim
  <2>2. \E t, left : ReclaimStep(t, left)
    BY <1>6, Zenon DEF RemoveReclaim
  <2>3. Exit("ok") \/ (pc' = "recover" /\ self' = 0 /\ UNCHANGED cmd) \/ UNCHANGED <<pc, cmd, self>>
    BY <2>2 DEF ReclaimStep, AfterReclaim, Goto, local
  <2> QED BY <2>1, <2>3, <1>0, EndedControl, TurnedControl DEF CommandInv, DrivenInv, Places,
             CommandPcs, UndoPcs, FinishPcs, Driving, Early, Staging
<1>7. CASE \E i \in DOMAIN txns : RemoveUndo(i)
  <2>1. PICK i \in DOMAIN txns : RemoveUndo(i)
    BY <1>7
  <2>2. pc = "recover"
          /\ (Conflict \/ (self' = i /\ pc' \in Driving \ CommandPcs /\ UNCHANGED <<txns, cmd>>))
    BY <2>1 DEF RemoveUndo, Recovering, Handle, OrConflict, Goto, Driving, UndoPcs, FinishPcs,
       CommandPcs
  <2>3. CASE Conflict
    BY <2>2, <2>3, <1>0, EndedControl DEF Conflict
  <2> QED BY <2>2, <2>3, <1>0 DEF CommandInv, DrivenInv, Places, CommandPcs, UndoPcs, FinishPcs,
             Driving, Early, Staging
<1>8. CASE \E i \in DOMAIN txns : RemoveFinish(i)
  <2>1. PICK i \in DOMAIN txns : RemoveFinish(i)
    BY <1>8
  <2>2. pc = "recover"
          /\ (Conflict \/ (self' = i /\ pc' \in Driving \ CommandPcs /\ UNCHANGED <<txns, cmd>>))
    BY <2>1 DEF RemoveFinish, Recovering, Handle, OrConflict, Goto, Driving, UndoPcs, FinishPcs,
       CommandPcs
  <2>3. CASE Conflict
    BY <2>2, <2>3, <1>0, EndedControl DEF Conflict
  <2> QED BY <2>2, <2>3, <1>0 DEF CommandInv, DrivenInv, Places, CommandPcs, UndoPcs, FinishPcs,
             Driving, Early, Staging
<1>9. CASE RemoveUndoRestore
  <2>1. pc = "undo-restore"
    BY <1>9, Zenon DEF RemoveUndoRestore
  <2>2. Conflict \/ (pc' = "undo-config" /\ UNCHANGED <<cmd, self>>)
    BY <1>9, Zenon DEF RemoveUndoRestore, OrConflict, Goto, local
  <2> QED BY <2>1, <2>2, <1>0, EndedControl DEF Conflict, CommandInv, DrivenInv, Places,
             CommandPcs, UndoPcs, FinishPcs, Driving, Early, Staging
<1> QED BY <1>1, <1>2, <1>3, <1>4, <1>5, <1>6, <1>7, <1>8, <1>9 DEF RemoveStep

LEMMA UpdateControl ==
    ASSUME TInv, UpdateStep
    PROVE  CommandInv' /\ DrivenInv'
<1> USE DEF TInv
<1>0. /\ Len(txns) \in Nat /\ Len(txns') \in Nat /\ Len(txns) <= Len(txns')
      /\ DOMAIN txns = 1 .. Len(txns) /\ DOMAIN txns' = 1 .. Len(txns')
  BY UpdateJournal DEF JournalTyped
<1>1. CASE UpdatePreflight
  <2>1. pc = "preflight"
    BY <1>1, Zenon DEF UpdatePreflight, Preflight
  <2>2. Exit("refused") \/ (pc' = "start" /\ UNCHANGED <<cmd, self>>)
    BY <1>1, Zenon DEF UpdatePreflight, Preflight, Goto, local
  <2> QED BY <2>1, <2>2, <1>0, EndedControl DEF CommandInv, DrivenInv, Places, CommandPcs,
             UndoPcs, FinishPcs, Driving, Early, Staging
<1>2. CASE UpdateMutate
  <2>1. pc = "mutate"
    BY <1>2, Zenon DEF UpdateMutate
  <2>2. Abort \/ (pc' = "log-snapshot" /\ UNCHANGED <<cmd, self>>)
    BY <1>2, Zenon DEF UpdateMutate, OrAbort, Goto, local
  <2> QED BY <2>1, <2>2, <1>0, TurnedControl DEF Abort, Goto, CommandInv, DrivenInv, Places,
             CommandPcs, UndoPcs, FinishPcs, Driving, Early, Staging
<1>3. CASE UpdateLogSnapshot
  <2>1. pc = "log-snapshot" /\ cmd.op = "update" /\ pc' = "reserve" /\ UNCHANGED <<cmd, self>>
    BY <1>3, Zenon DEF UpdateLogSnapshot, Goto, local
  <2> QED BY <2>1, <1>0 DEF CommandInv, DrivenInv, Places, CommandPcs, UndoPcs, FinishPcs,
             Driving, Early, Staging
<1>4. CASE UpdateLogCopied
  <2>1. pc = "log-copied" /\ pc' = "log-prepared" /\ UNCHANGED <<cmd, self>>
    BY <1>4, Zenon DEF UpdateLogCopied, Goto, local
  <2> QED BY <2>1, <1>0 DEF CommandInv, DrivenInv, Places, CommandPcs, UndoPcs, FinishPcs,
             Driving, Early, Staging
<1>5. CASE UpdateValidateStaged
  <2>1. pc = "log-prepared"
    BY <1>5, Zenon DEF UpdateValidateStaged
  <2>2. Abort \/ (pc' = "save" /\ UNCHANGED <<cmd, self>>)
    BY <1>5, Zenon DEF UpdateValidateStaged, OrAbort, Goto, local
  <2> QED BY <2>1, <2>2, <1>0, TurnedControl DEF Abort, Goto, CommandInv, DrivenInv, Places,
             CommandPcs, UndoPcs, FinishPcs, Driving, Early, Staging
<1>6. CASE UpdatePublish
  <2>1. pc = "publish"
    BY <1>6, Zenon DEF UpdatePublish
  <2>2. Abort \/ (pc' = "log-exchanged" /\ UNCHANGED <<cmd, self>>)
    BY <1>6, Zenon DEF UpdatePublish, Exchange, OrAbort, Goto, local
  <2> QED BY <2>1, <2>2, <1>0, TurnedControl DEF Abort, Goto, CommandInv, DrivenInv, Places,
             CommandPcs, UndoPcs, FinishPcs, Driving, Early, Staging
<1>7. CASE UpdateLogExchanged
  <2>1. pc = "log-exchanged" /\ pc' = "log-published" /\ UNCHANGED <<cmd, self>>
    BY <1>7, Zenon DEF UpdateLogExchanged, Goto, local
  <2> QED BY <2>1, <1>0 DEF CommandInv, DrivenInv, Places, CommandPcs, UndoPcs, FinishPcs,
             Driving, Early, Staging
<1>8. CASE UpdateReclaim
  <2>1. pc \in {"reclaim", "finish-reclaim"}
    BY <1>8, Zenon DEF UpdateReclaim
  <2>2. \E t, left : ReclaimStep(t, left)
    BY <1>8, Zenon DEF UpdateReclaim
  <2>3. Exit("ok") \/ (pc' = "recover" /\ self' = 0 /\ UNCHANGED cmd) \/ UNCHANGED <<pc, cmd, self>>
    BY <2>2 DEF ReclaimStep, AfterReclaim, Goto, local
  <2> QED BY <2>1, <2>3, <1>0, EndedControl, TurnedControl DEF CommandInv, DrivenInv, Places,
             CommandPcs, UndoPcs, FinishPcs, Driving, Early, Staging
<1>9. CASE \E i \in DOMAIN txns : UpdateUndo(i)
  <2>1. PICK i \in DOMAIN txns : UpdateUndo(i)
    BY <1>9
  <2>2. pc = "recover"
          /\ (Conflict \/ (self' = i /\ pc' \in Driving \ CommandPcs /\ UNCHANGED <<txns, cmd>>))
    BY <2>1 DEF UpdateUndo, Recovering, Handle, OrConflict, Goto, Driving, UndoPcs, FinishPcs,
       CommandPcs
  <2>3. CASE Conflict
    BY <2>2, <2>3, <1>0, EndedControl DEF Conflict
  <2> QED BY <2>2, <2>3, <1>0 DEF CommandInv, DrivenInv, Places, CommandPcs, UndoPcs, FinishPcs,
             Driving, Early, Staging
<1>10. CASE \E i \in DOMAIN txns : UpdateFinish(i)
  <2>1. PICK i \in DOMAIN txns : UpdateFinish(i)
    BY <1>10
  <2>2. pc = "recover"
          /\ (Conflict \/ (self' = i /\ pc' \in Driving \ CommandPcs /\ UNCHANGED <<txns, cmd>>))
    BY <2>1 DEF UpdateFinish, Recovering, Handle, OrConflict, Goto, Driving, UndoPcs, FinishPcs,
       CommandPcs
  <2>3. CASE Conflict
    BY <2>2, <2>3, <1>0, EndedControl DEF Conflict
  <2> QED BY <2>2, <2>3, <1>0 DEF CommandInv, DrivenInv, Places, CommandPcs, UndoPcs, FinishPcs,
             Driving, Early, Staging
<1>11. CASE UpdateUndoExchange
  <2>1. pc = "undo-exchange"
    BY <1>11, Zenon DEF UpdateUndoExchange
  <2>2. Conflict \/ (pc' = "undo-discard" /\ UNCHANGED <<cmd, self>>)
    BY <1>11, Zenon DEF UpdateUndoExchange, Exchange, OrConflict, Goto, local
  <2> QED BY <2>1, <2>2, <1>0, EndedControl DEF Conflict, CommandInv, DrivenInv, Places,
             CommandPcs, UndoPcs, FinishPcs, Driving, Early, Staging
<1>12. CASE UpdateUndoRoot
  <2>1. pc = "undo-root"
    BY <1>12, Zenon DEF UpdateUndoRoot
  <2>2. Conflict \/ (pc' = "undo-discard" /\ UNCHANGED <<cmd, self>>)
    BY <1>12, Zenon DEF UpdateUndoRoot, OrConflict, Goto, local
  <2> QED BY <2>1, <2>2, <1>0, EndedControl DEF Conflict, CommandInv, DrivenInv, Places,
             CommandPcs, UndoPcs, FinishPcs, Driving, Early, Staging
<1>13. CASE UpdateUndoDiscard
  <2>1. pc = "undo-discard"
    BY <1>13, Zenon DEF UpdateUndoDiscard
  <2>2. Conflict \/ (pc' \in {"undo-config", "undo-discard"} /\ UNCHANGED <<cmd, self>>)
    BY <1>13, Zenon DEF UpdateUndoDiscard, OrConflict, Goto, local
  <2> QED BY <2>1, <2>2, <1>0, EndedControl DEF Conflict, CommandInv, DrivenInv, Places,
             CommandPcs, UndoPcs, FinishPcs, Driving, Early, Staging
<1> QED BY <1>1, <1>2, <1>3, <1>4, <1>5, <1>6, <1>7, <1>8, <1>9, <1>10, <1>11, <1>12,
    <1>13 DEF UpdateStep

LEMMA RestControl ==
    ASSUME TInv, BeginCommand \/ BeginRestore \/ Fail \/ Crash \/ GcStep \/ User
    PROVE  CommandInv' /\ DrivenInv'
<1> USE DEF TInv
<1>0. /\ Len(txns) \in Nat /\ Len(txns') \in Nat /\ Len(txns) <= Len(txns')
      /\ DOMAIN txns = 1 .. Len(txns) /\ DOMAIN txns' = 1 .. Len(txns')
  BY RestJournal DEF JournalTyped
<1>1. CASE BeginCommand
  <2>1. PICK op \in Write, n \in Names, c \in Upstream \cup {NONE}, force \in BOOLEAN :
           Begin(op, n, c, force) /\ (op # "rm" => c \in Upstream)
    BY <1>1 DEF BeginCommand, BeginInstall, BeginRemove, BeginUpdate, Write
  <2>2. cmd'.op = op /\ cmd'.name = n /\ cmd'.c = c /\ pc' = "recover" /\ UNCHANGED self
    BY <2>1 DEF Begin, Goto
  <2> QED BY <2>1, <2>2, <1>0 DEF Write, CommandInv, DrivenInv, Places, CommandPcs, UndoPcs,
             FinishPcs, Driving, Early, Staging
<1>2. CASE BeginRestore
  <2>1. cmd'.op = "restore" /\ pc' = "recover" /\ UNCHANGED self
    BY <1>2 DEF BeginRestore, Goto, NoCommand
  <2> QED BY <2>1, <1>0 DEF Write, CommandInv, DrivenInv, Places, CommandPcs, UndoPcs, FinishPcs,
             Driving, Early, Staging
<1>3. CASE Fail
  BY <1>3, <1>0, TurnedControl DEF Fail, Goto, MutatingPcs
<1>4. CASE Crash
  BY <1>4, <1>0, EndedControl DEF Crash
<1>5. CASE GcReclaimLease
  BY <1>5, <1>0 DEF GcReclaimLease, local, CommandInv, DrivenInv, Places, CommandPcs, UndoPcs,
     FinishPcs, Driving, Early, Staging
<1>6. CASE \E i \in DOMAIN txns : GcPruneRemove(i)
  <2>1. pc = "idle" /\ UNCHANGED <<pc, cmd, self>>
    BY <1>6, Zenon DEF GcPruneRemove, local
  <2> QED BY <2>1, <1>0 DEF CommandInv, DrivenInv, Places, CommandPcs, UndoPcs, FinishPcs,
             Driving, Early, Staging
<1>7. CASE \E i \in DOMAIN txns : GcPruneUpdate(i)
  <2>1. pc = "idle" /\ UNCHANGED <<pc, cmd, self>>
    BY <1>7, Zenon DEF GcPruneUpdate, local
  <2> QED BY <2>1, <1>0 DEF CommandInv, DrivenInv, Places, CommandPcs, UndoPcs, FinishPcs,
             Driving, Early, Staging
<1>8. CASE \E i \in DOMAIN txns : GcPruneInstall(i)
  <2>1. pc = "idle" /\ UNCHANGED <<pc, cmd, self>>
    BY <1>8, Zenon DEF GcPruneInstall, local
  <2> QED BY <2>1, <1>0 DEF CommandInv, DrivenInv, Places, CommandPcs, UndoPcs, FinishPcs,
             Driving, Early, Staging
<1>9. CASE User
  <2>1. UNCHANGED <<pc, cmd, self>>
    BY <1>9 DEF User, UserEdit, UserPlace, UserStage, UserConfig, UserRemove, UserCommit,
       UserUnchanged, local
  <2> QED BY <2>1, <1>0 DEF CommandInv, DrivenInv, Places, CommandPcs, UndoPcs, FinishPcs,
             Driving, Early, Staging
<1> QED BY <1>1, <1>2, <1>3, <1>4, <1>5, <1>6, <1>7, <1>8, <1>9 DEF GcStep

(* Only commands, faults and users move the counters.                      *)
LEMMA RunCounts == RunStep => UNCHANGED ghost
BY Zenon DEF RunStep, Recovered, LoadConfig, Sweep, StartTxn, ReserveStagedRoot, LogReserved,
      PublishRoot, LogRoot, CopyStaged, SaveConfig, LogSaved, LogPublished,
      PrepareCommit, ValidatePrepared, LogTree, CommitPrepared, ClearTxn, UndoConfig,
      UndoClear, FinishClear, Exit, OrAbort, Abort, RestoreTxnConfig, OrConflict,
      Conflict

LEMMA InstallCounts == InstallStep => UNCHANGED ghost
BY Zenon DEF InstallStep, InstallPreflight, InstallMutate, InstallLogCopied, InstallLogPrepared,
      InstallPublish, InstallReclaim, InstallUndo, InstallCompensate, InstallUndoRoot,
      InstallUndoLogRoot, InstallUndoEntries, InstallUndoQuarantine, InstallUndoArchive,
      CompLogStart, CompQuarantine, CompConfig, CompLogReady, CompPrepare, CompLogTree,
      CompCommit, CompLogCommitted, CompFinish, CompArchive, Preflight, Exit, OrAbort,
      Abort, Handle, OrConflict, Conflict, Recovering, ArchivePayload, RestoreTxnConfig

LEMMA RemoveCounts == RemoveStep => UNCHANGED ghost
BY Zenon DEF RemoveStep, RemovePreflight, RemoveMutate, RemoveLogSnapshot, RemoveQuarantine,
      RemoveLogQuarantined, RemoveReclaim, RemoveUndo, RemoveFinish, RemoveUndoRestore,
      Preflight, Exit, OrAbort, Abort, ReclaimStep, AfterReclaim, Handle, OrConflict,
      Conflict, Recovering

LEMMA UpdateCounts == UpdateStep => UNCHANGED ghost
BY Zenon DEF UpdateStep, UpdatePreflight, UpdateMutate, UpdateLogSnapshot, UpdateLogCopied,
      UpdateValidateStaged, UpdatePublish, UpdateLogExchanged, UpdateReclaim,
      UpdateUndo, UpdateFinish, UpdateUndoExchange, UpdateUndoRoot, UpdateUndoDiscard,
      Preflight, Exit, OrAbort, Abort, Exchange, ReclaimStep, AfterReclaim, Handle,
      OrConflict, Conflict, Recovering

(* The bounds are kept.                                                    *)
LEMMA CountersStep ==
    ASSUME CountersTyped, [Next]_vars
    PROVE  CountersTyped'
<1>1. CASE Step
  <2>1. UNCHANGED ghost
    BY <1>1, RunCounts, InstallCounts, RemoveCounts, UpdateCounts DEF Step
  <2> QED BY <2>1 DEF ghost, CountersTyped
<1>2. CASE BeginCommand
  <2>1. \E op, n, c : \E force \in BOOLEAN : Begin(op, n, c, force)
    BY <1>2 DEF BeginCommand, BeginInstall, BeginRemove, BeginUpdate
  <2> QED BY <2>1, ConstantsAssumption DEF Begin, CountersTyped
<1>3. CASE BeginRestore
  BY <1>3 DEF BeginRestore, ghost, CountersTyped
<1>4. CASE Fail
  BY <1>4, ConstantsAssumption DEF Fail, CountersTyped
<1>5. CASE Crash
  BY <1>5, ConstantsAssumption DEF Crash, CountersTyped
<1>6. CASE GcStep
  <2>1. UNCHANGED ghost
    BY <1>6, Zenon DEF GcStep, GcReclaimLease, GcPruneRemove, GcPruneUpdate, GcPruneInstall
  <2> QED BY <2>1 DEF ghost, CountersTyped
<1>7. CASE User
  BY <1>7 DEF User, UserEdit, UserPlace, UserStage, UserConfig, UserRemove, UserCommit,
     UserUnchanged, CountersTyped
<1>8. CASE UNCHANGED vars
  BY <1>8 DEF vars, ghost, CountersTyped
<1> QED BY <1>1, <1>2, <1>3, <1>4, <1>5, <1>6, <1>7, <1>8 DEF Next

(* The settled store a run starts with is well formed.                     *)
LEMMA InitTypes == Init => TInv
<1> SUFFICES ASSUME Init PROVE TInv
  OBVIOUS
<1> USE DEF Init
<1>1. PICK ids \in [Installed -> 1 .. Cardinality(Installed)], c \in [Installed -> Upstream] :
        /\ config = [reg |-> [n \in Names |-> IF n \in Installed THEN c[n] ELSE NONE],
                     note |-> NONE]
        /\ skills = [n \in Names |-> IF n \in Installed THEN [id |-> ids[n], c |-> c[n]]
                                     ELSE NoTree]
  OBVIOUS
<1>2. Cardinality(Installed) \in Nat /\ Cardinality(Installed) <= MaxId /\ MaxId \in Nat
  BY InstalledAssumption, ConstantsAssumption
<1>3. config \in Config
  BY <1>1, Literals, InstalledAssumption DEF Config
<1>4. \A n \in Installed : [id |-> ids[n], c |-> c[n]] \in Tree
  BY <1>1, <1>2, Literals DEF Tree
<1>5. skills \in [Names -> TreeOrNone]
  BY <1>1, <1>4, Literals DEF TreeOrNone
<1>6. DiskTyped
  BY <1>2, <1>3, <1>5, Literals DEF DiskTyped
<1>7. BranchTyped
  <2>1. Worktree \in Snapshot
    BY <1>3, <1>5, WorktreeTyped
  <2>2. [msg |-> CommitMsg("init", NONE, NONE), snap |-> Worktree] \in Commit
    BY <2>1 DEF Commit, Message, CommitMsg
  <2> QED BY <2>2 DEF BranchTyped
<1>8. JournalTyped /\ Len(txns) = 0
  BY DEF JournalTyped
<1>9. MemoryTyped
  <2>1. NoCommand \in Command
    BY DEF NoCommand, Command
  <2>2. [reg |-> [n \in Names |-> NONE], note |-> NONE] \in Config
    BY DEF Config
  <2> QED BY <2>1, <2>2, Literals DEF MemoryTyped
<1>10. CountersTyped
  BY ConstantsAssumption DEF CountersTyped
<1>11. CommandInv /\ DrivenInv
  BY <1>8 DEF CommandInv, DrivenInv, NoCommand, NONE, Write, Places, CommandPcs, UndoPcs, FinishPcs,
     Driving, Early, Staging
<1> QED BY <1>6, <1>7, <1>8, <1>9, <1>10, <1>11 DEF TInv

LEMMA GrowthTyped == BranchTyped /\ Grows => BranchTyped'
BY DEF BranchTyped, Grows

(* The induction.                                                          *)
LEMMA StepTypes == TInv /\ [Next]_vars => TInv'
<1> SUFFICES ASSUME TInv, [Next]_vars PROVE TInv'
  OBVIOUS
<1>1. CASE Step
  <2>1. DiskTyped' /\ JournalTyped' /\ Grows /\ MemoryTyped' /\ CommandInv' /\ DrivenInv'
    BY <1>1, RunDisk, InstallDisk, RemoveDisk, UpdateDisk, RunJournal, InstallJournal,
       RemoveJournal, UpdateJournal, RunGrows, InstallGrows, RemoveGrows, UpdateGrows,
       RunMemory, InstallMemory, RemoveMemory, UpdateMemory, RunControl, InstallControl,
       RemoveControl, UpdateControl DEF Step
  <2> QED BY <2>1, GrowthTyped, CountersStep DEF TInv
<1>2. CASE BeginCommand \/ BeginRestore \/ Fail \/ Crash \/ GcStep \/ User
  <2>1. DiskTyped' /\ JournalTyped' /\ Grows /\ MemoryTyped' /\ CommandInv' /\ DrivenInv'
    BY <1>2, RestDisk, RestJournal, RestGrows, RestMemory, RestControl
  <2> QED BY <2>1, GrowthTyped, CountersStep DEF TInv
<1>3. CASE UNCHANGED vars
  BY <1>3 DEF vars, disk, local, ghost, TInv, DiskTyped, BranchTyped, JournalTyped, MemoryTyped,
     CountersTyped, CommandInv, DrivenInv
<1> QED BY <1>1, <1>2, <1>3 DEF Next

(* Type correctness of the composed system.                                *)
THEOREM Types == Spec => []TypeOK
<1>1. Init => TInv
  BY InitTypes
<1>2. TInv /\ [Next]_vars => TInv'
  BY StepTypes
<1>3. TInv => TypeOK
  BY DEF TInv, TypeOK, DiskTyped, BranchTyped, JournalTyped, MemoryTyped, CountersTyped,
     CommandInv, DrivenInv, Places, PayloadDir
<1>4. QED BY <1>1, <1>2, <1>3, PTL DEF Spec

--------------------------------------------------------------------------------
(* Where a command is, from its first revision to its commit: it copies    *)
(* what it will publish,                                                   *)
Working == CommandPcs \ (Early \cup {"clear", "reclaim"})
Reserved == {"publish-root", "log-root"}
Declared == Reserved \cup {"copy", "fill", "log-copied"}
Copying == {"log-reserved"} \cup Declared

(* saves the config, publishes, and prepares a candidate.                  *)
Prepared == {"validate", "log-tree", "commit"}
Saved == {"log-saved", "publish", "log-exchanged", "log-published", "prepare"} \cup Prepared
Copied == {"log-prepared", "save"} \cup Saved
Quarantined == {"log-quarantined", "save"} \cup Saved

(* Where recovery undoes a committed install.                              *)
Compensating == {"comp-log-start", "comp-quarantine", "comp-config", "comp-log-ready",
                 "comp-prepare", "comp-log-tree", "comp-commit"}

(* The transaction a process drives is open until its marker is written,   *)
(* and is that of its command.                                             *)
MineInv ==
    /\ pc \in Driving \ {"reclaim", "finish-reclaim"} => Me.status = "open"
    /\ pc \in Working => Me.op = cmd.op /\ Me.name = cmd.name /\ Me.before = seen
    /\ pc \in {"quarantine", "log-quarantined"} => cmd.op = "rm"
    /\ pc \in Compensating => Me.op = "install"

(* A record's config is the store's but for the skill it is about and what *)
(* a user added since; the tree it expects to commit has the config it     *)
(* expects, and is recorded when what it is made of no longer changes.     *)
SameElsewhere(cfg, t) == \A m \in Names \ {t.name} : cfg.reg[m] = t.before.reg[m]
Sound(t) ==
    /\ t.before.note \in {NONE, config.note}
    /\ SameElsewhere(config, t)
    /\ t.op = "install" <=> t.before.reg[t.name] = NONE
    /\ \/ t.ctree = {}
       \/ /\ t.resv = NoTree /\ t.declared = NONE
          /\ \A s \in t.ctree : s.cfg = ExpectedConfig(t)
OpenInv == \A i \in Pending : Sound(txns[i])

(* Nobody but fu changes what is registered, so that HEAD registers what   *)
(* the command loaded; a note a user adds stays.                           *)
Marked(cfg, base) == cfg.note = base.note \/ config.note # base.note
EarlyInv ==
    /\ pc \in Early \ {"load"} => seen.reg = config.reg /\ seen.note \in {NONE, config.note}
    /\ pc \in {"preflight", "start"} => HeadSnap.cfg.reg = seen.reg /\ Marked(HeadSnap.cfg, seen)
    /\ pc = "start" => (cmd.op = "install" <=> seen.reg[cmd.name] = NONE)

(* What the command has recorded of its own tree.                          *)
RecordInv ==
    /\ pc \in Working \ Reserved => Me.resv = NoTree
    /\ pc \in Working \ Declared => Me.declared = NONE
    /\ pc \in Working \ {"commit"} => Me.ctree = {}
    /\ pc \in Copying => held \in Tree
    /\ pc \in Copied /\ cmd.op # "rm" => Me.payload \in Tree

(* What HEAD registers is what the command started from or, if a user      *)
(* committed since it saved the config, what it wrote.                     *)
Registers(cfg) ==
    /\ Marked(cfg, Me.before)
    /\ cfg.reg = Me.before.reg \/ (pc \in Saved /\ cfg.reg = ExpectedConfig(Me).reg)
HeadInv ==
    /\ pc \in Working => Registers(HeadSnap.cfg)
    /\ pc \in Working => config.reg = IF pc \in Saved THEN ExpectedConfig(Me).reg ELSE Me.before.reg

(* What rm took away is gone, unless a user put something there, which     *)
(* then stays.                                                             *)
Gone(n) == skills[n] = NoTree \/ skills[n].c \in Edits
GoneInv ==
    /\ pc = "log-snapshot" /\ cmd.op = "rm" /\ held = NoTree => Gone(cmd.name)
    /\ pc = "quarantine" /\ Me.payload = NoTree => Gone(cmd.name)
    /\ pc \in Quarantined /\ cmd.op = "rm" =>
        /\ Gone(cmd.name)
        /\ HeadSnap.cfg.reg[cmd.name] = NONE =>
             HeadSnap.tree[cmd.name] = NONE \/ Present(skills[cmd.name])

(* A candidate, when it is prepared, and once it is validated.             *)
Meant(p) ==
    /\ p.snap.cfg = ExpectedConfig(Me)
    /\ commits[p.parent].snap.cfg.note = Me.before.note
    /\ p.snap.tree[cmd.name] = ExpectedConfig(Me).reg[cmd.name]
    /\ OnlyAllowedChanges(Me, p)
Candidate(p) ==
    /\ p.parent \in DOMAIN commits
    /\ Registers(commits[p.parent].snap.cfg)
    /\ cmd.op = "rm" /\ commits[p.parent].snap.cfg.reg[cmd.name] = NONE =>
         commits[p.parent].snap.tree[cmd.name] = NONE \/ p.snap.tree[cmd.name] # NONE
    /\ pc # "validate" => Meant(p)
CandidateInv == pc \in Prepared => \E p \in cand : cand = {p} /\ Candidate(p)

(* A compensation has the install on the branch, and after it only what    *)
(* users committed.                                                        *)
Undoes(p) ==
    /\ p.parent \in DOMAIN commits
    /\ p.snap.cfg = Me.before /\ p.snap.tree[Me.name] = NONE
    /\ OnlyAllowedChanges(Me, p)
    /\ SameElsewhere(commits[p.parent].snap.cfg, Me)
    /\ commits[p.parent].snap.cfg.note = Me.before.note
CompensationInv ==
    /\ pc = "undo-log-root" => Me.resv # NoTree
    /\ pc = "comp-config" => seen.note = Me.before.note
    /\ pc \in Compensating =>
        /\ Me.start + 1 \in DOMAIN commits
        /\ commits[Me.start + 1].msg = CommitMsg("op", "install", Me.name)
        /\ \A j \in Me.start + 2 .. HEAD : commits[j].msg.kind = "direct"
        /\ SameElsewhere(HeadSnap.cfg, Me) /\ Marked(HeadSnap.cfg, Me.before)
    /\ pc \in {"comp-log-tree", "comp-commit"} => \E p \in cand : cand = {p} /\ Undoes(p)

HInv == /\ TInv /\ OInv /\ MineInv /\ OpenInv /\ EarlyInv /\ RecordInv /\ HeadInv /\ GoneInv
        /\ CandidateInv /\ CompensationInv
--------------------------------------------------------------------------------
(* The branch and the journal under a step.                                *)
LEMMA Grown ==
    ASSUME BranchTyped, Grows
    PROVE  /\ HEAD \in Nat \ {0} /\ DOMAIN commits = 1 .. HEAD
           /\ HEAD' \in Nat /\ DOMAIN commits' = 1 .. HEAD' /\ HEAD <= HEAD'
           /\ \A k \in DOMAIN commits : k \in DOMAIN commits' /\ commits'[k] = commits[k]
           /\ \/ commits' = commits /\ HEAD' = HEAD
              \/ /\ HEAD' = HEAD + 1
                 /\ \E c \in Commit : commits' = Append(commits, c) /\ commits'[HEAD'] = c
<1>1. HEAD \in Nat \ {0} /\ DOMAIN commits = 1 .. HEAD
  BY DEF BranchTyped, HEAD
<1>2. CASE commits' = commits
  BY <1>1, <1>2 DEF HEAD
<1>3. CASE \E c \in Commit : commits' = Append(commits, c)
  <2>1. PICK c \in Commit : commits' = Append(commits, c)
    BY <1>3
  <2>2. HEAD' = HEAD + 1 /\ DOMAIN commits' = 1 .. HEAD + 1 /\ commits'[HEAD + 1] = c
    BY <2>1 DEF BranchTyped, HEAD
  <2>3. \A k \in 1 .. HEAD : commits'[k] = commits[k]
    BY <2>1 DEF BranchTyped, HEAD
  <2> QED BY <1>1, <2>1, <2>2, <2>3
<1> QED BY <1>2, <1>3 DEF Grows

(* Writing a record replaces the process's own and no other.               *)
LEMMA Logged ==
    ASSUME TInv, pc \in Driving, NEW r \in Txn, WriteTxn(r)
    PROVE  /\ self \in DOMAIN txns /\ Me \in Txn
           /\ txns'[self] = r /\ DOMAIN txns' = DOMAIN txns
           /\ \A i \in DOMAIN txns \ {self} : txns'[i] = txns[i]
BY DEF TInv, JournalTyped, DrivenInv, WriteTxn, Me

(* The transaction a process drives is a pending one.                      *)
LEMMA Mine ==
    ASSUME TInv, MineInv, pc \in Driving \ {"reclaim", "finish-reclaim"}
    PROVE  self \in Pending /\ Me \in Txn
BY DEF TInv, JournalTyped, DrivenInv, MineInv, Me, Pending

(* What the soundness of a record rests on.                                *)
LEMMA SoundSame ==
    ASSUME NEW t \in Txn, NEW u \in Txn, Sound(t),
           u.op = t.op, u.name = t.name, u.before = t.before,
           \/ u.ctree = {}
           \/ u.ctree = t.ctree /\ u.payload = t.payload /\ u.resv = t.resv
                 /\ u.declared = t.declared
    PROVE  Sound(u)
<1>1. CASE u.payload = t.payload
  <2>1. ExpectedConfig(u) = ExpectedConfig(t)
    BY <1>1 DEF ExpectedConfig
  <2> QED BY <2>1 DEF Sound, SameElsewhere
<1> QED BY <1>1 DEF Sound, SameElsewhere

(* Writing a record that is sound, or no longer open, keeps the others     *)
(* sound.                                                                  *)
LEMMA OpenLogged ==
    ASSUME TInv, MineInv, OpenInv, pc \in Driving, NEW r \in Txn, WriteTxn(r),
           UNCHANGED config, r.status = "open" => Sound(r)
    PROVE  OpenInv'
<1>1. \A i \in Pending' : i = self \/ i \in Pending
  BY Logged DEF Pending
<1>2. \A t : Sound(t)' <=> Sound(t)
  BY DEF Sound, SameElsewhere
<1>3. \A i \in Pending' : Sound(txns'[i])
  BY <1>1, Logged DEF OpenInv, Pending
<1> QED BY <1>2, <1>3 DEF OpenInv

(* What leaves the journal and the config alone keeps the records sound.   *)
LEMMA OpenKept ==
    ASSUME OpenInv, UNCHANGED <<txns, config>>
    PROVE  OpenInv'
BY DEF OpenInv, Sound, SameElsewhere, Pending

(* The one open transaction, when the config is written.                   *)
LEMMA OpenSaved ==
    ASSUME TInv, OneOpen, MineInv, OpenInv, pc \in Driving \ {"reclaim", "finish-reclaim"},
           UNCHANGED txns, config' \in {Me.before, ExpectedConfig(Me)}
    PROVE  OpenInv'
<1>1. self \in Pending /\ Me \in Txn /\ Sound(Me)
  BY Mine DEF OpenInv, Me
<1>2. Pending' = {self}
  BY <1>1 DEF OneOpen, Pending
<1>3. config'.note = Me.before.note
        /\ \A m \in Names \ {Me.name} : config'.reg[m] = Me.before.reg[m]
  BY <1>1 DEF ExpectedConfig, SetReg, Txn, Config
<1>4. Me.before.note \in {NONE, config'.note} /\ SameElsewhere(config', Me)
  BY <1>1, <1>3 DEF SameElsewhere, Txn
<1>5. Sound(Me) /\ txns'[self] = Me
  BY <1>1 DEF Me
<1>6. ASSUME NEW i, i \in Pending' PROVE Sound(txns[i])'
  <2>1. txns'[i] = Me
    BY <1>2, <1>5, <1>6
  <2> QED BY <2>1, <1>4, <1>5 DEF Sound, SameElsewhere
<1> QED BY <1>6 DEF OpenInv

(* A step of a command that has written a revision, up to its commit,      *)
(* keeps the identity of its record.                                       *)
Going ==
    /\ pc \in Working /\ pc' \in Working
    /\ UNCHANGED <<cmd, self, seen>>
    /\ Me' \in Txn
    /\ Me'.op = Me.op /\ Me'.name = Me.name /\ Me'.before = Me.before
    /\ Me'.status = Me.status /\ Me'.start = Me.start

(* Where the regions of a command lie in each other.                       *)
LEMMA Regions ==
    /\ Working \subseteq Driving /\ Compensating \subseteq Driving
    /\ Working \cap (Early \cup Compensating \cup {"idle", "recover", "load", "undo-log-root",
          "reclaim", "finish-reclaim"}) = {}
    /\ Compensating \cap (CommandPcs \cup {"idle", "recover", "undo-log-root", "reclaim",
          "finish-reclaim"}) = {}
    /\ Reserved \subseteq Working /\ Declared \subseteq Working /\ Copying \subseteq Working
    /\ Prepared \subseteq Working /\ Saved \subseteq Working /\ Copied \subseteq Working
    /\ Quarantined \subseteq Working /\ {"quarantine", "log-snapshot", "commit"} \subseteq Working
BY DEF Working, Compensating, Driving, CommandPcs, UndoPcs, FinishPcs, Early, Reserved, Declared,
       Copying, Prepared, Saved, Copied, Quarantined

(* A process that is neither at a command nor compensating owes nothing to *)
(* the candidate, the branch or what it copied.                            *)
LEMMA Retired ==
    ASSUME pc' \notin CommandPcs \ {"load", "clear", "reclaim"},
           pc' \notin Compensating \cup {"undo-log-root"}
    PROVE  EarlyInv' /\ RecordInv' /\ HeadInv' /\ GoneInv' /\ CandidateInv' /\ CompensationInv'
<1>1. pc' \notin Working /\ pc' \notin Early \ {"load"}
  BY DEF Working, CommandPcs, Early
<1>2. EarlyInv'
  BY <1>1 DEF EarlyInv, Early
<1>3. RecordInv'
  BY <1>1, Regions DEF RecordInv
<1>4. HeadInv' /\ GoneInv' /\ CandidateInv'
  BY <1>1, Regions DEF HeadInv, GoneInv, CandidateInv
<1>5. CompensationInv'
  BY DEF CompensationInv, Compensating
<1> QED BY <1>2, <1>3, <1>4, <1>5

(* What a working step owes nothing to.                                    *)
LEMMA GoingOn ==
    ASSUME HInv, Going
    PROVE  /\ EarlyInv' /\ CompensationInv'
           /\ (pc' \in {"quarantine", "log-quarantined"} => cmd.op = "rm") => MineInv'
           /\ pc' \notin Prepared => CandidateInv'
<1>1. pc' \notin Early /\ pc' \notin Compensating /\ pc' # "undo-log-root" /\ pc' # "comp-config"
      /\ pc' \in Driving \ {"reclaim", "finish-reclaim"}
      /\ pc \in Driving \ {"reclaim", "finish-reclaim"}
      /\ pc' \notin {"comp-log-tree", "comp-commit"}
  BY Regions DEF Going, Compensating
<1>2. EarlyInv'
  BY <1>1 DEF EarlyInv, Early
<1>3. CompensationInv'
  BY <1>1 DEF CompensationInv
<1>4. (pc' \in {"quarantine", "log-quarantined"} => cmd.op = "rm") => MineInv'
  BY <1>1 DEF HInv, MineInv, Going
<1>5. pc' \notin Prepared => CandidateInv'
  BY DEF CandidateInv
<1> QED BY <1>2, <1>3, <1>4, <1>5

(* A step of a command that leaves the branch and the config alone.        *)
LEMMA HeadStays ==
    ASSUME HInv, Going, UNCHANGED <<commits, config>>, pc \in Saved <=> pc' \in Saved,
           pc \in Saved => Me'.payload = Me.payload
    PROVE  HeadInv'
<1>1. pc \in Saved => ExpectedConfig(Me') = ExpectedConfig(Me)
  BY DEF Going, ExpectedConfig
<1>2. HeadSnap' = HeadSnap
  BY DEF HeadSnap, HEAD
<1>3. ExpectedConfig(Me)' = ExpectedConfig(Me')
  BY DEF ExpectedConfig, SetReg
<1> QED BY <1>1, <1>2, <1>3 DEF HInv, HeadInv, Registers, Marked, Going

(* A step of a command that leaves the branch and the skills alone.        *)
LEMMA GoneStays ==
    ASSUME HInv, Going, UNCHANGED <<commits, skills>>, pc' \notin {"log-snapshot", "quarantine"},
           pc' \in Quarantined /\ cmd.op = "rm" => pc \in Quarantined
    PROVE  GoneInv'
<1>1. HeadSnap' = HeadSnap
  BY DEF HeadSnap, HEAD
<1> QED BY <1>1 DEF HInv, GoneInv, Gone, Going

(* What is left to prove of a step once its result is known to be well     *)
(* formed.                                                                 *)
Kept == /\ MineInv' /\ OpenInv' /\ EarlyInv' /\ RecordInv' /\ HeadInv' /\ GoneInv'
        /\ CandidateInv' /\ CompensationInv'

(* A command that ends, or leaves the rest to recovery, owes nothing.      *)
LEMMA Aborted ==
    ASSUME HInv, UNCHANGED <<txns, config>>, pc' \in {"idle", "recover"}
    PROVE  Kept
<1>1. MineInv'
  BY DEF MineInv, Driving, Working, CommandPcs, UndoPcs, FinishPcs, Early, Compensating
<1>2. OpenInv'
  BY OpenKept DEF HInv
<1>3. pc' \notin CommandPcs \ {"load", "clear", "reclaim"}
        /\ pc' \notin Compensating \cup {"undo-log-root"}
  BY DEF CommandPcs, Compensating
<1> QED BY <1>1, <1>2, <1>3, Retired DEF Kept

(* A working step that logs nothing, and one that logs r.                  *)
LEMMA GoesOn ==
    ASSUME HInv, pc \in Working, pc' \in Working, UNCHANGED <<txns, cmd, self, seen>>
    PROVE  Going /\ Me' = Me /\ Me \in Txn
<1>1. Me' = Me
  BY DEF Me
<1>2. Me \in Txn
  BY Regions, MeTyped DEF HInv, TInv, JournalTyped, DrivenInv
<1> QED BY <1>1, <1>2 DEF Going

(* What a process reads back is the record it wrote.                       *)
LEMMA Wrote ==
    ASSUME TInv, TInv', pc \in Driving, NEW r, WriteTxn(r), UNCHANGED self
    PROVE  Me \in Txn /\ Me' = r /\ r \in Txn /\ DOMAIN txns' = DOMAIN txns
<1>1. self \in DOMAIN txns /\ Me \in Txn
  BY MeTyped DEF TInv, JournalTyped, DrivenInv
<1>2. Me' = r /\ DOMAIN txns' = DOMAIN txns
  BY <1>1 DEF WriteTxn, Me
<1>3. txns' \in Seq(Txn)
  BY DEF TInv, JournalTyped
<1>4. r \in Txn
  BY <1>1, <1>2, <1>3 DEF Me
<1> QED BY <1>1, <1>2, <1>4

(* A revision of a command that changes neither its start nor what it      *)
(* loaded.                                                                 *)
LEMMA LogsOn ==
    ASSUME HInv, TInv', pc \in Working, pc' \in Working, NEW r, WriteTxn(r),
           UNCHANGED <<cmd, self, seen>>,
           r.op = Me.op, r.name = Me.name, r.before = Me.before, r.status = Me.status,
           r.start = Me.start
    PROVE  Going /\ Me' = r /\ Me \in Txn /\ r \in Txn
<1>1. Me' = r /\ r \in Txn /\ Me \in Txn
  BY Regions, Wrote DEF HInv
<1> QED BY <1>1 DEF Going

(* What a command logs of a record keeps it sound, as long as it has not   *)
(* said what it will commit.                                               *)
LEMMA LogsSound ==
    ASSUME HInv, TInv', pc \in Working \ {"commit"}, NEW r, WriteTxn(r), UNCHANGED <<config, self>>,
           r.op = Me.op, r.name = Me.name, r.before = Me.before, r.ctree = Me.ctree
    PROVE  OpenInv'
<1>1. Me \in Txn /\ r \in Txn
  BY Regions, Wrote DEF HInv
<1>2. Me.ctree = {}
  BY DEF HInv, RecordInv
<1>3. Sound(Me)
  BY Regions, Mine DEF HInv, OpenInv, Me, Working, Driving, CommandPcs
<1>4. Sound(r)
  BY <1>1, <1>2, <1>3, SoundSame
<1> QED BY <1>1, <1>4, Regions, OpenLogged DEF HInv

(* A working step of the ordinary kind: the branch, the config and what is *)
(* published stay.                                                         *)
LEMMA KeptBy ==
    ASSUME HInv, Going, OpenInv', RecordInv', UNCHANGED <<commits, config, skills>>,
           pc' \notin {"log-snapshot", "quarantine", "log-quarantined"} \cup Prepared,
           pc \in Saved <=> pc' \in Saved, pc \in Saved => Me'.payload = Me.payload,
           pc' \in Quarantined /\ cmd.op = "rm" => pc \in Quarantined
    PROVE  Kept
BY GoingOn, HeadStays, GoneStays DEF Kept

(* The steps of a command that write a record or copy, one by one.         *)
LEMMA InstallMutateKeeps == HInv /\ TInv' /\ InstallMutate => Kept
<1> SUFFICES ASSUME HInv, TInv', InstallMutate PROVE Kept
  OBVIOUS
<1>1. CASE Abort
  BY <1>1, Aborted DEF Abort, Goto, disk
<1>2. CASE ~Abort
  <2>1. /\ pc = "mutate" /\ pc' = "reserve" /\ cmd.op = "install"
        /\ UNCHANGED <<config, skills, commits, txns, cmd, self, seen, cand>>
        /\ held' = held
    BY <1>2, Zenon DEF InstallMutate, OrAbort, Goto, disk, local
  <2>2. pc \in Working /\ pc' \in Working
    BY <2>1 DEF Working, Reserved, Declared, Copying, Prepared, Saved, Copied, Quarantined,
       CommandPcs, Early
  <2>3. Going /\ Me' = Me
    BY <2>1, <2>2, GoesOn
  <2>4. OpenInv'
    BY <2>1, OpenKept DEF HInv
  <2>5. RecordInv'
    BY <2>1, <2>2, <2>3 DEF HInv, RecordInv, Working, Reserved, Declared, Copying, Prepared,
       Saved, Copied, Quarantined, CommandPcs, Early
  <2> QED
    BY <2>1, <2>3, <2>4, <2>5, KeptBy DEF Working, Reserved, Declared, Copying, Prepared, Saved,
       Copied, Quarantined, CommandPcs, Early
<1> QED BY <1>1, <1>2

LEMMA UpdateLogSnapshotKeeps == HInv /\ TInv' /\ UpdateLogSnapshot => Kept
<1> SUFFICES ASSUME HInv, TInv', UpdateLogSnapshot PROVE Kept
  OBVIOUS
<1> DEFINE r == [Me EXCEPT !.prev = held, !.stage = "snapshotted"]
<1>1. /\ pc = "log-snapshot" /\ pc' = "reserve" /\ cmd.op = "update"
      /\ WriteTxn(r)
      /\ UNCHANGED <<config, skills, commits, cmd, self, seen, held, cand>>
  BY Zenon DEF UpdateLogSnapshot, Goto, disk, local
<1>2. pc \in Working /\ pc' \in Working
  BY <1>1 DEF Working, Reserved, Declared, Copying, Prepared, Saved, Copied, Quarantined,
     CommandPcs, Early
<1>3. /\ r.op = Me.op /\ r.name = Me.name /\ r.before = Me.before /\ r.status = Me.status
      /\ r.start = Me.start /\ r.ctree = Me.ctree /\ r.resv = Me.resv /\ r.declared = Me.declared
  BY <1>1, <1>2, Regions, Mine DEF HInv, Txn, Working, Driving, CommandPcs
<1> HIDE DEF r
<1>4. Going /\ Me' = r
  BY <1>1, <1>2, <1>3, LogsOn
<1>5. OpenInv'
  BY <1>1, <1>2, <1>3, LogsSound
<1>6. RecordInv'
  BY <1>1, <1>2, <1>3, <1>4 DEF HInv, RecordInv, Working, Reserved, Declared, Copying, Prepared,
     Saved, Copied, Quarantined, CommandPcs, Early
<1> QED
  BY <1>1, <1>3, <1>4, <1>5, <1>6, KeptBy DEF Working, Reserved, Declared, Copying, Prepared,
     Saved, Copied, Quarantined, CommandPcs, Early

LEMMA ReserveStagedRootKeeps == HInv /\ TInv' /\ ReserveStagedRoot => Kept
<1> SUFFICES ASSUME HInv, TInv', ReserveStagedRoot PROVE Kept
  OBVIOUS
<1>1. /\ pc = "reserve" /\ pc' = "log-reserved"
      /\ UNCHANGED <<config, skills, commits, txns, cmd, self, seen, cand>>
  BY Zenon DEF ReserveStagedRoot, Goto, disk, local
<1>2. pc \in Working /\ pc' \in Working
  BY <1>1 DEF Working, Reserved, Declared, Copying, Prepared, Saved, Copied, Quarantined,
     CommandPcs, Early
<1>3. Going /\ Me' = Me
  BY <1>1, <1>2, GoesOn
<1>4. OpenInv'
  BY <1>1, OpenKept DEF HInv
<1>6. held' \in Tree
  BY Literals, ConstantsAssumption DEF ReserveStagedRoot, HInv, TInv, DiskTyped, Tree
<1>5. RecordInv'
  BY <1>1, <1>2, <1>3, <1>6 DEF HInv, RecordInv, Working, Reserved, Declared, Copying, Prepared,
     Saved, Copied, Quarantined, CommandPcs, Early
<1> QED
  BY <1>1, <1>3, <1>4, <1>5, KeptBy DEF Working, Reserved, Declared, Copying, Prepared, Saved,
     Copied, Quarantined, CommandPcs, Early

LEMMA LogReservedKeeps == HInv /\ TInv' /\ LogReserved => Kept
<1> SUFFICES ASSUME HInv, TInv', LogReserved PROVE Kept
  OBVIOUS
<1> DEFINE r == [Me EXCEPT !.resv = held, !.declared = cmd.c]
<1>1. /\ pc = "log-reserved" /\ pc' = "publish-root"
      /\ WriteTxn(r)
      /\ UNCHANGED <<config, skills, commits, cmd, self, seen, held, cand>>
  BY Zenon DEF LogReserved, Goto, disk, local
<1>2. pc \in Working /\ pc' \in Working
  BY <1>1 DEF Working, Reserved, Declared, Copying, Prepared, Saved, Copied, Quarantined,
     CommandPcs, Early
<1>3. /\ r.op = Me.op /\ r.name = Me.name /\ r.before = Me.before /\ r.status = Me.status
      /\ r.start = Me.start /\ r.ctree = Me.ctree
  BY <1>1, <1>2, Regions, Mine DEF HInv, Txn, Working, Driving, CommandPcs
<1> HIDE DEF r
<1>4. Going /\ Me' = r
  BY <1>1, <1>2, <1>3, LogsOn
<1>5. OpenInv'
  BY <1>1, <1>2, <1>3, LogsSound
<1>6. RecordInv'
  BY <1>1, <1>2, <1>3, <1>4 DEF HInv, RecordInv, Working, Reserved, Declared, Copying, Prepared,
     Saved, Copied, Quarantined, CommandPcs, Early
<1> QED
  BY <1>1, <1>3, <1>4, <1>5, <1>6, KeptBy DEF Working, Reserved, Declared, Copying, Prepared,
     Saved, Copied, Quarantined, CommandPcs, Early

LEMMA PublishRootKeeps == HInv /\ TInv' /\ PublishRoot => Kept
<1> SUFFICES ASSUME HInv, TInv', PublishRoot PROVE Kept
  OBVIOUS
<1>1. CASE Abort
  BY <1>1, Aborted DEF Abort, Goto, disk
<1>2. CASE ~Abort
  <2>1. /\ pc = "publish-root" /\ pc' = "log-root"
        /\ UNCHANGED <<config, skills, commits, txns, cmd, self, seen, cand>>
        /\ held' = held
    BY <1>2, Zenon DEF PublishRoot, OrAbort, Goto, disk, local
  <2>2. pc \in Working /\ pc' \in Working
    BY <2>1 DEF Working, Reserved, Declared, Copying, Prepared, Saved, Copied, Quarantined,
       CommandPcs, Early
  <2>3. Going /\ Me' = Me
    BY <2>1, <2>2, GoesOn
  <2>4. OpenInv'
    BY <2>1, OpenKept DEF HInv
  <2>5. RecordInv'
    BY <2>1, <2>2, <2>3 DEF HInv, RecordInv, Working, Reserved, Declared, Copying, Prepared,
       Saved, Copied, Quarantined, CommandPcs, Early
  <2> QED
    BY <2>1, <2>3, <2>4, <2>5, KeptBy DEF Working, Reserved, Declared, Copying, Prepared, Saved,
       Copied, Quarantined, CommandPcs, Early
<1> QED BY <1>1, <1>2

LEMMA LogRootKeeps == HInv /\ TInv' /\ LogRoot => Kept
<1> SUFFICES ASSUME HInv, TInv', LogRoot PROVE Kept
  OBVIOUS
<1> DEFINE r == [Me EXCEPT !.resv = NoTree, !.payload = held]
<1>1. /\ pc = "log-root" /\ pc' = "copy"
      /\ WriteTxn(r)
      /\ UNCHANGED <<config, skills, commits, cmd, self, seen, held, cand>>
  BY Zenon DEF LogRoot, Goto, disk, local
<1>2. pc \in Working /\ pc' \in Working
  BY <1>1 DEF Working, Reserved, Declared, Copying, Prepared, Saved, Copied, Quarantined,
     CommandPcs, Early
<1>3. /\ r.op = Me.op /\ r.name = Me.name /\ r.before = Me.before /\ r.status = Me.status
      /\ r.start = Me.start /\ r.ctree = Me.ctree /\ r.resv = NoTree
  BY <1>1, <1>2, Regions, Mine DEF HInv, Txn, Working, Driving, CommandPcs
<1> HIDE DEF r
<1>4. Going /\ Me' = r
  BY <1>1, <1>2, <1>3, LogsOn
<1>5. OpenInv'
  BY <1>1, <1>2, <1>3, LogsSound
<1>6. RecordInv'
  BY <1>1, <1>2, <1>3, <1>4 DEF HInv, RecordInv, Working, Reserved, Declared, Copying, Prepared,
     Saved, Copied, Quarantined, CommandPcs, Early
<1> QED
  BY <1>1, <1>3, <1>4, <1>5, <1>6, KeptBy DEF Working, Reserved, Declared, Copying, Prepared,
     Saved, Copied, Quarantined, CommandPcs, Early

LEMMA CopyStagedKeeps == HInv /\ TInv' /\ CopyStaged => Kept
<1> SUFFICES ASSUME HInv, TInv', CopyStaged PROVE Kept
  OBVIOUS
<1>1. CASE Abort
  BY <1>1, Aborted DEF Abort, Goto, disk
<1>2. CASE ~Abort
  <2>1. /\ pc \in {"copy", "fill"} /\ pc' \in {"fill", "log-copied"}
        /\ UNCHANGED <<config, skills, commits, txns, cmd, self, seen, cand>>
    BY <1>2, Zenon DEF CopyStaged, OrAbort, Goto, disk, local
  <2>2. pc \in Working /\ pc' \in Working
    BY <2>1 DEF Working, Reserved, Declared, Copying, Prepared, Saved, Copied, Quarantined,
       CommandPcs, Early
  <2>3. Going /\ Me' = Me
    BY <2>1, <2>2, GoesOn
  <2>4. OpenInv'
    BY <2>1, OpenKept DEF HInv
  <2>6. held' \in Tree
    <3>1. held \in Tree /\ cmd.c \in Contents /\ TORN \in Contents
      BY <2>1, Literals DEF HInv, TInv, CommandInv, Staging, RecordInv, Copying, Declared
    <3>2. \A c \in Contents : [held EXCEPT !.c = c] \in Tree
      BY <3>1, TreeHolding
    <3>3. \E c \in {TORN, cmd.c} : held' = IF c = TORN THEN held ELSE [held EXCEPT !.c = c]
      BY <1>2 DEF CopyStaged, OrAbort
    <3> QED BY <3>1, <3>2, <3>3
  <2>5. RecordInv'
    BY <2>1, <2>2, <2>3, <2>6 DEF HInv, RecordInv, Working, Reserved, Declared, Copying,
       Prepared, Saved, Copied, Quarantined, CommandPcs, Early
  <2> QED
    BY <2>1, <2>3, <2>4, <2>5, KeptBy DEF Working, Reserved, Declared, Copying, Prepared, Saved,
       Copied, Quarantined, CommandPcs, Early
<1> QED BY <1>1, <1>2

LEMMA InstallLogCopiedKeeps == HInv /\ TInv' /\ InstallLogCopied => Kept
<1> SUFFICES ASSUME HInv, TInv', InstallLogCopied PROVE Kept
  OBVIOUS
<1> DEFINE r == [Me EXCEPT !.payload = held, !.declared = NONE]
<1>1. /\ pc = "log-copied" /\ pc' = "log-prepared" /\ cmd.op = "install"
      /\ WriteTxn(r)
      /\ UNCHANGED <<config, skills, commits, cmd, self, seen, held, cand>>
  BY Zenon DEF InstallLogCopied, Goto, disk, local
<1>2. pc \in Working /\ pc' \in Working
  BY <1>1 DEF Working, Reserved, Declared, Copying, Prepared, Saved, Copied, Quarantined,
     CommandPcs, Early
<1>3. /\ r.op = Me.op /\ r.name = Me.name /\ r.before = Me.before /\ r.status = Me.status
      /\ r.start = Me.start /\ r.ctree = Me.ctree /\ r.resv = Me.resv /\ r.declared = NONE
      /\ r.payload = held
  BY <1>1, <1>2, Regions, Mine DEF HInv, Txn, Working, Driving, CommandPcs
<1> HIDE DEF r
<1>4. Going /\ Me' = r
  BY <1>1, <1>2, <1>3, LogsOn
<1>5. OpenInv'
  BY <1>1, <1>2, <1>3, LogsSound
<1>6. RecordInv'
  BY <1>1, <1>2, <1>3, <1>4 DEF HInv, RecordInv, Working, Reserved, Declared, Copying, Prepared,
     Saved, Copied, Quarantined, CommandPcs, Early
<1> QED
  BY <1>1, <1>3, <1>4, <1>5, <1>6, KeptBy DEF Working, Reserved, Declared, Copying, Prepared,
     Saved, Copied, Quarantined, CommandPcs, Early

LEMMA UpdateLogCopiedKeeps == HInv /\ TInv' /\ UpdateLogCopied => Kept
<1> SUFFICES ASSUME HInv, TInv', UpdateLogCopied PROVE Kept
  OBVIOUS
<1> DEFINE r == [Me EXCEPT !.payload = held, !.declared = NONE, !.stage = "staged"]
<1>1. /\ pc = "log-copied" /\ pc' = "log-prepared" /\ cmd.op = "update"
      /\ WriteTxn(r)
      /\ UNCHANGED <<config, skills, commits, cmd, self, seen, held, cand>>
  BY Zenon DEF UpdateLogCopied, Goto, disk, local
<1>2. pc \in Working /\ pc' \in Working
  BY <1>1 DEF Working, Reserved, Declared, Copying, Prepared, Saved, Copied, Quarantined,
     CommandPcs, Early
<1>3. /\ r.op = Me.op /\ r.name = Me.name /\ r.before = Me.before /\ r.status = Me.status
      /\ r.start = Me.start /\ r.ctree = Me.ctree /\ r.resv = Me.resv /\ r.declared = NONE
      /\ r.payload = held
  BY <1>1, <1>2, Regions, Mine DEF HInv, Txn, Working, Driving, CommandPcs
<1> HIDE DEF r
<1>4. Going /\ Me' = r
  BY <1>1, <1>2, <1>3, LogsOn
<1>5. OpenInv'
  BY <1>1, <1>2, <1>3, LogsSound
<1>6. RecordInv'
  BY <1>1, <1>2, <1>3, <1>4 DEF HInv, RecordInv, Working, Reserved, Declared, Copying, Prepared,
     Saved, Copied, Quarantined, CommandPcs, Early
<1> QED
  BY <1>1, <1>3, <1>4, <1>5, <1>6, KeptBy DEF Working, Reserved, Declared, Copying, Prepared,
     Saved, Copied, Quarantined, CommandPcs, Early

LEMMA InstallLogPreparedKeeps == HInv /\ TInv' /\ InstallLogPrepared => Kept
<1> SUFFICES ASSUME HInv, TInv', InstallLogPrepared PROVE Kept
  OBVIOUS
<1> DEFINE r == [Me EXCEPT !.stage = "prepared"]
<1>1. CASE Abort
  BY <1>1, Aborted DEF Abort, Goto, disk
<1>2. CASE ~Abort
  <2>1. /\ pc = "log-prepared" /\ pc' = "save" /\ cmd.op = "install"
        /\ WriteTxn(r)
        /\ UNCHANGED <<config, skills, commits, cmd, self, seen, held, cand>>
    BY <1>2, Zenon DEF InstallLogPrepared, OrAbort, Goto, disk, local
  <2>2. pc \in Working /\ pc' \in Working
    BY <2>1 DEF Working, Reserved, Declared, Copying, Prepared, Saved, Copied, Quarantined,
       CommandPcs, Early
  <2>3. /\ r.op = Me.op /\ r.name = Me.name /\ r.before = Me.before /\ r.status = Me.status
        /\ r.start = Me.start /\ r.ctree = Me.ctree /\ r.resv = Me.resv
        /\ r.declared = Me.declared /\ r.payload = Me.payload
    BY <2>1, <2>2, Regions, Mine DEF HInv, Txn, Working, Driving, CommandPcs
  <2> HIDE DEF r
  <2>4. Going /\ Me' = r
    BY <2>1, <2>2, <2>3, LogsOn
  <2>5. OpenInv'
    BY <2>1, <2>2, <2>3, LogsSound
  <2>6. RecordInv'
    BY <2>1, <2>2, <2>3, <2>4 DEF HInv, RecordInv, Working, Reserved, Declared, Copying,
       Prepared, Saved, Copied, Quarantined, CommandPcs, Early
  <2> QED
    BY <2>1, <2>3, <2>4, <2>5, <2>6, KeptBy DEF Working, Reserved, Declared, Copying, Prepared,
       Saved, Copied, Quarantined, CommandPcs, Early
<1> QED BY <1>1, <1>2

LEMMA UpdateValidateStagedKeeps == HInv /\ TInv' /\ UpdateValidateStaged => Kept
<1> SUFFICES ASSUME HInv, TInv', UpdateValidateStaged PROVE Kept
  OBVIOUS
<1>1. CASE Abort
  BY <1>1, Aborted DEF Abort, Goto, disk
<1>2. CASE ~Abort
  <2>1. /\ pc = "log-prepared" /\ pc' = "save" /\ cmd.op = "update"
        /\ UNCHANGED <<config, skills, commits, txns, cmd, self, seen, cand>>
        /\ held' = held
    BY <1>2, Zenon DEF UpdateValidateStaged, OrAbort, Goto, disk, local
  <2>2. pc \in Working /\ pc' \in Working
    BY <2>1 DEF Working, Reserved, Declared, Copying, Prepared, Saved, Copied, Quarantined,
       CommandPcs, Early
  <2>3. Going /\ Me' = Me
    BY <2>1, <2>2, GoesOn
  <2>4. OpenInv'
    BY <2>1, OpenKept DEF HInv
  <2>5. RecordInv'
    BY <2>1, <2>2, <2>3 DEF HInv, RecordInv, Working, Reserved, Declared, Copying, Prepared,
       Saved, Copied, Quarantined, CommandPcs, Early
  <2> QED
    BY <2>1, <2>3, <2>4, <2>5, KeptBy DEF Working, Reserved, Declared, Copying, Prepared, Saved,
       Copied, Quarantined, CommandPcs, Early
<1> QED BY <1>1, <1>2

LEMMA RemoveLogQuarantinedKeeps == HInv /\ TInv' /\ RemoveLogQuarantined => Kept
<1> SUFFICES ASSUME HInv, TInv', RemoveLogQuarantined PROVE Kept
  OBVIOUS
<1> DEFINE r == [Me EXCEPT !.stage = "quarantined"]
<1>1. /\ pc = "log-quarantined" /\ pc' = "save"
      /\ WriteTxn(r)
      /\ UNCHANGED <<config, skills, commits, cmd, self, seen, held, cand>>
  BY Zenon DEF RemoveLogQuarantined, Goto, disk, local
<1>2. pc \in Working /\ pc' \in Working
  BY <1>1 DEF Working, Reserved, Declared, Copying, Prepared, Saved, Copied, Quarantined,
     CommandPcs, Early
<1>3. /\ r.op = Me.op /\ r.name = Me.name /\ r.before = Me.before /\ r.status = Me.status
      /\ r.start = Me.start /\ r.ctree = Me.ctree /\ r.resv = Me.resv /\ r.declared = Me.declared
      /\ r.payload = Me.payload
  BY <1>1, <1>2, Regions, Mine DEF HInv, Txn, Working, Driving, CommandPcs
<1> HIDE DEF r
<1>4. Going /\ Me' = r
  BY <1>1, <1>2, <1>3, LogsOn
<1>5. OpenInv'
  BY <1>1, <1>2, <1>3, LogsSound
<1>6. RecordInv'
  BY <1>1, <1>2, <1>3, <1>4 DEF HInv, RecordInv, MineInv, Working, Reserved, Declared, Copying,
     Prepared, Saved, Copied, Quarantined, CommandPcs, Early
<1> QED
  BY <1>1, <1>3, <1>4, <1>5, <1>6, KeptBy DEF Working, Reserved, Declared, Copying, Prepared,
     Saved, Copied, Quarantined, CommandPcs, Early

LEMMA LogSavedKeeps == HInv /\ TInv' /\ LogSaved => Kept
<1> SUFFICES ASSUME HInv, TInv', LogSaved PROVE Kept
  OBVIOUS
<1> DEFINE r == [Me EXCEPT !.stage = "config-saved"]
<1>1. /\ pc = "log-saved" /\ pc' \in {"prepare", "publish"}
      /\ WriteTxn(r)
      /\ UNCHANGED <<config, skills, commits, cmd, self, seen, held, cand>>
  BY Zenon DEF LogSaved, Goto, disk, local
<1>2. pc \in Working /\ pc' \in Working
  BY <1>1 DEF Working, Reserved, Declared, Copying, Prepared, Saved, Copied, Quarantined,
     CommandPcs, Early
<1>3. /\ r.op = Me.op /\ r.name = Me.name /\ r.before = Me.before /\ r.status = Me.status
      /\ r.start = Me.start /\ r.ctree = Me.ctree /\ r.resv = Me.resv /\ r.declared = Me.declared
      /\ r.payload = Me.payload
  BY <1>1, <1>2, Regions, Mine DEF HInv, Txn, Working, Driving, CommandPcs
<1> HIDE DEF r
<1>4. Going /\ Me' = r
  BY <1>1, <1>2, <1>3, LogsOn
<1>5. OpenInv'
  BY <1>1, <1>2, <1>3, LogsSound
<1>6. RecordInv'
  BY <1>1, <1>2, <1>3, <1>4 DEF HInv, RecordInv, Working, Reserved, Declared, Copying, Prepared,
     Saved, Copied, Quarantined, CommandPcs, Early
<1> QED
  BY <1>1, <1>3, <1>4, <1>5, <1>6, KeptBy DEF Working, Reserved, Declared, Copying, Prepared,
     Saved, Copied, Quarantined, CommandPcs, Early

LEMMA UpdateLogExchangedKeeps == HInv /\ TInv' /\ UpdateLogExchanged => Kept
<1> SUFFICES ASSUME HInv, TInv', UpdateLogExchanged PROVE Kept
  OBVIOUS
<1> DEFINE r == [Me EXCEPT !.stage = "exchanged"]
<1>1. /\ pc = "log-exchanged" /\ pc' = "log-published"
      /\ WriteTxn(r)
      /\ UNCHANGED <<config, skills, commits, cmd, self, seen, held, cand>>
  BY Zenon DEF UpdateLogExchanged, Goto, disk, local
<1>2. pc \in Working /\ pc' \in Working
  BY <1>1 DEF Working, Reserved, Declared, Copying, Prepared, Saved, Copied, Quarantined,
     CommandPcs, Early
<1>3. /\ r.op = Me.op /\ r.name = Me.name /\ r.before = Me.before /\ r.status = Me.status
      /\ r.start = Me.start /\ r.ctree = Me.ctree /\ r.resv = Me.resv /\ r.declared = Me.declared
      /\ r.payload = Me.payload
  BY <1>1, <1>2, Regions, Mine DEF HInv, Txn, Working, Driving, CommandPcs
<1> HIDE DEF r
<1>4. Going /\ Me' = r
  BY <1>1, <1>2, <1>3, LogsOn
<1>5. OpenInv'
  BY <1>1, <1>2, <1>3, LogsSound
<1>6. RecordInv'
  BY <1>1, <1>2, <1>3, <1>4 DEF HInv, RecordInv, Working, Reserved, Declared, Copying, Prepared,
     Saved, Copied, Quarantined, CommandPcs, Early
<1> QED
  BY <1>1, <1>3, <1>4, <1>5, <1>6, KeptBy DEF Working, Reserved, Declared, Copying, Prepared,
     Saved, Copied, Quarantined, CommandPcs, Early

LEMMA LogPublishedKeeps == HInv /\ TInv' /\ LogPublished => Kept
<1> SUFFICES ASSUME HInv, TInv', LogPublished PROVE Kept
  OBVIOUS
<1> DEFINE r == [Me EXCEPT !.stage = "published"]
<1>1. /\ pc = "log-published" /\ pc' = "prepare"
      /\ WriteTxn(r)
      /\ UNCHANGED <<config, skills, commits, cmd, self, seen, held, cand>>
  BY Zenon DEF LogPublished, Goto, disk, local
<1>2. pc \in Working /\ pc' \in Working
  BY <1>1 DEF Working, Reserved, Declared, Copying, Prepared, Saved, Copied, Quarantined,
     CommandPcs, Early
<1>3. /\ r.op = Me.op /\ r.name = Me.name /\ r.before = Me.before /\ r.status = Me.status
      /\ r.start = Me.start /\ r.ctree = Me.ctree /\ r.resv = Me.resv /\ r.declared = Me.declared
      /\ r.payload = Me.payload
  BY <1>1, <1>2, Regions, Mine DEF HInv, Txn, Working, Driving, CommandPcs
<1> HIDE DEF r
<1>4. Going /\ Me' = r
  BY <1>1, <1>2, <1>3, LogsOn
<1>5. OpenInv'
  BY <1>1, <1>2, <1>3, LogsSound
<1>6. RecordInv'
  BY <1>1, <1>2, <1>3, <1>4 DEF HInv, RecordInv, Working, Reserved, Declared, Copying, Prepared,
     Saved, Copied, Quarantined, CommandPcs, Early
<1> QED
  BY <1>1, <1>3, <1>4, <1>5, <1>6, KeptBy DEF Working, Reserved, Declared, Copying, Prepared,
     Saved, Copied, Quarantined, CommandPcs, Early

(* The steps that change what is published, the config or the candidate.   *)
LEMMA RemoveMutateKeeps == HInv /\ TInv' /\ (RemoveMutate \/ UpdateMutate) => Kept
<1> SUFFICES ASSUME HInv, TInv', RemoveMutate \/ UpdateMutate PROVE Kept
  OBVIOUS
<1>1. CASE Abort
  BY <1>1, Aborted DEF Abort, Goto, disk
<1>2. CASE ~Abort
  <2>1. /\ pc = "mutate" /\ pc' = "log-snapshot"
        /\ UNCHANGED <<config, skills, commits, txns, cmd, self, seen, cand>>
        /\ held' = skills[cmd.name]
    BY <1>2, Zenon DEF RemoveMutate, UpdateMutate, OrAbort, Goto, disk
  <2>2. pc \in Working /\ pc' \in Working
    BY <2>1 DEF Working, CommandPcs, Early
  <2>3. Going /\ Me' = Me
    BY <2>1, <2>2, GoesOn
  <2>4. OpenInv'
    BY <2>1, OpenKept DEF HInv
  <2>5. RecordInv'
    BY <2>1, <2>2, <2>3 DEF HInv, RecordInv, Working, Reserved, Declared, Copying, Prepared, Saved,
       Copied, CommandPcs, Early
  <2>6. GoneInv'
    BY <2>1 DEF GoneInv, Gone, Quarantined, Saved, Prepared
  <2>7. HeadInv'
    BY <2>1, <2>3, HeadStays DEF Saved, Prepared
  <2> QED BY <2>1, <2>3, <2>4, <2>5, <2>6, <2>7, GoingOn DEF Kept, Prepared
<1> QED BY <1>1, <1>2

LEMMA RemoveLogSnapshotKeeps == HInv /\ TInv' /\ RemoveLogSnapshot => Kept
<1> SUFFICES ASSUME HInv, TInv', RemoveLogSnapshot PROVE Kept
  OBVIOUS
<1> DEFINE r == [Me EXCEPT !.payload = held, !.stage = "snapshotted"]
<1>1. /\ pc = "log-snapshot" /\ pc' = "quarantine" /\ cmd.op = "rm"
      /\ WriteTxn(r)
      /\ UNCHANGED <<config, skills, commits, cmd, self, seen, held, cand>>
  BY Zenon DEF RemoveLogSnapshot, Goto, disk, local
<1>2. pc \in Working /\ pc' \in Working
  BY <1>1 DEF Working, CommandPcs, Early
<1>3. /\ r.op = Me.op /\ r.name = Me.name /\ r.before = Me.before /\ r.status = Me.status
      /\ r.start = Me.start /\ r.ctree = Me.ctree /\ r.resv = Me.resv /\ r.declared = Me.declared
      /\ r.payload = held
  BY <1>1, <1>2, Regions, Mine DEF HInv, Txn, Working, Driving, CommandPcs
<1> HIDE DEF r
<1>4. Going /\ Me' = r
  BY <1>1, <1>2, <1>3, LogsOn
<1>5. OpenInv'
  BY <1>1, <1>2, <1>3, LogsSound
<1>6. RecordInv'
  BY <1>1, <1>2, <1>3, <1>4 DEF HInv, RecordInv, Working, Reserved, Declared, Copying, Prepared,
     Saved, Copied, CommandPcs, Early
<1>7. GoneInv'
  BY <1>1, <1>3, <1>4 DEF HInv, GoneInv, Gone, Quarantined, Saved, Prepared
<1>8. HeadInv'
  BY <1>1, <1>4, HeadStays DEF Saved, Prepared
<1> QED
  BY <1>1, <1>4, <1>5, <1>6, <1>7, <1>8, GoingOn DEF Kept, Prepared

(* What rm quarantines is registered in HEAD: nobody but fu registers      *)
(* anything, so that nothing else can have taken the entry away.           *)
LEMMA RemoveQuarantineKeeps == HInv /\ TInv' /\ RemoveQuarantine => Kept
<1> SUFFICES ASSUME HInv, TInv', RemoveQuarantine PROVE Kept
  OBVIOUS
<1>1. CASE Abort
  BY <1>1, Aborted DEF Abort, Goto, disk
<1>2. CASE ~Abort
  <2>1. /\ pc = "quarantine" /\ pc' = "log-quarantined"
        /\ UNCHANGED <<config, commits, txns, cmd, self, seen, cand, held>>
        /\ skills' = IF Present(Me.payload) THEN [skills EXCEPT ![cmd.name] = NoTree] ELSE skills
    BY <1>2, Zenon DEF RemoveQuarantine, OwnsPayload, OrAbort, Goto, local
  <2>2. pc \in Working /\ pc' \in Working
    BY <2>1 DEF Working, CommandPcs, Early
  <2>3. Going /\ Me' = Me
    BY <2>1, <2>2, GoesOn
  <2>4. OpenInv'
    BY <2>1, OpenKept DEF HInv
  <2>5. cmd.op = "rm" /\ cmd.name \in Names /\ Me.op = "rm" /\ Me.name = cmd.name
    BY <2>1, <2>2 DEF HInv, MineInv, TInv, CommandInv, Write
  <2>6. RecordInv'
    BY <2>1, <2>2, <2>3, <2>5 DEF HInv, RecordInv, Working, Reserved, Declared, Copying, Prepared,
       Saved, Copied, CommandPcs, Early
  <2>7. HeadSnap.cfg.reg[cmd.name] # NONE /\ HeadSnap' = HeadSnap
    <3>1. Sound(Me)
      BY <2>1, Mine DEF HInv, OpenInv, Me, Driving, CommandPcs, Early
    <3>2. HeadSnap.cfg.reg = Me.before.reg
      BY <2>1, <2>2 DEF HInv, HeadInv, Registers, Saved, Prepared
    <3> QED BY <2>1, <2>5, <3>1, <3>2 DEF Sound, HeadSnap, HEAD
  <2>8. Gone(cmd.name)'
    BY <2>1, <2>5 DEF HInv, GoneInv, Gone, Present, TInv, DiskTyped
  <2>9. GoneInv'
    BY <2>1, <2>7, <2>8 DEF GoneInv
  <2>10. HeadInv'
    BY <2>1, <2>3, HeadStays DEF Saved, Prepared
  <2> QED BY <2>1, <2>3, <2>4, <2>5, <2>6, <2>9, <2>10, GoingOn DEF Kept, Prepared
<1> QED BY <1>1, <1>2

(* The config is written over the bytes the command loaded, whose note the *)
(* record has.                                                             *)
LEMMA SaveConfigKeeps == HInv /\ TInv' /\ SaveConfig => Kept
<1> SUFFICES ASSUME HInv, TInv', SaveConfig PROVE Kept
  OBVIOUS
<1>1. CASE Abort
  BY <1>1, Aborted DEF Abort, Goto, disk
<1>2. CASE ~Abort
  <2>1. /\ pc = "save" /\ pc' = "log-saved" /\ config = seen
        /\ UNCHANGED <<skills, commits, txns, cmd, self, seen, cand, held>>
        /\ config' = ExpectedConfig(Me)
    BY <1>2, Zenon DEF SaveConfig, ConfigAsLoaded, OrAbort, Goto, local
  <2>2. pc \in Working /\ pc' \in Working
    BY <2>1 DEF Working, CommandPcs, Early
  <2>3. Going /\ Me' = Me /\ Me \in Txn
    BY <2>1, <2>2, GoesOn
  <2>4. OpenInv'
    BY <2>1, OpenSaved DEF HInv, OInv, Driving, CommandPcs, Early
  <2>5. RecordInv'
    BY <2>1, <2>2, <2>3 DEF HInv, RecordInv, Working, Reserved, Declared, Copying, Prepared, Saved,
       Copied, CommandPcs, Early
  <2>6. GoneInv'
    BY <2>1, <2>3, GoneStays DEF Quarantined, Saved, Prepared
  <2>7. HeadInv'
    <3>1. Me.before = seen /\ pc \notin Saved
      BY <2>1, <2>2 DEF HInv, MineInv, Saved, Prepared
    <3>2. HeadSnap.cfg.note = Me.before.note /\ HeadSnap.cfg.reg = Me.before.reg
      BY <2>1, <2>2, <3>1 DEF HInv, HeadInv, Registers, Marked
    <3>3. HeadSnap' = HeadSnap /\ ExpectedConfig(Me)' = ExpectedConfig(Me)
      BY <2>1, <2>3 DEF HeadSnap, HEAD, ExpectedConfig, SetReg
    <3>4. pc' \in Saved
      BY <2>1 DEF Saved
    <3> QED BY <2>1, <2>3, <3>2, <3>3, <3>4 DEF HeadInv, Registers, Marked
  <2> QED BY <2>1, <2>3, <2>4, <2>5, <2>6, <2>7, GoingOn DEF Kept, Prepared
<1> QED BY <1>1, <1>2

LEMMA PublishKeeps == HInv /\ TInv' /\ (InstallPublish \/ UpdatePublish) => Kept
<1> SUFFICES ASSUME HInv, TInv', InstallPublish \/ UpdatePublish PROVE Kept
  OBVIOUS
<1>1. CASE Abort
  BY <1>1, Aborted DEF Abort, Goto, disk
<1>2. CASE ~Abort
  <2>1. /\ pc = "publish" /\ pc' \in {"log-published", "log-exchanged"} /\ cmd.op # "rm"
        /\ UNCHANGED <<config, commits, txns, cmd, self, seen, cand, held>>
    BY <1>2 DEF InstallPublish, UpdatePublish, Exchange, OrAbort, Goto, local
  <2>2. pc \in Working /\ pc' \in Working
    BY <2>1 DEF Working, CommandPcs, Early
  <2>3. Going /\ Me' = Me /\ Me \in Txn
    BY <2>1, <2>2, GoesOn
  <2>4. OpenInv'
    BY <2>1, OpenKept DEF HInv
  <2>5. RecordInv'
    BY <2>1, <2>2, <2>3 DEF HInv, RecordInv, Working, Reserved, Declared, Copying, Prepared, Saved,
       Copied, CommandPcs, Early
  <2>6. GoneInv'
    BY <2>1 DEF GoneInv
  <2>7. HeadInv'
    BY <2>1, <2>3, HeadStays DEF Saved, Prepared
  <2> QED BY <2>1, <2>3, <2>4, <2>5, <2>6, <2>7, GoingOn DEF Kept, Prepared
<1> QED BY <1>1, <1>2

(* The candidate: prepared over HEAD, validated, recorded and committed.   *)
LEMMA PrepareCommitKeeps == HInv /\ TInv' /\ PrepareCommit => Kept
<1> SUFFICES ASSUME HInv, TInv', PrepareCommit PROVE Kept
  OBVIOUS
<1>0. PICK p : p = [parent |-> HEAD, snap |-> Worktree]
  OBVIOUS
<1>1. /\ pc = "prepare" /\ pc' = "validate" /\ cand' = {p}
      /\ UNCHANGED <<config, skills, commits, txns, cmd, self, seen, held>>
  BY <1>0, Zenon DEF PrepareCommit, Goto, disk
<1>2. pc \in Working /\ pc' \in Working /\ pc \in Saved /\ pc' \in Saved
  BY <1>1 DEF Working, CommandPcs, Early, Saved, Prepared
<1>3. Going /\ Me' = Me /\ Me \in Txn
  BY <1>1, <1>2, GoesOn
<1>4. OpenInv'
  BY <1>1, OpenKept DEF HInv
<1>5. RecordInv'
  BY <1>1, <1>2, <1>3 DEF HInv, RecordInv, Working, Reserved, Declared, Copying, Prepared, Saved,
     Copied, CommandPcs, Early
<1>6. GoneInv'
  BY <1>1, <1>3, GoneStays DEF Quarantined, Saved, Prepared
<1>7. HeadInv'
  BY <1>1, <1>2, <1>3, HeadStays
<1>8. HEAD \in DOMAIN commits /\ cmd.op \in Write /\ cmd.name \in Names
  BY <1>1 DEF HInv, TInv, BranchTyped, HEAD, CommandInv, CommandPcs, Write
<1>9. /\ p.parent = HEAD /\ p.snap.tree[cmd.name] = skills[cmd.name].c
      /\ commits[p.parent].snap = HeadSnap
  BY <1>0, <1>8 DEF Worktree, HeadSnap
<1>10. Present(skills[cmd.name]) => p.snap.tree[cmd.name] # NONE
  <2>1. skills[cmd.name] \in TreeOrNone
    BY <1>8 DEF HInv, TInv, DiskTyped
  <2> QED BY <1>9, <2>1, TreeParts, Literals
<1>11. cmd.op = "rm" /\ HeadSnap.cfg.reg[cmd.name] = NONE =>
         HeadSnap.tree[cmd.name] = NONE \/ p.snap.tree[cmd.name] # NONE
  BY <1>1, <1>10 DEF HInv, GoneInv, Quarantined, Saved
<1>12. Registers(HeadSnap.cfg)'
  BY <1>2, <1>7 DEF HeadInv
<1>13. HeadSnap' = commits[p.parent].snap /\ ExpectedConfig(Me)' = ExpectedConfig(Me)
  BY <1>1, <1>3, <1>9 DEF HeadSnap, HEAD, ExpectedConfig, SetReg
<1>14. Candidate(p)'
  BY <1>1, <1>3, <1>8, <1>9, <1>11, <1>12, <1>13 DEF Candidate, Registers
<1>15. CandidateInv'
  BY <1>1, <1>14 DEF CandidateInv
<1> QED BY <1>3, <1>1, <1>4, <1>5, <1>6, <1>7, <1>15, GoingOn DEF Kept

LEMMA ValidatePreparedKeeps == HInv /\ TInv' /\ ValidatePrepared => Kept
<1> SUFFICES ASSUME HInv, TInv', ValidatePrepared PROVE Kept
  OBVIOUS
<1>1. CASE Abort
  BY <1>1, Aborted DEF Abort, Goto, disk
<1>2. CASE ~Abort
  <2>1. /\ pc = "validate" /\ pc' = "log-tree"
        /\ \A q \in cand : ValidPrepared(Me, q, ExpectedConfig(Me))
        /\ UNCHANGED <<config, skills, commits, txns, cmd, self, seen, held, cand>>
    BY <1>2, Zenon DEF ValidatePrepared, OrAbort, Goto, disk, local
  <2>2. pc \in Working /\ pc' \in Working /\ pc \in Saved /\ pc' \in Saved
    BY <2>1 DEF Working, CommandPcs, Early, Saved, Prepared
  <2>3. Going /\ Me' = Me /\ Me \in Txn
    BY <2>1, <2>2, GoesOn
  <2>4. OpenInv'
    BY <2>1, OpenKept DEF HInv
  <2>5. RecordInv'
    BY <2>1, <2>2, <2>3 DEF HInv, RecordInv, Working, Reserved, Declared, Copying, Prepared, Saved,
       Copied, CommandPcs, Early
  <2>6. GoneInv'
    BY <2>1, <2>3, GoneStays DEF Quarantined, Saved, Prepared
  <2>7. HeadInv'
    BY <2>1, <2>2, <2>3, HeadStays
  <2>8. PICK p \in cand : cand = {p} /\ Candidate(p) /\ ValidPrepared(Me, p, ExpectedConfig(Me))
    BY <2>1 DEF HInv, CandidateInv, Prepared
  <2>9. ExpectedConfig(Me).note = Me.before.note
        /\ ExpectedConfig(Me).reg[Me.name] = IF Me.op = "rm" THEN NONE ELSE Me.payload.c
    BY <2>3 DEF ExpectedConfig, SetReg, Txn, Config
  <2>10. Me.op = cmd.op /\ Me.name = cmd.name
    BY <2>2 DEF HInv, MineInv
  <2>11. Meant(p)
    BY <2>8, <2>9, <2>10 DEF Candidate, Meant, ValidPrepared, Registers, Marked
  <2>12. ExpectedConfig(Me)' = ExpectedConfig(Me)
    BY <2>3 DEF ExpectedConfig, SetReg
  <2>13. Candidate(p)'
    BY <2>1, <2>2, <2>3, <2>8, <2>11, <2>12 DEF Candidate, Meant, Registers, Marked,
       OnlyAllowedChanges
  <2>14. CandidateInv'
    BY <2>1, <2>8, <2>13 DEF CandidateInv
  <2> QED BY <2>1, <2>3, <2>4, <2>5, <2>6, <2>7, <2>14, GoingOn DEF Kept
<1> QED BY <1>1, <1>2

LEMMA LogTreeKeeps == HInv /\ TInv' /\ LogTree => Kept
<1> SUFFICES ASSUME HInv, TInv', LogTree PROVE Kept
  OBVIOUS
<1> DEFINE r == [Me EXCEPT !.ctree = {p.snap : p \in cand}]
<1>1. /\ pc = "log-tree" /\ pc' = "commit" /\ WriteTxn(r)
      /\ UNCHANGED <<config, skills, commits, cmd, self, seen, held, cand>>
  BY Zenon DEF LogTree, Goto, disk, local
<1>2. pc \in Working /\ pc' \in Working /\ pc \in Saved /\ pc' \in Saved
  BY <1>1 DEF Working, CommandPcs, Early, Saved, Prepared
<1>3. /\ r.op = Me.op /\ r.name = Me.name /\ r.before = Me.before /\ r.status = Me.status
      /\ r.start = Me.start /\ r.resv = Me.resv /\ r.declared = Me.declared
      /\ r.payload = Me.payload /\ r.ctree = {p.snap : p \in cand}
  BY <1>1, <1>2, Regions, Mine DEF HInv, Txn, Working, Driving, CommandPcs
<1> HIDE DEF r
<1>4. Going /\ Me' = r /\ Me \in Txn /\ r \in Txn
  BY <1>1, <1>2, <1>3, LogsOn
<1>5. PICK p \in cand : cand = {p} /\ Candidate(p) /\ Meant(p)
  BY <1>1 DEF HInv, CandidateInv, Candidate, Prepared
<1>6. ExpectedConfig(r) = ExpectedConfig(Me) /\ ExpectedConfig(Me)' = ExpectedConfig(Me)
  BY <1>3, <1>4 DEF ExpectedConfig, SetReg
<1>7. OpenInv'
  <2>1. Sound(Me)
    BY <1>1, Mine DEF HInv, OpenInv, Me, Driving, CommandPcs, Early
  <2>2. r.resv = NoTree /\ r.declared = NONE
    BY <1>1, <1>2, <1>3 DEF HInv, RecordInv, Reserved, Declared
  <2>3. \A s \in r.ctree : s.cfg = ExpectedConfig(r)
    BY <1>3, <1>5, <1>6 DEF Meant
  <2>4. Sound(r)
    BY <1>3, <2>1, <2>2, <2>3 DEF Sound, SameElsewhere
  <2> QED BY <1>1, <1>2, <1>4, <2>4, Regions, OpenLogged DEF HInv
<1>8. RecordInv'
  BY <1>1, <1>2, <1>3, <1>4 DEF HInv, RecordInv, Working, Reserved, Declared, Copying, Prepared,
     Saved, Copied, CommandPcs, Early
<1>9. GoneInv'
  BY <1>1, <1>4, GoneStays DEF Quarantined, Saved, Prepared
<1>10. HeadInv'
  BY <1>1, <1>2, <1>3, <1>4, HeadStays
<1>11. Candidate(p)'
  BY <1>1, <1>2, <1>3, <1>4, <1>5, <1>6 DEF Candidate, Meant, Registers, Marked, OnlyAllowedChanges
<1>12. CandidateInv'
  BY <1>1, <1>5, <1>11 DEF CandidateInv
<1> QED BY <1>1, <1>4, <1>7, <1>8, <1>9, <1>10, <1>12, GoingOn DEF Kept

LEMMA CommitPreparedKeeps == HInv /\ CommitPrepared => Kept
<1> SUFFICES ASSUME HInv, CommitPrepared PROVE Kept
  OBVIOUS
<1>1. CASE Abort
  BY <1>1, Aborted DEF Abort, Goto, disk
<1>2. CASE ~Abort
  <2>1. pc = "commit" /\ pc' = "clear" /\ UNCHANGED <<config, txns, self>>
    BY <1>2, Zenon DEF CommitPrepared, OrAbort, Goto, disk, local
  <2>2. MineInv'
    BY <2>1 DEF HInv, MineInv, Me, Driving, Working, Compensating, CommandPcs, Early
  <2>3. OpenInv'
    BY <2>1, OpenKept DEF HInv
  <2> QED BY <2>1, <2>2, <2>3, Retired DEF Kept, CommandPcs, Compensating
<1> QED BY <1>1, <1>2

(* The steps before the first revision, which owe something only to what   *)
(* was loaded.                                                             *)
LEMMA BeforeStart ==
    ASSUME pc' \in Early
    PROVE  MineInv' /\ RecordInv' /\ HeadInv' /\ GoneInv' /\ CandidateInv' /\ CompensationInv'
<1>1. pc' \notin Working /\ pc' \notin Compensating \cup {"undo-log-root"} /\ pc' \notin Driving
  BY DEF Working, Early, Compensating, Driving, CommandPcs, UndoPcs, FinishPcs
<1>2. RecordInv' /\ HeadInv' /\ GoneInv' /\ CandidateInv'
  BY <1>1, Regions DEF RecordInv, HeadInv, GoneInv, CandidateInv
<1>3. CompensationInv'
  BY <1>1 DEF CompensationInv, Compensating
<1>4. MineInv'
  BY <1>1, Regions DEF MineInv, Working, Driving, CommandPcs, Early
<1> QED BY <1>2, <1>3, <1>4

LEMMA LoadConfigKeeps == HInv /\ LoadConfig => Kept
<1> SUFFICES ASSUME HInv, LoadConfig PROVE Kept
  OBVIOUS
<1>1. pc = "load" /\ pc' = "sweep" /\ seen' = config /\ UNCHANGED <<config, txns>>
  BY Zenon DEF LoadConfig, Goto, disk
<1>2. OpenInv'
  BY <1>1, OpenKept DEF HInv
<1>3. EarlyInv'
  BY <1>1 DEF EarlyInv
<1>4. pc' \in Early
  BY <1>1 DEF Early
<1> QED BY <1>2, <1>3, <1>4, BeforeStart DEF Kept

(* After the sweep HEAD registers what the config does.                    *)
LEMMA SweepKeeps == HInv /\ TInv' /\ Sweep => Kept
<1> SUFFICES ASSUME HInv, TInv', Sweep PROVE Kept
  OBVIOUS
<1>1. /\ pc = "sweep" /\ pc' = "preflight" /\ UNCHANGED <<config, txns, seen, cmd>>
      /\ IF Worktree = HeadSnap THEN UNCHANGED commits
         ELSE AppendCommit(CommitMsg("external", NONE, NONE), Worktree)
  BY Zenon DEF Sweep, Goto, disk, local
<1>2. OpenInv'
  BY <1>1, OpenKept DEF HInv
<1>3. HeadSnap'.cfg = config
  <2>1. CASE Worktree = HeadSnap
    BY <1>1, <2>1 DEF HeadSnap, HEAD, Worktree
  <2>2. CASE Worktree # HeadSnap
    <3>1. commits' = Append(commits, [msg |-> CommitMsg("external", NONE, NONE), snap |-> Worktree])
      BY <1>1, <2>2 DEF AppendCommit
    <3>2. HeadSnap' = Worktree
      BY <3>1 DEF HeadSnap, HEAD, HInv, TInv, BranchTyped
    <3> QED BY <3>2 DEF Worktree
  <2> QED BY <2>1, <2>2
<1>4. EarlyInv'
  BY <1>1, <1>3 DEF HInv, EarlyInv, Early, Marked
<1>5. pc' \in Early
  BY <1>1 DEF Early
<1> QED BY <1>2, <1>4, <1>5, BeforeStart DEF Kept

(* What preflight compares is what the command goes on with.               *)
LEMMA PreflightKeeps ==
    HInv /\ (InstallPreflight \/ RemovePreflight \/ UpdatePreflight) => Kept
<1> SUFFICES ASSUME HInv, InstallPreflight \/ RemovePreflight \/ UpdatePreflight PROVE Kept
  OBVIOUS
<1>1. pc = "preflight" /\ UNCHANGED <<config, txns, commits>>
  BY DEF InstallPreflight, RemovePreflight, UpdatePreflight, Preflight, disk
<1>2. CASE pc' = "idle"
  BY <1>1, <1>2, Aborted
<1>3. CASE pc' # "idle"
  <2>1. pc' = "start" /\ UNCHANGED <<seen, cmd>>
    BY <1>3, Zenon DEF InstallPreflight, RemovePreflight, UpdatePreflight, Preflight, Goto, Exit,
       local
  <2>2. cmd.op = "install" <=> seen.reg[cmd.name] = NONE
    BY <1>3 DEF InstallPreflight, RemovePreflight, UpdatePreflight, Preflight, Available,
       Updatable, Exit
  <2>3. HeadSnap' = HeadSnap
    BY <1>1 DEF HeadSnap, HEAD
  <2>4. EarlyInv'
    BY <1>1, <2>1, <2>2, <2>3 DEF HInv, EarlyInv, Early, Marked
  <2>5. OpenInv'
    BY <1>1, OpenKept DEF HInv
  <2> QED BY <2>1, <2>4, <2>5, BeforeStart DEF Kept, Early
<1> QED BY <1>2, <1>3

LEMMA StartTxnKeeps == HInv /\ TInv' /\ StartTxn => Kept
<1> SUFFICES ASSUME HInv, TInv', StartTxn PROVE Kept
  OBVIOUS
<1>0. PICK t : t = [op |-> cmd.op, name |-> cmd.name, status |-> "open", stage |-> "started",
          start |-> HEAD, before |-> seen, resv |-> NoTree, declared |-> NONE,
          payload |-> NoTree, prev |-> NoTree, ctree |-> {}, comp |-> {}]
  OBVIOUS
<1>1. /\ pc = "start" /\ pc' = "mutate" /\ txns' = Append(txns, t) /\ self' = Len(txns) + 1
      /\ UNCHANGED <<config, commits, cmd, seen, skills>>
  BY <1>0, Zenon DEF StartTxn, Goto, disk
<1>2. /\ t.op = cmd.op /\ t.name = cmd.name /\ t.status = "open" /\ t.before = seen
      /\ t.resv = NoTree /\ t.declared = NONE /\ t.ctree = {}
  BY <1>0
<1>3. txns \in Seq(Txn)
  BY DEF HInv, TInv, JournalTyped
<1>4. Me' = t /\ \A i \in DOMAIN txns : txns'[i] = txns[i]
  BY <1>1, <1>3 DEF Me
<1>5. DOMAIN txns' = DOMAIN txns \cup {Len(txns) + 1} /\ txns'[Len(txns) + 1] = t
  BY <1>1, <1>3
<1>6. Pending' = {Len(txns) + 1}
  <2>1. Pending = {}
    BY <1>1 DEF HInv, OInv, Early
  <2> QED BY <1>2, <1>4, <1>5, <2>1 DEF Pending
<1>7. /\ seen.reg = config.reg /\ seen.note \in {NONE, config.note}
      /\ HeadSnap.cfg.reg = seen.reg /\ Marked(HeadSnap.cfg, seen)
      /\ cmd.op = "install" <=> seen.reg[cmd.name] = NONE
  BY <1>1 DEF HInv, EarlyInv, Early
<1>8. OpenInv'
  BY <1>1, <1>2, <1>5, <1>6, <1>7 DEF OpenInv, Sound, SameElsewhere
<1>9. pc' \in Working /\ pc' \notin Saved \cup Copying \cup Copied \cup Quarantined
  BY <1>1 DEF Working, CommandPcs, Early, Copying, Declared, Reserved, Copied, Quarantined,
     Saved, Prepared
<1>10. MineInv'
  BY <1>1, <1>2, <1>4 DEF MineInv, Compensating
<1>11. RecordInv'
  BY <1>2, <1>4, <1>9 DEF RecordInv
<1>12. HeadInv'
  <2>1. HeadSnap' = HeadSnap
    BY <1>1 DEF HeadSnap, HEAD
  <2> QED BY <1>1, <1>2, <1>4, <1>7, <1>9, <2>1 DEF HeadInv, Registers, Marked
<1>13. GoneInv' /\ CandidateInv'
  BY <1>1, <1>9 DEF GoneInv, CandidateInv, Saved, Prepared
<1>14. EarlyInv' /\ CompensationInv'
  BY <1>1 DEF EarlyInv, Early, CompensationInv, Compensating
<1> QED BY <1>8, <1>10, <1>11, <1>12, <1>13, <1>14 DEF Kept

(* Recovery before it compensates, and the steps after a commit.           *)
After == (UndoPcs \cup FinishPcs) \ (Compensating \cup {"undo-log-root"})

(* Recovery owes nothing but the record it works from.                     *)
LEMMA AfterOwesNothing ==
    ASSUME HInv, pc' \in After \cup {"reclaim"}, OpenInv', Me'.status = "open"
    PROVE  Kept
<1>1. pc' \notin Working
        /\ pc' \notin Compensating \cup {"undo-log-root", "quarantine", "log-quarantined"}
      /\ pc' \notin CommandPcs \ {"load", "clear", "reclaim"}
  BY DEF After, UndoPcs, FinishPcs, Compensating, Working, CommandPcs, Early
<1>2. MineInv'
  BY <1>1 DEF MineInv
<1> QED BY <1>1, <1>2, Retired DEF Kept

(* A step of recovery that writes no record.                               *)
LEMMA Recovers ==
    ASSUME HInv, pc \in Driving \ {"reclaim", "finish-reclaim"}, pc' \in After,
           UNCHANGED <<txns, config, self>>
    PROVE  Kept
<1>1. Me'.status = "open"
  BY Mine DEF HInv, Me, Pending
<1>2. OpenInv'
  BY OpenKept DEF HInv
<1> QED BY <1>1, <1>2, AfterOwesNothing

(* A step of recovery that revises its record.                             *)
LEMMA RecoveryLogs ==
    ASSUME HInv, TInv', pc \in Driving \ {"reclaim", "finish-reclaim"}, pc' \in After,
           NEW r, WriteTxn(r), UNCHANGED <<config, self>>,
           r.op = Me.op, r.name = Me.name, r.before = Me.before, r.status = Me.status,
           \/ r.ctree = {}
           \/ r.ctree = Me.ctree /\ r.payload = Me.payload /\ r.resv = Me.resv
                 /\ r.declared = Me.declared
    PROVE  Kept
<1>1. Me \in Txn /\ Me' = r /\ r \in Txn
  BY Wrote DEF HInv
<1>2. Sound(Me) /\ Me.status = "open"
  BY Mine DEF HInv, OpenInv, Me, Pending
<1>3. Sound(r)
  BY <1>1, <1>2, SoundSame
<1>4. OpenInv'
  BY <1>1, <1>3, OpenLogged DEF HInv
<1> QED BY <1>1, <1>2, <1>4, AfterOwesNothing

(* The terminal marker takes the record out of what is pending.            *)
LEMMA MarkerKeeps == HInv /\ TInv' /\ (ClearTxn \/ UndoClear \/ FinishClear) => Kept
<1> SUFFICES ASSUME HInv, TInv', ClearTxn \/ UndoClear \/ FinishClear PROVE Kept
  OBVIOUS
<1> DEFINE r == [Me EXCEPT !.status = "done"]
<1>1. /\ pc \in {"clear", "undo-clear", "finish-clear"}
      /\ pc' \in {"reclaim", "recover", "finish-reclaim"}
      /\ WriteTxn(r) /\ UNCHANGED config
  BY DEF ClearTxn, UndoClear, FinishClear, Goto, disk
<1>2. pc \in Driving
  BY <1>1 DEF Driving, CommandPcs, Early, UndoPcs, FinishPcs
<1>3. r \in Txn /\ r.status = "done"
  <2>1. Me \in Txn
    BY <1>2, MeTyped DEF HInv, TInv, JournalTyped, DrivenInv
  <2> QED BY <2>1 DEF Txn
<1>4. OpenInv'
  BY <1>1, <1>2, <1>3, OpenLogged DEF HInv
<1>5. MineInv'
  BY <1>1 DEF MineInv, Working, Compensating, Driving, CommandPcs, UndoPcs, FinishPcs, Early
<1>6. pc' \notin CommandPcs \ {"load", "clear", "reclaim"}
        /\ pc' \notin Compensating \cup {"undo-log-root"}
  BY <1>1 DEF CommandPcs, Compensating
<1> QED BY <1>4, <1>5, <1>6, Retired DEF Kept

(* The steps that throw away what a finished transaction left.             *)
LEMMA ReclaimKeeps == HInv /\ (InstallReclaim \/ RemoveReclaim \/ UpdateReclaim) => Kept
<1> SUFFICES ASSUME HInv, InstallReclaim \/ RemoveReclaim \/ UpdateReclaim PROVE Kept
  OBVIOUS
<1>1. /\ pc \in {"reclaim", "finish-reclaim"}
      /\ pc' \in {"idle", "recover", "reclaim", "finish-reclaim"}
      /\ UNCHANGED <<config, txns>>
  BY DEF InstallReclaim, RemoveReclaim, UpdateReclaim, ReclaimStep, AfterReclaim, Exit, Goto, disk
<1>2. OpenInv'
  BY <1>1, OpenKept DEF HInv
<1>3. MineInv'
  BY <1>1 DEF MineInv, Working, Compensating, Driving, CommandPcs, UndoPcs, FinishPcs, Early
<1>4. pc' \notin CommandPcs \ {"load", "clear", "reclaim"}
        /\ pc' \notin Compensating \cup {"undo-log-root"}
  BY <1>1 DEF CommandPcs, Compensating
<1> QED BY <1>2, <1>3, <1>4, Retired DEF Kept

(* A command that begins or ends, and one that finds nothing pending.      *)
LEMMA TurnKeeps == HInv /\ (Recovered \/ BeginCommand \/ BeginRestore \/ Fail \/ Crash) => Kept
<1> SUFFICES ASSUME HInv, Recovered \/ BeginCommand \/ BeginRestore \/ Fail \/ Crash PROVE Kept
  OBVIOUS
<1>1. pc' \in {"idle", "recover", "load"} /\ UNCHANGED <<config, txns>>
  BY DEF Recovered, BeginCommand, BeginInstall, BeginRemove, BeginUpdate, Begin, BeginRestore, Fail,
     Crash, Exit, Goto, disk
<1>2. OpenInv'
  BY <1>1, OpenKept DEF HInv
<1>3. MineInv'
  BY <1>1 DEF MineInv, Working, Compensating, Driving, CommandPcs, UndoPcs, FinishPcs, Early
<1>4. pc' \notin CommandPcs \ {"load", "clear", "reclaim"}
        /\ pc' \notin Compensating \cup {"undo-log-root"}
  BY <1>1 DEF CommandPcs, Compensating
<1> QED BY <1>2, <1>3, <1>4, Retired DEF Kept

(* Where a handler that does not compensate sets out.                      *)
LEMMA HandlerKeeps ==
    ASSUME HInv, NEW i \in DOMAIN txns,
           InstallUndo(i) \/ RemoveUndo(i) \/ UpdateUndo(i) \/ RemoveFinish(i) \/ UpdateFinish(i)
    PROVE  Kept
<1>1. UNCHANGED <<config, txns>> /\ i \in Pending
  BY DEF InstallUndo, RemoveUndo, UpdateUndo, RemoveFinish, UpdateFinish, Handle, OrConflict,
     Conflict,
     Recovering, disk
<1>2. CASE pc' = "idle"
  BY <1>1, <1>2, Aborted
<1>3. CASE pc' # "idle"
  <2>1. self' = i /\ pc' \in {"undo-root", "undo-restore", "undo-exchange", "finish-clear"}
    BY <1>3 DEF InstallUndo, RemoveUndo, UpdateUndo, RemoveFinish, UpdateFinish, Handle, OrConflict,
       Conflict, Exit, Goto
  <2>2. Me'.status = "open"
    BY <1>1, <2>1 DEF Me, Pending
  <2>3. OpenInv'
    BY <1>1, OpenKept DEF HInv
  <2>4. pc' \in After
    BY <2>1 DEF After, UndoPcs, FinishPcs, Compensating
  <2> QED BY <2>2, <2>3, <2>4, AfterOwesNothing
<1> QED BY <1>2, <1>3

(* What recovery moves about.                                              *)
LEMMA UndoMovesKeeps ==
    HInv /\ (\/ InstallUndoQuarantine \/ InstallUndoArchive \/ CompArchive \/ RemoveUndoRestore
             \/ UpdateUndoExchange \/ UpdateUndoRoot \/ UpdateUndoDiscard) => Kept
<1> SUFFICES ASSUME HInv, \/ InstallUndoQuarantine \/ InstallUndoArchive \/ CompArchive
                          \/ RemoveUndoRestore
                          \/ UpdateUndoExchange \/ UpdateUndoRoot \/ UpdateUndoDiscard
             PROVE  Kept
  OBVIOUS
<1>1. UNCHANGED <<config, txns>>
  BY Zenon DEF InstallUndoQuarantine, InstallUndoArchive, CompArchive, RemoveUndoRestore,
     UpdateUndoExchange,
     UpdateUndoRoot, UpdateUndoDiscard, Exchange, ArchivePayload, OrConflict, Conflict, disk
<1>2. CASE pc' = "idle"
  BY <1>1, <1>2, Aborted
<1>3. CASE pc' # "idle"
  <2>1. UNCHANGED self
    BY <1>3, Zenon DEF InstallUndoQuarantine, InstallUndoArchive, CompArchive, RemoveUndoRestore,
       UpdateUndoExchange,
       UpdateUndoRoot, UpdateUndoDiscard, Exchange, ArchivePayload, OrConflict, Conflict, Exit,
       local
  <2>2. pc \in {"undo-quarantine", "undo-archive", "comp-archive", "undo-restore", "undo-exchange",
               "undo-root", "undo-discard"}
    BY DEF InstallUndoQuarantine, InstallUndoArchive, CompArchive, RemoveUndoRestore,
       UpdateUndoExchange,
       UpdateUndoRoot, UpdateUndoDiscard
  <2>3. pc' \in {"undo-config", "undo-archive", "undo-clear", "undo-discard"}
    BY <1>3 DEF InstallUndoQuarantine, InstallUndoArchive, CompArchive, RemoveUndoRestore,
       UpdateUndoExchange,
       UpdateUndoRoot, UpdateUndoDiscard, Exchange, ArchivePayload, OrConflict, Conflict, Exit, Goto
  <2>4. pc \in Driving \ {"reclaim", "finish-reclaim"} /\ pc' \in After
    BY <2>2, <2>3 DEF Driving, UndoPcs, FinishPcs, CommandPcs, Early, After, Compensating
  <2> QED BY <1>1, <2>1, <2>4, Recovers
<1> QED BY <1>2, <1>3

(* A root that is still reserved has recorded no commit.                   *)
LEMMA UndoRootKeeps == HInv /\ InstallUndoRoot => Kept
<1> SUFFICES ASSUME HInv, InstallUndoRoot PROVE Kept
  OBVIOUS
<1>1. UNCHANGED <<config, txns>> /\ pc = "undo-root"
  BY Zenon DEF InstallUndoRoot, OrConflict, Conflict, disk
<1>2. pc \in Driving \ {"reclaim", "finish-reclaim"}
  BY <1>1 DEF Driving, UndoPcs
<1>3. CASE pc' = "idle"
  BY <1>1, <1>3, Aborted
<1>4. CASE pc' # "idle"
  <2>1. UNCHANGED self
    BY <1>4, Zenon DEF InstallUndoRoot, OrConflict, Conflict, Exit, local
  <2>2. pc' = "undo-entries" \/ (pc' = "undo-log-root" /\ Me.resv # NoTree)
    BY <1>4 DEF InstallUndoRoot, OrConflict, Conflict, Exit, Goto
  <2>3. CASE pc' = "undo-entries"
    <3>1. pc' \in After
      BY <2>3 DEF After, UndoPcs, Compensating
    <3> QED BY <1>1, <1>2, <2>1, <3>1, Recovers
  <2>4. CASE pc' = "undo-log-root" /\ Me.resv # NoTree
    <3>1. Me' = Me /\ Me.status = "open"
      BY <1>1, <1>2, <2>1, Mine DEF HInv, Me, Pending
    <3>2. OpenInv'
      BY <1>1, OpenKept DEF HInv
    <3>3. pc' \notin Working /\ pc' \notin Early /\ pc' \notin Compensating
      BY <2>4 DEF Working, CommandPcs, Early, Compensating
    <3>4. MineInv'
      BY <2>4, <3>1, <3>3 DEF MineInv
    <3>5. EarlyInv' /\ RecordInv' /\ HeadInv' /\ GoneInv' /\ CandidateInv'
      BY <3>3, Regions DEF EarlyInv, Early, RecordInv, HeadInv, GoneInv, CandidateInv
    <3>6. CompensationInv'
      BY <2>4, <3>1, <3>3 DEF CompensationInv, Compensating
    <3> QED BY <3>2, <3>4, <3>5, <3>6 DEF Kept
  <2> QED BY <2>2, <2>3, <2>4
<1> QED BY <1>3, <1>4

(* Recovery of an install, up to its compensation.                         *)
LEMMA UndoLogRootKeeps == HInv /\ TInv' /\ InstallUndoLogRoot => Kept
<1> SUFFICES ASSUME HInv, TInv', InstallUndoLogRoot PROVE Kept
  OBVIOUS
<1> DEFINE r == [Me EXCEPT !.payload = Me.resv, !.resv = NoTree]
<1>1. /\ pc = "undo-log-root" /\ pc' = "undo-entries" /\ WriteTxn(r)
      /\ UNCHANGED <<config, self>>
  BY Zenon DEF InstallUndoLogRoot, Goto, disk, local
<1>2. pc \in Driving \ {"reclaim", "finish-reclaim"} /\ pc' \in After
  BY <1>1 DEF Driving, UndoPcs, After, Compensating
<1>3. Me \in Txn /\ Sound(Me)
  BY <1>2, Mine DEF HInv, OpenInv, Me
<1>4. Me.ctree = {}
  BY <1>1, <1>3 DEF HInv, CompensationInv, Sound
<1>5. /\ r.op = Me.op /\ r.name = Me.name /\ r.before = Me.before /\ r.status = Me.status
      /\ r.ctree = Me.ctree
  BY <1>3 DEF Txn
<1> HIDE DEF r
<1> QED BY <1>1, <1>2, <1>4, <1>5, RecoveryLogs

LEMMA UndoEntriesKeeps == HInv /\ TInv' /\ InstallUndoEntries => Kept
<1> SUFFICES ASSUME HInv, TInv', InstallUndoEntries PROVE Kept
  OBVIOUS
<1>1. pc = "undo-entries" /\ UNCHANGED config
  BY Zenon DEF InstallUndoEntries, OrConflict, Conflict, disk
<1>2. pc \in Driving \ {"reclaim", "finish-reclaim"}
  BY <1>1 DEF Driving, UndoPcs
<1>3. CASE Conflict
  BY <1>3, Aborted DEF Conflict, Exit, disk
<1>4. CASE ~Conflict
  <2> DEFINE r == [Me EXCEPT !.payload.c = staging[Me.name].c, !.declared = NONE]
  <2>1. pc' = "undo-quarantine" /\ UNCHANGED self
    BY <1>4, Zenon DEF InstallUndoEntries, OrConflict, Goto, local
  <2>2. pc' \in After
    BY <2>1 DEF After, UndoPcs, Compensating
  <2>3. UNCHANGED txns \/ (Me.declared # NONE /\ WriteTxn(r))
    BY <1>4, Zenon DEF InstallUndoEntries, OrConflict
  <2>4. CASE UNCHANGED txns
    BY <1>1, <1>2, <2>1, <2>2, <2>4, Recovers
  <2>5. CASE Me.declared # NONE /\ WriteTxn(r)
    <3>1. Me \in Txn /\ Sound(Me)
      BY <1>2, Mine DEF HInv, OpenInv, Me
    <3>2. Me.ctree = {}
      BY <2>5, <3>1 DEF Sound
    <3>3. /\ r.op = Me.op /\ r.name = Me.name /\ r.before = Me.before /\ r.status = Me.status
          /\ r.ctree = Me.ctree
      BY <3>1 DEF Txn
    <3> HIDE DEF r
    <3> QED BY <1>1, <1>2, <2>1, <2>2, <2>5, <3>2, <3>3, RecoveryLogs
  <2> QED BY <2>3, <2>4, <2>5
<1> QED BY <1>3, <1>4

(* The config goes back to what the record has, or already is that.        *)
LEMMA UndoConfigKeeps == HInv /\ UndoConfig => Kept
<1> SUFFICES ASSUME HInv, UndoConfig PROVE Kept
  OBVIOUS
<1>1. CASE Conflict
  BY <1>1, Aborted DEF Conflict, Exit, disk
<1>2. CASE ~Conflict
  <2>1. /\ pc = "undo-config" /\ pc' = "undo-clear" /\ UNCHANGED <<txns, self>>
        /\ config' = config \/ config' = Me.before
    BY <1>2 DEF UndoConfig, RestoreTxnConfig, OrConflict, Goto, local
  <2>2. pc \in Driving \ {"reclaim", "finish-reclaim"} /\ pc' \in After
    BY <2>1 DEF Driving, UndoPcs, After, Compensating
  <2>3. Me'.status = "open"
    BY <2>1, <2>2, Mine DEF HInv, Me, Pending
  <2>4. OpenInv'
    <3>1. CASE config' = config
      BY <2>1, <3>1, OpenKept DEF HInv
    <3>2. CASE config' = Me.before
      BY <2>1, <2>2, <3>2, OpenSaved DEF HInv, OInv
    <3> QED BY <2>1, <3>1, <3>2
  <2> QED BY <2>2, <2>3, <2>4, AfterOwesNothing
<1> QED BY <1>1, <1>2

(* A compensation keeps its place on the branch.                           *)
OnBranch ==
    /\ Me.start + 1 \in DOMAIN commits
    /\ commits[Me.start + 1].msg = CommitMsg("op", "install", Me.name)
    /\ \A j \in Me.start + 2 .. HEAD : commits[j].msg.kind = "direct"
    /\ SameElsewhere(HeadSnap.cfg, Me) /\ Marked(HeadSnap.cfg, Me.before)

(* A step of a compensation owes the install it undoes.                    *)
LEMMA CompensatingOwes ==
    ASSUME HInv, pc' \in Compensating, OpenInv', Me'.status = "open", Me'.op = "install", OnBranch',
           pc' = "comp-config" => (seen.note = Me.before.note)',
           pc' \in {"comp-log-tree", "comp-commit"} => (\E p \in cand : cand = {p} /\ Undoes(p))'
    PROVE  Kept
<1>1. /\ pc' \notin Working /\ pc' \notin Early /\ pc' # "undo-log-root"
      /\ pc' \notin {"quarantine", "log-quarantined"}
  BY DEF Working, CommandPcs, Early, Compensating
<1>2. MineInv'
  BY <1>1 DEF MineInv
<1>3. EarlyInv' /\ RecordInv' /\ HeadInv' /\ GoneInv' /\ CandidateInv'
  BY <1>1, Regions DEF EarlyInv, Early, RecordInv, HeadInv, GoneInv, CandidateInv
<1>4. CompensationInv'
  BY <1>1 DEF CompensationInv, OnBranch
<1> QED BY <1>2, <1>3, <1>4 DEF Kept

(* A compensation has a committed install to undo.                         *)
LEMMA Compensates ==
    ASSUME HInv, pc \in Compensating
    PROVE  /\ OnBranch /\ Me \in Txn /\ Me.op = "install" /\ Me.status = "open" /\ Sound(Me)
           /\ pc \in Driving \ {"reclaim", "finish-reclaim"}
<1>1. pc \in Driving \ {"reclaim", "finish-reclaim"}
  BY Regions
<1>2. Me \in Txn /\ Me.status = "open" /\ Sound(Me)
  BY <1>1, Mine DEF HInv, OpenInv, Me, Pending
<1>3. OnBranch /\ Me.op = "install"
  BY DEF HInv, CompensationInv, OnBranch, MineInv
<1> QED BY <1>1, <1>2, <1>3

(* It starts when HEAD is the commit the record expects.                   *)
LEMMA InstallCompensateKeeps ==
    ASSUME HInv, NEW i \in DOMAIN txns, InstallCompensate(i)
    PROVE  Kept
<1> DEFINE t == txns[i]
<1>1. UNCHANGED <<config, txns, commits>> /\ i \in Pending /\ t.op = "install"
  BY Zenon DEF InstallCompensate, Handle, OrConflict, Conflict, Recovering, disk
<1>2. CASE pc' = "idle"
  BY <1>1, <1>2, Aborted
<1>3. CASE pc' # "idle"
  <2>1. ~Conflict
    BY <1>3 DEF Conflict, Exit
  <2>2. /\ self' = i
        /\ \/ pc' = "comp-finish"
           \/ /\ pc' \in {"comp-quarantine", "comp-prepare", "comp-log-start"}
              /\ IsOperationCommit(t, HEAD)
    BY <2>1 DEF InstallCompensate, Handle, OrConflict, Goto
  <2>3. Me' = t /\ t.status = "open" /\ t \in Txn /\ Sound(t)
    BY <1>1, <2>2 DEF Me, Pending, HInv, OpenInv, TInv, JournalTyped
  <2>4. OpenInv'
    BY <1>1, OpenKept DEF HInv
  <2> HIDE DEF t
  <2>5. CASE pc' = "comp-finish"
    <3>1. pc' \in After
      BY <2>5 DEF After, FinishPcs, Compensating
    <3> QED BY <2>3, <2>4, <3>1, AfterOwesNothing
  <2>6. CASE pc' \in {"comp-quarantine", "comp-prepare", "comp-log-start"} /\ IsOperationCommit(t,
              HEAD)
    <3>1. /\ HEAD = t.start + 1 /\ commits[HEAD].msg = CommitMsg("op", "install", t.name)
          /\ t.ctree = {HeadSnap} /\ HEAD \in DOMAIN commits /\ t.start \in Nat
      BY <1>1, <2>3, <2>6 DEF IsOperationCommit, HeadSnap, HInv, TInv, BranchTyped, HEAD, Txn
    <3>2. HeadSnap.cfg = ExpectedConfig(t)
      BY <2>3, <3>1 DEF Sound
    <3>3. SameElsewhere(HeadSnap.cfg, t) /\ HeadSnap.cfg.note = t.before.note
      BY <2>3, <3>2 DEF SameElsewhere, ExpectedConfig, SetReg, Txn, Config
    <3>4. HeadSnap' = HeadSnap /\ HEAD' = HEAD
      BY <1>1 DEF HeadSnap, HEAD
    <3>5. t.start + 2 .. HEAD = {}
      BY <3>1
    <3>6. OnBranch'
      BY <1>1, <2>3, <3>1, <3>3, <3>4, <3>5 DEF OnBranch, SameElsewhere, Marked
    <3>7. pc' \in Compensating /\ pc' \notin {"comp-config", "comp-log-tree", "comp-commit"}
      BY <2>6 DEF Compensating
    <3> QED BY <1>1, <2>3, <2>4, <3>6, <3>7, CompensatingOwes
  <2> QED BY <2>2, <2>5, <2>6
<1> QED BY <1>2, <1>3

LEMMA CompLogsKeeps == HInv /\ TInv' /\ (CompLogStart \/ CompLogReady) => Kept
<1> SUFFICES ASSUME HInv, TInv', CompLogStart \/ CompLogReady PROVE Kept
  OBVIOUS
<1>1. PICK st \in Stage :
        /\ WriteTxn([Me EXCEPT !.stage = st])
        /\ pc \in {"comp-log-start", "comp-log-ready"}
        /\ pc' \in {"comp-quarantine", "comp-prepare"}
        /\ UNCHANGED <<config, commits, self>>
  BY DEF CompLogStart, CompLogReady, Goto, disk, local, Stage
<1> DEFINE r == [Me EXCEPT !.stage = st]
<1>2. pc \in Compensating /\ pc' \in Compensating
        /\ pc' \notin {"comp-config", "comp-log-tree", "comp-commit"}
  BY <1>1 DEF Compensating
<1>3. OnBranch /\ Me \in Txn /\ Me.op = "install" /\ Me.status = "open" /\ Sound(Me)
        /\ pc \in Driving
  BY <1>2, Compensates
<1>4. /\ r.op = Me.op /\ r.name = Me.name /\ r.before = Me.before /\ r.status = Me.status
      /\ r.start = Me.start /\ r.ctree = Me.ctree /\ r.payload = Me.payload /\ r.resv = Me.resv
      /\ r.declared = Me.declared
  BY <1>3 DEF Txn
<1>5. WriteTxn(r)
  BY <1>1
<1> HIDE DEF r
<1>6. Me' = r /\ r \in Txn
  BY <1>1, <1>3, <1>5, Wrote DEF HInv
<1>7. OpenInv'
  BY <1>1, <1>3, <1>4, <1>5, <1>6, SoundSame, OpenLogged DEF HInv
<1>8. OnBranch'
  BY <1>1, <1>3, <1>4, <1>6 DEF OnBranch, HeadSnap, HEAD, SameElsewhere, Marked
<1> QED BY <1>2, <1>3, <1>4, <1>6, <1>7, <1>8, CompensatingOwes

LEMMA CompQuarantineKeeps == HInv /\ CompQuarantine => Kept
<1> SUFFICES ASSUME HInv, CompQuarantine PROVE Kept
  OBVIOUS
<1>1. CASE Conflict
  BY <1>1, Aborted DEF Conflict, Exit, disk
<1>2. CASE ~Conflict
  <2>1. /\ pc = "comp-quarantine" /\ pc' = "comp-config"
        /\ UNCHANGED <<config, txns, commits, self>>
        /\ seen' \in {Me.before, ExpectedConfig(Me)}
    BY <1>2 DEF CompQuarantine, OrConflict, Goto
  <2>2. pc \in Compensating /\ pc' \in Compensating
    BY <2>1 DEF Compensating
  <2>3. OnBranch /\ Me \in Txn /\ Me.op = "install" /\ Me.status = "open"
    BY <2>2, Compensates
  <2>4. OpenInv' /\ Me' = Me
    BY <2>1, OpenKept DEF HInv, Me
  <2>5. OnBranch'
    BY <2>1, <2>3, <2>4 DEF OnBranch, HeadSnap, HEAD, SameElsewhere, Marked
  <2>6. (seen.note = Me.before.note)'
    BY <2>1, <2>3, <2>4 DEF ExpectedConfig, SetReg, Txn, Config
  <2> QED BY <2>1, <2>2, <2>3, <2>4, <2>5, <2>6, CompensatingOwes
<1> QED BY <1>1, <1>2

LEMMA CompConfigKeeps == HInv /\ CompConfig => Kept
<1> SUFFICES ASSUME HInv, CompConfig PROVE Kept
  OBVIOUS
<1>1. CASE Conflict
  BY <1>1, Aborted DEF Conflict, Exit, disk
<1>2. CASE ~Conflict
  <2>1. /\ pc = "comp-config" /\ pc' = "comp-log-ready" /\ UNCHANGED <<txns, commits, self, seen>>
        /\ config' = config \/ (config' = Me.before /\ config = seen)
    BY <1>2 DEF CompConfig, RestoreTxnConfig, OrConflict, Goto, local, ConfigAsJudged
  <2>2. pc \in Compensating /\ pc' \in Compensating
    BY <2>1 DEF Compensating
  <2>3. OnBranch /\ Me \in Txn /\ Me.op = "install" /\ Me.status = "open"
          /\ pc \in Driving \ {"reclaim", "finish-reclaim"}
    BY <2>2, Compensates
  <2>4. OpenInv' /\ Me' = Me
    <3>1. CASE config' = config
      BY <2>1, <3>1, OpenKept DEF HInv, Me
    <3>2. CASE config' = Me.before
      BY <2>1, <2>3, <3>2, OpenSaved DEF HInv, OInv, Me
    <3> QED BY <2>1, <3>1, <3>2
  <2>5. seen.note = Me.before.note
    BY <2>1 DEF HInv, CompensationInv
  <2>6. Marked(HeadSnap.cfg, Me.before)'
    BY <2>1, <2>3, <2>4, <2>5 DEF OnBranch, Marked, HeadSnap, HEAD
  <2>7. OnBranch'
    BY <2>1, <2>3, <2>4, <2>6 DEF OnBranch, HeadSnap, HEAD, SameElsewhere
  <2> QED BY <2>1, <2>2, <2>3, <2>4, <2>7, CompensatingOwes
<1> QED BY <1>1, <1>2

LEMMA CompPrepareKeeps == HInv /\ CompPrepare => Kept
<1> SUFFICES ASSUME HInv, CompPrepare PROVE Kept
  OBVIOUS
<1>1. CASE Conflict
  BY <1>1, Aborted DEF Conflict, Exit, disk
<1>2. CASE ~Conflict
  <2>0. PICK p : p = [parent |-> HEAD, snap |-> Worktree]
    OBVIOUS
  <2>1. /\ pc = "comp-prepare" /\ pc' = "comp-log-tree" /\ UNCHANGED <<config, txns, commits, self>>
        /\ config = Me.before /\ ~Present(skills[Me.name]) /\ OnlyChanged(TRUE, TRUE, Me.name)
        /\ cand' = {p}
    BY <1>2, <2>0, Zenon DEF CompPrepare, OrConflict, Goto, disk
  <2>2. pc \in Compensating /\ pc' \in Compensating
    BY <2>1 DEF Compensating
  <2>3. OnBranch /\ Me \in Txn /\ Me.op = "install" /\ Me.status = "open"
    BY <2>2, Compensates
  <2>4. OpenInv' /\ Me' = Me
    BY <2>1, OpenKept DEF HInv, Me
  <2>5. OnBranch'
    BY <2>1, <2>3, <2>4 DEF OnBranch, HeadSnap, HEAD, SameElsewhere, Marked
  <2>6. /\ p.parent = HEAD /\ HEAD \in DOMAIN commits /\ commits[p.parent].snap = HeadSnap
        /\ p.snap = Worktree
    BY <2>0 DEF HInv, TInv, BranchTyped, HEAD, HeadSnap
  <2>7. p.snap.cfg = Me.before /\ p.snap.tree[Me.name] = NONE
    BY <2>1, <2>3, <2>6 DEF Worktree, Present, NoTree, Txn
  <2>8. ChangedPaths(p.snap, HeadSnap) \subseteq {"fu.yaml", Me.name}
    BY <2>1, <2>6 DEF OnlyChanged
  <2>9. HeadSnap.cfg.note = Me.before.note
    BY <2>1, <2>3 DEF OnBranch, Marked
  <2>10. Undoes(p)
    BY <2>3, <2>6, <2>7, <2>8, <2>9 DEF Undoes, OnlyAllowedChanges, OnBranch
  <2>11. Undoes(p)'
    BY <2>1, <2>4, <2>10 DEF Undoes, OnlyAllowedChanges, SameElsewhere
  <2> QED BY <2>1, <2>2, <2>3, <2>4, <2>5, <2>11, CompensatingOwes
<1> QED BY <1>1, <1>2

LEMMA CompLogTreeKeeps == HInv /\ TInv' /\ CompLogTree => Kept
<1> SUFFICES ASSUME HInv, TInv', CompLogTree PROVE Kept
  OBVIOUS
<1>1. CASE Conflict
  BY <1>1, Aborted DEF Conflict, Exit, disk
<1>2. CASE ~Conflict
  <2> DEFINE r == [Me EXCEPT !.comp = {p.snap : p \in cand}]
  <2>1. /\ pc = "comp-log-tree" /\ pc' = "comp-commit" /\ WriteTxn(r)
        /\ UNCHANGED <<config, commits, self, cand>>
    BY <1>2, Zenon DEF CompLogTree, OrConflict, Goto, disk, local
  <2>2. pc \in Compensating /\ pc' \in Compensating
    BY <2>1 DEF Compensating
  <2>3. OnBranch /\ Me \in Txn /\ Me.op = "install" /\ Me.status = "open" /\ Sound(Me)
          /\ pc \in Driving
    BY <2>2, Compensates
  <2>4. /\ r.op = Me.op /\ r.name = Me.name /\ r.before = Me.before /\ r.status = Me.status
        /\ r.start = Me.start /\ r.ctree = Me.ctree /\ r.payload = Me.payload /\ r.resv = Me.resv
        /\ r.declared = Me.declared
    BY <2>3 DEF Txn
  <2> HIDE DEF r
  <2>5. Me' = r /\ r \in Txn
    BY <2>1, <2>3, Wrote DEF HInv
  <2>6. OpenInv'
    BY <2>1, <2>3, <2>4, <2>5, SoundSame, OpenLogged DEF HInv
  <2>7. OnBranch'
    BY <2>1, <2>3, <2>4, <2>5 DEF OnBranch, HeadSnap, HEAD, SameElsewhere, Marked
  <2>8. PICK p \in cand : cand = {p} /\ Undoes(p)
    BY <2>1 DEF HInv, CompensationInv
  <2>9. Undoes(p)'
    BY <2>1, <2>4, <2>5, <2>8 DEF Undoes, OnlyAllowedChanges, SameElsewhere
  <2> QED BY <2>1, <2>2, <2>3, <2>4, <2>5, <2>6, <2>7, <2>8, <2>9, CompensatingOwes
<1> QED BY <1>1, <1>2

LEMMA CompCommitKeeps == HInv /\ CompCommit => Kept
<1> SUFFICES ASSUME HInv, CompCommit PROVE Kept
  OBVIOUS
<1>1. CASE Conflict
  BY <1>1, Aborted DEF Conflict, Exit, disk
<1>2. CASE ~Conflict
  <2>1. pc = "comp-commit" /\ pc' = "comp-log-committed" /\ UNCHANGED <<config, txns, self>>
    BY <1>2, Zenon DEF CompCommit, OrConflict, Goto, disk, local
  <2>2. pc \in Driving \ {"reclaim", "finish-reclaim"} /\ pc' \in After
    BY <2>1 DEF Driving, FinishPcs, After, Compensating
  <2> QED BY <2>1, <2>2, Recovers
<1> QED BY <1>1, <1>2

LEMMA CompEndKeeps == HInv /\ TInv' /\ (CompLogCommitted \/ CompFinish) => Kept
<1> SUFFICES ASSUME HInv, TInv', CompLogCommitted \/ CompFinish PROVE Kept
  OBVIOUS
<1> DEFINE r == [Me EXCEPT !.stage = "compensation-committed"]
<1>1. CASE Conflict
  BY <1>1, Aborted DEF Conflict, Exit, disk
<1>2. CASE ~Conflict
  <2>1. /\ pc \in {"comp-log-committed", "comp-finish"} /\ pc' \in {"comp-finish", "comp-archive"}
        /\ WriteTxn(r) /\ UNCHANGED <<config, self>>
    BY <1>2 DEF CompLogCommitted, CompFinish, OrConflict, Goto, disk, local
  <2>2. pc \in Driving \ {"reclaim", "finish-reclaim"} /\ pc' \in After
    BY <2>1 DEF Driving, FinishPcs, After, Compensating
  <2>3. Me \in Txn
    BY <2>2, Mine DEF HInv
  <2>4. /\ r.op = Me.op /\ r.name = Me.name /\ r.before = Me.before /\ r.status = Me.status
        /\ r.ctree = Me.ctree /\ r.payload = Me.payload /\ r.resv = Me.resv
        /\ r.declared = Me.declared
    BY <2>3 DEF Txn
  <2> HIDE DEF r
  <2> QED BY <2>1, <2>2, <2>4, RecoveryLogs
<1> QED BY <1>1, <1>2

(* gc prunes only what is done.                                            *)
LEMMA GcKeeps == HInv /\ GcStep => Kept
<1> SUFFICES ASSUME HInv, GcStep PROVE Kept
  OBVIOUS
<1>1. pc = "idle" /\ UNCHANGED <<config, pc>>
  BY DEF GcStep, GcReclaimLease, GcPruneRemove, GcPruneUpdate, GcPruneInstall, disk
<1>2. UNCHANGED txns \/ \E i \in DOMAIN txns : txns[i].status = "done" /\ Pruned(i)
  BY DEF GcStep, GcReclaimLease, GcPruneRemove, GcPruneUpdate, GcPruneInstall, ReclaimThenPrune
<1>3. OpenInv'
  <2>1. CASE UNCHANGED txns
    BY <1>1, <2>1, OpenKept DEF HInv
  <2>2. CASE \E i \in DOMAIN txns : txns[i].status = "done" /\ Pruned(i)
    <3>1. PICK i \in DOMAIN txns : txns[i].status = "done" /\ Pruned(i)
      BY <2>2
    <3>2. DOMAIN txns' = DOMAIN txns /\ \A j \in DOMAIN txns \ {i} : txns'[j] = txns[j]
      BY <3>1 DEF Pruned
    <3>3. txns'[i].status = "pruned"
      <4>1. txns[i] \in Txn /\ txns'[i] = [txns[i] EXCEPT !.status = "pruned"]
        BY <3>1 DEF Pruned, HInv, TInv, JournalTyped
      <4> QED BY <4>1 DEF Txn
    <3>4. \A j \in Pending' : j \in Pending /\ txns'[j] = txns[j]
      BY <3>2, <3>3 DEF Pending
    <3> QED BY <1>1, <3>4 DEF HInv, OpenInv, Sound, SameElsewhere
  <2> QED BY <1>2, <2>1, <2>2
<1>4. MineInv'
  BY <1>1 DEF MineInv, Working, Compensating, Driving, CommandPcs, UndoPcs, FinishPcs, Early
<1>5. pc' \notin CommandPcs \ {"load", "clear", "reclaim"}
        /\ pc' \notin Compensating \cup {"undo-log-root"}
  BY <1>1 DEF CommandPcs, Compensating
<1> QED BY <1>3, <1>4, <1>5, Retired DEF Kept

(* A user never touches what the process has in memory or the journal.     *)
LEMMA UserLeaves ==
    ASSUME HInv, UNCHANGED <<txns, pc, local>>
    PROVE  /\ MineInv' /\ RecordInv' /\ Me' = Me
           /\ UNCHANGED <<cmd, self, seen, held, cand>>
<1>1. Me' = Me /\ UNCHANGED <<cmd, self, seen, held, cand>>
  BY DEF Me, local
<1> QED BY <1>1 DEF HInv, MineInv, RecordInv

(* What a user writes on the tree is none of the command's.                *)
LEMMA UserTreesKeeps ==
    ASSUME HInv, NEW n \in Names, NEW e \in Edits,
           UserEdit(n, e) \/ UserPlace(n, e) \/ UserStage(n, e) \/ UserRemove(n)
    PROVE  Kept
<1>1. UNCHANGED <<config, commits, txns, pc, local>>
  BY Zenon DEF UserEdit, UserPlace, UserStage, UserRemove, UserUnchanged
<1>2. MineInv' /\ RecordInv' /\ Me' = Me /\ UNCHANGED <<cmd, self, seen, held, cand>>
  BY <1>1, UserLeaves
<1>3. OpenInv'
  BY <1>1, OpenKept DEF HInv
<1>4. HeadSnap' = HeadSnap /\ HEAD' = HEAD
  BY <1>1 DEF HeadSnap, HEAD
<1>5. EarlyInv'
  BY <1>1, <1>2, <1>4 DEF HInv, EarlyInv, Marked
<1>6. ExpectedConfig(Me)' = ExpectedConfig(Me)
  BY <1>2 DEF ExpectedConfig, SetReg
<1>7. HeadInv'
  BY <1>1, <1>2, <1>4, <1>6 DEF HInv, HeadInv, Registers, Marked
<1>8. \A p : Candidate(p) => Candidate(p)'
  BY <1>1, <1>2, <1>6 DEF Candidate, Meant, Registers, Marked, OnlyAllowedChanges
<1>9. CandidateInv'
  BY <1>1, <1>2, <1>8 DEF HInv, CandidateInv
<1>10. \A p : Undoes(p) => Undoes(p)'
  BY <1>1, <1>2 DEF Undoes, OnlyAllowedChanges, SameElsewhere
<1>11. CompensationInv'
  BY <1>1, <1>2, <1>4, <1>10 DEF HInv, CompensationInv, SameElsewhere, Marked
<1>12. \A m \in Names : Gone(m) => Gone(m)' /\ (Present(skills[m]) => Present(skills'[m]))
  <2>1. skills \in [Names -> TreeOrNone]
    BY DEF HInv, TInv, DiskTyped
  <2>2. \A m \in Names : skills[m] = NoTree <=> ~Present(skills[m])
    BY DEF Present
  <2>3. CASE skills' = skills
    BY <2>3 DEF Gone
  <2>4. CASE Present(skills[n]) /\ skills[n].c \notin Edits
              /\ \A m \in Names \ {n} : skills'[m] = skills[m]
    BY <2>4 DEF Gone, Present
  <2>5. CASE skills' = [skills EXCEPT ![n] = [id |-> nextId, c |-> e]]
    <3>1. skills'[n].c = e /\ \A m \in Names \ {n} : skills'[m] = skills[m]
      BY <2>1, <2>5
    <3>2. skills'[n] # NoTree
      BY <3>1, ConstantsAssumption DEF NoTree
    <3> QED BY <3>1, <3>2 DEF Gone, Present
  <2> QED BY <2>1, <2>3, <2>4, <2>5 DEF UserEdit, UserPlace, UserStage, UserRemove
<1>13. pc = "quarantine" \/ pc = "log-snapshot" \/ pc \in Quarantined => cmd.name \in Names
  <2>1. Quarantined \subseteq CommandPcs
    BY DEF Quarantined, Saved, Prepared, CommandPcs
  <2> QED BY <2>1 DEF HInv, TInv, CommandInv, CommandPcs
<1>14. GoneInv'
  BY <1>1, <1>2, <1>4, <1>12, <1>13 DEF HInv, GoneInv
<1> QED BY <1>2, <1>3, <1>5, <1>7, <1>9, <1>11, <1>14 DEF Kept

(* A note is added only where there was none; no record has one then.      *)
LEMMA UserConfigKeeps ==
    ASSUME HInv, NEW e \in Edits, UserConfig(e)
    PROVE  Kept
<1>1. /\ config.note = NONE /\ config' = [config EXCEPT !.note = e]
      /\ UNCHANGED <<skills, commits, txns, pc, local>>
  BY Zenon DEF UserConfig, UserUnchanged
<1>2. config'.note = e /\ config'.reg = config.reg /\ e # NONE
  BY <1>1, ConstantsAssumption DEF HInv, TInv, DiskTyped, Config
<1>3. MineInv' /\ RecordInv' /\ Me' = Me /\ UNCHANGED <<cmd, self, seen, held, cand>>
  BY <1>1, UserLeaves
<1>4. OpenInv'
  BY <1>1, <1>2 DEF HInv, OpenInv, Pending, Sound, SameElsewhere
<1>5. HeadSnap' = HeadSnap /\ HEAD' = HEAD
  BY <1>1 DEF HeadSnap, HEAD
<1>6. EarlyInv'
  BY <1>1, <1>2, <1>3, <1>5 DEF HInv, EarlyInv, Early, Marked
<1>7. pc \in Driving \ {"reclaim", "finish-reclaim"} => Me.before.note = NONE
  BY <1>1, Mine DEF HInv, OpenInv, Me, Sound
<1>8. ExpectedConfig(Me)' = ExpectedConfig(Me)
  BY <1>3 DEF ExpectedConfig, SetReg
<1>9. pc \in Working => \A cfg : Registers(cfg) => Registers(cfg)'
  BY <1>1, <1>2, <1>3, <1>7, <1>8, Regions DEF Registers, Marked
<1>10. HeadInv'
  BY <1>1, <1>2, <1>3, <1>5, <1>8, <1>9 DEF HInv, HeadInv
<1>11. pc \in Prepared => \A p : Candidate(p) => Candidate(p)'
  BY <1>1, <1>3, <1>8, <1>9, Regions DEF Candidate, Meant, OnlyAllowedChanges
<1>12. CandidateInv'
  BY <1>1, <1>3, <1>11 DEF HInv, CandidateInv
<1>13. GoneInv'
  BY <1>1, <1>3, <1>5 DEF HInv, GoneInv, Gone
<1>14. \A p : Undoes(p) => Undoes(p)'
  BY <1>1, <1>3 DEF Undoes, OnlyAllowedChanges, SameElsewhere
<1>15. CompensationInv'
  BY <1>1, <1>2, <1>3, <1>5, <1>7, <1>14, Regions DEF HInv, CompensationInv, SameElsewhere, Marked
<1> QED BY <1>3, <1>4, <1>6, <1>10, <1>12, <1>13, <1>15 DEF Kept

(* A commit made by hand has the config of the moment.                     *)
LEMMA UserCommitKeeps == HInv /\ UserCommit => Kept
<1> SUFFICES ASSUME HInv, UserCommit PROVE Kept
  OBVIOUS
<1>1. /\ commits' = Append(commits, [msg |-> CommitMsg("direct", NONE, NONE), snap |-> Worktree])
      /\ UNCHANGED <<config, skills, txns, pc, local>>
  BY Zenon DEF UserCommit, UserUnchanged, AppendCommit
<1>2. MineInv' /\ RecordInv' /\ Me' = Me /\ UNCHANGED <<cmd, self, seen, held, cand>>
  BY <1>1, UserLeaves
<1>3. OpenInv'
  BY <1>1, OpenKept DEF HInv
<1>4. /\ HEAD' = HEAD + 1 /\ HEAD \in Nat /\ DOMAIN commits = 1 .. HEAD
      /\ DOMAIN commits' = 1 .. HEAD + 1
      /\ HeadSnap' = Worktree /\ commits'[HEAD + 1].msg.kind = "direct"
      /\ \A j \in DOMAIN commits : commits'[j] = commits[j]
  BY <1>1 DEF HInv, TInv, BranchTyped, HEAD, HeadSnap, CommitMsg
<1>5. HeadSnap'.cfg = config
  BY <1>4 DEF Worktree
<1>6. EarlyInv'
  BY <1>1, <1>2, <1>5 DEF HInv, EarlyInv, Early, Marked
<1>7. pc \in Driving \ {"reclaim", "finish-reclaim"} =>
        Sound(Me) /\ Marked(config, Me.before) /\ SameElsewhere(config, Me)
  BY Mine DEF HInv, OpenInv, Me, Sound, Marked
<1>8. ExpectedConfig(Me)' = ExpectedConfig(Me)
  BY <1>2 DEF ExpectedConfig, SetReg
<1>9. HeadInv'
  BY <1>1, <1>2, <1>5, <1>7, <1>8, Regions DEF HInv, HeadInv, Registers, Marked
<1>10. GoneInv'
  <2>1. \A n \in Names : HeadSnap'.tree[n] = skills[n].c
    BY <1>4 DEF Worktree
  <2>2. pc \in Quarantined => cmd.name \in Names
    <3>1. Quarantined \subseteq CommandPcs
      BY DEF Quarantined, Saved, Prepared, CommandPcs
    <3> QED BY <3>1 DEF HInv, TInv, CommandInv, CommandPcs
  <2>3. skills[cmd.name] = NoTree => skills[cmd.name].c = NONE
    BY DEF NoTree
  <2> QED BY <1>1, <1>2, <2>1, <2>2, <2>3 DEF HInv, GoneInv, Gone, Present
<1>11. \A p : Candidate(p) => Candidate(p)'
  BY <1>1, <1>2, <1>4, <1>8 DEF Candidate, Meant, Registers, Marked, OnlyAllowedChanges
<1>12. CandidateInv'
  BY <1>1, <1>2, <1>11 DEF HInv, CandidateInv
<1>13. \A p : Undoes(p) => Undoes(p)'
  BY <1>1, <1>2, <1>4 DEF Undoes, OnlyAllowedChanges, SameElsewhere
<1>14. pc \in Compensating => OnBranch'
  <2> SUFFICES ASSUME pc \in Compensating PROVE OnBranch'
    OBVIOUS
  <2>1. OnBranch /\ Me \in Txn
    BY Compensates
  <2>2. \A j \in Me.start + 2 .. HEAD + 1 : commits'[j].msg.kind = "direct"
    <3>1. Me.start \in Nat
      BY <2>1 DEF Txn
    <3>2. \A j \in Me.start + 2 .. HEAD + 1 : j = HEAD + 1
                \/ (j \in Me.start + 2 .. HEAD /\ j \in DOMAIN commits)
      BY <1>4, <3>1
    <3> QED BY <1>4, <2>1, <3>2 DEF OnBranch
  <2>3. Marked(config, Me.before) /\ SameElsewhere(config, Me)
    BY <1>7, Regions
  <2>4. Marked(HeadSnap.cfg, Me.before)' /\ SameElsewhere(HeadSnap.cfg, Me)'
    BY <1>1, <1>2, <1>5, <2>3 DEF Marked, SameElsewhere
  <2>5. Me.start + 1 \in DOMAIN commits' /\ commits'[Me.start + 1] = commits[Me.start + 1]
    BY <1>4, <2>1 DEF OnBranch
  <2> QED BY <1>2, <1>4, <2>1, <2>2, <2>4, <2>5 DEF OnBranch
<1>15. CompensationInv'
  BY <1>1, <1>2, <1>13, <1>14 DEF HInv, CompensationInv, OnBranch
<1> QED BY <1>2, <1>3, <1>6, <1>9, <1>10, <1>12, <1>15 DEF Kept

(* A store that was just created.                                          *)
LEMMA InitHInv == Init => HInv
<1> SUFFICES ASSUME Init PROVE HInv
  OBVIOUS
<1>1. TInv /\ OInv
  BY InitTypes, InitOInv
<1>2. pc = "idle" /\ DOMAIN txns = {}
  BY DEF Init
<1>3. pc \notin Working /\ pc \notin Early /\ pc \notin Compensating /\ pc \notin Driving
  BY <1>2 DEF Working, Early, Compensating, Driving, CommandPcs, UndoPcs, FinishPcs
<1>4. MineInv /\ OpenInv
  BY <1>2, <1>3 DEF MineInv, OpenInv, Pending
<1>5. EarlyInv /\ RecordInv /\ HeadInv /\ GoneInv /\ CandidateInv
  BY <1>2, <1>3, Regions DEF EarlyInv, Early, RecordInv, HeadInv, GoneInv, CandidateInv
<1>6. CompensationInv
  BY <1>2, <1>3 DEF CompensationInv
<1> QED BY <1>1, <1>4, <1>5, <1>6 DEF HInv

(* The induction.                                                          *)
LEMMA StepHInv == HInv /\ [Next]_vars => HInv'
<1> SUFFICES ASSUME HInv, [Next]_vars PROVE HInv'
  OBVIOUS
<1>1. TInv' /\ OInv'
  BY StepTypes, StepOInv DEF HInv
<1>2. Kept
  <2>1. CASE RunStep
    BY <1>1, <2>1, TurnKeeps, LoadConfigKeeps, SweepKeeps, StartTxnKeeps, ReserveStagedRootKeeps,
       LogReservedKeeps, PublishRootKeeps, LogRootKeeps, CopyStagedKeeps, SaveConfigKeeps,
       LogSavedKeeps, LogPublishedKeeps, PrepareCommitKeeps, ValidatePreparedKeeps, LogTreeKeeps,
       CommitPreparedKeeps, MarkerKeeps, UndoConfigKeeps DEF RunStep
  <2>2. CASE InstallStep
    BY <1>1, <2>2, PreflightKeeps, InstallMutateKeeps, InstallLogCopiedKeeps,
       InstallLogPreparedKeeps,
       PublishKeeps, ReclaimKeeps, HandlerKeeps, InstallCompensateKeeps, UndoRootKeeps,
       UndoLogRootKeeps, UndoEntriesKeeps, UndoMovesKeeps, CompLogsKeeps, CompQuarantineKeeps,
       CompConfigKeeps, CompPrepareKeeps, CompLogTreeKeeps, CompCommitKeeps, CompEndKeeps
       DEF InstallStep
  <2>3. CASE RemoveStep
    BY <1>1, <2>3, PreflightKeeps, RemoveMutateKeeps, RemoveLogSnapshotKeeps, RemoveQuarantineKeeps,
       RemoveLogQuarantinedKeeps, ReclaimKeeps, HandlerKeeps, UndoMovesKeeps DEF RemoveStep
  <2>4. CASE UpdateStep
    BY <1>1, <2>4, PreflightKeeps, RemoveMutateKeeps, UpdateLogSnapshotKeeps, UpdateLogCopiedKeeps,
       UpdateValidateStagedKeeps, PublishKeeps, UpdateLogExchangedKeeps, ReclaimKeeps,
       HandlerKeeps, UndoMovesKeeps DEF UpdateStep
  <2>5. CASE BeginCommand \/ BeginRestore \/ Fail \/ Crash
    BY <2>5, TurnKeeps
  <2>6. CASE GcStep
    BY <2>6, GcKeeps
  <2>7. CASE User
    <3>1. CASE \E n \in Names, e \in Edits : UserEdit(n, e) \/ UserPlace(n, e) \/ UserStage(n, e)
      BY <3>1, UserTreesKeeps
    <3>2. CASE \E e \in Edits : UserConfig(e)
      BY <3>2, UserConfigKeeps
    <3>3. CASE \E n \in Names : UserRemove(n)
      <4>1. PICK n \in Names : UserRemove(n)
        BY <3>3
      <4>2. PICK e \in Edits : TRUE
        BY <4>1 DEF UserRemove
      <4> QED BY <4>1, <4>2, UserTreesKeeps
    <3>4. CASE UserCommit
      BY <3>4, UserCommitKeeps
    <3> QED BY <2>7, <3>1, <3>2, <3>3, <3>4 DEF User
  <2>8. CASE UNCHANGED vars
    <3>1. UNCHANGED <<config, skills, commits, txns, pc, cmd, self, seen, held, cand>>
      BY <2>8 DEF vars, disk, local
    <3>2. Me' = Me /\ HeadSnap' = HeadSnap /\ HEAD' = HEAD
      BY <3>1 DEF Me, HeadSnap, HEAD
    <3>3. ExpectedConfig(Me)' = ExpectedConfig(Me)
      BY <3>2 DEF ExpectedConfig, SetReg
    <3>4. MineInv' /\ RecordInv' /\ GoneInv' /\ OpenInv'
      BY <3>1, <3>2, OpenKept DEF HInv, MineInv, RecordInv, GoneInv, Gone
    <3>5. EarlyInv' /\ HeadInv'
      BY <3>1, <3>2, <3>3 DEF HInv, EarlyInv, HeadInv, Registers, Marked
    <3>6. \A p : (Candidate(p) => Candidate(p)') /\ (Undoes(p) => Undoes(p)')
      BY <3>1, <3>2, <3>3 DEF Candidate, Meant, Registers, Marked, Undoes, OnlyAllowedChanges,
         SameElsewhere
    <3>7. CandidateInv' /\ CompensationInv'
      BY <3>1, <3>2, <3>6 DEF HInv, CandidateInv, CompensationInv, SameElsewhere, Marked
    <3> QED BY <3>4, <3>5, <3>7 DEF Kept
  <2> QED BY <2>1, <2>2, <2>3, <2>4, <2>5, <2>6, <2>7, <2>8 DEF Next, Step
<1> QED BY <1>1, <1>2 DEF HInv, Kept

--------------------------------------------------------------------------------
(* The refinement: what a step adds to the branch is what the history      *)
(* promises.                                                               *)
LEMMA Differences ==
    ASSUME NEW s \in Snapshot, NEW t \in Snapshot, NEW n \in Names, NEW d \in Contents \cup {NONE},
           ChangedPaths(s, t) \subseteq {"fu.yaml", n},
           s.cfg.note = t.cfg.note, \A m \in Names \ {n} : s.cfg.reg[m] = t.cfg.reg[m],
           s.cfg.reg[n] = d, s.tree[n] = d
    PROVE  s = History!Register(t, n, d, d)
<1>1. \A m \in Names \ {n} : s.tree[m] = t.tree[m]
  BY ConstantsAssumption DEF ChangedPaths
<1>2. s.cfg = [t.cfg EXCEPT !.reg[n] = d]
  BY DEF Snapshot, Config
<1>3. s.tree = [t.tree EXCEPT ![n] = d]
  BY <1>1 DEF Snapshot
<1> QED BY <1>2, <1>3 DEF Snapshot, Config, History!Register

(* A command's commit is that command: install, update or remove of its    *)
(* skill on what HEAD has, and nothing else.                               *)
LEMMA CommitImplements == HInv /\ TInv' /\ CommitPrepared => [History!NextHistory]_commits
<1> SUFFICES ASSUME HInv, TInv', CommitPrepared, commits' # commits PROVE History!NextHistory
  OBVIOUS
<1>1. pc = "commit" /\ ~Abort
  BY DEF CommitPrepared, Abort
<1>2. pc \in Working /\ pc \in Driving \ {"reclaim", "finish-reclaim"} /\ pc \in Prepared
      /\ pc \in Saved /\ pc \in Copied
  BY <1>1 DEF Working, Driving, CommandPcs, Early, Prepared, Saved, Copied
<1>3. PICK p \in cand : cand = {p} /\ Candidate(p) /\ Meant(p)
  BY <1>1, <1>2 DEF HInv, CandidateInv, Candidate
<1>4. p.parent = HEAD /\ p.snap # HeadSnap
      /\ commits' = Append(commits, [msg |-> CommitMsg("op", cmd.op, cmd.name), snap |-> p.snap])
  BY <1>1, <1>3, Zenon DEF CommitPrepared, OrAbort, AppendCommit
<1>5. Me \in Txn /\ Sound(Me) /\ Me.op = cmd.op /\ Me.name = cmd.name
  BY <1>2, Mine DEF HInv, OpenInv, Me, MineInv
<1> DEFINE n == Me.name
           d == IF Me.op = "rm" THEN NONE ELSE Me.payload.c
<1>6. n \in Names /\ Me.op \in Write /\ Me.before \in Config
      /\ (Me.op # "rm" => Me.payload.c \in Contents /\ Me.payload.c # NONE)
  <2>1. Me.op # "rm" => Me.payload \in Tree
    BY <1>2, <1>5 DEF HInv, RecordInv
  <2> QED BY <1>5, <2>1, Literals DEF Txn, Tree, Write
<1>7. /\ ExpectedConfig(Me).note = Me.before.note /\ ExpectedConfig(Me).reg[n] = d
      /\ \A m \in Names \ {n} : ExpectedConfig(Me).reg[m] = Me.before.reg[m]
  BY <1>6 DEF ExpectedConfig, SetReg, Config
<1>8. HeadSnap \in Snapshot /\ p.snap \in Snapshot /\ commits[p.parent].snap = HeadSnap
  <2>1. commits \in Seq(Commit) /\ commits # <<>> /\ cand \subseteq [parent : Nat, snap : Snapshot]
    BY DEF HInv, TInv, BranchTyped, MemoryTyped
  <2>2. HEAD \in DOMAIN commits /\ commits[HEAD] \in Commit
    BY <2>1 DEF HEAD
  <2>3. commits[HEAD].snap \in Snapshot
    BY <2>2 DEF Commit
  <2>4. p.snap \in Snapshot
    BY <1>3, <2>1
  <2> QED BY <1>4, <2>3, <2>4 DEF HeadSnap
<1>9. HeadSnap.cfg.reg = Me.before.reg \/ HeadSnap.cfg.reg = ExpectedConfig(Me).reg
  BY <1>3, <1>8 DEF Candidate, Registers
<1> HIDE DEF d, n
<1>10. p.snap = History!Register(HeadSnap, n, d, d)
  <2>1. d \in Contents \cup {NONE}
    BY <1>6 DEF d
  <2>2. ChangedPaths(p.snap, HeadSnap) \subseteq {"fu.yaml", n}
    BY <1>3, <1>8 DEF Meant, OnlyAllowedChanges, n
  <2>3. /\ p.snap.cfg = ExpectedConfig(Me) /\ p.snap.tree[n] = d
        /\ HeadSnap.cfg.note = Me.before.note
    BY <1>3, <1>5, <1>7, <1>8 DEF Meant, n
  <2> QED BY <1>6, <1>7, <1>8, <1>9, <2>1, <2>2, <2>3, Differences
<1>11. History!Tip = HeadSnap
  BY DEF History!Tip, HeadSnap, HEAD
<1>12. History!Extend("op", Me.op, n, History!Register(History!Tip, n, d, d))
  BY <1>4, <1>5, <1>10, <1>11 DEF History!Extend, CommitMsg, n
<1>13. CASE Me.op = "install"
  <2>1. Me.before.reg[n] = NONE /\ d \in Contents
    BY <1>5, <1>6, <1>13 DEF Sound, n, d
  <2>2. History!Tip.cfg.reg[n] \in {NONE, d}
    BY <1>7, <1>9, <1>11, <2>1
  <2>3. History!Install(n, d)
    BY <1>12, <1>13, <2>2 DEF History!Install
  <2> QED BY <1>6, <2>1, <2>3 DEF History!NextHistory
<1>14. CASE Me.op = "update"
  <2>1. Me.before.reg[n] # NONE /\ d \in Contents /\ d # NONE
    BY <1>5, <1>6, <1>14 DEF Sound, n, d
  <2>2. History!Tip.cfg.reg[n] # NONE
    BY <1>7, <1>9, <1>11, <2>1
  <2>3. History!Update(n, d)
    BY <1>12, <1>14, <2>2 DEF History!Update
  <2> QED BY <1>6, <2>1, <2>3 DEF History!NextHistory
<1>15. CASE Me.op = "rm"
  <2>1. d = NONE
    BY <1>15 DEF d
  <2>2. History!Tip.cfg.reg[n] # NONE
    <3>1. SUFFICES ASSUME HeadSnap.cfg.reg[n] = NONE PROVE FALSE
      BY <1>11
    <3>2. HeadSnap.tree[n] = NONE \/ p.snap.tree[n] # NONE
      BY <1>3, <1>5, <1>8, <1>15, <3>1 DEF Candidate, n
    <3>3. p.snap.tree[n] = NONE
      BY <1>3, <1>5, <1>7, <2>1 DEF Meant, n
    <3>4. History!Register(HeadSnap, n, NONE, NONE) = HeadSnap
      <4>1. HeadSnap.tree[n] = NONE
        BY <3>2, <3>3
      <4>2. ChangedPaths(HeadSnap, HeadSnap) \subseteq {"fu.yaml", n}
        BY DEF ChangedPaths
      <4> QED BY <1>6, <1>8, <3>1, <4>1, <4>2, Differences
    <3> QED BY <1>4, <1>10, <2>1, <3>4
  <2>3. History!Remove(n)
    BY <1>12, <1>15, <2>1, <2>2 DEF History!Remove
  <2> QED BY <1>6, <2>3 DEF History!NextHistory
<1> QED BY <1>6, <1>13, <1>14, <1>15 DEF Write

(* A recovery commit undoes the install that only hand-made commits follow.*)
LEMMA CompensationImplements == HInv /\ TInv' /\ CompCommit => [History!NextHistory]_commits
<1> SUFFICES ASSUME HInv, TInv', CompCommit, commits' # commits PROVE History!NextHistory
  OBVIOUS
<1>1. pc = "comp-commit" /\ ~Conflict
  BY DEF CompCommit, Conflict
<1>2. OnBranch /\ Me \in Txn /\ Me.op = "install" /\ Sound(Me)
  BY <1>1, Compensates DEF Compensating
<1>3. PICK p \in cand : cand = {p} /\ Undoes(p)
  BY <1>1 DEF HInv, CompensationInv
<1>4. p.parent = HEAD
      /\ commits' = Append(commits, [msg |-> CommitMsg("recover", Me.op, Me.name), snap |-> p.snap])
  BY <1>1, <1>3, Zenon DEF CompCommit, OrConflict, AppendCommit
<1> DEFINE n == Me.name
<1>5. n \in Names /\ Me.before \in Config /\ Me.before.reg[n] = NONE
  BY <1>2 DEF Txn, Sound
<1>6. HeadSnap \in Snapshot /\ p.snap \in Snapshot /\ commits[p.parent].snap = HeadSnap
  <2>1. commits \in Seq(Commit) /\ commits # <<>> /\ cand \subseteq [parent : Nat, snap : Snapshot]
    BY DEF HInv, TInv, BranchTyped, MemoryTyped
  <2>2. HEAD \in DOMAIN commits /\ commits[HEAD] \in Commit
    BY <2>1 DEF HEAD
  <2>3. commits[HEAD].snap \in Snapshot
    BY <2>2 DEF Commit
  <2>4. p.snap \in Snapshot
    BY <1>3, <2>1
  <2> QED BY <1>4, <2>3, <2>4 DEF HeadSnap
<1>7. p.snap = History!Register(HeadSnap, n, NONE, NONE)
  <2>1. ChangedPaths(p.snap, HeadSnap) \subseteq {"fu.yaml", n}
    BY <1>3, <1>6 DEF Undoes, OnlyAllowedChanges
  <2>2. /\ p.snap.cfg = Me.before /\ p.snap.tree[n] = NONE /\ HeadSnap.cfg.note = Me.before.note
        /\ \A m \in Names \ {n} : HeadSnap.cfg.reg[m] = Me.before.reg[m]
    BY <1>3, <1>6 DEF Undoes, SameElsewhere
  <2> HIDE DEF n
  <2> QED BY <1>5, <1>6, <2>1, <2>2, Differences
<1>8. History!Tip = HeadSnap
  BY DEF History!Tip, HeadSnap, HEAD
<1>9. History!Extend("recover", "install", n, History!Register(History!Tip, n, NONE, NONE))
  BY <1>2, <1>4, <1>7, <1>8 DEF History!Extend, CommitMsg
<1>10. \E k \in DOMAIN commits :
         /\ commits[k].msg = [kind |-> "op", op |-> "install", name |-> n]
         /\ \A j \in k + 1 .. Len(commits) : commits[j].msg.kind = "direct"
  <2>1. Me.start \in Nat /\ Me.start + 1 + 1 = Me.start + 2
    BY <1>2 DEF Txn
  <2> QED BY <1>2, <2>1 DEF OnBranch, CommitMsg, HEAD
<1>11. History!UndoInstall(n)
  BY <1>9, <1>10 DEF History!UndoInstall
<1> QED BY <1>5, <1>11 DEF History!NextHistory

(* Whatever else is committed says that somebody else wrote it.            *)
LEMMA ForeignImplements ==
    ASSUME TInv, Worktree # HeadSnap, NEW kind \in {"external", "direct"},
           AppendCommit(CommitMsg(kind, NONE, NONE), Worktree)
    PROVE  History!NextHistory
<1>1. commits' = Append(commits, [msg |-> [kind |-> kind, op |-> NONE, name |-> NONE],
                                    snap |-> Worktree])
  BY DEF AppendCommit, CommitMsg
<1>2. Len(commits') = Len(commits) + 1 /\ commits'[Len(commits')].snap = Worktree
  BY <1>1 DEF TInv, BranchTyped
<1>3. History!Tip = HeadSnap
  BY DEF History!Tip, HeadSnap, HEAD
<1>4. History!Foreign(kind)
  BY <1>1, <1>2, <1>3 DEF History!Foreign, History!Extend
<1> QED BY <1>4 DEF History!NextHistory

(* No other step touches the branch.                                       *)
LEMMA RunLeavesBranch == RunStep => UNCHANGED commits \/ Sweep \/ CommitPrepared
BY Zenon DEF RunStep, Recovered, LoadConfig, StartTxn, ReserveStagedRoot, LogReserved,
      PublishRoot, LogRoot, CopyStaged, SaveConfig, LogSaved, LogPublished,
      PrepareCommit, ValidatePrepared, LogTree, ClearTxn, UndoConfig,
      UndoClear, FinishClear, Exit, OrAbort, Abort, RestoreTxnConfig, OrConflict,
      Conflict

LEMMA InstallLeavesBranch == InstallStep => UNCHANGED commits \/ CompCommit
BY Zenon DEF InstallStep, InstallPreflight, InstallMutate, InstallLogCopied, InstallLogPrepared,
      InstallPublish, InstallReclaim, InstallUndo, InstallCompensate, InstallUndoRoot,
      InstallUndoLogRoot, InstallUndoEntries, InstallUndoQuarantine, InstallUndoArchive,
      CompLogStart, CompQuarantine, CompConfig, CompLogReady, CompPrepare, CompLogTree,
      CompLogCommitted, CompFinish, CompArchive, Preflight, Exit, OrAbort,
      Abort, Handle, OrConflict, Conflict, Recovering, ArchivePayload, RestoreTxnConfig

LEMMA RemoveLeavesBranch == RemoveStep => UNCHANGED commits
BY Zenon DEF RemoveStep, RemovePreflight, RemoveMutate, RemoveLogSnapshot, RemoveQuarantine,
      RemoveLogQuarantined, RemoveReclaim, RemoveUndo, RemoveFinish, RemoveUndoRestore,
      Preflight, Exit, OrAbort, Abort, ReclaimStep, AfterReclaim, Handle, OrConflict,
      Conflict, Recovering

LEMMA UpdateLeavesBranch == UpdateStep => UNCHANGED commits
BY Zenon DEF UpdateStep, UpdatePreflight, UpdateMutate, UpdateLogSnapshot, UpdateLogCopied,
      UpdateValidateStaged, UpdatePublish, UpdateLogExchanged, UpdateReclaim,
      UpdateUndo, UpdateFinish, UpdateUndoExchange, UpdateUndoRoot, UpdateUndoDiscard,
      Preflight, Exit, OrAbort, Abort, Exchange, ReclaimStep, AfterReclaim, Handle,
      OrConflict, Conflict, Recovering

(* Nothing outside the commands commits but a user.                        *)
LEMMA RestLeavesBranch ==
    BeginCommand \/ BeginRestore \/ Fail \/ Crash \/ GcStep \/ User =>
        UNCHANGED commits \/ UserCommit
<1>1. BeginCommand \/ BeginRestore \/ Fail \/ Crash => UNCHANGED commits
  BY Zenon DEF BeginCommand, BeginInstall, BeginRemove, BeginUpdate, Begin, BeginRestore, Fail,
     Crash
<1>2. GcStep => UNCHANGED commits
  BY Zenon DEF GcStep, GcReclaimLease, GcPruneRemove, GcPruneUpdate, GcPruneInstall
<1>3. User => UNCHANGED commits \/ UserCommit
  BY Zenon DEF User, UserEdit, UserPlace, UserStage, UserConfig, UserRemove
<1> QED BY <1>1, <1>2, <1>3

(* A step that changes the branch is a step of the history.                *)
LEMMA StepImplements == HInv /\ [Next]_vars => [History!NextHistory]_commits
<1> SUFFICES ASSUME HInv, [Next]_vars, commits' # commits PROVE History!NextHistory
  OBVIOUS
<1>1. TInv'
  BY StepTypes DEF HInv
<1>2. Sweep \/ CommitPrepared \/ CompCommit \/ UserCommit
  BY RunLeavesBranch, InstallLeavesBranch, RemoveLeavesBranch, UpdateLeavesBranch, RestLeavesBranch
     DEF Next, Step, vars
<1>3. CASE Sweep
  BY <1>3, ForeignImplements DEF Sweep, HInv
<1>4. CASE UserCommit
  BY <1>4, ForeignImplements DEF UserCommit, HInv
<1> QED BY <1>1, <1>2, <1>3, <1>4, CommitImplements, CompensationImplements

(* The branch of the store is the history promised, whatever crashes,      *)
(* fails or is written by others meanwhile: a commit that carries a        *)
(* command's message is that command and nothing else.                     *)
THEOREM ImplementsHistory == Spec => HistorySpec
<1>1. Init => HInv
  BY InitHInv
<1>2. HInv /\ [Next]_vars => HInv'
  BY StepHInv
<1>3. Init => History!InitHistory
  BY DEF Init, History!InitHistory, CommitMsg
<1>4. HInv /\ [Next]_vars => [History!NextHistory]_commits
  BY StepImplements
<1>5. QED BY <1>1, <1>2, <1>3, <1>4, PTL DEF Spec, HistorySpec, History!HistorySpec
--------------------------------------------------------------------------------
(* What a user wrote is never lost unrecorded.  What fu itself registers,  *)
(* stages and copies is never a user's, so that only what a record takes   *)
(* away could be.                                                          *)
Recorded(e) ==
    \E i \in DOMAIN txns : /\ TakenAway(txns[i]) = e
                           /\ txns[i].op = "update" => ForceUpdates
CustodyInv == \A e \in authored : InCustody(e) \/ Recorded(e)

Ours(c) == c \notin Edits
RegistersOurs(cfg) == \A n \in Names : Ours(cfg.reg[n])
Own(t) ==
    /\ RegistersOurs(t.before)
    /\ t.op # "rm" => Ours(t.resv.c) /\ Ours(t.payload.c) /\ Ours(t.declared)
    /\ t.op = "update" /\ ~Ours(t.prev.c) => ForceUpdates
OwnInv == RegistersOurs(config) /\ \A i \in DOMAIN txns : Own(txns[i])

(* What the process has in hand; its record takes nothing away until it    *)
(* has taken the manifest.                                                 *)
Fresh == {"mutate", "log-snapshot"}
Restoring == UndoPcs \ {"undo-clear"}
HandInv ==
    /\ cmd.force => ForceUpdates
    /\ pc \in Copying => Ours(held.c)
    /\ pc \in Fresh => Ours(TakenAway(Me))
    /\ pc = "log-snapshot" /\ cmd.op = "update" /\ ~Ours(held.c) => ForceUpdates
    /\ pc \in Restoring => seen.note = Me.before.note
    /\ pc \in {"undo-exchange", "undo-discard"} => Me.op # "rm"

(* A name under recovery/ is taken once.                                   *)
UniqueInv == \A r, s \in recovery : r.at = s.at => r = s

LInv == HInv /\ OwnInv /\ HandInv /\ UniqueInv /\ CustodyInv

(* What a step owes a user's content: what is on disk stays there, or was  *)
(* taken away by the record; and records remember.                         *)
InTrees(dir, e) == \E n \in Names : dir[n].c = e
InPayloads(dir, e) == \E r \in dir : r.tree.c = e
OnDisk(e) == \/ config.note = e
             \/ InTrees(skills, e) \/ InTrees(staging, e)
             \/ InPayloads(recovery, e) \/ InPayloads(archive, e)
Guarded == \A e \in Edits : OnDisk(e) => OnDisk(e)' \/ Recorded(e)'
Remembered == \A e \in Edits : Recorded(e) => Recorded(e)'
Spared == OwnInv' /\ HandInv' /\ UniqueInv' /\ Guarded /\ Remembered

(* A user's content is nothing fu makes up.                                *)
LEMMA NotOurs ==
    /\ Ours(NONE) /\ Ours(EMPTY) /\ Ours(TORN) /\ Ours(NoTree.c)
    /\ \A c \in Upstream : Ours(c)
BY ConstantsAssumption DEF Ours, NoTree

(* What replacing one tree, taking a payload and putting one there leaves. *)
LEMMA TreesBut ==
    ASSUME NEW dir \in [Names -> TreeOrNone], NEW n \in Names, NEW t, NEW e
    PROVE  /\ InTrees(dir, e) => InTrees([dir EXCEPT ![n] = t], e) \/ dir[n].c = e
           /\ t.c = e => InTrees([dir EXCEPT ![n] = t], e)
BY DEF InTrees

LEMMA TakenOnce ==
    ASSUME UniqueInv, NEW p, NEW e
    PROVE  InPayloads(recovery, e) => InPayloads(Take(recovery, p), e) \/ At(recovery, p).c = e
<1> SUFFICES ASSUME NEW r \in recovery, r.tree.c = e, r.at = p PROVE At(recovery, p).c = e
  BY DEF InPayloads, Take
<1>1. \A s \in recovery : s.at = p => s = r
  BY DEF UniqueInv
<1> QED BY <1>1 DEF At

LEMMA PutThere ==
    ASSUME NEW dir, NEW p, NEW t, NEW e
    PROVE  /\ InPayloads(dir, e) => InPayloads(Put(dir, p, t), e)
           /\ t.c = e => InPayloads(Put(dir, p, t), e)
<1>1. [at |-> p, tree |-> t].tree = t
  OBVIOUS
<1> QED BY <1>1 DEF InPayloads, Put

LEMMA UniqueTake ==
    ASSUME UniqueInv, NEW p, NEW t
    PROVE  /\ \A r, s \in Take(recovery, p) : r.at = s.at => r = s
           /\ \A r, s \in Put(Take(recovery, p), p, t) : r.at = s.at => r = s
<1>1. [at |-> p, tree |-> t].at = p
  OBVIOUS
<1> QED BY <1>1 DEF UniqueInv, Take, Put

(* An absent payload has no entry.                                         *)
LEMMA NoEntry ==
    ASSUME recovery \subseteq PayloadDir, NEW p, ~Present(At(recovery, p))
    PROVE  \A r \in recovery : r.at # p
<1> SUFFICES ASSUME NEW r \in recovery, r.at = p PROVE FALSE
  OBVIOUS
<1>1. At(recovery, p) \in Tree
  BY DEF At, PayloadDir
<1> QED BY <1>1, Literals DEF Present

LEMMA UniquePut ==
    ASSUME UniqueInv, recovery \subseteq PayloadDir, NEW p, NEW t, ~Present(At(recovery, p))
    PROVE  \A r, s \in Put(recovery, p, t) : r.at = s.at => r = s
<1>1. [at |-> p, tree |-> t].at = p
  OBVIOUS
<1> QED BY <1>1, NoEntry DEF UniqueInv, Put

(* What custody needs of a step.                                           *)
LEMMA CustodyKept ==
    ASSUME TInv, Grows, Guarded, Remembered, CustodyInv,
           \A e \in authored' : e \in authored \/ InCustody(e)'
    PROVE  CustodyInv'
<1> SUFFICES ASSUME NEW e \in authored, InCustody(e) \/ Recorded(e)
             PROVE  InCustody(e)' \/ Recorded(e)'
  BY DEF CustodyInv
<1>1. e \in Edits
  BY DEF TInv, CountersTyped
<1>2. CASE Recorded(e)
  BY <1>1, <1>2 DEF Remembered
<1>3. OnDisk(e)' => InCustody(e)'
  BY DEF OnDisk, InCustody, InTrees, InPayloads
<1>4. CASE OnDisk(e)
  BY <1>1, <1>3, <1>4 DEF Guarded
<1>5. CASE InCustody(e) /\ ~OnDisk(e)
  <2>1. PICK k \in DOMAIN commits : \/ commits[k].snap.cfg.note = e
                                    \/ \E n \in Names : commits[k].snap.tree[n] = e
    BY <1>5 DEF OnDisk, InCustody, InTrees, InPayloads
  <2>2. k \in DOMAIN commits' /\ commits'[k] = commits[k]
    BY <2>1, Grown DEF TInv
  <2> QED BY <2>1, <2>2 DEF InCustody
<1> QED BY <1>2, <1>4, <1>5

(* A step that touches neither the store nor the journal, and one that     *)
(* only moves trees.                                                       *)
LEMMA MovesSpares ==
    ASSUME LInv, UNCHANGED <<config, txns>>, HandInv', UniqueInv', Guarded
    PROVE  Spared
<1>1. OwnInv'
  BY DEF LInv, OwnInv, RegistersOurs, Own
<1>2. Remembered
  BY DEF Remembered, Recorded, TakenAway
<1> QED BY <1>1, <1>2 DEF Spared

LEMMA QuietSpares ==
    ASSUME LInv, UNCHANGED <<config, skills, staging, recovery, archive, txns>>, HandInv'
    PROVE  Spared
<1>1. UniqueInv'
  BY DEF LInv, UniqueInv
<1>2. Guarded
  BY DEF Guarded, OnDisk, InTrees, InPayloads
<1> QED BY <1>1, <1>2, MovesSpares

(* A step that writes a revision.                                          *)
LEMMA LogsSpares ==
    ASSUME LInv, TInv', pc \in Driving, NEW r, WriteTxn(r), Own(r),
           r.op = Me.op, TakenAway(r) = TakenAway(Me) \/ Ours(TakenAway(Me)),
           UNCHANGED <<config, skills, staging, recovery, archive>>, HandInv'
    PROVE  Spared
<1>1. self \in DOMAIN txns /\ txns'[self] = r /\ DOMAIN txns' = DOMAIN txns
        /\ \A i \in DOMAIN txns \ {self} : txns'[i] = txns[i]
  BY DEF LInv, HInv, TInv, JournalTyped, DrivenInv, WriteTxn, Me
<1>2. \A t : Own(t)' <=> Own(t)
  BY DEF Own, RegistersOurs
<1>3. \A i \in DOMAIN txns' : Own(txns'[i])
  BY <1>1 DEF LInv, OwnInv
<1>4. OwnInv'
  BY <1>2, <1>3 DEF LInv, OwnInv, RegistersOurs
<1>5. \A i \in DOMAIN txns, e \in Edits : TakenAway(txns[i]) = e =>
        TakenAway(txns'[i]) = e /\ txns'[i].op = txns[i].op
  BY <1>1 DEF Ours, Me
<1>6. Remembered
  <2> SUFFICES ASSUME NEW e \in Edits, Recorded(e) PROVE Recorded(e)'
    BY DEF Remembered
  <2>1. PICK i \in DOMAIN txns : /\ TakenAway(txns[i]) = e
                                 /\ txns[i].op = "update" => ForceUpdates
    BY DEF Recorded
  <2>2. TakenAway(txns'[i]) = e /\ txns'[i].op = txns[i].op /\ i \in DOMAIN txns'
    BY <1>1, <1>5, <2>1
  <2> QED BY <2>1, <2>2 DEF Recorded, TakenAway
<1>7. UniqueInv'
  BY DEF LInv, UniqueInv
<1>8. Guarded
  BY DEF Guarded, OnDisk, InTrees, InPayloads
<1> QED BY <1>4, <1>6, <1>7, <1>8 DEF Spared

(* Most steps have nothing in hand that matters.                           *)
LEMMA EmptyHanded ==
    ASSUME LInv, cmd' = cmd \/ cmd' = NoCommand, pc' \notin Copying \cup Fresh \cup Restoring
    PROVE  HandInv'
BY DEF LInv, HandInv, NoCommand, Fresh, Restoring, UndoPcs

(* A command that ends or turns to recovery.                               *)
LEMMA StopsSpares ==
    ASSUME LInv, Abort \/ Conflict
    PROVE  Spared
<1>1. /\ UNCHANGED <<config, skills, staging, recovery, archive, txns>>
      /\ cmd' = cmd \/ cmd' = NoCommand
      /\ pc' \in {"idle", "recover"}
  BY DEF Abort, Conflict, Exit, Goto, disk
<1>2. pc' \notin Copying \cup Fresh \cup Restoring
  BY <1>1 DEF Copying, Declared, Reserved, Fresh, Restoring, UndoPcs
<1> QED BY <1>1, <1>2, EmptyHanded, QuietSpares

LEMMA OwnMe ==
    ASSUME LInv, pc \in Driving
    PROVE  Me \in Txn /\ Own(Me) /\ self \in DOMAIN txns
BY MeTyped DEF LInv, HInv, TInv, JournalTyped, DrivenInv, OwnInv, Me

(* Steps that write nothing the next process reads.                        *)
LEMMA PlainSpares ==
    ASSUME LInv,
           \/ Recovered \/ LoadConfig \/ Sweep \/ PrepareCommit \/ ValidatePrepared
           \/ CommitPrepared \/ InstallPreflight \/ RemovePreflight \/ UpdatePreflight
           \/ InstallMutate \/ UpdateValidateStaged \/ InstallReclaim \/ CompPrepare \/ CompCommit
           \/ BeginRestore \/ Fail \/ Crash
    PROVE  Spared
<1>1. CASE Abort \/ Conflict
  BY <1>1, StopsSpares
<1>2. CASE ~Abort /\ ~Conflict
  <2>1. UNCHANGED <<config, skills, staging, recovery, archive, txns>>
    BY <1>2, Zenon DEF Recovered, LoadConfig, Sweep, PrepareCommit, ValidatePrepared,
       CommitPrepared, InstallPreflight, RemovePreflight, UpdatePreflight, Preflight, InstallMutate,
       UpdateValidateStaged, InstallReclaim, CompPrepare, CompCommit, BeginRestore, Fail, Crash,
       OrAbort, OrConflict, disk
  <2>2. /\ cmd' = cmd \/ cmd' = NoCommand \/ cmd' = [NoCommand EXCEPT !.op = "restore"]
        /\ pc' \in {"idle", "load", "sweep", "preflight", "start", "validate", "log-tree", "clear",
                   "reserve", "save", "comp-log-tree", "comp-log-committed", "recover"}
    BY <1>2 DEF Recovered, LoadConfig, Sweep, PrepareCommit, ValidatePrepared, CommitPrepared,
       InstallPreflight, RemovePreflight, UpdatePreflight, Preflight, InstallMutate,
       UpdateValidateStaged, InstallReclaim, CompPrepare, CompCommit, BeginRestore, Fail, Crash,
       OrAbort, OrConflict, Exit, Goto, local
  <2>3. pc' \notin Copying \cup Fresh \cup Restoring
    BY <2>2 DEF Copying, Declared, Reserved, Fresh, Restoring, UndoPcs
  <2>4. cmd'.force => ForceUpdates
    BY <2>2 DEF LInv, HandInv, NoCommand
  <2>5. HandInv'
    BY <2>3, <2>4 DEF HandInv, Fresh, Restoring, UndoPcs
  <2> QED BY <2>1, <2>5, QuietSpares
<1> QED BY <1>1, <1>2

(* A user forces an update only where that is allowed.                     *)
LEMMA BeginSpares == LInv /\ BeginCommand => Spared
<1> SUFFICES ASSUME LInv, BeginCommand PROVE Spared
  OBVIOUS
<1>1. \E op, n, c : \E force \in BOOLEAN : (force => ForceUpdates) /\ Begin(op, n, c, force)
  BY DEF BeginCommand, BeginInstall, BeginRemove, BeginUpdate
<1>2. /\ UNCHANGED <<config, skills, staging, recovery, archive, txns>>
      /\ pc' = "recover" /\ (cmd'.force => ForceUpdates)
  BY <1>1 DEF Begin, Goto, disk
<1>3. HandInv'
  BY <1>2 DEF HandInv, Copying, Declared, Reserved, Fresh, Restoring, UndoPcs
<1> QED BY <1>2, <1>3, QuietSpares

(* A command that takes the manifest of what it removes or replaces: an    *)
(* update without --force, of content that fu.yaml has the digest of.      *)
LEMMA MutateSpares == LInv /\ (RemoveMutate \/ UpdateMutate) => Spared
<1> SUFFICES ASSUME LInv, RemoveMutate \/ UpdateMutate PROVE Spared
  OBVIOUS
<1>1. CASE Abort
  BY <1>1, StopsSpares
<1>2. CASE ~Abort
  <2>1. /\ UNCHANGED <<config, skills, staging, recovery, archive, txns, cmd, self, seen>>
        /\ pc = "mutate" /\ pc' = "log-snapshot" /\ held' = skills[cmd.name]
        /\ cmd.op = "update" => Updatable(cmd.name)
    BY <1>2, Zenon DEF RemoveMutate, UpdateMutate, OrAbort, Goto, disk
  <2>2. cmd.name \in Names /\ pc \in Working /\ pc \in Driving
    BY <2>1, Regions DEF LInv, HInv, TInv, CommandInv, CommandPcs, Working, Early, Write
  <2>3. Me' = Me /\ RegistersOurs(Me.before) /\ Me.before = seen
    BY <2>1, <2>2, OwnMe DEF Me, Own, LInv, HInv, MineInv
  <2>4. cmd.op = "update" /\ ~Ours(held'.c) => ForceUpdates
    BY <2>1, <2>2, <2>3 DEF Updatable, RegistersOurs, LInv, HandInv
  <2>5. HandInv'
    BY <2>1, <2>3, <2>4 DEF LInv, HandInv, Fresh, Copying, Declared, Reserved, Restoring, UndoPcs,
       TakenAway
  <2> QED BY <2>1, <2>5, QuietSpares
<1> QED BY <1>1, <1>2

(* A private root is empty.                                                *)
LEMMA ReserveSpares == LInv /\ ReserveStagedRoot => Spared
<1> SUFFICES ASSUME LInv, ReserveStagedRoot PROVE Spared
  OBVIOUS
<1>1. /\ UNCHANGED <<config, skills, staging, recovery, archive, txns, cmd>>
      /\ pc' = "log-reserved" /\ held'.c = EMPTY
  BY DEF ReserveStagedRoot, Goto
<1>2. HandInv'
  BY <1>1, NotOurs DEF LInv, HandInv, Fresh, Restoring, UndoPcs
<1> QED BY <1>1, <1>2, QuietSpares

(* Revisions that change nothing of what a record has to do with trees.    *)
LEMMA OwnSame ==
    ASSUME NEW t, NEW u, Own(t), u.op = t.op, u.before = t.before, u.resv = t.resv,
           u.declared = t.declared, u.payload = t.payload, u.prev = t.prev
    PROVE  Own(u) /\ TakenAway(u) = TakenAway(t)
BY DEF Own, TakenAway

LEMMA StageSpares ==
    ASSUME LInv, TInv', pc \in Driving, NEW r, WriteTxn(r),
           r.op = Me.op, r.before = Me.before, r.resv = Me.resv, r.declared = Me.declared,
           r.payload = Me.payload, r.prev = Me.prev,
           UNCHANGED <<config, skills, staging, recovery, archive, cmd>>,
           pc' \notin Copying \cup Fresh \cup Restoring
    PROVE  Spared
BY OwnMe, OwnSame, EmptyHanded, LogsSpares

LEMMA MarksSpares ==
    ASSUME LInv, TInv',
           \/ LogSaved \/ LogPublished \/ LogTree \/ ClearTxn \/ UndoClear \/ FinishClear
           \/ InstallLogPrepared \/ RemoveLogQuarantined \/ UpdateLogExchanged
           \/ CompLogStart \/ CompLogReady \/ CompLogTree \/ CompLogCommitted \/ CompFinish
    PROVE  Spared
<1>1. CASE Abort \/ Conflict
  BY <1>1, StopsSpares
<1>2. CASE ~Abort /\ ~Conflict
  <2>1. /\ UNCHANGED <<config, skills, staging, recovery, archive, cmd>>
        /\ \/ \E s : WriteTxn([Me EXCEPT !.stage = s])
           \/ WriteTxn([Me EXCEPT !.ctree = {p.snap : p \in cand}])
           \/ WriteTxn([Me EXCEPT !.comp = {p.snap : p \in cand}])
           \/ WriteTxn([Me EXCEPT !.status = "done"])
    BY <1>2, Zenon DEF LogSaved, LogPublished, LogTree, ClearTxn, UndoClear, FinishClear,
       InstallLogPrepared, RemoveLogQuarantined, UpdateLogExchanged, CompLogStart, CompLogReady,
       CompLogTree, CompLogCommitted, CompFinish, OrAbort, OrConflict, disk, local
  <2>2. /\ pc \in {"log-saved", "log-published", "log-tree", "clear", "undo-clear", "finish-clear",
                  "log-prepared", "log-quarantined", "log-exchanged", "comp-log-start",
                  "comp-log-ready", "comp-log-tree", "comp-log-committed", "comp-finish"}
        /\ pc' \in {"prepare", "publish", "commit", "reclaim", "recover", "finish-reclaim", "save",
                   "log-published", "comp-quarantine", "comp-prepare", "comp-commit",
                   "comp-finish", "comp-archive"}
    BY <1>2 DEF LogSaved, LogPublished, LogTree, ClearTxn, UndoClear, FinishClear,
       InstallLogPrepared, RemoveLogQuarantined, UpdateLogExchanged, CompLogStart, CompLogReady,
       CompLogTree, CompLogCommitted, CompFinish, OrAbort, OrConflict, Goto
  <2>3. pc \in Driving /\ pc' \notin Copying \cup Fresh \cup Restoring
    BY <2>2 DEF Driving, CommandPcs, Early, FinishPcs, Copying, Declared, Reserved, Fresh,
       Restoring, UndoPcs
  <2>4. PICK r : /\ WriteTxn(r)
                 /\ \/ \E s : r = [Me EXCEPT !.stage = s]
                    \/ r = [Me EXCEPT !.ctree = {p.snap : p \in cand}]
                    \/ r = [Me EXCEPT !.comp = {p.snap : p \in cand}]
                    \/ r = [Me EXCEPT !.status = "done"]
    BY <2>1, Zenon
  <2>5. /\ r.op = Me.op /\ r.before = Me.before /\ r.resv = Me.resv /\ r.declared = Me.declared
        /\ r.payload = Me.payload /\ r.prev = Me.prev
    BY <2>3, <2>4, OwnMe DEF Txn
  <2> QED BY <2>1, <2>3, <2>4, <2>5, StageSpares
<1> QED BY <1>1, <1>2

(* Revisions that record a tree fu made ...                                *)
LEMMA LogReservedSpares == LInv /\ TInv' /\ LogReserved => Spared
<1> SUFFICES ASSUME LInv, TInv', LogReserved PROVE Spared
  OBVIOUS
<1> DEFINE r == [Me EXCEPT !.resv = held, !.declared = cmd.c]
<1>1. /\ pc = "log-reserved" /\ pc' = "publish-root" /\ WriteTxn(r)
      /\ UNCHANGED <<config, skills, staging, recovery, archive, cmd, held>>
  BY Zenon DEF LogReserved, Goto, disk, local
<1>2. pc \in Driving /\ pc \in Copying /\ pc \in Staging
  BY <1>1 DEF Driving, CommandPcs, Early, Copying, Staging
<1>3. Me \in Txn /\ Own(Me)
  BY <1>2, OwnMe
<1>4. Ours(held.c) /\ Ours(cmd.c)
  BY <1>2, NotOurs DEF LInv, HandInv, HInv, TInv, CommandInv
<1>5. /\ r.op = Me.op /\ r.before = Me.before /\ r.resv = held /\ r.declared = cmd.c
      /\ r.payload = Me.payload /\ r.prev = Me.prev
  BY <1>3 DEF Txn
<1> HIDE DEF r
<1>6. Own(r) /\ TakenAway(r) = TakenAway(Me)
  BY <1>3, <1>4, <1>5 DEF Own, TakenAway
<1>7. HandInv'
  BY <1>1, <1>4 DEF LInv, HandInv, Fresh, Restoring, UndoPcs
<1> QED BY <1>1, <1>2, <1>5, <1>6, <1>7, LogsSpares

LEMMA LogRootSpares == LInv /\ TInv' /\ LogRoot => Spared
<1> SUFFICES ASSUME LInv, TInv', LogRoot PROVE Spared
  OBVIOUS
<1> DEFINE r == [Me EXCEPT !.resv = NoTree, !.payload = held]
<1>1. /\ pc = "log-root" /\ pc' = "copy" /\ WriteTxn(r)
      /\ UNCHANGED <<config, skills, staging, recovery, archive, cmd, held>>
  BY Zenon DEF LogRoot, Goto, disk, local
<1>2. pc \in Driving /\ pc \in Copying /\ pc \in Staging /\ pc \in Working
  BY <1>1, Regions DEF Driving, CommandPcs, Early, Copying, Declared, Reserved, Staging
<1>3. Me \in Txn /\ Own(Me) /\ Me.op # "rm"
  BY <1>2, OwnMe DEF LInv, HInv, MineInv, TInv, CommandInv
<1>4. Ours(held.c)
  BY <1>2 DEF LInv, HandInv
<1>5. /\ r.op = Me.op /\ r.before = Me.before /\ r.resv = NoTree /\ r.declared = Me.declared
      /\ r.payload = held /\ r.prev = Me.prev
  BY <1>3 DEF Txn
<1> HIDE DEF r
<1>6. Own(r) /\ TakenAway(r) = TakenAway(Me)
  BY <1>3, <1>4, <1>5, NotOurs DEF Own, TakenAway
<1>7. HandInv'
  BY <1>1, <1>4 DEF LInv, HandInv, Fresh, Restoring, UndoPcs
<1> QED BY <1>1, <1>2, <1>5, <1>6, <1>7, LogsSpares

LEMMA LogCopiedSpares == LInv /\ TInv' /\ (InstallLogCopied \/ UpdateLogCopied) => Spared
<1> SUFFICES ASSUME LInv, TInv', InstallLogCopied \/ UpdateLogCopied PROVE Spared
  OBVIOUS
<1>1. /\ pc = "log-copied" /\ pc' = "log-prepared"
      /\ \/ WriteTxn([Me EXCEPT !.payload = held, !.declared = NONE])
         \/ WriteTxn([Me EXCEPT !.payload = held, !.declared = NONE, !.stage = "staged"])
      /\ UNCHANGED <<config, skills, staging, recovery, archive, cmd>>
  BY Zenon DEF InstallLogCopied, UpdateLogCopied, Goto, disk, local
<1>2. pc \in Driving /\ pc \in Copying /\ pc \in Staging /\ pc \in Working
  BY <1>1, Regions DEF Driving, CommandPcs, Early, Copying, Declared, Staging
<1>3. Me \in Txn /\ Own(Me) /\ Me.op # "rm"
  BY <1>2, OwnMe DEF LInv, HInv, MineInv, TInv, CommandInv
<1>4. Ours(held.c)
  BY <1>2 DEF LInv, HandInv
<1>5. PICK r : /\ WriteTxn(r)
               /\ \/ r = [Me EXCEPT !.payload = held, !.declared = NONE]
                  \/ r = [Me EXCEPT !.payload = held, !.declared = NONE, !.stage = "staged"]
  BY <1>1
<1>6. /\ r.op = Me.op /\ r.before = Me.before /\ r.resv = Me.resv /\ r.declared = NONE
      /\ r.payload = held /\ r.prev = Me.prev
  BY <1>3, <1>5 DEF Txn
<1>7. Own(r) /\ TakenAway(r) = TakenAway(Me)
  BY <1>3, <1>4, <1>6, NotOurs DEF Own, TakenAway
<1>8. HandInv'
  BY <1>1, EmptyHanded DEF Copying, Declared, Reserved, Fresh, Restoring, UndoPcs
<1> QED BY <1>1, <1>2, <1>5, <1>6, <1>7, <1>8, LogsSpares

(* ... and those that say what a command takes away.                       *)
LEMMA LogSnapshotSpares == LInv /\ TInv' /\ (RemoveLogSnapshot \/ UpdateLogSnapshot) => Spared
<1> SUFFICES ASSUME LInv, TInv', RemoveLogSnapshot \/ UpdateLogSnapshot PROVE Spared
  OBVIOUS
<1>1. /\ pc = "log-snapshot" /\ pc' \in {"quarantine", "reserve"}
      /\ UNCHANGED <<config, skills, staging, recovery, archive, cmd>>
      /\ \/ /\ cmd.op = "rm" /\ WriteTxn([Me EXCEPT !.payload = held, !.stage = "snapshotted"])
         \/ /\ cmd.op = "update" /\ WriteTxn([Me EXCEPT !.prev = held, !.stage = "snapshotted"])
  BY DEF RemoveLogSnapshot, UpdateLogSnapshot, Goto, disk, local
<1>2. pc \in Driving /\ pc \in Working
  BY <1>1, Regions
<1>3. Me \in Txn /\ Own(Me) /\ Me.op = cmd.op
  BY <1>2, OwnMe DEF LInv, HInv, MineInv
<1>4. Ours(TakenAway(Me)) /\ (cmd.op = "update" /\ ~Ours(held.c) => ForceUpdates)
  BY <1>1 DEF LInv, HandInv, Fresh
<1>5. PICK r : /\ WriteTxn(r)
               /\ \/ cmd.op = "rm" /\ r = [Me EXCEPT !.payload = held, !.stage = "snapshotted"]
                  \/ cmd.op = "update" /\ r = [Me EXCEPT !.prev = held, !.stage = "snapshotted"]
  BY <1>1
<1>6. /\ r.op = Me.op /\ r.before = Me.before /\ r.resv = Me.resv /\ r.declared = Me.declared
      /\ \/ cmd.op = "rm"
         \/ cmd.op = "update" /\ r.payload = Me.payload /\ r.prev = held
  BY <1>3, <1>5 DEF Txn
<1>7. Own(r)
  BY <1>3, <1>4, <1>6 DEF Own
<1>8. HandInv'
  BY <1>1, EmptyHanded DEF Copying, Declared, Reserved, Fresh, Restoring, UndoPcs
<1> QED BY <1>1, <1>2, <1>4, <1>5, <1>6, <1>7, <1>8, LogsSpares

(* The root takes its name, and the copy goes into it.                     *)
LEMMA PublishRootSpares == LInv /\ PublishRoot => Spared
<1> SUFFICES ASSUME LInv, PublishRoot PROVE Spared
  OBVIOUS
<1>1. CASE Abort
  BY <1>1, StopsSpares
<1>2. CASE ~Abort
  <2>1. /\ UNCHANGED <<config, skills, recovery, archive, txns, cmd, held>>
        /\ pc = "publish-root" /\ pc' = "log-root" /\ staging[cmd.name] = NoTree
        /\ staging' = [staging EXCEPT ![cmd.name] = held]
    BY <1>2, Zenon DEF PublishRoot, OrAbort, Goto, local, Present
  <2>2. cmd.name \in Names /\ pc \in Copying /\ staging \in [Names -> TreeOrNone]
    BY <2>1 DEF LInv, HInv, TInv, CommandInv, CommandPcs, Write, Copying, Declared, Reserved,
       DiskTyped
  <2>3. Guarded
    BY <2>1, <2>2, TreesBut, NotOurs DEF Guarded, OnDisk, InTrees, Ours
  <2>4. HandInv'
    BY <2>1, <2>2 DEF LInv, HandInv, Fresh, Restoring, UndoPcs
  <2>5. UniqueInv'
    BY <2>1 DEF LInv, UniqueInv
  <2> QED BY <2>1, <2>3, <2>4, <2>5, MovesSpares
<1> QED BY <1>1, <1>2

LEMMA CopyStagedSpares == LInv /\ CopyStaged => Spared
<1> SUFFICES ASSUME LInv, CopyStaged PROVE Spared
  OBVIOUS
<1>1. CASE Abort
  BY <1>1, StopsSpares
<1>2. CASE ~Abort
  <2> DEFINE n == cmd.name
  <2>1. /\ pc \in {"copy", "fill"} /\ pc' \in {"fill", "log-copied"}
        /\ staging[cmd.name] = [held EXCEPT !.c = IF pc = "copy" THEN EMPTY ELSE TORN]
        /\ UNCHANGED <<config, skills, recovery, archive, txns, cmd>>
    BY <1>2, Zenon DEF CopyStaged, OrAbort, Goto
  <2>2. /\ pc \in Copying /\ pc \in Staging /\ pc \in CommandPcs /\ cmd.op \in Write
        /\ n \in Names
    BY <2>1 DEF LInv, HInv, TInv, CommandInv, CommandPcs, Write, Copying, Declared, Staging
  <2>3. held \in Tree /\ staging \in [Names -> TreeOrNone]
    BY <2>2 DEF LInv, HInv, RecordInv, TInv, DiskTyped
  <2>4. PICK c \in {TORN, cmd.c} :
          /\ staging' = [staging EXCEPT ![n].c = c]
          /\ held' = IF c = TORN THEN held ELSE [held EXCEPT !.c = c]
    BY <1>2 DEF CopyStaged, OrAbort
  <2>5. Ours(staging[n].c) /\ Ours(held.c) /\ Ours(held'.c)
    <3>1. Ours(c)
      BY <2>2, NotOurs DEF LInv, HInv, TInv, CommandInv
    <3>2. \A d : [held EXCEPT !.c = d].c = d
      BY <2>3 DEF Tree
    <3>3. Ours(held.c)
      BY <2>2 DEF LInv, HandInv
    <3> QED BY <2>1, <2>4, <3>1, <3>2, <3>3, NotOurs
  <2>6. Guarded
    <3> DEFINE t == [staging[n] EXCEPT !.c = c]
    <3>1. staging' = [staging EXCEPT ![n] = t]
      BY <2>4
    <3> HIDE DEF t, n
    <3>2. \A e : InTrees(staging, e) => InTrees(staging', e) \/ staging[n].c = e
      BY <2>2, <2>3, <3>1, TreesBut
    <3> QED BY <2>1, <2>5, <3>2 DEF Guarded, OnDisk, InTrees, InPayloads, Ours
  <2>7. HandInv'
    BY <2>1, <2>5 DEF LInv, HandInv, Fresh, Restoring, UndoPcs
  <2>8. UniqueInv'
    BY <2>1 DEF LInv, UniqueInv
  <2> QED BY <2>1, <2>6, <2>7, <2>8, MovesSpares
<1> QED BY <1>1, <1>2

(* fu.yaml is written over what was loaded: a user's note goes along.      *)
LEMMA SaveConfigSpares == LInv /\ SaveConfig => Spared
<1> SUFFICES ASSUME LInv, SaveConfig PROVE Spared
  OBVIOUS
<1>1. CASE Abort
  BY <1>1, StopsSpares
<1>2. CASE ~Abort
  <2>1. /\ UNCHANGED <<skills, staging, recovery, archive, txns, cmd>>
        /\ pc = "save" /\ pc' = "log-saved" /\ config = seen /\ config' = ExpectedConfig(Me)
    BY <1>2, Zenon DEF SaveConfig, OrAbort, Goto, local, ConfigAsLoaded
  <2>2. pc \in Driving /\ pc \in Working /\ pc \in Copied
    BY <2>1 DEF Driving, Working, Copied, CommandPcs, Early
  <2>3. Me \in Txn /\ Own(Me) /\ Me.before = config
    BY <2>1, <2>2, OwnMe DEF LInv, HInv, MineInv
  <2>4. config \in Config /\ Me.name \in Names
    BY <2>3 DEF LInv, HInv, TInv, DiskTyped, Txn
  <2>5. config'.note = config.note /\ RegistersOurs(config')
    BY <2>1, <2>3, <2>4, NotOurs DEF ExpectedConfig, SetReg, Config, RegistersOurs, Own
  <2>6. OwnInv'
    BY <2>1, <2>5 DEF LInv, OwnInv, Own, RegistersOurs
  <2>7. Guarded
    BY <2>1, <2>5 DEF Guarded, OnDisk, InTrees, InPayloads
  <2>8. Remembered
    BY <2>1 DEF Remembered, Recorded, TakenAway
  <2>9. HandInv'
    BY <2>1, EmptyHanded DEF Copying, Declared, Reserved, Fresh, Restoring, UndoPcs
  <2>10. UniqueInv'
    BY <2>1 DEF LInv, UniqueInv
  <2> QED BY <2>6, <2>7, <2>8, <2>9, <2>10 DEF Spared
<1> QED BY <1>1, <1>2

(* Publishing, quarantining and their way back move trees whole.           *)
LEMMA PublishSpares == LInv /\ (InstallPublish \/ UpdatePublish) => Spared
<1> SUFFICES ASSUME LInv, InstallPublish \/ UpdatePublish PROVE Spared
  OBVIOUS
<1>1. CASE Abort
  BY <1>1, StopsSpares
<1>2. CASE ~Abort
  <2> DEFINE n == cmd.name
  <2>1. /\ UNCHANGED <<config, recovery, archive, txns, cmd>>
        /\ pc = "publish" /\ pc' \in {"log-published", "log-exchanged"}
        /\ skills' = [skills EXCEPT ![n] = staging[n]]
        /\ staging' = [staging EXCEPT ![n] = skills[n]]
    BY <1>2, Zenon DEF InstallPublish, UpdatePublish, OrAbort, Goto, local, Present, Exchangeable,
       Exchange
  <2>2. /\ n \in Names /\ staging \in [Names -> TreeOrNone] /\ skills \in [Names -> TreeOrNone]
    BY <2>1 DEF LInv, HInv, TInv, CommandInv, CommandPcs, Write, DiskTyped
  <2>3. Guarded
    BY <2>1, <2>2, TreesBut DEF Guarded, OnDisk
  <2>4. HandInv'
    BY <2>1, EmptyHanded DEF Copying, Declared, Reserved, Fresh, Restoring, UndoPcs
  <2>5. UniqueInv'
    BY <2>1 DEF LInv, UniqueInv
  <2> QED BY <2>1, <2>3, <2>4, <2>5, MovesSpares
<1> QED BY <1>1, <1>2

LEMMA RemoveQuarantineSpares == LInv /\ RemoveQuarantine => Spared
<1> SUFFICES ASSUME LInv, RemoveQuarantine PROVE Spared
  OBVIOUS
<1>1. CASE Abort
  BY <1>1, StopsSpares
<1>2. CASE ~Abort
  <2> DEFINE n == cmd.name
             p == RemovedName(Me)
  <2>1. /\ UNCHANGED <<config, staging, archive, txns, cmd>>
        /\ pc = "quarantine" /\ pc' = "log-quarantined"
        /\ \/ UNCHANGED <<skills, recovery>>
           \/ /\ ~Present(At(recovery, p))
              /\ skills' = [skills EXCEPT ![n] = NoTree]
              /\ recovery' = Put(recovery, p, skills[n])
    BY <1>2, Zenon DEF RemoveQuarantine, OrAbort, Goto, local
  <2>2. /\ n \in Names /\ skills \in [Names -> TreeOrNone] /\ recovery \subseteq PayloadDir
    BY <2>1 DEF LInv, HInv, TInv, CommandInv, CommandPcs, Write, DiskTyped
  <2>3. UniqueInv'
    BY <2>1, <2>2, UniquePut DEF LInv, UniqueInv
  <2>4. Guarded
    BY <2>1, <2>2, TreesBut, PutThere DEF Guarded, OnDisk, InTrees
  <2>5. HandInv'
    BY <2>1, EmptyHanded DEF Copying, Declared, Reserved, Fresh, Restoring, UndoPcs
  <2> QED BY <2>1, <2>3, <2>4, <2>5, MovesSpares
<1> QED BY <1>1, <1>2

(* The first revision takes nothing away yet.                              *)
LEMMA StartTxnSpares == LInv /\ TInv' /\ StartTxn => Spared
<1> SUFFICES ASSUME LInv, TInv', StartTxn PROVE Spared
  OBVIOUS
<1>1. PICK r : /\ txns' = Append(txns, r) /\ r.op = cmd.op /\ r.before = seen
               /\ r.resv = NoTree /\ r.declared = NONE /\ r.payload = NoTree /\ r.prev = NoTree
  BY DEF StartTxn
<1>2. /\ UNCHANGED <<config, skills, staging, recovery, archive, cmd>>
      /\ pc = "start" /\ pc' = "mutate" /\ self' = Len(txns) + 1
  BY DEF StartTxn, Goto, disk
<1>3. /\ Len(txns) \in Nat /\ DOMAIN txns = 1 .. Len(txns) /\ DOMAIN txns' = 1 .. Len(txns) + 1
      /\ \A i \in DOMAIN txns : txns'[i] = txns[i]
      /\ txns'[Len(txns) + 1] = r
  BY <1>1 DEF LInv, HInv, TInv, JournalTyped
<1>4. RegistersOurs(seen)
  BY <1>2 DEF LInv, HInv, EarlyInv, Early, OwnInv, RegistersOurs
<1>5. Own(r) /\ Ours(TakenAway(r))
  BY <1>1, <1>4, NotOurs DEF Own, TakenAway
<1>6. \A t : Own(t)' <=> Own(t)
  BY DEF Own, RegistersOurs
<1>7. OwnInv'
  BY <1>2, <1>3, <1>5, <1>6 DEF LInv, OwnInv, RegistersOurs
<1>8. HandInv'
  BY <1>2, <1>3, <1>5 DEF LInv, HandInv, Copying, Declared, Reserved, Restoring, UndoPcs, Me,
     TakenAway
<1>9. Remembered
  BY <1>3 DEF Remembered, Recorded, TakenAway
<1>10. Guarded
  BY <1>2 DEF Guarded, OnDisk, InTrees, InPayloads
<1>11. UniqueInv'
  BY <1>2 DEF LInv, UniqueInv
<1> QED BY <1>7, <1>8, <1>9, <1>10, <1>11 DEF Spared

(* Where recovery sets out: a handler goes on with a config it judged, so  *)
(* that what a user wrote in it is what the record has.                    *)
LEMMA UndoSpares ==
    ASSUME LInv, NEW i \in DOMAIN txns, InstallUndo(i) \/ RemoveUndo(i) \/ UpdateUndo(i)
    PROVE  Spared
<1>1. CASE Conflict
  BY <1>1, StopsSpares
<1>2. CASE ~Conflict
  <2> DEFINE t == txns[i]
  <2>1. /\ UNCHANGED <<config, skills, staging, recovery, archive, txns, cmd>>
        /\ self' = i /\ seen' = config /\ config \in {t.before, ExpectedConfig(t)}
        /\ \/ pc' = "undo-restore"
           \/ pc' \in {"undo-root", "undo-exchange"} /\ t.op # "rm"
    BY <1>2 DEF InstallUndo, RemoveUndo, UpdateUndo, Recovering, Handle, OrConflict, Goto, disk
  <2>2. t \in Txn
    BY DEF LInv, HInv, TInv, JournalTyped
  <2>3. ExpectedConfig(t).note = t.before.note
    BY <2>2 DEF ExpectedConfig, SetReg, Txn, Config
  <2>4. Me' = t
    BY <2>1 DEF Me
  <2>5. HandInv'
    BY <2>1, <2>3, <2>4 DEF LInv, HandInv, Copying, Declared, Reserved, Fresh
  <2> QED BY <2>1, <2>5, QuietSpares
<1> QED BY <1>1, <1>2

LEMMA FinishSpares ==
    ASSUME LInv, NEW i \in DOMAIN txns, RemoveFinish(i) \/ UpdateFinish(i) \/ InstallCompensate(i)
    PROVE  Spared
<1>1. CASE Conflict
  BY <1>1, StopsSpares
<1>2. CASE ~Conflict
  <2>1. /\ UNCHANGED <<config, skills, staging, recovery, archive, txns, cmd>>
        /\ pc' \in {"finish-clear", "comp-finish", "comp-quarantine", "comp-prepare",
                   "comp-log-start"}
    BY <1>2 DEF RemoveFinish, UpdateFinish, InstallCompensate, Handle, OrConflict, Goto, disk
  <2>2. HandInv'
    BY <2>1, EmptyHanded DEF Copying, Declared, Reserved, Fresh, Restoring, UndoPcs
  <2> QED BY <2>1, <2>2, QuietSpares
<1> QED BY <1>1, <1>2

(* What an undo has in hand as it goes on.                                 *)
LEMMA RestoringOn ==
    ASSUME LInv, pc \in Restoring, pc' \in UndoPcs \ {"undo-exchange"},
           pc' = "undo-discard" => Me.op # "rm",
           UNCHANGED <<cmd, seen>>, Me'.op = Me.op, Me'.before = Me.before
    PROVE  HandInv'
BY DEF LInv, HandInv, Copying, Declared, Reserved, Fresh, Restoring, UndoPcs

LEMMA DrivenName ==
    ASSUME LInv, pc \in UndoPcs \cup FinishPcs \cup {"reclaim"}
    PROVE  /\ pc \in Driving /\ Me \in Txn /\ Own(Me) /\ self \in DOMAIN txns
           /\ Me.name \in Names
           /\ skills \in [Names -> TreeOrNone] /\ staging \in [Names -> TreeOrNone]
           /\ recovery \subseteq PayloadDir
<1>1. pc \in Driving
  BY DEF Driving, CommandPcs, Early
<1> QED BY <1>1, OwnMe DEF LInv, HInv, TInv, DiskTyped, Txn

LEMMA InstallUndoRootSpares == LInv /\ InstallUndoRoot => Spared
<1> SUFFICES ASSUME LInv, InstallUndoRoot PROVE Spared
  OBVIOUS
<1>1. CASE Conflict
  BY <1>1, StopsSpares
<1>2. CASE ~Conflict
  <2> DEFINE n == Me.name
  <2>1. /\ UNCHANGED <<config, skills, recovery, archive, txns, cmd, self, seen>>
        /\ pc = "undo-root" /\ pc' \in {"undo-entries", "undo-log-root"}
        /\ \/ UNCHANGED staging
           \/ /\ staging[n] \in {NoTree, Me.resv}
              /\ staging' = [staging EXCEPT ![n] = Me.resv]
    BY <1>2 DEF InstallUndoRoot, OrConflict, RootFound, Goto, disk, local, Present
  <2>2. n \in Names /\ staging \in [Names -> TreeOrNone]
    BY <2>1, DrivenName DEF UndoPcs
  <2>3. Guarded
    <3> HIDE DEF n
    <3> QED BY <2>1, <2>2, TreesBut, NotOurs DEF Guarded, OnDisk, InTrees, InPayloads, Ours
  <2>4. HandInv'
    BY <2>1, RestoringOn DEF Restoring, UndoPcs, Me
  <2>5. UniqueInv'
    BY <2>1 DEF LInv, UniqueInv
  <2> QED BY <2>1, <2>3, <2>4, <2>5, MovesSpares
<1> QED BY <1>1, <1>2

(* Recovery of an install records what it found of its own tree.           *)
LEMMA InstallUndoLogRootSpares == LInv /\ TInv' /\ InstallUndoLogRoot => Spared
<1> SUFFICES ASSUME LInv, TInv', InstallUndoLogRoot PROVE Spared
  OBVIOUS
<1> DEFINE r == [Me EXCEPT !.payload = Me.resv, !.resv = NoTree]
<1>1. /\ pc = "undo-log-root" /\ pc' = "undo-entries" /\ WriteTxn(r) /\ Me.op = "install"
      /\ UNCHANGED <<config, skills, staging, recovery, archive, cmd, self, seen>>
  BY Zenon DEF InstallUndoLogRoot, Goto, disk, local
<1>2. pc \in Driving /\ Me \in Txn /\ Own(Me)
  BY <1>1, DrivenName DEF UndoPcs
<1>3. /\ r.op = Me.op /\ r.before = Me.before /\ r.resv = NoTree /\ r.declared = Me.declared
      /\ r.payload = Me.resv /\ r.prev = Me.prev
  BY <1>2 DEF Txn
<1> HIDE DEF r
<1>4. Own(r) /\ TakenAway(r) = TakenAway(Me)
  BY <1>1, <1>2, <1>3, NotOurs DEF Own, TakenAway
<1>5. Me' = r
  BY <1>1, <1>2, Wrote DEF LInv, HInv
<1>6. HandInv'
  BY <1>1, <1>3, <1>5, RestoringOn DEF Restoring, UndoPcs
<1> QED BY <1>1, <1>2, <1>3, <1>4, <1>6, LogsSpares

LEMMA InstallUndoEntriesSpares == LInv /\ TInv' /\ InstallUndoEntries => Spared
<1> SUFFICES ASSUME LInv, TInv', InstallUndoEntries PROVE Spared
  OBVIOUS
<1>1. CASE Conflict
  BY <1>1, StopsSpares
<1>2. CASE ~Conflict
  <2> DEFINE r == [Me EXCEPT !.payload.c = staging[Me.name].c, !.declared = NONE]
  <2>1. /\ pc = "undo-entries" /\ pc' = "undo-quarantine" /\ Me.op = "install"
        /\ UNCHANGED <<config, skills, staging, recovery, archive, cmd, self, seen>>
        /\ UNCHANGED txns \/ (Settles(staging[Me.name], Me.declared) /\ WriteTxn(r))
    BY <1>2, Zenon DEF InstallUndoEntries, OrConflict, Goto, disk, local
  <2>2. pc \in Driving /\ Me \in Txn /\ Own(Me)
    BY <2>1, DrivenName DEF UndoPcs
  <2>3. CASE UNCHANGED txns
    <3>1. HandInv'
      BY <2>1, <2>3, RestoringOn DEF Restoring, UndoPcs, Me
    <3> QED BY <2>1, <2>3, <3>1, QuietSpares
  <2>4. CASE Settles(staging[Me.name], Me.declared) /\ WriteTxn(r)
    <3>1. /\ r.op = Me.op /\ r.before = Me.before /\ r.resv = Me.resv /\ r.declared = NONE
          /\ r.payload.c = staging[Me.name].c /\ r.prev = Me.prev
      BY <2>2 DEF Txn, Tree, TreeOrNone, NoTree
    <3> HIDE DEF r
    <3>2. Ours(r.payload.c)
      BY <2>1, <2>2, <2>4, <3>1, NotOurs DEF Settles, Own
    <3>3. Own(r) /\ TakenAway(r) = TakenAway(Me)
      BY <2>1, <2>2, <3>1, <3>2, NotOurs DEF Own, TakenAway
    <3>4. Me' = r
      BY <2>1, <2>2, <2>4, Wrote DEF LInv, HInv
    <3>5. HandInv'
      BY <2>1, <3>1, <3>4, RestoringOn DEF Restoring, UndoPcs
    <3> QED BY <2>1, <2>2, <2>4, <3>1, <3>3, <3>5, LogsSpares
  <2> QED BY <2>1, <2>3, <2>4
<1> QED BY <1>1, <1>2

(* What an undone install made is moved whole, to recovery ...             *)
LEMMA InstallUndoQuarantineSpares == LInv /\ InstallUndoQuarantine => Spared
<1> SUFFICES ASSUME LInv, InstallUndoQuarantine PROVE Spared
  OBVIOUS
<1>1. CASE Conflict
  BY <1>1, StopsSpares
<1>2. CASE ~Conflict
  <2> DEFINE n == Me.name
             p == UncommittedName(Me)
  <2>1. /\ UNCHANGED <<config, archive, txns, cmd, self, seen>>
        /\ pc = "undo-quarantine" /\ pc' \in {"undo-config", "undo-archive"}
    BY <1>2, Zenon DEF InstallUndoQuarantine, OrConflict, Goto, local, disk
  <2>2. \/ UNCHANGED <<skills, staging, recovery>>
        \/ /\ skills' = [skills EXCEPT ![n] = NoTree] /\ staging' = [staging EXCEPT ![n] = NoTree]
           /\ \/ skills[n] = NoTree /\ staging[n] = NoTree /\ recovery' = recovery
              \/ /\ ~Present(At(recovery, p))
                 /\ skills[n] \in {NoTree, Me.payload} /\ staging[n] \in {NoTree, Me.payload}
                 /\ recovery' = Put(recovery, p, Me.payload)
    BY <1>2 DEF InstallUndoQuarantine, OrConflict, disk, Present
  <2>3. /\ n \in Names /\ skills \in [Names -> TreeOrNone] /\ staging \in [Names -> TreeOrNone]
        /\ recovery \subseteq PayloadDir
    BY <2>1, DrivenName DEF UndoPcs
  <2>4. UniqueInv'
    BY <2>2, <2>3, UniquePut DEF LInv, UniqueInv
  <2>5. Guarded
    <3> SUFFICES ASSUME NEW e \in Edits, OnDisk(e) PROVE OnDisk(e)'
      BY DEF Guarded
    <3> HIDE DEF n, p
    <3>1. e # NoTree.c
      BY NotOurs DEF Ours
    <3>2. /\ InTrees(skills, e) => InTrees([skills EXCEPT ![n] = NoTree], e) \/ skills[n].c = e
          /\ InTrees(staging, e) => InTrees([staging EXCEPT ![n] = NoTree], e) \/ staging[n].c = e
      BY <2>3, TreesBut
    <3>3. /\ InPayloads(recovery, e) => InPayloads(Put(recovery, p, Me.payload), e)
          /\ Me.payload.c = e => InPayloads(Put(recovery, p, Me.payload), e)
      BY PutThere
    <3>4. CASE UNCHANGED <<skills, staging, recovery>>
      BY <2>1, <3>4 DEF OnDisk, InTrees, InPayloads
    <3>5. CASE ~UNCHANGED <<skills, staging, recovery>>
      BY <2>1, <2>2, <3>1, <3>2, <3>3, <3>5 DEF OnDisk, InTrees, InPayloads
    <3> QED BY <3>4, <3>5
  <2>6. HandInv'
    BY <2>1, RestoringOn DEF Restoring, UndoPcs, Me
  <2> QED BY <2>1, <2>4, <2>5, <2>6, MovesSpares
<1> QED BY <1>1, <1>2

(* ... and from there to the archive.                                      *)
LEMMA ArchiveSpares == LInv /\ (InstallUndoArchive \/ CompArchive) => Spared
<1> SUFFICES ASSUME LInv, InstallUndoArchive \/ CompArchive PROVE Spared
  OBVIOUS
<1>1. CASE Conflict
  BY <1>1, StopsSpares
<1>2. CASE ~Conflict
  <2>1. /\ UNCHANGED <<config, skills, staging, txns, cmd, self, seen>>
        /\ \/ pc = "undo-archive" /\ pc' = "undo-config"
           \/ pc = "comp-archive" /\ pc' = "undo-clear"
    BY <1>2, Zenon DEF InstallUndoArchive, CompArchive, ArchivePayload, OrConflict, Goto, local
  <2>2. PICK p : /\ recovery' = Take(recovery, p)
                 /\ archive' = IF Present(At(recovery, p)) THEN Put(archive, p, At(recovery, p))
                               ELSE archive
    BY <1>2 DEF InstallUndoArchive, CompArchive, ArchivePayload, OrConflict
  <2>3. UniqueInv'
    BY <2>2, UniqueTake DEF LInv, UniqueInv
  <2>4. Guarded
    <3> SUFFICES ASSUME NEW e \in Edits, OnDisk(e) PROVE OnDisk(e)'
      BY DEF Guarded
    <3>1. InPayloads(recovery, e) => InPayloads(recovery', e) \/ At(recovery, p).c = e
      BY <2>2, TakenOnce DEF LInv
    <3>2. At(recovery, p).c = e => Present(At(recovery, p))
      BY NotOurs DEF Ours, Present
    <3>3. /\ InPayloads(archive, e) => InPayloads(archive', e)
          /\ At(recovery, p).c = e => InPayloads(archive', e)
      BY <2>2, <3>2, PutThere
    <3> QED BY <2>1, <3>1, <3>3 DEF OnDisk, InTrees, InPayloads
  <2>5. HandInv'
    <3>1. CASE pc = "undo-archive"
      BY <2>1, <3>1, RestoringOn DEF Restoring, UndoPcs, Me
    <3>2. CASE pc = "comp-archive"
      BY <2>1, <3>2, EmptyHanded DEF Copying, Declared, Reserved, Fresh, Restoring, UndoPcs
    <3> QED BY <2>1, <3>1, <3>2
  <2> QED BY <2>1, <2>3, <2>4, <2>5, MovesSpares
<1> QED BY <1>1, <1>2

(* A committed install that is undone is moved aside the same way.         *)
LEMMA CompQuarantineSpares == LInv /\ CompQuarantine => Spared
<1> SUFFICES ASSUME LInv, CompQuarantine PROVE Spared
  OBVIOUS
<1>1. CASE Conflict
  BY <1>1, StopsSpares
<1>2. CASE ~Conflict
  <2> DEFINE n == Me.name
             p == RollbackName(Me)
  <2>1. /\ UNCHANGED <<config, staging, archive, txns, cmd>>
        /\ pc = "comp-quarantine" /\ pc' = "comp-config"
        /\ skills' = [skills EXCEPT ![n] = NoTree]
        /\ recovery' = IF Present(skills[n]) THEN Put(recovery, p, Me.payload) ELSE recovery
        /\ {skills[n], At(recovery, p)} = {NoTree, Me.payload}
    BY <1>2, Zenon DEF CompQuarantine, OrConflict, Goto
  <2>2. /\ n \in Names /\ skills \in [Names -> TreeOrNone] /\ recovery \subseteq PayloadDir
    BY <2>1, DrivenName DEF FinishPcs
  <2>3. \/ skills[n] = NoTree /\ recovery' = recovery
        \/ /\ ~Present(At(recovery, p)) /\ skills[n] = Me.payload
           /\ recovery' = Put(recovery, p, Me.payload)
    BY <2>1 DEF Present
  <2>4. UniqueInv'
    BY <2>2, <2>3, UniquePut DEF LInv, UniqueInv
  <2>5. Guarded
    <3> SUFFICES ASSUME NEW e \in Edits, OnDisk(e) PROVE OnDisk(e)'
      BY DEF Guarded
    <3> HIDE DEF n, p
    <3>1. e # NoTree.c
      BY NotOurs DEF Ours
    <3>2. InTrees(skills, e) => InTrees(skills', e) \/ skills[n].c = e
      BY <2>1, <2>2, TreesBut
    <3>3. /\ InPayloads(recovery, e) => InPayloads(Put(recovery, p, Me.payload), e)
          /\ Me.payload.c = e => InPayloads(Put(recovery, p, Me.payload), e)
      BY PutThere
    <3> QED BY <2>1, <2>3, <3>1, <3>2, <3>3 DEF OnDisk, InTrees, InPayloads
  <2>6. HandInv'
    BY <2>1, EmptyHanded DEF Copying, Declared, Reserved, Fresh, Restoring, UndoPcs
  <2> QED BY <2>1, <2>4, <2>5, <2>6, MovesSpares
<1> QED BY <1>1, <1>2

(* The config goes back to what the record has, over one with the same     *)
(* note.                                                                   *)
LEMMA ConfigSpares == LInv /\ (UndoConfig \/ CompConfig) => Spared
<1> SUFFICES ASSUME LInv, UndoConfig \/ CompConfig PROVE Spared
  OBVIOUS
<1>1. CASE Conflict
  BY <1>1, StopsSpares
<1>2. CASE ~Conflict
  <2>1. /\ UNCHANGED <<skills, staging, recovery, archive, txns, cmd>>
        /\ pc \in {"undo-config", "comp-config"} /\ pc' \in {"undo-clear", "comp-log-ready"}
        /\ \/ config' = config
           \/ config = seen /\ config' = Me.before
    BY <1>2 DEF UndoConfig, CompConfig, RestoreTxnConfig, ConfigAsJudged, OrConflict, Goto, local
  <2>2. Own(Me)
    BY <2>1, DrivenName DEF UndoPcs, FinishPcs
  <2>3. seen.note = Me.before.note
    BY <2>1 DEF LInv, HandInv, HInv, CompensationInv, Restoring, UndoPcs
  <2>4. config'.note = config.note /\ RegistersOurs(config')
    BY <2>1, <2>2, <2>3 DEF LInv, OwnInv, Own
  <2>5. OwnInv'
    BY <2>1, <2>4 DEF LInv, OwnInv, Own, RegistersOurs
  <2>6. Guarded
    BY <2>1, <2>4 DEF Guarded, OnDisk, InTrees, InPayloads
  <2>7. Remembered
    BY <2>1 DEF Remembered, Recorded, TakenAway
  <2>8. HandInv'
    BY <2>1, EmptyHanded DEF Copying, Declared, Reserved, Fresh, Restoring, UndoPcs
  <2>9. UniqueInv'
    BY <2>1 DEF LInv, UniqueInv
  <2> QED BY <2>5, <2>6, <2>7, <2>8, <2>9 DEF Spared
<1> QED BY <1>1, <1>2

(* What rm took away is put back where nothing is.                         *)
LEMMA RemoveUndoRestoreSpares == LInv /\ RemoveUndoRestore => Spared
<1> SUFFICES ASSUME LInv, RemoveUndoRestore PROVE Spared
  OBVIOUS
<1>1. CASE Conflict
  BY <1>1, StopsSpares
<1>2. CASE ~Conflict
  <2> DEFINE n == Me.name
             p == RemovedName(Me)
             q == At(recovery, p)
  <2>1. /\ UNCHANGED <<config, staging, archive, txns, cmd, self, seen>>
        /\ pc = "undo-restore" /\ pc' = "undo-config" /\ recovery' = Take(recovery, p)
        /\ skills' = IF Present(q) THEN [skills EXCEPT ![n] = q] ELSE skills
        /\ IF OwnsPayload THEN {skills[n], q} = {NoTree, Me.payload} ELSE ~Present(q)
    BY <1>2, Zenon DEF RemoveUndoRestore, OrConflict, Goto, local
  <2>2. /\ n \in Names /\ skills \in [Names -> TreeOrNone]
    BY <2>1, DrivenName DEF UndoPcs
  <2>3. Present(q) => skills[n] = NoTree
    BY <2>1 DEF Present, OwnsPayload
  <2>4. UniqueInv'
    BY <2>1, UniqueTake DEF LInv, UniqueInv
  <2>5. Guarded
    <3> SUFFICES ASSUME NEW e \in Edits, OnDisk(e) PROVE OnDisk(e)'
      BY DEF Guarded
    <3>1. InPayloads(recovery, e) => InPayloads(recovery', e) \/ q.c = e
      BY <2>1, TakenOnce DEF LInv
    <3> HIDE DEF n, q
    <3>2. e # NoTree.c
      BY NotOurs DEF Ours
    <3>3. /\ InTrees(skills, e) => InTrees([skills EXCEPT ![n] = q], e) \/ skills[n].c = e
          /\ q.c = e => InTrees([skills EXCEPT ![n] = q], e)
      BY <2>2, TreesBut
    <3> QED BY <2>1, <2>3, <3>1, <3>2, <3>3 DEF OnDisk, InTrees, InPayloads, Present
  <2>6. HandInv'
    BY <2>1, RestoringOn DEF Restoring, UndoPcs, Me
  <2> QED BY <2>1, <2>4, <2>5, <2>6, MovesSpares
<1> QED BY <1>1, <1>2

(* The published tree and its replacement change places again.             *)
LEMMA UpdateUndoExchangeSpares == LInv /\ UpdateUndoExchange => Spared
<1> SUFFICES ASSUME LInv, UpdateUndoExchange PROVE Spared
  OBVIOUS
<1>1. CASE Conflict
  BY <1>1, StopsSpares
<1>2. CASE ~Conflict
  <2> DEFINE n == Me.name
  <2>1. /\ UNCHANGED <<config, recovery, archive, txns, cmd, self, seen>>
        /\ pc = "undo-exchange" /\ pc' = "undo-discard"
        /\ \/ UNCHANGED <<skills, staging>>
           \/ /\ skills' = [skills EXCEPT ![n] = staging[n]]
              /\ staging' = [staging EXCEPT ![n] = skills[n]]
    BY <1>2, Zenon DEF UpdateUndoExchange, OrConflict, Goto, local, disk, Exchangeable, Exchange
  <2>2. /\ n \in Names /\ skills \in [Names -> TreeOrNone] /\ staging \in [Names -> TreeOrNone]
    BY <2>1, DrivenName DEF UndoPcs
  <2>3. Guarded
    BY <2>1, <2>2, TreesBut DEF Guarded, OnDisk, InTrees, InPayloads
  <2>4. HandInv'
    BY <2>1, RestoringOn DEF LInv, HandInv, Restoring, UndoPcs, Me
  <2>5. UniqueInv'
    BY <2>1 DEF LInv, UniqueInv
  <2> QED BY <2>1, <2>3, <2>4, <2>5, MovesSpares
<1> QED BY <1>1, <1>2

LEMMA UpdateUndoRootSpares == LInv /\ UpdateUndoRoot => Spared
<1> SUFFICES ASSUME LInv, UpdateUndoRoot PROVE Spared
  OBVIOUS
<1>1. CASE Conflict
  BY <1>1, StopsSpares
<1>2. CASE ~Conflict
  <2> DEFINE n == Me.name
  <2>1. /\ UNCHANGED <<config, skills, recovery, archive, txns, cmd, self, seen>>
        /\ pc = "undo-root" /\ pc' = "undo-discard" /\ Me.op = "update"
        /\ \/ UNCHANGED staging
           \/ staging[n] = NoTree /\ staging' = [staging EXCEPT ![n] = Me.resv]
    BY <1>2 DEF UpdateUndoRoot, OrConflict, Goto, local, Present
  <2>2. /\ n \in Names /\ staging \in [Names -> TreeOrNone]
    BY <2>1, DrivenName DEF UndoPcs
  <2>3. Guarded
    <3> HIDE DEF n
    <3> QED BY <2>1, <2>2, TreesBut, NotOurs DEF Guarded, OnDisk, InTrees, InPayloads, Ours
  <2>4. HandInv'
    BY <2>1, RestoringOn DEF Restoring, UndoPcs, Me
  <2>5. UniqueInv'
    BY <2>1 DEF LInv, UniqueInv
  <2> QED BY <2>1, <2>3, <2>4, <2>5, MovesSpares
<1> QED BY <1>1, <1>2

(* What an undone update discards is its own copy: a manifest, what was    *)
(* declared, or the empty root.                                            *)
LEMMA DiscardsOurs ==
    ASSUME NEW r, NEW t, Discardable(t, r), Present(r.resv) \/ Present(r.payload),
           Ours(r.resv.c), Ours(r.payload.c), Ours(r.declared)
    PROVE  Ours(t.c)
BY NotOurs DEF Discardable, Removable, Settles, Present

LEMMA UpdateUndoDiscardSpares == LInv /\ UpdateUndoDiscard => Spared
<1> SUFFICES ASSUME LInv, UpdateUndoDiscard PROVE Spared
  OBVIOUS
<1>1. CASE Conflict
  BY <1>1, StopsSpares
<1>2. CASE ~Conflict
  <2> DEFINE n == Me.name
             owned == Present(Me.resv) \/ Present(Me.payload)
  <2>1. /\ UNCHANGED <<config, skills, recovery, archive, txns, cmd, self, seen>>
        /\ pc = "undo-discard" /\ pc' \in {"undo-config", "undo-discard"}
        /\ Discardable(staging[n], Me)
    BY <1>2, Zenon DEF UpdateUndoDiscard, OrConflict, Goto, local
  <2>2. \E left \in IF owned THEN Leftovers(staging[n], staging[n]) ELSE {staging[n]} :
          staging' = [staging EXCEPT ![n] = left]
    BY <1>2 DEF UpdateUndoDiscard, OrConflict
  <2>3. /\ n \in Names /\ staging \in [Names -> TreeOrNone] /\ Own(Me) /\ Me.op # "rm"
    BY <2>1, DrivenName DEF UndoPcs, LInv, HandInv
  <2>4. CASE ~owned
    <3>1. UNCHANGED staging
      BY <2>2, <2>3, <2>4
    <3>2. HandInv'
      BY <2>1, <2>3, RestoringOn DEF Restoring, UndoPcs, Me
    <3> QED BY <2>1, <3>1, <3>2, QuietSpares
  <2>5. CASE owned
    <3>1. Ours(staging[n].c)
      BY <2>1, <2>3, <2>5, DiscardsOurs DEF Own
    <3>2. PICK left : staging' = [staging EXCEPT ![n] = left]
      BY <2>2
    <3>3. Guarded
      <4> HIDE DEF n
      <4> QED BY <2>1, <2>3, <3>1, <3>2, TreesBut DEF Guarded, OnDisk, InTrees, InPayloads, Ours
    <3>4. HandInv'
      BY <2>1, <2>3, RestoringOn DEF Restoring, UndoPcs, Me
    <3>5. UniqueInv'
      BY <2>1 DEF LInv, UniqueInv
    <3> QED BY <2>1, <3>3, <3>4, <3>5, MovesSpares
  <2> QED BY <2>4, <2>5
<1> QED BY <1>1, <1>2

--------------------------------------------------------------------------------
(* What a removal checked against a manifest takes is what the manifest    *)
(* has.                                                                    *)
LEMMA LeftBehind ==
    ASSUME NEW t, NEW x, NEW left \in Leftovers(t, x), NEW e \in Edits, t.c = e
    PROVE  left = t \/ x.c = e
BY NotOurs DEF Leftovers, Removable, Ours

LEMMA PayloadsLeft ==
    ASSUME UniqueInv, NEW p, NEW x, NEW left \in Leftovers(At(recovery, p), x),
           recovery' = IF Present(left) THEN Put(Take(recovery, p), p, left)
                       ELSE Take(recovery, p)
    PROVE  /\ UniqueInv'
           /\ \A e \in Edits : InPayloads(recovery, e) => InPayloads(recovery', e) \/ x.c = e
<1>1. UniqueInv'
  BY UniqueTake DEF UniqueInv
<1>2. ASSUME NEW e \in Edits, InPayloads(recovery, e), x.c # e PROVE InPayloads(recovery', e)
  <2> DEFINE dir == Take(recovery, p)
  <2>1. CASE InPayloads(dir, e)
    <3> HIDE DEF dir
    <3>1. InPayloads(Put(dir, p, left), e)
      BY <2>1, PutThere
    <3> QED BY <2>1, <3>1 DEF dir
  <2>2. CASE At(recovery, p).c = e
    <3>1. left.c = e /\ Present(left)
      BY <1>2, <2>2, LeftBehind, NotOurs DEF Ours, Present
    <3> QED BY <3>1, PutThere
  <2> QED BY <1>2, <2>1, <2>2, TakenOnce
<1> QED BY <1>1, <1>2

LEMMA TreesLeft ==
    ASSUME NEW dir \in [Names -> TreeOrNone], NEW n \in Names, NEW x,
           NEW left \in Leftovers(dir[n], x), NEW e \in Edits, InTrees(dir, e)
    PROVE  InTrees([dir EXCEPT ![n] = left], e) \/ x.c = e
<1>1. InTrees([dir EXCEPT ![n] = left], e) \/ dir[n].c = e
  BY TreesBut
<1>2. CASE dir[n].c = e /\ x.c # e
  <2>1. left.c = e
    BY <1>2, LeftBehind
  <2> QED BY <2>1, TreesBut
<1> QED BY <1>1, <1>2

(* What gc forgets of a record is not what it has to do with trees.        *)
LEMMA PrunedSpares ==
    ASSUME LInv, NEW i \in DOMAIN txns, UNCHANGED txns \/ Pruned(i), UNCHANGED config
    PROVE  OwnInv' /\ Remembered
<1>1. /\ DOMAIN txns' = DOMAIN txns
      /\ \A j \in DOMAIN txns :
           /\ txns'[j].op = txns[j].op /\ txns'[j].before = txns[j].before
           /\ txns'[j].resv = txns[j].resv /\ txns'[j].declared = txns[j].declared
           /\ txns'[j].payload = txns[j].payload /\ txns'[j].prev = txns[j].prev
  <2>1. CASE UNCHANGED txns
    BY <2>1
  <2>2. CASE Pruned(i)
    <3>1. txns[i] \in Txn
      BY DEF LInv, HInv, TInv, JournalTyped
    <3>2. txns' = [txns EXCEPT ![i] = [txns[i] EXCEPT !.status = "pruned"]]
      BY <2>2 DEF Pruned
    <3> QED BY <3>1, <3>2 DEF Txn
  <2> QED BY <2>1, <2>2
<1>2. \A j \in DOMAIN txns : Own(txns'[j]) /\ TakenAway(txns'[j]) = TakenAway(txns[j])
  BY <1>1, OwnSame DEF LInv, OwnInv
<1>3. \A t : Own(t)' <=> Own(t)
  BY DEF Own, RegistersOurs
<1>4. OwnInv'
  BY <1>1, <1>2, <1>3 DEF LInv, OwnInv, RegistersOurs
<1>5. Remembered
  <2> SUFFICES ASSUME NEW e \in Edits, NEW j \in DOMAIN txns, TakenAway(txns[j]) = e,
                      txns[j].op = "update" => ForceUpdates
               PROVE  Recorded(e)'
    BY DEF Remembered, Recorded
  <2>1. TakenAway(txns'[j]) = e /\ txns'[j].op = txns[j].op /\ j \in DOMAIN txns'
    BY <1>1, <1>2
  <2> QED BY <2>1 DEF Recorded, TakenAway
<1> QED BY <1>4, <1>5

(* A record that owns a tree a user changed is remembered to take it away. *)
LEMMA RecordedAs ==
    ASSUME LInv, NEW i \in DOMAIN txns, NEW e \in Edits, TakenAway(txns[i]) = e,
           txns[i].op \in {"rm", "update"}
    PROVE  Recorded(e)
BY DEF LInv, OwnInv, Own, Recorded, TakenAway, Ours

(* What a finished transaction removed or replaced goes, if it still is    *)
(* what the record has.                                                    *)
LEMMA RemoveReclaimSpares == LInv /\ RemoveReclaim => Spared
<1> SUFFICES ASSUME LInv, RemoveReclaim PROVE Spared
  OBVIOUS
<1> DEFINE p == RemovedName(Me)
<1>1. /\ UNCHANGED <<config, skills, staging, archive, txns>>
      /\ cmd' = cmd \/ cmd' = NoCommand
      /\ pc \in {"reclaim", "finish-reclaim"} /\ Me.op = "rm"
      /\ pc' \in {"idle", "recover", "reclaim", "finish-reclaim"}
  BY DEF RemoveReclaim, ReclaimStep, AfterReclaim, Exit, Goto, local
<1>2. PICK left \in Leftovers(At(recovery, p), Me.payload) :
        recovery' = IF Present(left) THEN Put(Take(recovery, p), p, left) ELSE Take(recovery, p)
  BY DEF RemoveReclaim
<1>3. UniqueInv' /\ \A e \in Edits : InPayloads(recovery, e) =>
        InPayloads(recovery', e) \/ Me.payload.c = e
  BY <1>2, PayloadsLeft DEF LInv
<1>4. Me = txns[self] /\ self \in DOMAIN txns
  BY <1>1, DrivenName DEF Me, FinishPcs
<1>5. \A e \in Edits : Me.payload.c = e => Recorded(e)
  BY <1>1, <1>4, RecordedAs DEF TakenAway
<1>6. \A e : Recorded(e)' <=> Recorded(e)
  BY <1>1 DEF Recorded, TakenAway
<1>7. Guarded
  BY <1>1, <1>3, <1>5, <1>6 DEF Guarded, OnDisk, InTrees, InPayloads
<1>8. HandInv'
  BY <1>1, EmptyHanded DEF Copying, Declared, Reserved, Fresh, Restoring, UndoPcs
<1> QED BY <1>1, <1>3, <1>7, <1>8, MovesSpares

LEMMA UpdateReclaimSpares == LInv /\ UpdateReclaim => Spared
<1> SUFFICES ASSUME LInv, UpdateReclaim PROVE Spared
  OBVIOUS
<1> DEFINE n == Me.name
<1>1. /\ UNCHANGED <<config, skills, recovery, archive, txns>>
      /\ cmd' = cmd \/ cmd' = NoCommand
      /\ pc \in {"reclaim", "finish-reclaim"} /\ Me.op = "update"
      /\ pc' \in {"idle", "recover", "reclaim", "finish-reclaim"}
  BY DEF UpdateReclaim, ReclaimStep, AfterReclaim, Exit, Goto, local
<1>2. PICK left \in Leftovers(staging[n], Me.prev) : staging' = [staging EXCEPT ![n] = left]
  BY DEF UpdateReclaim
<1>3. /\ Me = txns[self] /\ self \in DOMAIN txns
      /\ n \in Names /\ staging \in [Names -> TreeOrNone]
  BY <1>1, DrivenName DEF Me, FinishPcs
<1>4. \A e \in Edits : InTrees(staging, e) => InTrees(staging', e) \/ Me.prev.c = e
  BY <1>2, <1>3, TreesLeft
<1>5. \A e \in Edits : Me.prev.c = e => Recorded(e)
  BY <1>1, <1>3, RecordedAs DEF TakenAway
<1>6. \A e : Recorded(e)' <=> Recorded(e)
  BY <1>1 DEF Recorded, TakenAway
<1>7. Guarded
  BY <1>1, <1>4, <1>5, <1>6 DEF Guarded, OnDisk, InTrees, InPayloads
<1>8. HandInv'
  BY <1>1, EmptyHanded DEF Copying, Declared, Reserved, Fresh, Restoring, UndoPcs
<1>9. UniqueInv'
  BY <1>1 DEF LInv, UniqueInv
<1> QED BY <1>1, <1>7, <1>8, <1>9, MovesSpares

(* gc removes by the same records.                                         *)
LEMMA GcPruneRemoveSpares ==
    ASSUME LInv, NEW i \in DOMAIN txns, GcPruneRemove(i)
    PROVE  Spared
<1> DEFINE t == txns[i]
           p == RemovedName(t)
<1>1. /\ UNCHANGED <<config, skills, staging, archive, cmd>>
      /\ pc' = "idle" /\ t.op = "rm"
      /\ UNCHANGED txns \/ Pruned(i)
  BY DEF GcPruneRemove, ReclaimThenPrune, local
<1>2. OwnInv' /\ Remembered
  BY <1>1, PrunedSpares
<1>3. HandInv'
  BY <1>1, EmptyHanded DEF Copying, Declared, Reserved, Fresh, Restoring, UndoPcs
<1>4. CASE UNCHANGED recovery
  <2>1. UniqueInv'
    BY <1>4 DEF LInv, UniqueInv
  <2>2. Guarded
    BY <1>1, <1>4 DEF Guarded, OnDisk, InTrees, InPayloads
  <2> QED BY <1>2, <1>3, <2>1, <2>2 DEF Spared
<1>5. CASE ~UNCHANGED recovery
  <2>1. PICK left \in Leftovers(At(recovery, p), t.payload) :
          recovery' = IF Present(left) THEN Put(Take(recovery, p), p, left) ELSE Take(recovery, p)
    BY <1>5 DEF GcPruneRemove
  <2>2. UniqueInv' /\ \A e \in Edits : InPayloads(recovery, e) =>
          InPayloads(recovery', e) \/ t.payload.c = e
    BY <2>1, PayloadsLeft DEF LInv
  <2>3. \A e \in Edits : t.payload.c = e => Recorded(e)'
    BY <1>1, <1>2, RecordedAs DEF TakenAway, Remembered
  <2>4. Guarded
    BY <1>1, <2>2, <2>3 DEF Guarded, OnDisk, InTrees, InPayloads
  <2> QED BY <1>2, <1>3, <2>2, <2>4 DEF Spared
<1> QED BY <1>4, <1>5

LEMMA GcPruneUpdateSpares ==
    ASSUME LInv, NEW i \in DOMAIN txns, GcPruneUpdate(i)
    PROVE  Spared
<1> DEFINE t == txns[i]
<1>1. /\ UNCHANGED <<config, skills, recovery, archive, cmd>>
      /\ pc' = "idle" /\ t.op = "update"
      /\ UNCHANGED txns \/ Pruned(i)
  BY DEF GcPruneUpdate, ReclaimThenPrune, local
<1>2. OwnInv' /\ Remembered
  BY <1>1, PrunedSpares
<1>3. HandInv'
  BY <1>1, EmptyHanded DEF Copying, Declared, Reserved, Fresh, Restoring, UndoPcs
<1>4. UniqueInv'
  BY <1>1 DEF LInv, UniqueInv
<1>5. \A e \in Edits : InTrees(staging, e) => InTrees(staging', e) \/ t.prev.c = e
  <2>1. CASE UNCHANGED staging
    BY <2>1
  <2>2. CASE ~UNCHANGED staging
    <3>1. PICK left \in Leftovers(staging[t.name], t.prev) :
            staging' = [staging EXCEPT ![t.name] = left]
      BY <2>2 DEF GcPruneUpdate
    <3>2. t \in Txn /\ staging \in [Names -> TreeOrNone]
      BY DEF LInv, HInv, TInv, JournalTyped, DiskTyped
    <3>3. t.name \in Names
      BY <3>2 DEF Txn
    <3> QED BY <3>1, <3>2, <3>3, TreesLeft
  <2> QED BY <2>1, <2>2
<1>6. \A e \in Edits : t.prev.c = e => Recorded(e)'
  BY <1>1, <1>2, RecordedAs DEF TakenAway, Remembered
<1>7. Guarded
  BY <1>1, <1>5, <1>6 DEF Guarded, OnDisk, InTrees, InPayloads
<1> QED BY <1>2, <1>3, <1>4, <1>7 DEF Spared

LEMMA GcSpares == LInv /\ GcStep => Spared
<1> SUFFICES ASSUME LInv, GcStep PROVE Spared
  OBVIOUS
<1>1. CASE GcReclaimLease
  <2>1. /\ UNCHANGED <<config, skills, staging, recovery, archive, txns, cmd>>
        /\ pc' = "idle"
    BY <1>1 DEF GcReclaimLease, local
  <2>2. HandInv'
    BY <2>1, EmptyHanded DEF Copying, Declared, Reserved, Fresh, Restoring, UndoPcs
  <2> QED BY <2>1, <2>2, QuietSpares
<1>2. ASSUME NEW i \in DOMAIN txns, GcPruneInstall(i) PROVE Spared
  <2>1. /\ UNCHANGED <<config, skills, staging, recovery, archive, cmd>>
        /\ pc' = "idle" /\ Pruned(i)
    BY <1>2 DEF GcPruneInstall, disk, local
  <2>2. OwnInv' /\ Remembered
    BY <2>1, PrunedSpares
  <2>3. HandInv'
    BY <2>1, EmptyHanded DEF Copying, Declared, Reserved, Fresh, Restoring, UndoPcs
  <2>4. UniqueInv' /\ Guarded
    BY <2>1 DEF LInv, UniqueInv, Guarded, OnDisk, InTrees, InPayloads
  <2> QED BY <2>2, <2>3, <2>4 DEF Spared
<1> QED BY <1>1, <1>2, GcPruneRemoveSpares, GcPruneUpdateSpares DEF GcStep

--------------------------------------------------------------------------------
(* A user writes only where no other user content is, and what is written  *)
(* is there.                                                               *)
NewOnDisk == \A e \in authored' : e \in authored \/ OnDisk(e)'

LEMMA UserSpares ==
    ASSUME LInv, UNCHANGED <<recovery, archive, txns, pc, local>>, config'.reg = config.reg, Guarded
    PROVE  Spared
<1>1. OwnInv'
  BY DEF LInv, OwnInv, RegistersOurs, Own
<1>2. Remembered
  BY DEF Remembered, Recorded, TakenAway
<1>3. HandInv' /\ UniqueInv'
  BY DEF LInv, HandInv, UniqueInv, Me, TakenAway, local
<1> QED BY <1>1, <1>2, <1>3 DEF Spared

LEMMA UserTreeSpares ==
    ASSUME LInv, NEW n \in Names, NEW e \in Edits,
           UserEdit(n, e) \/ UserPlace(n, e) \/ UserStage(n, e)
    PROVE  Spared /\ NewOnDisk
<1>1. /\ UNCHANGED <<config, recovery, archive, txns, pc, local>>
      /\ authored' = authored \cup {e}
  BY DEF UserEdit, UserPlace, UserStage, UserUnchanged
<1>2. /\ skills \in [Names -> TreeOrNone] /\ staging \in [Names -> TreeOrNone]
  BY DEF LInv, HInv, TInv, DiskTyped
<1>3. PICK t : /\ t.c = e
               /\ \/ /\ skills' = [skills EXCEPT ![n] = t] /\ staging' = staging
                     /\ Ours(skills[n].c)
                  \/ /\ staging' = [staging EXCEPT ![n] = t] /\ skills' = skills
                     /\ Ours(staging[n].c)
  <2>1. CASE UserEdit(n, e)
    <3> DEFINE t == [skills[n] EXCEPT !.c = e]
    <3>1. t.c = e
      BY <1>2 DEF TreeOrNone, Tree, NoTree
    <3>2. skills' = [skills EXCEPT ![n] = t] /\ staging' = staging /\ Ours(skills[n].c)
      BY <2>1 DEF UserEdit, Ours
    <3> HIDE DEF t
    <3> QED BY <3>1, <3>2
  <2>2. CASE UserPlace(n, e) \/ UserStage(n, e)
    <3> DEFINE t == [id |-> nextId, c |-> e]
    <3>1. t.c = e
      OBVIOUS
    <3>2. \/ /\ skills' = [skills EXCEPT ![n] = t] /\ staging' = staging
             /\ Ours(skills[n].c)
          \/ /\ staging' = [staging EXCEPT ![n] = t] /\ skills' = skills
             /\ Ours(staging[n].c)
      BY <2>2, NotOurs DEF UserPlace, UserStage, Present
    <3> HIDE DEF t
    <3> QED BY <3>1, <3>2
  <2> QED BY <2>1, <2>2
<1>4. Guarded
  BY <1>1, <1>2, <1>3, TreesBut DEF Guarded, OnDisk, InTrees, InPayloads, Ours
<1>5. OnDisk(e)'
  BY <1>2, <1>3, TreesBut DEF OnDisk, InTrees
<1>6. NewOnDisk
  BY <1>1, <1>5 DEF NewOnDisk
<1> QED BY <1>1, <1>4, <1>6, UserSpares

LEMMA UserStepSpares == LInv /\ User => Spared /\ NewOnDisk
<1> SUFFICES ASSUME LInv, User PROVE Spared /\ NewOnDisk
  OBVIOUS
<1>1. CASE \E n \in Names, e \in Edits : UserEdit(n, e) \/ UserPlace(n, e) \/ UserStage(n, e)
  BY <1>1, UserTreeSpares
<1>2. ASSUME NEW e \in Edits, UserConfig(e) PROVE Spared /\ NewOnDisk
  <2>1. /\ UNCHANGED <<skills, staging, recovery, archive, txns, pc, local>>
        /\ authored' = authored \cup {e} /\ config.note = NONE
        /\ config' = [config EXCEPT !.note = e]
    BY <1>2 DEF UserConfig, UserUnchanged
  <2>2. config'.reg = config.reg /\ config'.note = e
    BY <2>1 DEF LInv, HInv, TInv, DiskTyped, Config
  <2>3. Guarded
    BY <2>1, NotOurs DEF Guarded, OnDisk, InTrees, InPayloads, Ours
  <2>4. NewOnDisk
    BY <2>1, <2>2 DEF NewOnDisk, OnDisk
  <2> QED BY <2>1, <2>2, <2>3, <2>4, UserSpares
<1>3. ASSUME NEW n \in Names, UserRemove(n) PROVE Spared /\ NewOnDisk
  <2>1. /\ UNCHANGED <<config, staging, recovery, archive, txns, pc, local, authored>>
        /\ Ours(skills[n].c) /\ skills' = [skills EXCEPT ![n] = NoTree]
    BY <1>3 DEF UserRemove, UserUnchanged, Ours
  <2>2. skills \in [Names -> TreeOrNone]
    BY DEF LInv, HInv, TInv, DiskTyped
  <2>3. Guarded
    BY <2>1, <2>2, TreesBut DEF Guarded, OnDisk, InTrees, InPayloads, Ours
  <2> QED BY <2>1, <2>3, UserSpares DEF NewOnDisk
<1>4. CASE UserCommit
  <2>1. UNCHANGED <<config, skills, staging, recovery, archive, txns, pc, local, authored>>
    BY <1>4 DEF UserCommit, UserUnchanged
  <2>2. Guarded
    BY <2>1 DEF Guarded, OnDisk, InTrees, InPayloads
  <2> QED BY <2>1, <2>2, UserSpares DEF NewOnDisk
<1> QED BY <1>1, <1>2, <1>3, <1>4 DEF User

(* A store that was just created holds nothing a user wrote.               *)
LEMMA InitLInv == Init => LInv
<1> SUFFICES ASSUME Init PROVE LInv
  OBVIOUS
<1>1. HInv
  BY InitHInv
<1>2. DOMAIN txns = {} /\ recovery = {} /\ authored = {} /\ pc = "idle" /\ cmd = NoCommand
  BY DEF Init
<1>3. RegistersOurs(config)
  <2>1. PICK c \in [Installed -> Upstream] :
          config = [reg |-> [n \in Names |-> IF n \in Installed THEN c[n] ELSE NONE], note |-> NONE]
    BY DEF Init
  <2> QED BY <2>1, NotOurs DEF RegistersOurs
<1>4. OwnInv /\ UniqueInv /\ CustodyInv
  BY <1>2, <1>3 DEF OwnInv, UniqueInv, CustodyInv
<1>5. HandInv
  BY <1>2 DEF HandInv, NoCommand, Copying, Declared, Reserved, Fresh, Restoring, UndoPcs
<1> QED BY <1>1, <1>4, <1>5 DEF LInv

LEMMA StepSpares ==
    ASSUME LInv, TInv', Step
    PROVE  Spared
<1>1. CASE RunStep
  BY <1>1, PlainSpares, StartTxnSpares, ReserveSpares, LogReservedSpares, PublishRootSpares,
     LogRootSpares, CopyStagedSpares, SaveConfigSpares, MarksSpares, ConfigSpares DEF RunStep
<1>2. CASE InstallStep
  BY <1>2, PlainSpares, LogCopiedSpares, MarksSpares, PublishSpares, UndoSpares, FinishSpares,
     InstallUndoRootSpares, InstallUndoLogRootSpares, InstallUndoEntriesSpares,
     InstallUndoQuarantineSpares, ArchiveSpares, CompQuarantineSpares, ConfigSpares
     DEF InstallStep
<1>3. CASE RemoveStep
  BY <1>3, PlainSpares, MutateSpares, LogSnapshotSpares, RemoveQuarantineSpares, MarksSpares,
     RemoveReclaimSpares, UndoSpares, FinishSpares, RemoveUndoRestoreSpares DEF RemoveStep
<1>4. CASE UpdateStep
  BY <1>4, PlainSpares, MutateSpares, LogSnapshotSpares, LogCopiedSpares, PublishSpares,
     MarksSpares, UpdateReclaimSpares, UndoSpares, FinishSpares, UpdateUndoExchangeSpares,
     UpdateUndoRootSpares, UpdateUndoDiscardSpares DEF UpdateStep
<1> QED BY <1>1, <1>2, <1>3, <1>4 DEF Step

(* The induction.                                                          *)
LEMMA StepLInv == LInv /\ [Next]_vars => LInv'
<1> SUFFICES ASSUME LInv, [Next]_vars PROVE LInv'
  OBVIOUS
<1>1. HInv' /\ TInv'
  BY StepHInv DEF LInv, HInv
<1>2. CASE UNCHANGED vars
  <2>1. UNCHANGED <<config, skills, staging, recovery, archive, commits, txns, pc, cmd, self,
                    held, seen, authored>>
    BY <1>2 DEF vars, disk, local, ghost
  <2>2. OwnInv' /\ UniqueInv'
    BY <2>1 DEF LInv, OwnInv, RegistersOurs, Own, UniqueInv
  <2>3. HandInv'
    BY <2>1 DEF LInv, HandInv, Me, TakenAway
  <2>4. CustodyInv'
    BY <2>1 DEF LInv, CustodyInv, InCustody, Recorded, TakenAway
  <2> QED BY <1>1, <2>2, <2>3, <2>4 DEF LInv
<1>3. CASE Next
  <2>1. Grows
    BY <1>3, RunGrows, InstallGrows, RemoveGrows, UpdateGrows, RestGrows DEF LInv, HInv, TInv,
       Next, Step
  <2>2. Spared /\ NewOnDisk
    <3>1. CASE Step
      <4>1. UNCHANGED authored
        BY <3>1, RunCounts, InstallCounts, RemoveCounts, UpdateCounts DEF Step, ghost
      <4> QED BY <1>1, <3>1, <4>1, StepSpares DEF NewOnDisk
    <3>2. CASE BeginCommand \/ BeginRestore \/ Fail \/ Crash \/ GcStep
      <4>1. UNCHANGED authored
        BY <3>2, Zenon DEF BeginCommand, BeginInstall, BeginRemove, BeginUpdate, Begin,
           BeginRestore, Fail, Crash, GcStep, GcReclaimLease, GcPruneRemove, GcPruneUpdate,
           GcPruneInstall, ghost
      <4> QED BY <3>2, <4>1, BeginSpares, PlainSpares, GcSpares DEF NewOnDisk
    <3>3. CASE User
      BY <3>3, UserStepSpares
    <3> QED BY <1>3, <3>1, <3>2, <3>3 DEF Next
  <2>3. \A e \in authored' : e \in authored \/ InCustody(e)'
    BY <2>2 DEF NewOnDisk, OnDisk, InCustody, InTrees, InPayloads
  <2>4. CustodyInv'
    BY <2>1, <2>2, <2>3, CustodyKept DEF LInv, HInv, Spared
  <2> QED BY <1>1, <2>2, <2>4 DEF LInv, Spared
<1> QED BY <1>2, <1>3

(* What a user wrote in a skill, in staging or in fu.yaml, at whatever     *)
(* moment of whatever command, recovery or gc, is on disk or in a commit   *)
(* for ever, unless it is what the record of an `fu rm` or of a forced     *)
(* `fu update` says the command takes away (engine/rm.go, update.go).      *)
THEOREM LosesOnlyAsRecorded == Spec => []LostOnlyAsRecorded
<1>1. LInv => LostOnlyAsRecorded
  BY DEF LInv, CustodyInv, Recorded, LostOnlyAsRecorded
<1> QED BY <1>1, InitLInv, StepLInv, PTL DEF Spec
================================================================================
