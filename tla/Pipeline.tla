--------------------------------- MODULE Pipeline ---------------------------------
(***************************************************************************)
(* The skeleton every transactional write command runs through:            *)
(* engine/pipeline.go run, rollback and validatePreparedOperation, the     *)
(* private staged root of engine/staging.go, and the ways a process ends.  *)
(* What differs between new/add, rm and update is in modules of their own. *)
(* Each action is one step after which the process can die or another      *)
(* program can touch the store.                                            *)
(***************************************************************************)
EXTENDS FuStore

(* run reaches rollback: with a transaction that is RecoverPending, driven *)
(* by the same handlers as after a crash.                                  *)
Abort ==
    /\ Goto("recover")
    /\ mode' = "abort" /\ self' = 0
    /\ UNCHANGED <<disk, commits, txns, nextId, cmd, held, seen, cand, last, ghost>>

(* A step of run: what it does when its checks pass, rollback otherwise.   *)
OrAbort(ok, step) == IF ok THEN step ELSE Abort

(* A write command starts: fu.lock taken, RecoverPending comes first.      *)
Begin(op, n, c, force) ==
    /\ pc = "idle"
    /\ op \in Ops
    /\ started < MaxCommands
    /\ started' = started + 1
    /\ cmd' = [op |-> op, name |-> n, c |-> c, force |-> force]
    /\ Goto("recover")
    /\ last' = "none"
    /\ UNCHANGED <<disk, commits, txns, nextId, mode, self, held, seen, cand, faults, authored>>

(* A write command of no transaction of its own, like `fu restore`: only   *)
(* what it recovers matters here.                                          *)
BeginRestore ==
    /\ pc = "idle" /\ Pending # {}
    /\ cmd' = [NoCommand EXCEPT !.op = "restore"]
    /\ Goto("recover")
    /\ last' = "none"
    /\ UNCHANGED <<disk, commits, txns, nextId, mode, self, held, seen, cand, ghost>>

(* Mutant: a command goes on whatever is still pending.                    *)
PendingIgnored == TRUE

(* RecoverPendingReporting found nothing (more) pending.                   *)
NothingPending == Pending = {}

Recovered ==
    /\ pc = "recover" /\ NothingPending
    /\ \/ /\ mode = "abort"
          /\ Exit("rolled back")
       \/ /\ mode = "command" /\ cmd.op = "restore"
          /\ Exit("ok")
       \/ /\ mode = "command" /\ cmd.op # "restore"
          /\ Goto("load")
          /\ UNCHANGED <<local, last>>
    /\ UNCHANGED <<disk, commits, txns, nextId, ghost>>

(* loadConfigBytes.                                                        *)
LoadConfig ==
    /\ pc = "load"
    /\ seen' = config
    /\ Goto("sweep")
    /\ UNCHANGED <<disk, commits, txns, nextId, cmd, mode, self, held, cand, last, ghost>>

(* Sweep commits whatever differs from HEAD as an external modification.   *)
Sweep ==
    /\ pc = "sweep"
    /\ Goto("preflight")
    /\ IF Worktree = HeadSnap THEN UNCHANGED commits
       ELSE AppendCommit(CommitMsg("external", NONE, NONE), Worktree)
    /\ UNCHANGED <<disk, txns, nextId, local, last, ghost>>

(* Mutant: fu.yaml is overwritten whatever it holds by now.                *)
ConfigUnchecked == TRUE

(* fu.yaml still holds the bytes that were loaded.                         *)
ConfigAsLoaded == config = seen

(* The config is still the one loaded, and the command's Preflight agrees; *)
(* refusing here leaves no trace.                                          *)
Preflight(op, accepts) ==
    /\ pc = "preflight" /\ cmd.op = op
    /\ IF ConfigAsLoaded /\ accepts
       THEN Goto("start") /\ UNCHANGED <<local, last>>
       ELSE Exit("refused")
    /\ UNCHANGED <<disk, commits, txns, nextId, ghost>>

(* The first WAL revision, before any mutation.                            *)
StartTxn ==
    /\ pc = "start"
    /\ txns' = Append(txns,
         [op |-> cmd.op, name |-> cmd.name, status |-> "open", stage |-> "started",
          start |-> HEAD, before |-> seen, resv |-> NoTree, declared |-> NONE,
          payload |-> NoTree, prev |-> NoTree, ctree |-> {}, comp |-> {}])
    /\ self' = Len(txns) + 1
    /\ Goto("mutate")
    /\ UNCHANGED <<disk, commits, nextId, cmd, mode, held, seen, cand, last, ghost>>

(* createTxnStagedRoot: an empty private root is created ...               *)
ReserveStagedRoot ==
    /\ pc = "reserve"
    /\ nextId <= MaxId
    /\ held' = [id |-> nextId, c |-> EMPTY]
    /\ private' = private \cup {held'}
    /\ nextId' = nextId + 1
    /\ Goto("log-reserved")
    /\ UNCHANGED <<config, skills, staging, recovery, archive, commits, txns,
                   cmd, mode, self, seen, cand, last, ghost>>

(* ... the record claims it, together with the entries about to be made,   *)
LogReserved ==
    /\ pc = "log-reserved"
    /\ WriteTxn([Me EXCEPT !.resv = held, !.declared = cmd.c])
    /\ Goto("publish-root")
    /\ UNCHANGED <<disk, commits, nextId, local, last, ghost>>

(* it takes its final name in staging, unless that is occupied,            *)
PublishRoot ==
    /\ pc = "publish-root"
    /\ OrAbort(~Present(staging[cmd.name]) /\ held \in private,
        /\ private' = private \ {held}
        /\ staging' = [staging EXCEPT ![cmd.name] = held]
        /\ Goto("log-root")
        /\ UNCHANGED <<config, skills, recovery, archive, commits, txns, nextId, local, last, ghost>>)

(* and the record owns it there.                                           *)
LogRoot ==
    /\ pc = "log-root"
    /\ WriteTxn([Me EXCEPT !.resv = NoTree, !.payload = held])
    /\ Goto("copy")
    /\ UNCHANGED <<disk, commits, nextId, local, last, ghost>>

(* CopyStagedTreeOwned, CreateStagedFileOwned: the declared entries are    *)
(* created inside the owned root.  A file exists before it has its bytes   *)
(* and its mode.                                                           *)
CopyStaged ==
    /\ pc \in {"copy", "fill"}
    /\ OrAbort(staging[cmd.name] = [held EXCEPT !.c = IF pc = "copy" THEN EMPTY ELSE TORN],
        \E c \in IF pc = "copy" /\ TornCopies THEN {TORN} ELSE {cmd.c} :
            /\ staging' = [staging EXCEPT ![cmd.name].c = c]
            /\ Goto(IF c = TORN THEN "fill" ELSE "log-copied")
            /\ held' = IF c = TORN THEN held ELSE [held EXCEPT !.c = c]
            /\ UNCHANGED <<config, skills, private, recovery, archive, commits, txns,
                           nextId, cmd, mode, self, seen, cand, last, ghost>>)

(* SaveConfigExpecting: installed only over the bytes that were loaded.    *)
SaveConfig ==
    /\ pc = "save"
    /\ OrAbort(ConfigAsLoaded,
        /\ config' = ExpectedConfig(Me)
        /\ Goto("log-saved")
        /\ UNCHANGED <<skills, staging, private, recovery, archive, commits, txns,
                       nextId, local, last, ghost>>)

(* rm has nothing to publish.                                              *)
LogSaved ==
    /\ pc = "log-saved"
    /\ WriteTxn([Me EXCEPT !.stage = "config-saved"])
    /\ Goto(IF cmd.op = "rm" THEN "prepare" ELSE "publish")
    /\ UNCHANGED <<disk, commits, nextId, local, last, ghost>>

LogPublished ==
    /\ pc = "log-published"
    /\ WriteTxn([Me EXCEPT !.stage = "published"])
    /\ Goto("prepare")
    /\ UNCHANGED <<disk, commits, nextId, local, last, ghost>>

(* PrepareCommit freezes the worktree as a candidate over HEAD.            *)
PrepareCommit ==
    /\ pc = "prepare"
    /\ cand' = {[parent |-> HEAD, snap |-> Worktree]}
    /\ Goto("validate")
    /\ UNCHANGED <<disk, commits, txns, nextId, cmd, mode, self, held, seen, last, ghost>>

(* Mutant: a candidate may hold anything.                                  *)
AnyPaths(t, p) == TRUE

(* The candidate changes nothing beyond what the command may.              *)
OnlyAllowedChanges(t, p) ==
    ChangedPaths(p.snap, commits[p.parent].snap) \subseteq {"fu.yaml", t.name}

(* validatePreparedOperation, with each operation's ValidatePrepared: the  *)
(* candidate is what the command meant, touches nothing else, and the      *)
(* worktree has not moved on since.                                        *)
ValidPrepared(t, p, expected) ==
    /\ config = expected /\ p.snap.cfg = expected
    /\ OnlyAllowedChanges(t, p)
    /\ IF t.op = "rm" THEN p.snap.tree[t.name] = NONE
       ELSE skills[t.name] = t.payload /\ p.snap.tree[t.name] = t.payload.c
    /\ Worktree = p.snap

ValidatePrepared ==
    /\ pc = "validate"
    /\ OrAbort(\A p \in cand : ValidPrepared(Me, p, ExpectedConfig(Me)),
        /\ Goto("log-tree")
        /\ UNCHANGED <<disk, commits, txns, nextId, local, last, ghost>>)

LogTree ==
    /\ pc = "log-tree"
    /\ WriteTxn([Me EXCEPT !.ctree = {p.snap : p \in cand}])
    /\ Goto("commit")
    /\ UNCHANGED <<disk, commits, nextId, local, last, ghost>>

(* The commit is published only on the HEAD the candidate was prepared on. *)
(* A candidate equal to HEAD writes no commit, and is no error.            *)
CommitPrepared ==
    /\ pc = "commit"
    /\ OrAbort(\A p \in cand : p.parent = HEAD,
        \E p \in cand :
            /\ IF p.snap = HeadSnap THEN UNCHANGED commits
               ELSE AppendCommit(CommitMsg("op", cmd.op, cmd.name), p.snap)
            /\ Goto("clear")
            /\ UNCHANGED <<disk, txns, nextId, local, last, ghost>>)

(* ClearTxn: the terminal marker; afterTxnCleared follows.                 *)
ClearTxn ==
    /\ pc = "clear"
    /\ WriteTxn([Me EXCEPT !.status = "done"])
    /\ Goto("reclaim")
    /\ UNCHANGED <<disk, commits, nextId, local, last, ghost>>

(* A store operation of Mutate, Publish, save or commit reports an error.  *)
(* One that took effect first is the same error in the step after it.      *)
MutatingPcs == {"mutate", "reserve", "log-reserved", "publish-root", "log-root", "copy",
    "fill", "log-copied", "log-prepared", "log-snapshot", "quarantine", "log-quarantined",
    "save", "log-saved", "publish", "log-exchanged", "log-published", "prepare",
    "validate", "log-tree", "commit"}

Fail ==
    /\ pc \in MutatingPcs
    /\ faults < MaxFaults
    /\ faults' = faults + 1
    /\ Goto("recover")
    /\ mode' = "abort" /\ self' = 0
    /\ UNCHANGED <<disk, commits, txns, nextId, cmd, held, seen, cand, last, started, authored>>

(* The process dies, or a step after the commit or of a recovery returns   *)
(* an error: either way it is gone and fu.lock is free.                    *)
Crash ==
    /\ pc # "idle"
    /\ faults < MaxFaults
    /\ faults' = faults + 1
    /\ Exit("crashed")
    /\ UNCHANGED <<disk, commits, txns, nextId, started, authored>>

(* A recovery handler, or RecoverPending itself, stops on an error     *)
(* (ErrTxnConflict, as a rule): the transaction stays open and the command *)
(* fails.                                                                  *)
Conflict ==
    /\ Exit("conflict")
    /\ UNCHANGED <<disk, commits, txns, nextId, ghost>>

OrConflict(ok, step) == IF ok THEN step ELSE Conflict

(* Mutant: a later edit of fu.yaml is restored over.                       *)
ConfigMovesIgnored == TRUE

ConfigAsJudged == seen = Me.before \/ config = seen

(* restoreTxnConfig: back to ConfigBefore, but only over the bytes the     *)
(* handler judged when it started.                                         *)
RestoreTxnConfig(next) ==
    /\ OrConflict(ConfigAsJudged,
        /\ config' = IF seen = Me.before THEN config ELSE Me.before
        /\ Goto(next)
        /\ UNCHANGED <<skills, staging, private, recovery, archive, commits, txns,
                       nextId, local, last, ghost>>)

(* Mutant: the config is left as the command wrote it.                     *)
UndoConfigSkipped ==
    /\ pc = "undo-config"
    /\ Goto("undo-clear")
    /\ UNCHANGED <<disk, commits, txns, nextId, local, last, ghost>>

UndoConfig == pc = "undo-config" /\ RestoreTxnConfig("undo-clear")

(* A handler's ClearTxn; RecoverPending looks for the next record.         *)
UndoClear ==
    /\ pc = "undo-clear"
    /\ WriteTxn([Me EXCEPT !.status = "done"])
    /\ Goto("recover")
    /\ self' = 0
    /\ UNCHANGED <<disk, commits, nextId, cmd, mode, held, seen, cand, last, ghost>>

(* Best-effort reclaim after a terminal marker, in run or in a recovery:   *)
(* what it replaced or removed goes, its own errors do not matter.         *)
AfterReclaim ==
    IF pc = "reclaim" THEN Exit("ok")
    ELSE /\ Goto("recover")
         /\ self' = 0
         /\ UNCHANGED <<cmd, mode, held, seen, cand, last>>

ReclaimStep(t, left) ==
    IF left \in {NoTree, t} THEN AfterReclaim ELSE UNCHANGED <<pc, local, last>>

(* Where RecoverPending hands a record to its handler: the start commit    *)
(* must still say what the record says it said, and HEAD tells whether the *)
(* operation was committed.                                                *)
Recovering(op, i) ==
    /\ pc = "recover" /\ i \in Pending /\ txns[i].op = op

Handle(i, ok, next) ==
    OrConflict(commits[txns[i].start].snap.cfg = txns[i].before /\ ok,
        /\ self' = i
        /\ seen' = config
        /\ Goto(next)
        /\ UNCHANGED <<disk, commits, txns, nextId, cmd, mode, held, cand, last, ghost>>)

Uncommitted(t) == HEAD = t.start

(* finishCommittedRemove, finishCommittedUpdate: the marker, then reclaim. *)
FinishClear ==
    /\ pc = "finish-clear"
    /\ WriteTxn([Me EXCEPT !.status = "done"])
    /\ Goto("finish-reclaim")
    /\ UNCHANGED <<disk, commits, nextId, local, last, ghost>>

(* The commit at index i is the recorded operation, on top of its start.   *)
IsOperationCommit(t, i) ==
    /\ i = t.start + 1
    /\ commits[i].msg = CommitMsg("op", t.op, t.name)
    /\ t.ctree = {commits[i].snap}
================================================================================
