------------------------------ MODULE FuTransactions ------------------------------
(***************************************************************************)
(* fu's transactional write commands over one store: processes that run    *)
(* one after the other under fu.lock, each able to die or fail anywhere,   *)
(* `fu gc` between them, and a user who edits the same directories, and    *)
(* commits with git, at any moment.                                        *)
(***************************************************************************)
EXTENDS InstallTxn, RemoveTxn, UpdateTxn, GcPrune

CONSTANT Installed   \* the skills the store starts with

ASSUME InstalledAssumption ==
    /\ Installed \subseteq Names
    /\ Cardinality(Installed) \in Nat /\ Cardinality(Edits) \in Nat
    /\ Cardinality(Installed) + MaxCommands + Cardinality(Edits) <= MaxId

(* A settled store: every registered skill is published and committed.     *)
Init ==
    /\ \E ids \in [Installed -> 1 .. Cardinality(Installed)], c \in [Installed -> Upstream] :
        /\ \A m, n \in Installed : ids[m] = ids[n] => m = n
        /\ config = [reg |-> [n \in Names |-> IF n \in Installed THEN c[n] ELSE NONE],
                     note |-> NONE]
        /\ skills = [n \in Names |-> IF n \in Installed THEN [id |-> ids[n], c |-> c[n]]
                                     ELSE NoTree]
    /\ staging = [n \in Names |-> NoTree]
    /\ private = {} /\ recovery = {} /\ archive = {}
    /\ commits = <<[msg |-> CommitMsg("init", NONE, NONE), snap |-> Worktree]>>
    /\ txns = <<>>
    /\ nextId = Cardinality(Installed) + 1
    /\ pc = "idle" /\ cmd = NoCommand /\ mode = "command" /\ self = 0
    /\ held = NoTree /\ cand = {}
    /\ seen = [reg |-> [n \in Names |-> NONE], note |-> NONE]
    /\ last = "none"
    /\ started = 0 /\ faults = 0 /\ authored = {}

--------------------------------------------------------------------------------
(* The user, and the agents working for them, write below the store with   *)
(* no lock.  They do not throw their own work away.  With Edits empty the  *)
(* store is left alone.                                                    *)
UserUnchanged == UNCHANGED <<private, recovery, archive, txns, pc, local, last, started, faults>>

UserEdit(n, e) ==
    /\ e \notin authored /\ Present(skills[n]) /\ skills[n].c \notin Edits
    /\ skills' = [skills EXCEPT ![n].c = e]
    /\ authored' = authored \cup {e}
    /\ UNCHANGED <<config, staging, commits, nextId>> /\ UserUnchanged

UserPlace(n, e) ==
    /\ e \notin authored /\ ~Present(skills[n]) /\ nextId <= MaxId
    /\ skills' = [skills EXCEPT ![n] = [id |-> nextId, c |-> e]]
    /\ nextId' = nextId + 1
    /\ authored' = authored \cup {e}
    /\ UNCHANGED <<config, staging, commits>> /\ UserUnchanged

UserStage(n, e) ==
    /\ e \notin authored /\ ~Present(staging[n]) /\ nextId <= MaxId
    /\ staging' = [staging EXCEPT ![n] = [id |-> nextId, c |-> e]]
    /\ nextId' = nextId + 1
    /\ authored' = authored \cup {e}
    /\ UNCHANGED <<config, skills, commits>> /\ UserUnchanged

UserConfig(e) ==
    /\ e \notin authored /\ config.note = NONE
    /\ config' = [config EXCEPT !.note = e]
    /\ authored' = authored \cup {e}
    /\ UNCHANGED <<skills, staging, commits, nextId>> /\ UserUnchanged

UserRemove(n) ==
    /\ Edits # {}
    /\ Present(skills[n]) /\ skills[n].c \notin Edits
    /\ skills' = [skills EXCEPT ![n] = NoTree]
    /\ UNCHANGED <<config, staging, commits, nextId, authored>> /\ UserUnchanged

(* `git add -A && git commit` in the store.                                *)
UserCommit ==
    /\ Edits # {}
    /\ Worktree # HeadSnap
    /\ AppendCommit(CommitMsg("direct", NONE, NONE), Worktree)
    /\ UNCHANGED <<config, skills, staging, nextId, authored>> /\ UserUnchanged

User ==
    \/ \E n \in Names, e \in Edits : UserEdit(n, e) \/ UserPlace(n, e) \/ UserStage(n, e)
    \/ \E e \in Edits : UserConfig(e)
    \/ \E n \in Names : UserRemove(n)
    \/ UserCommit

--------------------------------------------------------------------------------
(* What the process holding fu.lock does next.                             *)
RunStep ==
    \/ Recovered \/ LoadConfig \/ Sweep \/ StartTxn
    \/ ReserveStagedRoot \/ LogReserved \/ PublishRoot \/ LogRoot \/ CopyStaged
    \/ SaveConfig \/ LogSaved \/ LogPublished
    \/ PrepareCommit \/ ValidatePrepared \/ LogTree \/ CommitPrepared \/ ClearTxn
    \/ UndoConfig \/ UndoClear \/ FinishClear

Step == RunStep \/ InstallStep \/ RemoveStep \/ UpdateStep

BeginInstall(n, c) == Begin("install", n, c, FALSE)
BeginRemove(n) == Begin("rm", n, NONE, FALSE)
BeginUpdate(n, c, force) == (force => ForceUpdates) /\ Begin("update", n, c, force)

BeginCommand ==
    \/ \E n \in Names, c \in Upstream : BeginInstall(n, c)
    \/ \E n \in Names : BeginRemove(n)
    \/ \E n \in Names, c \in Upstream, force \in BOOLEAN : BeginUpdate(n, c, force)

Next == Step \/ BeginCommand \/ BeginRestore \/ Fail \/ Crash \/ GcStep \/ User

Spec == Init /\ [][Next]_vars

(* A process that runs keeps running until it dies, which it does a        *)
(* bounded number of times; the user runs another write command while      *)
(* something is pending.                                                   *)
FairSpec == Spec /\ WF_vars(Step) /\ WF_vars(BeginRestore)

--------------------------------------------------------------------------------
Idle == pc = "idle" /\ Pending = {}

(* Recovery is never defeated by crashes and failures alone: nothing fu    *)
(* did, gc included, reads as somebody else's interference.  DESIGN.md     *)
(* reserves a conflict for a store changed by others after the crash.      *)
NoConflict == last # "conflict"

(* With nothing pending the three records of the store agree: what is      *)
(* published is what is committed, and every digest is of what is there.   *)
Consistent ==
    Idle => /\ Worktree = HeadSnap
            /\ \A n \in Names : config.reg[n] = skills[n].c

(* A command that reports it rolled back left no trace in what it changes: *)
(* the store is what its transaction started from.                         *)
RollbackRestores ==
    pc = "idle" /\ last = "rolled back" =>
        /\ Pending = {}
        /\ Worktree = commits[txns[Len(txns)].start].snap

(* What is under recovery/ belongs to somebody: it is the payload of the   *)
(* open transaction, or of a completed rm whose record still proves what   *)
(* it is, so that gc can collect it.  Pruning a family whose name another  *)
(* one claims strands nothing.                                             *)
Accounts(t, r) ==
    \/ t.status = "open" /\ r.tree = t.payload
       /\ r.at \in {RemovedName(t), RollbackName(t), UncommittedName(t)}
    \/ t.status = "done" /\ t.op = "rm" /\ r.at = RemovedName(t) /\ Removable(r.tree, t.payload)
RecoveryAccounted == \A r \in recovery : \E i \in DOMAIN txns : Accounts(txns[i], r)

(* Content left under staging/ is collectable too: a completed update      *)
(* family accounts for it.  The exception is the one txn_prune.go accepts: *)
(* gc ran while an rm of the same skill, begun after that update, was      *)
(* pending, and pruned the family for the sake of the name.                *)
StagingAccounted ==
    \A n \in Names : Present(staging[n]) /\ n \notin StagingClaims =>
        \E i \in DOMAIN txns :
            /\ txns[i].op = "update" /\ txns[i].name = n
            /\ Removable(staging[n], txns[i].prev)
            /\ \/ txns[i].status = "done"
               \/ \E j \in i + 1 .. Len(txns) : txns[j].op = "rm" /\ txns[j].name = n

(* Nothing fu puts aside becomes uncollectable, in either place.           *)
NothingStranded == RecoveryAccounted /\ StagingAccounted

(* Every command recovers before it starts: transactions never overlap.    *)
OneOpen == \A i, j \in Pending : i = j

(* The history promised is the history kept.                               *)
History == INSTANCE StoreHistory WITH branch <- commits
HistorySpec == History!HistorySpec

(* What a user wrote is never destroyed: it is on disk, or in a commit.    *)
InCustody(e) ==
    \/ config.note = e
    \/ \E n \in Names : e \in {skills[n].c, staging[n].c}
    \/ \E r \in recovery \cup archive : r.tree.c = e
    \/ \E k \in DOMAIN commits :
        \/ commits[k].snap.cfg.note = e
        \/ \E n \in Names : commits[k].snap.tree[n] = e
EditsSurvive == \A e \in authored : InCustody(e)

(* Where that is not promised, in `fu rm` and `fu update --force`, what is *)
(* lost is only what the command's own record says it takes away: an edit  *)
(* that comes after the record stops the command, in every interleaving.   *)
TakenAway(t) == IF t.op = "rm" THEN t.payload.c ELSE t.prev.c
LostOnlyAsRecorded ==
    \A e \in authored : InCustody(e) \/ \E i \in DOMAIN txns :
        /\ TakenAway(txns[i]) = e
        /\ txns[i].op = "update" => ForceUpdates

(* What is interrupted is eventually settled.                              *)
RecoveryCompletes == []<>Idle
================================================================================
