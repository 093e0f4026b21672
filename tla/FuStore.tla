--------------------------------- MODULE FuStore ---------------------------------
(***************************************************************************)
(* The state a fu write command works on: the directories under FU_HOME,   *)
(* the Git history of the store, the recovery journal, and what the one    *)
(* process holding fu.lock has in memory; with the primitives of           *)
(* internal/store the transactions are built from.                         *)
(*                                                                         *)
(* A tree is an object (its root inode, id) with a content.  Renames carry *)
(* the object along; a copy is a new object.  An ownership manifest        *)
(* (store.OwnedTree) records identity and content, so it is a tree value   *)
(* and matching a manifest is equality.  A digest is the content itself.   *)
(***************************************************************************)
EXTENDS Integers, Sequences, FiniteSets

CONSTANTS
    Names,        \* skill names
    Upstream,     \* contents a source can deliver
    Edits,        \* contents a user writes, each at most once
    Ops,          \* the commands issued: subset of {"install", "rm", "update"}
    ForceUpdates, \* whether update may be given --force
    TornCopies,   \* whether a crash can leave a file created but not filled
    MaxCommands,  \* bound: commands started
    MaxFaults,    \* bound: crashes and failing store operations
    MaxId         \* bound: objects ever created

NONE == "none"     \* nothing there
EMPTY == "empty"   \* a tree holding only part of its declared entries
TORN == "torn"     \* a tree with a declared file not yet complete

ASSUME ConstantsAssumption ==
    /\ Ops \subseteq {"install", "rm", "update"}
    /\ ForceUpdates \in BOOLEAN /\ TornCopies \in BOOLEAN
    /\ MaxCommands \in Nat /\ MaxFaults \in Nat /\ MaxId \in Nat
    /\ NONE \notin Upstream \cup Edits
    /\ Upstream \cap Edits = {}
    /\ {EMPTY, TORN} \cap (Upstream \cup Edits) = {}
    /\ "fu.yaml" \notin Names   \* ChangedPaths tells a skill's path from it

Contents == Upstream \cup Edits \cup {EMPTY, TORN}
Tree == [id : 1 .. MaxId, c : Contents]
NoTree == [id |-> 0, c |-> NONE]
TreeOrNone == Tree \cup {NoTree}
Present(t) == t # NoTree

(* fu.yaml: the digest recorded for each registered skill, and the rest of *)
(* the file, which only users write.                                       *)
Config == [reg : [Names -> Contents \cup {NONE}], note : Edits \cup {NONE}]

(* What a Git commit holds of the store.                                   *)
Snapshot == [cfg : Config, tree : [Names -> Contents \cup {NONE}]]
Message == [kind : {"init", "op", "recover", "external", "direct"},
            op : {"install", "rm", "update", NONE}, name : Names \cup {NONE}]
Commit == [msg : Message, snap : Snapshot]

(* Names a transaction derives for content it puts under recovery/:        *)
(* rmPayloadName, installCompensationPayloadName and                       *)
(* installUncommittedPayloadName.                                          *)
PayloadName == [kind : {"removed", "rollback", "uncommitted"}, name : Names, head : Nat]

Stage == {"started", "snapshotted", "prepared", "staged", "quarantined",
          "config-saved", "exchanged", "published",
          "compensating", "compensation-ready", "compensation-committed"}

(* A transaction: the latest revision of its WAL record (TxnRecord), and   *)
(* whether the family still is open, completed or pruned.                  *)
Txn == [op : {"install", "rm", "update"}, name : Names,
        status : {"open", "done", "pruned"}, stage : Stage,
        start : Nat, before : Config,
        resv : TreeOrNone, declared : Contents \cup {NONE},
        payload : TreeOrNone, prev : TreeOrNone,
        ctree : SUBSET Snapshot, comp : SUBSET Snapshot]

Command == [op : {"install", "rm", "update", "restore", "gc", NONE},
            name : Names \cup {NONE}, c : Contents \cup {NONE}, force : BOOLEAN]
NoCommand == [op |-> NONE, name |-> NONE, c |-> NONE, force |-> FALSE]

VARIABLES
    config,    \* store/fu.yaml
    skills,    \* store/skills/<name>
    staging,   \* staging/<name>
    private,   \* private staging roots staging/.fu-new-*
    recovery,  \* payloads under recovery/, each at its name
    archive,   \* archived payloads (.fu-archive-*), by the name they had
    commits,   \* the branch, oldest first; HEAD is its length
    txns,      \* the recovery journal, in order of creation
    nextId,    \* object ids are never reused
    pc,        \* where the process holding fu.lock is; "idle": nobody does
    cmd,       \* the command it runs
    mode,      \* why it recovers: "command" before its own work, "abort" after
    self,      \* index in txns of the transaction it drives, 0 if none
    held,      \* the manifest it took last
    seen,      \* the bytes of fu.yaml it took last
    cand,      \* the prepared commit candidate, {} if none
    last,      \* how the previous command ended
    started,   \* commands started
    faults,    \* crashes and failed operations
    authored   \* the user contents written so far

disk == <<config, skills, staging, private, recovery, archive>>
local == <<cmd, mode, self, held, seen, cand>>
ghost == <<started, faults, authored>>
vars == <<disk, commits, txns, nextId, pc, local, last, ghost>>

HEAD == Len(commits)
HeadSnap == commits[HEAD].snap
Worktree == [cfg |-> config, tree |-> [n \in Names |-> skills[n].c]]

(* The paths in which two snapshots differ: fu.yaml and the skills.        *)
ChangedPaths(s, t) ==
    (IF s.cfg = t.cfg THEN {} ELSE {"fu.yaml"}) \cup {n \in Names : s.tree[n] # t.tree[n]}

CommitMsg(kind, op, n) == [kind |-> kind, op |-> op, name |-> n]
AppendCommit(msg, snap) == commits' = Append(commits, [msg |-> msg, snap |-> snap])

At(dir, p) ==
    IF \E r \in dir : r.at = p THEN (CHOOSE r \in dir : r.at = p).tree ELSE NoTree
Put(dir, p, t) == dir \cup {[at |-> p, tree |-> t]}
Take(dir, p) == {r \in dir : r.at # p}

RemovedName(t) == [kind |-> "removed", name |-> t.name, head |-> t.start]
RollbackName(t) == [kind |-> "rollback", name |-> t.name, head |-> t.start]
UncommittedName(t) == [kind |-> "uncommitted", name |-> t.name, head |-> t.start]

Pending == {i \in DOMAIN txns : txns[i].status = "open"}

(* RemoveOwnedTreeAt compares against what cleanup may have left: the      *)
(* recorded object, whole or already partly emptied by an interrupted run. *)
Removable(t, expected) ==
    Present(t) /\ t.id = expected.id /\ t.c \in {expected.c, EMPTY}

(* What one step of it leaves of t: nothing, the emptied root, or, when it *)
(* refuses, t itself.                                                      *)
Leftovers(t, expected) ==
    IF Removable(t, expected) THEN {NoTree} \cup ({[t EXCEPT !.c = EMPTY]} \ {t}) ELSE {t}

(* SettleDeclaredStagedEntries accepts entries that are absent or exactly  *)
(* as declared.                                                            *)
Settles(t, declared) == t.c \in {EMPTY, declared}

SetReg(cfg, n, d) == [cfg EXCEPT !.reg[n] = d]

(* The config the transaction's record says the command writes:            *)
(* expectedInstallConfig, expectedRemovedConfig, expectedUpdatedConfig.    *)
ExpectedConfig(t) ==
    SetReg(t.before, t.name, IF t.op = "rm" THEN NONE ELSE t.payload.c)

(* The transaction under way, and WriteTxn of its next revision.           *)
Me == txns[self]
WriteTxn(r) == txns' = [txns EXCEPT ![self] = r]
Goto(p) == pc' = p

(* The process is done with its command: it exits and fu.lock is released. *)
Exit(how) ==
    /\ pc' = "idle"
    /\ cmd' = NoCommand /\ mode' = "command" /\ self' = 0
    /\ held' = NoTree /\ cand' = {}
    /\ seen' = [reg |-> [n \in Names |-> NONE], note |-> NONE]
    /\ last' = how

(* Where the process can be: between two writes another program, or a      *)
(* later fu, can tell apart.                                               *)
CommandPcs == {"load", "sweep", "preflight", "start", "mutate", "log-snapshot", "reserve",
    "log-reserved", "publish-root", "log-root", "copy", "fill", "log-copied", "log-prepared",
    "quarantine", "log-quarantined", "save", "log-saved", "publish", "log-exchanged",
    "log-published", "prepare", "validate", "log-tree", "commit", "clear", "reclaim"}
UndoPcs == {"undo-root", "undo-log-root", "undo-entries", "undo-quarantine", "undo-archive",
    "undo-restore", "undo-exchange", "undo-discard", "undo-config", "undo-clear"}
FinishPcs == {"finish-clear", "finish-reclaim", "comp-log-start", "comp-quarantine",
    "comp-config", "comp-log-ready", "comp-prepare", "comp-log-tree", "comp-commit",
    "comp-log-committed", "comp-finish", "comp-archive"}

TypeOK ==
    /\ pc \in {"idle", "recover"} \cup CommandPcs \cup UndoPcs \cup FinishPcs
    /\ config \in Config
    /\ skills \in [Names -> TreeOrNone]
    /\ staging \in [Names -> TreeOrNone]
    /\ private \subseteq Tree
    /\ recovery \subseteq [at : PayloadName, tree : Tree]
    /\ archive \subseteq [at : PayloadName, tree : Tree]
    /\ commits \in Seq(Commit)
    /\ txns \in Seq(Txn)
    /\ nextId \in 1 .. MaxId + 1
    /\ cmd \in Command /\ mode \in {"command", "abort"}
    /\ self \in 0 .. Len(txns)
    /\ held \in TreeOrNone
    /\ seen \in Config
    /\ cand \subseteq [parent : Nat, snap : Snapshot]
    /\ last \in {"none", "ok", "refused", "rolled back", "conflict", "crashed"}
    /\ started \in 0 .. MaxCommands
    /\ faults \in 0 .. MaxFaults
    /\ authored \subseteq Edits
================================================================================
