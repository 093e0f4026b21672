---------------------------- MODULE RecoveryProofs ----------------------------
(***************************************************************************)
(* For every set of skills, contents and commands and every bound:         *)
(* wherever a command dies, and wherever its recovery dies in turn, what   *)
(* is left is what recovery can work from, and what recovery leaves is a   *)
(* store in which config, content and HEAD agree.                          *)
(***************************************************************************)
EXTENDS FuTransactionsProofs

(* A store in which every digest is of what is there.                      *)
Agreed(cfg) == [cfg |-> cfg, tree |-> cfg.reg]
Settled == HeadSnap = Agreed(config) /\ \A n \in Names : skills[n].c = config.reg[n]

(* What lies under recovery/ and in the archive of the open transaction:   *)
(* names derived from its start commit, and its own object.                *)
Since(h) == {r \in recovery : r.at.head >= h}
Archived(x) == {r \in archive : r.tree.id = x.id}
Entry(p, x) == {[at |-> p, tree |-> x]}

(* What the open transaction started from: a commit in which config and    *)
(* content agree, and every other skill is still as it was there.          *)
Base(t) ==
    /\ t.start \in DOMAIN commits
    /\ commits[t.start].snap = Agreed(t.before)
    /\ \A m \in Names \ {t.name} : skills[m].c = t.before.reg[m]

(* Whether its commit was published, and whether that was undone.          *)
Committed(t) == IsOperationCommit(t, HEAD) /\ HeadSnap = Agreed(ExpectedConfig(t))
Compensated(t) == HEAD = t.start + 2 /\ IsRecoveryCommit(t) /\ HeadSnap = Agreed(t.before)

(* The record, as the tree it stages comes into being: nothing, a private  *)
(* root, a root in its place that is being filled, a whole tree.           *)
Blank(t) == t.resv = NoTree /\ t.declared = NONE /\ t.payload = NoTree
Claiming(t) == t.resv \in Tree /\ t.resv.c = EMPTY /\ t.declared \in Upstream /\ t.payload = NoTree
Filling(t) ==
    t.resv = NoTree /\ t.declared \in Upstream /\ t.payload \in Tree /\ t.payload.c = EMPTY
Full(t) == t.resv = NoTree /\ t.declared = NONE /\ t.payload \in Tree /\ t.payload.id < nextId

(* An object this transaction made.                                        *)
New(t, x) == x \in Tree /\ x.id < nextId /\ x.id # t.prev.id /\ Archived(x) = {}

(* Nothing was touched.                                                    *)
Untouched(t) ==
    /\ t.stage = "started" /\ Blank(t) /\ t.prev = NoTree
    /\ config = t.before /\ Since(t.start) = {}
    /\ skills[t.name].c = t.before.reg[t.name]
    /\ t.op # "rm" => staging[t.name] = NoTree

(* An install or update before it changes anything a reader could see,     *)
Copies(t) ==
    /\ config = t.before /\ Since(t.start) = {}
    /\ \/ /\ t.op = "install" /\ t.stage = "started" /\ skills[t.name] = NoTree
          /\ t.prev = NoTree
       \/ /\ t.op = "update" /\ t.stage = "snapshotted" /\ skills[t.name] = t.prev
          /\ t.prev \in Tree /\ t.prev.c = t.before.reg[t.name]

(* and where the tree it stages is.                                        *)
Torn == IF TornCopies THEN {TORN} ELSE {}
Staged(t) ==
    \/ Blank(t) /\ staging[t.name] = NoTree
    \/ /\ Claiming(t) /\ New(t, t.resv)
       /\ \/ t.resv \in private /\ staging[t.name] = NoTree
          \/ t.resv \notin private /\ staging[t.name] = t.resv
          \/ t.op = "update" /\ t.resv \notin private /\ staging[t.name] = NoTree
    \/ /\ Filling(t) /\ New(t, t.payload)
       /\ \/ /\ staging[t.name].id = t.payload.id
             /\ staging[t.name].c \in {EMPTY, t.declared} \cup Torn
          \/ t.op = "update" /\ staging[t.name] = NoTree

(* A whole tree of an install is in one place.                             *)
Placed(t, sk, st, rec, arc) ==
    /\ skills[t.name] = sk /\ staging[t.name] = st
    /\ Since(t.start) = rec /\ Archived(t.payload) = arc
InStaging(t) == Placed(t, NoTree, t.payload, {}, {})
InSkills(t) == Placed(t, t.payload, NoTree, {}, {})
InRecovery(t, p) == Placed(t, NoTree, NoTree, Entry(p, t.payload), {})
InArchive(t, p) == Placed(t, NoTree, NoTree, {}, Entry(p, t.payload))

(* So is the tree an rm takes away; an update has two.                     *)
Takes(t) == t.payload \in Tree /\ t.payload.id < nextId /\ t.payload.c = t.before.reg[t.name]
Whole(t) == Takes(t) /\ skills[t.name] = t.payload /\ Since(t.start) = {}
Taken(t) == Takes(t) /\ skills[t.name] = NoTree /\ Since(t.start) = Entry(RemovedName(t), t.payload)
Replaces(t) ==
    /\ Full(t) /\ Since(t.start) = {}
    /\ t.prev \in Tree /\ t.prev.id < nextId /\ t.prev.c = t.before.reg[t.name]
    /\ t.payload.id # t.prev.id
Unexchanged(t) == Replaces(t) /\ skills[t.name] = t.prev
Exchanged(t) == Replaces(t) /\ skills[t.name] = t.payload /\ staging[t.name] = t.prev

(* What the command is about to publish, and what it has published.        *)
Ready(t) ==
    \/ t.op = "install" /\ Full(t) /\ InStaging(t)
    \/ t.op = "update" /\ Unexchanged(t) /\ staging[t.name] = t.payload
    \/ t.op = "rm" /\ Taken(t)
Published(t) ==
    \/ t.op = "install" /\ Full(t) /\ InSkills(t)
    \/ t.op = "update" /\ Exchanged(t)
    \/ t.op = "rm" /\ Taken(t)

(* The stages of a transaction that is not being undone.                   *)
Forward == {"prepared", "config-saved", "published"}
Onward(t) == (t.op = "install" => t.stage \in Forward) /\ (t.op = "update" => PastStaging(t))
Known(t) == config \in {t.before, ExpectedConfig(t)}

(* What recovery can find of a transaction whose process is gone, by what  *)
(* HEAD says.                                                              *)
LeftInstall(t) ==
    \/ Copies(t) /\ Staged(t)
    \/ /\ Full(t) /\ Known(t)
       /\ t.stage \in Forward \/ (t.stage = "started" /\ config = t.before)
       /\ \/ InStaging(t) \/ InSkills(t)
          \/ InRecovery(t, UncommittedName(t)) \/ InArchive(t, UncommittedName(t))
LeftUpdate(t) ==
    \/ Untouched(t)
    \/ Copies(t) /\ Staged(t)
    \/ /\ PastStaging(t) /\ Known(t)
       /\ \/ Unexchanged(t) /\ (staging[t.name] = NoTree \/ Removable(staging[t.name], t.payload))
          \/ Exchanged(t)
LeftRemove(t) == Untouched(t) \/ (Known(t) /\ (Whole(t) \/ Taken(t)))
Unfinished(t) ==
    /\ Uncommitted(t)
    /\ \/ t.op = "install" /\ LeftInstall(t)
       \/ t.op = "update" /\ LeftUpdate(t)
       \/ t.op = "rm" /\ LeftRemove(t)

Reverting(t) ==
    /\ t.op = "install" /\ Full(t) /\ Committed(t)
    /\ \/ /\ t.stage = "compensating" /\ Known(t)
          /\ InSkills(t) \/ InRecovery(t, RollbackName(t))
       \/ /\ t.stage = "compensation-ready" /\ config = t.before
          /\ InRecovery(t, RollbackName(t))
Finished(t) == Committed(t) /\ Onward(t) /\ config = ExpectedConfig(t) /\ Published(t)
Reverted(t) ==
    /\ t.op = "install" /\ Full(t) /\ Compensated(t) /\ config = t.before
    /\ t.stage \in {"compensation-ready", "compensation-committed"}
    /\ InRecovery(t, RollbackName(t)) \/ InArchive(t, RollbackName(t))

Recoverable(t) == Base(t) /\ (Unfinished(t) \/ Finished(t) \/ Reverting(t) \/ Reverted(t))

(* Everything but fu.yaml is back.                                         *)
Restored(t) ==
    /\ skills[t.name].c = t.before.reg[t.name] /\ Since(t.start) = {}
    /\ t.op # "rm" => staging[t.name] = NoTree

(* What the process holding fu.lock knows of its transaction, wherever it  *)
(* is.                                                                     *)
Precommit == Working \cup (UndoPcs \ {"undo-clear"})
Drives == Driving \ {"reclaim", "finish-reclaim"}
CommandAt(t) ==
    /\ pc \in {"mutate", "log-snapshot"} => Untouched(t)
    /\ pc = "log-snapshot" => held = skills[t.name]
    /\ pc = "quarantine" => config = t.before /\ Whole(t)
    /\ pc = "log-quarantined" => config = t.before /\ Taken(t)
    /\ pc \in {"reserve", "log-reserved"} => Copies(t) /\ Blank(t) /\ staging[t.name] = NoTree
    /\ pc = "log-reserved" => New(t, held) /\ held.c = EMPTY /\ held \in private
    /\ pc \in {"publish-root", "log-root"} =>
        Copies(t) /\ Claiming(t) /\ New(t, held) /\ t.resv = held /\ t.declared = cmd.c
    /\ pc = "publish-root" => held \in private /\ staging[t.name] = NoTree
    /\ pc = "log-root" => held \notin private /\ staging[t.name] = held
    /\ pc \in {"copy", "fill", "log-copied"} =>
        /\ Copies(t) /\ Filling(t) /\ New(t, t.payload) /\ t.declared = cmd.c
        /\ held.id = t.payload.id
    /\ pc \in {"copy", "fill"} => held = t.payload
    /\ pc = "copy" => staging[t.name] = held
    /\ pc = "fill" => TornCopies /\ staging[t.name] = [held EXCEPT !.c = TORN]
    /\ pc = "log-copied" => staging[t.name] = held /\ held.c = t.declared
    /\ pc = "log-prepared" =>
        /\ config = t.before /\ Ready(t) /\ held = t.payload
        /\ IF t.op = "install" THEN t.stage = "started" ELSE PastStaging(t)
    /\ pc \in {"save", "log-saved", "publish"} => Ready(t) /\ Onward(t)
    /\ pc = "save" => config = t.before
    /\ pc \in {"log-saved", "publish"} => config = ExpectedConfig(t)
    /\ pc = "log-exchanged" => t.op = "update"
    /\ pc \in {"log-exchanged", "log-published", "prepare"} \cup Prepared \cup {"clear"} =>
        Published(t) /\ Onward(t) /\ config = ExpectedConfig(t)
    /\ pc \in Prepared => cand = {[parent |-> HEAD, snap |-> Worktree]}
    /\ pc = "commit" => t.ctree = {Worktree}
    /\ pc = "clear" => HeadSnap = Worktree /\ (Uncommitted(t) \/ Committed(t))
UndoAt(t) ==
    /\ pc \in UndoPcs \ {"undo-clear"} => seen = config
    /\ pc = "undo-root" => Unfinished(t) /\ (t.op = "update" => ~PastStaging(t))
    /\ pc = "undo-log-root" => Copies(t) /\ Claiming(t) /\ Staged(t) /\ staging[t.name] = t.resv
    /\ pc \in {"undo-entries", "undo-quarantine"} => LeftInstall(t) /\ t.resv = NoTree
    /\ pc = "undo-quarantine" => t.declared = NONE
    /\ pc = "undo-archive" =>
        /\ LeftInstall(t) /\ Full(t)
        /\ InRecovery(t, UncommittedName(t)) \/ InArchive(t, UncommittedName(t))
    /\ pc \in {"undo-log-root", "undo-entries", "undo-quarantine", "undo-archive"} =>
        t.op = "install"
    /\ pc = "undo-restore" => t.op = "rm" /\ LeftRemove(t)
    /\ pc = "undo-exchange" => t.op = "update" /\ LeftUpdate(t) /\ PastStaging(t)
    /\ pc = "undo-discard" => t.op = "update" /\ LeftUpdate(t) /\ (PastStaging(t) => Unexchanged(t))
    /\ pc = "undo-config" => Unfinished(t) /\ Restored(t)
    /\ pc = "undo-clear" =>
        /\ config = t.before /\ Restored(t)
        /\ (Uncommitted(t) /\ Unfinished(t)) \/ (Reverted(t) /\ InArchive(t, RollbackName(t)))
FinishAt(t) ==
    /\ pc = "finish-clear" => t.op # "install" /\ Finished(t)
    /\ pc = "comp-log-start" => t.op = "install" /\ Finished(t)
    /\ pc \in {"comp-quarantine", "comp-config", "comp-log-ready"} =>
        Reverting(t) /\ t.stage = "compensating"
    /\ pc \in {"comp-config", "comp-log-ready"} => InRecovery(t, RollbackName(t))
    /\ pc = "comp-config" => seen = config
    /\ pc = "comp-log-ready" => config = t.before
    /\ pc \in {"comp-prepare", "comp-log-tree", "comp-commit"} =>
        Reverting(t) /\ t.stage = "compensation-ready"
    /\ pc \in {"comp-log-tree", "comp-commit"} => cand = {[parent |-> HEAD, snap |-> Worktree]}
    /\ pc = "comp-commit" => t.comp = {Worktree}
    /\ pc \in {"comp-log-committed", "comp-finish", "comp-archive"} => Reverted(t)
    /\ pc = "comp-archive" => t.stage = "compensation-committed"

DriveInv ==
    /\ pc \in Drives => Base(Me)
    /\ pc \in Precommit => Uncommitted(Me)
    /\ CommandAt(Me) /\ UndoAt(Me) /\ FinishAt(Me)
LeftInv == pc \notin Drives => \A i \in Pending : Recoverable(txns[i])
ReclaimInv == pc \in {"reclaim", "finish-reclaim"} => Pending = {}

(* A command that goes on has nothing pending and knows what it loaded.    *)
ReadyInv ==
    /\ pc \in {"sweep", "preflight", "start"} => seen = config
    /\ pc = "start" =>
        /\ cmd.op = "install" => Available(cmd.name)
        /\ cmd.op = "update" => Updatable(cmd.name)

(* The open transaction is the last one; with none open the store agrees   *)
(* with HEAD and nothing of a later one lies anywhere.                     *)
LastInv == Pending \subseteq {Len(txns)}
SettledInv == Pending = {} => Settled /\ Since(HEAD) = {}
IdsInv == /\ \A n \in Names : skills[n].id < nextId
          /\ \A r \in archive : r.tree.id < nextId

(* What an earlier transaction left is accounted for.                      *)
PutAside(r) == \E i \in DOMAIN txns :
    /\ txns[i].status = "done" /\ txns[i].op = "rm"
    /\ r.at = RemovedName(txns[i]) /\ Removable(r.tree, txns[i].payload)
RecoveryInv ==
    \A r \in recovery : PutAside(r) \/ \E i \in Pending : r.at.head >= txns[i].start
Replaced(n) == \E i \in DOMAIN txns :
    /\ txns[i].op = "update" /\ txns[i].name = n /\ Removable(staging[n], txns[i].prev)
    /\ \/ txns[i].status = "done"
       \/ \E j \in i + 1 .. Len(txns) : txns[j].op = "rm" /\ txns[j].name = n
StagingInv ==
    \A n \in Names : Present(staging[n]) =>
        Replaced(n) \/ \E i \in Pending : txns[i].op # "rm" /\ txns[i].name = n

(* An aborted command has not committed, nor does anybody meanwhile.       *)
Aborting == txns # <<>> /\ HEAD = txns[Len(txns)].start
AbortInv ==
    /\ mode = "abort" => Aborting /\ pc \in {"recover"} \cup UndoPcs
    /\ last = "rolled back" => pc = "idle" /\ Pending = {} /\ Aborting
OutcomeInv == last = "conflict" => TornCopies

KInv == /\ HInv /\ DriveInv /\ LeftInv /\ ReclaimInv /\ ReadyInv /\ LastInv /\ SettledInv
        /\ IdsInv /\ RecoveryInv /\ StagingInv /\ AbortInv /\ OutcomeInv

--------------------------------------------------------------------------------
(* What lies at a name, by what there is since the start commit it is      *)
(* derived from.                                                           *)
LEMMA AtSince ==
    ASSUME DiskTyped, NEW h \in Nat, NEW p \in PayloadName, p.head >= h
    PROVE  /\ Since(h) = {} => At(recovery, p) = NoTree
           /\ \A x : Since(h) = Entry(p, x) => At(recovery, p) = x
           /\ \A x, q : Since(h) = Entry(q, x) /\ q # p => At(recovery, p) = NoTree
<1>1. \A r \in recovery : r.at = p => r \in Since(h)
  BY DEF Since
<1>2. Since(h) = {} => At(recovery, p) = NoTree
  BY <1>1 DEF At
<1>3. ASSUME NEW x, Since(h) = Entry(p, x) PROVE At(recovery, p) = x
  <2> DEFINE e == [at |-> p, tree |-> x]
  <2>1. e \in recovery /\ e.at = p /\ e.tree = x
    BY <1>3 DEF Since, Entry
  <2>2. \A r \in recovery : r.at = p => r = e
    BY <1>1, <1>3 DEF Entry
  <2> HIDE DEF e
  <2> QED BY <2>1, <2>2 DEF At
<1>4. ASSUME NEW x, NEW q, Since(h) = Entry(q, x), q # p PROVE At(recovery, p) = NoTree
  <2>1. \A r \in recovery : r.at # p
    BY <1>1, <1>4 DEF Entry
  <2> QED BY <2>1 DEF At
<1> QED BY <1>2, <1>3, <1>4

(* The names one transaction derives are three, of its start commit.       *)
LEMMA NamesApart ==
    ASSUME NEW t \in Txn
    PROVE  /\ RemovedName(t).head = t.start /\ RollbackName(t).head = t.start
           /\ UncommittedName(t).head = t.start
           /\ RemovedName(t) # RollbackName(t) /\ RemovedName(t) # UncommittedName(t)
           /\ RollbackName(t) # UncommittedName(t)
           /\ t.start \in Nat /\ t.start >= t.start
BY DEF Txn, RemovedName, RollbackName, UncommittedName

(* An object archived is found by its name among those of its identity.    *)
LEMMA AtArchived ==
    ASSUME NEW x, NEW p
    PROVE  /\ Archived(x) = {} => At({r \in archive : r.tree.id = x.id}, p) = NoTree
           /\ Archived(x) = Entry(p, x) => At({r \in archive : r.tree.id = x.id}, p) = x
<1>1. At({}, p) = NoTree
  BY DEF At
<1>2. At(Entry(p, x), p) = x
  <2> DEFINE e == [at |-> p, tree |-> x]
  <2>1. Entry(p, x) = {e} /\ e.at = p /\ e.tree = x
    BY DEF Entry
  <2> HIDE DEF e
  <2> QED BY <2>1 DEF At
<1> QED BY <1>1, <1>2 DEF Archived

(* Where the regions of a process lie in each other.                       *)
LEMMA Parts ==
    /\ Drives = (CommandPcs \ (Early \cup {"reclaim"})) \cup UndoPcs
                  \cup (FinishPcs \ {"finish-reclaim"})
    /\ Working \subseteq Precommit /\ Precommit \subseteq Drives /\ Drives \subseteq Driving
    /\ {"idle", "recover", "reclaim", "finish-reclaim"} \cap Drives = {}
    /\ Early \cap Drives = {} /\ UndoPcs \cap CommandPcs = {} /\ FinishPcs \cap CommandPcs = {}
    /\ UndoPcs \cap FinishPcs = {}
BY DEF Drives, Driving, Working, Precommit, CommandPcs, UndoPcs, FinishPcs, Early

(* What is said of a record stays so while disk and branch stay.           *)
LEMMA FrameTrees ==
    ASSUME UNCHANGED <<skills, staging, private, recovery, archive, nextId>>, NEW t
    PROVE  /\ (Full(t)' <=> Full(t)) /\ (\A x : New(t, x)' <=> New(t, x))
           /\ (InStaging(t)' <=> InStaging(t)) /\ (InSkills(t)' <=> InSkills(t))
           /\ \A p : /\ InRecovery(t, p)' <=> InRecovery(t, p)
                     /\ InArchive(t, p)' <=> InArchive(t, p)
           /\ (Whole(t)' <=> Whole(t)) /\ (Taken(t)' <=> Taken(t)) /\ (Staged(t)' <=> Staged(t))
           /\ (Unexchanged(t)' <=> Unexchanged(t)) /\ (Exchanged(t)' <=> Exchanged(t))
           /\ (Ready(t)' <=> Ready(t)) /\ (Published(t)' <=> Published(t))
           /\ (Restored(t)' <=> Restored(t)) /\ \A h : Since(h)' = Since(h)
<1>1. (\A h : Since(h)' = Since(h)) /\ (\A x : Archived(x)' = Archived(x))
  BY DEF Since, Archived
<1>2. (Full(t)' <=> Full(t)) /\ (\A x : New(t, x)' <=> New(t, x))
  BY <1>1 DEF Full, New
<1>3. /\ (InStaging(t)' <=> InStaging(t)) /\ (InSkills(t)' <=> InSkills(t))
      /\ \A p : /\ InRecovery(t, p)' <=> InRecovery(t, p)
                /\ InArchive(t, p)' <=> InArchive(t, p)
  BY <1>1 DEF InStaging, InSkills, InRecovery, InArchive, Placed
<1>4. (Whole(t)' <=> Whole(t)) /\ (Taken(t)' <=> Taken(t)) /\ (Restored(t)' <=> Restored(t))
  BY <1>1 DEF Whole, Taken, Takes, Restored
<1>5. (Unexchanged(t)' <=> Unexchanged(t)) /\ (Exchanged(t)' <=> Exchanged(t))
  BY <1>1, <1>2 DEF Unexchanged, Exchanged, Replaces
<1>6. Staged(t)' <=> Staged(t)
  BY <1>2 DEF Staged
<1>7. (Ready(t)' <=> Ready(t)) /\ (Published(t)' <=> Published(t))
  BY <1>2, <1>3, <1>4, <1>5 DEF Ready, Published
<1> QED BY <1>1, <1>2, <1>3, <1>4, <1>5, <1>6, <1>7

LEMMA FrameBranch ==
    ASSUME UNCHANGED commits, NEW t
    PROVE  /\ HEAD' = HEAD /\ HeadSnap' = HeadSnap /\ (Uncommitted(t)' <=> Uncommitted(t))
           /\ (Committed(t)' <=> Committed(t)) /\ (Compensated(t)' <=> Compensated(t))
           /\ (skills' = skills => (Base(t)' <=> Base(t)))
BY DEF HEAD, HeadSnap, Uncommitted, Committed, Compensated, IsOperationCommit, IsRecoveryCommit,
   Base

LEMMA Frame ==
    ASSUME UNCHANGED <<disk, commits, nextId>>, NEW t
    PROVE  /\ Untouched(t)' <=> Untouched(t)
           /\ Copies(t)' <=> Copies(t)
           /\ Known(t)' <=> Known(t)
           /\ (LeftInstall(t)' <=> LeftInstall(t)) /\ (LeftUpdate(t)' <=> LeftUpdate(t))
           /\ (LeftRemove(t)' <=> LeftRemove(t)) /\ (Unfinished(t)' <=> Unfinished(t))
           /\ (Finished(t)' <=> Finished(t)) /\ (Reverting(t)' <=> Reverting(t))
           /\ (Reverted(t)' <=> Reverted(t)) /\ (Recoverable(t)' <=> Recoverable(t))
<1>1. UNCHANGED <<skills, staging, private, recovery, archive, config>>
  BY DEF disk
<1>2. (Untouched(t)' <=> Untouched(t)) /\ (Copies(t)' <=> Copies(t)) /\ (Known(t)' <=> Known(t))
  BY <1>1, FrameTrees DEF Untouched, Copies, Known
<1>3. (LeftInstall(t)' <=> LeftInstall(t)) /\ (LeftUpdate(t)' <=> LeftUpdate(t))
      /\ (LeftRemove(t)' <=> LeftRemove(t))
  BY <1>1, <1>2, FrameTrees DEF LeftInstall, LeftUpdate, LeftRemove
<1>4. /\ (Unfinished(t)' <=> Unfinished(t)) /\ (Finished(t)' <=> Finished(t))
      /\ (Reverting(t)' <=> Reverting(t)) /\ (Reverted(t)' <=> Reverted(t))
  BY <1>1, <1>2, <1>3, FrameTrees, FrameBranch DEF Unfinished, Finished, Reverting, Reverted
<1> QED BY <1>1, <1>2, <1>3, <1>4, FrameBranch DEF Recoverable

(* What a process that goes on driving its transaction owes everything     *)
(* else.                                                                   *)
Others == /\ LeftInv' /\ ReclaimInv' /\ ReadyInv' /\ LastInv' /\ SettledInv'
          /\ IdsInv' /\ RecoveryInv' /\ StagingInv' /\ AbortInv' /\ OutcomeInv'

(* The transaction of a process is the open one and the last one.          *)
LEMMA Only ==
    ASSUME KInv, pc \in Drives
    PROVE  /\ Pending = {self} /\ self = Len(txns) /\ self \in DOMAIN txns
           /\ Me \in Txn /\ Me.status = "open" /\ Me.name \in Names /\ Me.before \in Config
           /\ (Me.op = "install" <=> Me.before.reg[Me.name] = NONE)
<1>1. pc \in Driving \ {"reclaim", "finish-reclaim"}
  BY DEF Drives
<1>2. self \in Pending /\ Me \in Txn
  BY <1>1, Mine DEF KInv, HInv
<1>3. Pending = {self} /\ self = Len(txns)
  BY <1>2 DEF KInv, LastInv
<1>4. Me.status = "open" /\ Sound(Me) /\ self \in DOMAIN txns
  BY <1>2 DEF KInv, HInv, OpenInv, Pending, Me
<1> QED BY <1>2, <1>3, <1>4 DEF Sound, Txn

(* A step that revises the record, or moves what the transaction owns.     *)
Revises ==
    /\ pc \in Drives /\ pc' \in Drives /\ UNCHANGED <<self, mode, last>>
    /\ DOMAIN txns' = DOMAIN txns
    /\ \A i \in DOMAIN txns \ {self} : txns'[i] = txns[i]
    /\ Me'.op = Me.op /\ Me'.name = Me.name /\ Me'.status = Me.status /\ Me'.start = Me.start

LEMMA Drive ==
    ASSUME KInv, HInv', Revises,
           \A r \in recovery' : r \in recovery \/ r.at.head >= Me.start,
           \A n \in Names : staging'[n] = staging[n] \/ (n = Me.name /\ Me.op # "rm"),
           IdsInv', pc \in UndoPcs => pc' \in UndoPcs /\ HEAD' = HEAD
    PROVE  Others
<1>1. Pending = {self} /\ self = Len(txns) /\ self \in DOMAIN txns /\ Me.status = "open"
  BY Only DEF Revises
<1>2. LeftInv' /\ ReclaimInv'
  BY Parts DEF Revises, LeftInv, ReclaimInv
<1>3. ReadyInv'
  BY Parts DEF Revises, ReadyInv, Early
<1>4. Len(txns') = Len(txns) /\ txns # <<>> /\ txns' # <<>>
  <2>1. txns \in Seq(Txn) /\ txns' \in Seq(Txn)
    BY DEF KInv, HInv, TInv, JournalTyped
  <2> QED BY <1>1, <2>1 DEF Revises
<1>5. Pending' = {self} /\ txns'[self].start = txns[self].start
  <2>1. txns'[self].status = "open" /\ txns'[self].start = txns[self].start
    BY <1>1 DEF Revises, Me
  <2> QED BY <1>1, <2>1 DEF Revises, Pending
<1>6. LastInv' /\ SettledInv'
  BY <1>1, <1>4, <1>5 DEF LastInv, SettledInv
<1>7. RecoveryInv'
  <2> SUFFICES ASSUME NEW r \in recovery'
               PROVE  (PutAside(r) \/ \E i \in Pending : r.at.head >= txns[i].start)'
    BY DEF RecoveryInv
  <2>1. CASE r.at.head >= Me.start
    BY <1>1, <1>5, <2>1 DEF Me
  <2>2. CASE r \in recovery /\ ~(r.at.head >= Me.start)
    <3>1. PutAside(r)
      BY <1>1, <2>2 DEF KInv, RecoveryInv, Me
    <3>2. PICK i \in DOMAIN txns : /\ txns[i].status = "done" /\ txns[i].op = "rm"
               /\ r.at = RemovedName(txns[i]) /\ Removable(r.tree, txns[i].payload)
      BY <3>1 DEF PutAside
    <3>3. i # self /\ txns'[i] = txns[i] /\ i \in DOMAIN txns'
      BY <1>1, <3>2 DEF Revises, Me
    <3>4. RemovedName(txns'[i]) = RemovedName(txns[i])
      BY <3>3
    <3> QED BY <3>2, <3>3, <3>4 DEF PutAside, RemovedName, Removable
  <2> QED BY <2>1, <2>2
<1>8. StagingInv'
  <2> SUFFICES ASSUME NEW n \in Names, Present(staging'[n])
               PROVE  (Replaced(n) \/ \E i \in Pending : txns[i].op # "rm" /\ txns[i].name = n)'
    BY DEF StagingInv, Present, NoTree
  <2>1. CASE n = Me.name /\ Me.op # "rm"
    BY <1>1, <1>5, <2>1 DEF Revises, Me
  <2>2. CASE staging'[n] = staging[n] /\ ~(n = Me.name /\ Me.op # "rm")
    <3>1. Replaced(n)
      BY <1>1, <2>2 DEF KInv, StagingInv, Me, Present, NoTree
    <3>2. PICK i \in DOMAIN txns :
            /\ txns[i].op = "update" /\ txns[i].name = n /\ Removable(staging[n], txns[i].prev)
            /\ \/ txns[i].status = "done"
               \/ \E j \in i + 1 .. Len(txns) : txns[j].op = "rm" /\ txns[j].name = n
      BY <3>1 DEF Replaced
    <3>3. i # self /\ txns'[i] = txns[i] /\ i \in DOMAIN txns'
      BY <1>1, <2>2, <3>2 DEF Revises, Me
    <3>4. i \in Nat /\ DOMAIN txns = 1 .. Len(txns)
      BY DEF KInv, HInv, TInv, JournalTyped
    <3>5. \A j \in i + 1 .. Len(txns) : txns'[j].op = txns[j].op /\ txns'[j].name = txns[j].name
      BY <3>4 DEF Revises, Me
    <3> QED BY <1>4, <2>2, <3>2, <3>3, <3>5 DEF Replaced, Removable
  <2> QED BY <2>1, <2>2
<1>9. AbortInv'
  <2>1. mode = "abort" => pc' \in UndoPcs /\ HEAD' = HEAD
    BY Parts DEF KInv, AbortInv, Revises
  <2>2. last # "rolled back"
    BY Parts DEF KInv, AbortInv, Revises
  <2>3. mode = "abort" => Aborting'
    BY <1>1, <1>4, <1>5, <2>1 DEF KInv, AbortInv, Aborting
  <2> QED BY <2>1, <2>2, <2>3 DEF AbortInv, Revises
<1>10. OutcomeInv'
  BY DEF KInv, OutcomeInv, Revises
<1> QED BY <1>2, <1>3, <1>6, <1>7, <1>8, <1>9, <1>10 DEF Others

(* A step that writes the record only, one that moves trees only, and one  *)
(* that writes fu.yaml only.                                               *)
LEMMA Logs ==
    ASSUME KInv, HInv', pc \in Drives, pc' \in Drives, NEW r, WriteTxn(r),
           UNCHANGED <<disk, commits, nextId, self, mode, last>>,
           r.op = Me.op, r.name = Me.name, r.status = Me.status, r.start = Me.start,
           r.before = Me.before, pc \in UndoPcs => pc' \in UndoPcs
    PROVE  Others /\ Me' = r /\ r \in Txn /\ Base(Me)' /\ (Uncommitted(Me) => Uncommitted(Me)')
<1>1. Me' = r /\ r \in Txn /\ Me \in Txn
  BY Parts, Wrote DEF KInv, HInv
<1>2. Revises
  BY <1>1, Only DEF Revises, WriteTxn
<1>3. IdsInv'
  BY DEF KInv, IdsInv, disk
<1>4. Others
  BY <1>2, <1>3, Drive, FrameBranch DEF disk
<1>5. Base(Me)'
  <2>1. Base(r)
    BY DEF KInv, DriveInv, Base
  <2> QED BY <1>1, <2>1, FrameBranch DEF disk
<1>6. Uncommitted(Me) => Uncommitted(Me)'
  BY <1>1 DEF Uncommitted, HEAD
<1> QED BY <1>1, <1>4, <1>5, <1>6

LEMMA Moves ==
    ASSUME KInv, HInv', pc \in Drives, pc' \in Drives,
           UNCHANGED <<txns, commits, self, mode, last>>,
           \A r \in recovery' : r \in recovery \/ r.at.head >= Me.start,
           \A n \in Names : staging'[n] = staging[n] \/ (n = Me.name /\ Me.op # "rm"),
           \A n \in Names : skills'[n] = skills[n] \/ n = Me.name,
           IdsInv', pc \in UndoPcs => pc' \in UndoPcs
    PROVE  Others /\ Me' = Me /\ Base(Me)' /\ (Uncommitted(Me)' <=> Uncommitted(Me))
<1>1. Me' = Me
  BY DEF Me
<1>2. Revises
  BY <1>1 DEF Revises
<1>3. Others
  BY <1>2, Drive, FrameBranch
<1>4. Base(Me)'
  BY <1>1 DEF KInv, DriveInv, Base
<1>5. Uncommitted(Me)' <=> Uncommitted(Me)
  BY <1>1 DEF Uncommitted, HEAD
<1> QED BY <1>1, <1>3, <1>4, <1>5

LEMMA MovesNothing ==
    ASSUME KInv, HInv', pc \in Drives, pc' \in Drives,
           UNCHANGED <<skills, staging, private, recovery, archive, nextId>>,
           UNCHANGED <<txns, commits, self, mode, last>>, pc \in UndoPcs => pc' \in UndoPcs
    PROVE  Others /\ Me' = Me /\ Base(Me)' /\ (Uncommitted(Me)' <=> Uncommitted(Me))
<1>1. IdsInv'
  BY DEF KInv, IdsInv
<1> QED BY <1>1, Moves

(* What the process then has to know.                                      *)
LEMMA InCommand ==
    ASSUME KInv, HInv', Others, Base(Me)', pc' \in CommandPcs,
           pc' # "clear" => Uncommitted(Me)', CommandAt(Me)'
    PROVE  KInv'
<1>1. UndoAt(Me)'
  BY Parts DEF UndoAt, UndoPcs, CommandPcs
<1>2. FinishAt(Me)'
  BY DEF FinishAt, CommandPcs
<1>3. pc' \in Precommit => pc' # "clear"
  BY DEF Precommit, Working, UndoPcs
<1> QED BY <1>1, <1>2, <1>3 DEF KInv, Others, DriveInv

LEMMA InUndo ==
    ASSUME KInv, HInv', Others, Base(Me)', pc' \in UndoPcs,
           pc' # "undo-clear" => Uncommitted(Me)', UndoAt(Me)'
    PROVE  KInv'
<1>1. CommandAt(Me)'
  BY DEF CommandAt, UndoPcs, Prepared
<1>2. FinishAt(Me)'
  BY DEF FinishAt, UndoPcs
<1>3. pc' \in Precommit => pc' # "undo-clear"
  BY DEF Precommit, Working, UndoPcs, CommandPcs
<1> QED BY <1>1, <1>2, <1>3 DEF KInv, Others, DriveInv

LEMMA InFinish ==
    ASSUME KInv, HInv', Others, Base(Me)', pc' \in FinishPcs, FinishAt(Me)'
    PROVE  KInv'
<1>1. CommandAt(Me)'
  BY DEF CommandAt, FinishPcs, Prepared
<1>2. UndoAt(Me)'
  BY DEF UndoAt, FinishPcs, UndoPcs
<1>3. pc' \notin Precommit
  BY DEF Precommit, Working, FinishPcs, UndoPcs, CommandPcs
<1> QED BY <1>1, <1>2, <1>3 DEF KInv, Others, DriveInv

(* A process that drives nothing any more.                                 *)
LEMMA NotDriving ==
    ASSUME pc' \notin Drives PROVE DriveInv'
<1>1. pc' \notin Precommit
  BY Parts
<1>2. CommandAt(Me)'
  BY DEF CommandAt, Drives, Driving, CommandPcs, Early, Prepared
<1>3. UndoAt(Me)'
  BY DEF UndoAt, Drives, Driving, UndoPcs
<1>4. FinishAt(Me)'
  BY DEF FinishAt, Drives, Driving, FinishPcs
<1> QED BY <1>1, <1>2, <1>3, <1>4 DEF DriveInv

--------------------------------------------------------------------------------
(* Wherever the process dies, recovery finds what it can work from.        *)
LEMMA Unbegun ==
    ASSUME KInv, pc \in Drives, Untouched(Me), Uncommitted(Me)
    PROVE  Unfinished(Me)
<1>1. Me \in Txn /\ (Me.op = "install" <=> Me.before.reg[Me.name] = NONE)
  BY Only
<1>2. Me.op \in {"install", "rm", "update"} /\ Me.name \in Names
  BY <1>1 DEF Txn
<1>3. CASE Me.op = "install"
  <2>1. skills[Me.name] = NoTree
    BY <1>1, <1>2, <1>3, TreeParts DEF Untouched, KInv, HInv, TInv, DiskTyped
  <2> QED BY <1>3, <2>1 DEF Untouched, Unfinished, LeftInstall, Copies, Staged
<1> QED BY <1>2, <1>3 DEF Unfinished, LeftUpdate, LeftRemove

LEMMA HalfDone ==
    ASSUME KInv, pc \in Drives, Uncommitted(Me)
    PROVE  /\ Copies(Me) /\ Staged(Me) => Unfinished(Me)
           /\ config = Me.before /\ Whole(Me) /\ Me.op = "rm" => Unfinished(Me)
           /\ (Ready(Me) \/ Published(Me)) /\ Onward(Me) /\ Known(Me) => Unfinished(Me)
           /\ /\ Ready(Me) /\ config = Me.before
              /\ IF Me.op = "install" THEN Me.stage = "started" ELSE Onward(Me)
              => Unfinished(Me)
<1>1. Me.op \in {"install", "rm", "update"}
  BY Only DEF Txn
<1>2. Copies(Me) /\ Staged(Me) => Unfinished(Me)
  BY DEF Copies, Unfinished, LeftInstall, LeftUpdate
<1>3. ASSUME Ready(Me) \/ Published(Me), Known(Me),
             IF Me.op = "install"
             THEN Me.stage \in Forward \/ (Me.stage = "started" /\ config = Me.before)
             ELSE Onward(Me)
      PROVE  Unfinished(Me)
  <2>1. CASE Me.op = "install"
    BY <1>3, <2>1 DEF Ready, Published, Unfinished, LeftInstall
  <2>2. CASE Me.op = "rm"
    BY <1>3, <2>2 DEF Ready, Published, Unfinished, LeftRemove
  <2>3. CASE Me.op = "update"
    <3>1. Ready(Me) => Removable(staging[Me.name], Me.payload)
      BY <2>3 DEF Ready, Unexchanged, Replaces, Full, Removable, Tree, Present, NoTree
    <3> QED BY <1>3, <2>3, <3>1 DEF Ready, Published, Unfinished, LeftUpdate, Onward
  <2> QED BY <1>1, <2>1, <2>2, <2>3
<1>4. config = Me.before /\ Whole(Me) /\ Me.op = "rm" => Unfinished(Me)
  BY DEF Known, Unfinished, LeftRemove
<1> QED BY <1>2, <1>3, <1>4 DEF Onward, Known

LEMMA Leaves == KInv /\ pc \in Drives => Recoverable(Me)
<1> SUFFICES ASSUME KInv, pc \in Drives PROVE Recoverable(Me)
  OBVIOUS
<1>1. Base(Me) /\ CommandAt(Me) /\ UndoAt(Me) /\ FinishAt(Me)
  BY DEF KInv, DriveInv
<1>2. pc \in Precommit => Uncommitted(Me)
  BY DEF KInv, DriveInv
<1>3. SUFFICES Unfinished(Me) \/ Finished(Me) \/ Reverting(Me) \/ Reverted(Me)
  BY <1>1 DEF Recoverable
<1>4. CASE pc \in {"mutate", "log-snapshot"}
  BY <1>1, <1>2, <1>4, Unbegun DEF CommandAt, Precommit, Working, CommandPcs, Early
<1>5. CASE pc \in {"quarantine", "log-quarantined"}
  <2>1. Uncommitted(Me) /\ Me.op = "rm" /\ config = Me.before
    BY <1>1, <1>2, <1>5 DEF CommandAt, Precommit, Working, CommandPcs, Early, KInv, HInv, MineInv
  <2> QED BY <1>1, <1>5, <2>1 DEF CommandAt, Known, Unfinished, LeftRemove
<1>6. CASE pc \in {"reserve", "log-reserved", "publish-root", "log-root", "copy", "fill",
                   "log-copied"}
  <2>1. Uncommitted(Me)
    BY <1>2, <1>6 DEF Precommit, Working, CommandPcs, Early
  <2>2. Copies(Me)
    BY <1>1, <1>6 DEF CommandAt
  <2>3. Staged(Me)
    <3>1. CASE pc \in {"reserve", "log-reserved"}
      BY <1>1, <3>1 DEF CommandAt, Staged
    <3>2. CASE pc \in {"publish-root", "log-root"}
      BY <1>1, <3>2 DEF CommandAt, Staged
    <3>3. CASE pc \in {"copy", "fill", "log-copied"}
      BY <1>1, <3>3 DEF CommandAt, Staged, Filling, Tree, Torn
    <3> QED BY <1>6, <3>1, <3>2, <3>3
  <2> QED BY <2>1, <2>2, <2>3, HalfDone
<1>7. CASE pc \in {"log-prepared", "save", "log-saved", "publish", "log-exchanged",
                   "log-published", "prepare"} \cup Prepared
  <2>1. Uncommitted(Me)
    BY <1>2, <1>7 DEF Precommit, Working, CommandPcs, Early, Prepared
  <2>2. CASE pc = "log-prepared"
    BY <1>1, <2>1, <2>2, HalfDone DEF CommandAt, Onward
  <2>3. CASE pc \in {"save", "log-saved", "publish"}
    BY <1>1, <2>1, <2>3, HalfDone DEF CommandAt, Known
  <2>4. CASE pc \in {"log-exchanged", "log-published", "prepare"} \cup Prepared
    BY <1>1, <2>1, <2>4, HalfDone DEF CommandAt, Known
  <2> QED BY <1>7, <2>2, <2>3, <2>4
<1>8. CASE pc = "clear"
  <2>1. /\ Published(Me) /\ Onward(Me) /\ config = ExpectedConfig(Me)
        /\ Uncommitted(Me) \/ Committed(Me)
    BY <1>1, <1>8 DEF CommandAt
  <2> QED BY <2>1, HalfDone DEF Known, Finished
<1>9. CASE pc \in UndoPcs
  <2>1. CASE pc = "undo-clear"
    BY <1>1, <2>1 DEF UndoAt
  <2>2. CASE pc # "undo-clear"
    <3>1. Uncommitted(Me)
      BY <1>2, <1>9, <2>2 DEF Precommit
    <3>2. CASE pc \in {"undo-root", "undo-config"}
      BY <1>1, <3>2 DEF UndoAt
    <3>3. CASE pc = "undo-log-root"
      BY <1>1, <3>1, <3>3, HalfDone DEF UndoAt
    <3>4. CASE pc \in {"undo-entries", "undo-quarantine", "undo-archive"}
      BY <1>1, <3>1, <3>4 DEF UndoAt, Unfinished
    <3>5. CASE pc \in {"undo-restore", "undo-exchange", "undo-discard"}
      BY <1>1, <3>1, <3>5 DEF UndoAt, Unfinished
    <3> QED BY <1>9, <2>2, <3>2, <3>3, <3>4, <3>5 DEF UndoPcs
  <2> QED BY <2>1, <2>2
<1>10. CASE pc \in FinishPcs
  BY <1>1, <1>10 DEF FinishAt, FinishPcs, Drives
<1> QED BY <1>4, <1>5, <1>6, <1>7, <1>8, <1>9, <1>10, Parts DEF CommandPcs, Early, Prepared

(* A process that gives up: what it drove is left to recovery.             *)
LEMMA GivesUp ==
    ASSUME KInv, HInv', UNCHANGED <<disk, commits, txns, nextId>>, pc' \in {"idle", "recover"},
           AbortInv', OutcomeInv'
    PROVE  KInv'
<1>1. LeftInv'
  <2>1. \A i \in Pending : Recoverable(txns[i])
    BY Leaves, Only DEF KInv, LeftInv, Me
  <2>2. Pending' = Pending
    BY DEF Pending
  <2> QED BY <2>1, <2>2, Frame DEF LeftInv
<1>2. DriveInv' /\ ReclaimInv' /\ ReadyInv'
  BY NotDriving, Parts DEF ReclaimInv, ReadyInv
<1>3. LastInv' /\ IdsInv' /\ RecoveryInv'
  BY DEF disk, KInv, LastInv, IdsInv, RecoveryInv, PutAside, Pending
<1>4. StagingInv'
  BY DEF disk, KInv, StagingInv, Replaced, Pending
<1>5. SettledInv'
  BY DEF disk, KInv, SettledInv, Settled, Since, HEAD, HeadSnap, Pending
<1> QED BY <1>1, <1>2, <1>3, <1>4, <1>5 DEF KInv

LEMMA CrashSafe == KInv /\ HInv' /\ Crash => KInv'
<1> SUFFICES ASSUME KInv, HInv', Crash PROVE KInv'
  OBVIOUS
<1>1. /\ UNCHANGED <<disk, commits, txns, nextId>>
      /\ pc' = "idle" /\ mode' = "command" /\ last' = "crashed"
  BY DEF Crash, Exit
<1>2. AbortInv' /\ OutcomeInv'
  BY <1>1 DEF AbortInv, OutcomeInv
<1> QED BY <1>1, <1>2, GivesUp

(* An abort happens before the commit.                                     *)
LEMMA AbortsKeep ==
    ASSUME KInv, HInv', UNCHANGED <<disk, commits, txns, nextId, last>>, pc \in Working,
           pc' = "recover", mode' = "abort"
    PROVE  KInv'
<1>1. Uncommitted(Me) /\ Me = txns[Len(txns)] /\ self \in DOMAIN txns /\ pc # "idle"
  BY Only, Parts DEF KInv, DriveInv, Me
<1>2. AbortInv'
  <2>1. Aborting
    BY <1>1 DEF Aborting, Uncommitted
  <2>2. Aborting'
    BY <2>1 DEF Aborting, HEAD
  <2>3. last' # "rolled back"
    BY <1>1 DEF KInv, AbortInv
  <2> QED BY <2>2, <2>3 DEF AbortInv
<1>3. OutcomeInv'
  BY DEF KInv, OutcomeInv
<1> QED BY <1>2, <1>3, GivesUp

LEMMA AbortSafe == KInv /\ HInv' /\ pc \in Working /\ Abort => KInv'
BY AbortsKeep DEF Abort, Goto

LEMMA FailSafe == KInv /\ HInv' /\ Fail => KInv'
<1>1. MutatingPcs \subseteq Working
  BY DEF MutatingPcs, Working, CommandPcs, Early
<1> QED BY <1>1, AbortsKeep DEF Fail, Goto

LEMMA ConflictSafe == KInv /\ HInv' /\ TornCopies /\ Conflict => KInv'
<1> SUFFICES ASSUME KInv, HInv', TornCopies, Conflict PROVE KInv'
  OBVIOUS
<1>1. /\ UNCHANGED <<disk, commits, txns, nextId>>
      /\ pc' = "idle" /\ mode' = "command" /\ last' = "conflict"
  BY DEF Conflict, Exit
<1>2. AbortInv' /\ OutcomeInv'
  BY <1>1 DEF AbortInv, OutcomeInv
<1> QED BY <1>1, <1>2, GivesUp

--------------------------------------------------------------------------------
(* The steps of a command, one by one.  They start a record,               *)
LEMMA StartSafe == KInv /\ HInv' /\ StartTxn => KInv'
<1> SUFFICES ASSUME KInv, HInv', StartTxn PROVE KInv'
  OBVIOUS
<1>1. pc = "start" /\ pc' = "mutate" /\ self' = Len(txns) + 1
      /\ UNCHANGED <<disk, commits, nextId, cmd, mode, seen, last>>
  BY DEF StartTxn, Goto
<1>2. PICK r : /\ r = [op |-> cmd.op, name |-> cmd.name, status |-> "open", stage |-> "started",
                       start |-> HEAD, before |-> seen, resv |-> NoTree, declared |-> NONE,
                       payload |-> NoTree, prev |-> NoTree, ctree |-> {}, comp |-> {}]
               /\ txns' = Append(txns, r)
  BY DEF StartTxn
<1>3. Pending = {} /\ txns \in Seq(Txn) /\ commits \in Seq(Commit) /\ commits # <<>>
      /\ skills \in [Names -> TreeOrNone]
  BY <1>1 DEF KInv, HInv, OInv, Early, TInv, JournalTyped, BranchTyped, DiskTyped
<1>4. Me' = r /\ Len(txns') = Len(txns) + 1 /\ DOMAIN txns = 1 .. Len(txns)
      /\ DOMAIN txns' = 1 .. Len(txns) + 1 /\ \A i \in DOMAIN txns : txns'[i] = txns[i]
  BY <1>1, <1>2, <1>3 DEF Me
<1>5. Pending' = {self'}
  BY <1>1, <1>2, <1>3, <1>4 DEF Pending, Me
<1>6. Settled /\ Since(HEAD) = {} /\ seen = config
  BY <1>1, <1>3 DEF KInv, SettledInv, ReadyInv
<1>7. r.op = cmd.op /\ r.name = cmd.name /\ r.start = HEAD /\ r.before = config
      /\ r.stage = "started" /\ Blank(r) /\ r.prev = NoTree
  BY <1>2, <1>6 DEF Blank
<1>8. cmd.op \in Write /\ cmd.name \in Names
  BY <1>1 DEF KInv, HInv, TInv, CommandInv, CommandPcs
<1>9. Base(r) /\ Uncommitted(r)
  BY <1>3, <1>6, <1>7 DEF Base, Uncommitted, Settled, HEAD, HeadSnap
<1>10. Untouched(r)
  <2>1. r.op # "rm" => staging[r.name] = NoTree
    BY <1>1, <1>7, <1>8 DEF KInv, ReadyInv, Available, Updatable, Present, Write
  <2> QED BY <1>6, <1>7, <1>8, <2>1 DEF Untouched, Settled
<1>11. Base(Me)' /\ Uncommitted(Me)' /\ CommandAt(Me)'
  <2>1. Base(r)' /\ Uncommitted(r)' /\ Untouched(r)'
    BY <1>1, <1>9, <1>10, Frame, FrameBranch DEF disk
  <2> QED BY <1>1, <1>4, <2>1 DEF CommandAt, Prepared
<1>12. LeftInv' /\ ReclaimInv' /\ ReadyInv'
  BY <1>1, Parts DEF LeftInv, ReclaimInv, ReadyInv, Drives, Driving, CommandPcs, Early
<1>13. LastInv' /\ SettledInv' /\ IdsInv'
  BY <1>1, <1>4, <1>5 DEF LastInv, SettledInv, KInv, IdsInv, disk
<1>14. RecoveryInv'
  BY <1>1, <1>3, <1>4 DEF KInv, RecoveryInv, PutAside, disk
<1>15. StagingInv'
  <2> SUFFICES ASSUME NEW n \in Names, Present(staging[n]) PROVE Replaced(n)'
    BY <1>1 DEF StagingInv, Present, disk
  <2>1. PICK i \in DOMAIN txns :
          /\ txns[i].op = "update" /\ txns[i].name = n /\ Removable(staging[n], txns[i].prev)
          /\ \/ txns[i].status = "done"
             \/ \E j \in i + 1 .. Len(txns) : txns[j].op = "rm" /\ txns[j].name = n
    BY <1>3 DEF KInv, StagingInv, Replaced
  <2>2. \A j \in i + 1 .. Len(txns) : j \in i + 1 .. Len(txns') /\ txns'[j] = txns[j]
    BY <1>3, <1>4
  <2> QED BY <1>1, <1>4, <2>1, <2>2 DEF Replaced, Removable, disk
<1>16. AbortInv' /\ OutcomeInv'
  BY <1>1 DEF KInv, AbortInv, OutcomeInv, UndoPcs
<1>17. pc' \in CommandPcs
  BY <1>1 DEF CommandPcs
<1> QED BY <1>11, <1>12, <1>13, <1>14, <1>15, <1>16, <1>17, InCommand DEF Others

(* check again or take a manifest,                                         *)
LEMMA MutateSafe == KInv /\ HInv' /\ (InstallMutate \/ RemoveMutate \/ UpdateMutate) => KInv'
<1> SUFFICES ASSUME KInv, HInv', InstallMutate \/ RemoveMutate \/ UpdateMutate PROVE KInv'
  OBVIOUS
<1>1. pc = "mutate" /\ pc \in Working /\ pc \in Drives
  BY DEF InstallMutate, RemoveMutate, UpdateMutate, Working, CommandPcs, Early, Drives, Driving
<1>2. CASE Abort
  BY <1>1, <1>2, AbortSafe
<1>3. CASE ~Abort
  <2>1. /\ UNCHANGED <<disk, commits, txns, nextId, cmd, mode, self, seen, last>>
        /\ \/ cmd.op = "install" /\ pc' = "reserve" /\ held' = held
           \/ cmd.op \in {"rm", "update"} /\ pc' = "log-snapshot" /\ held' = skills[cmd.name]
    BY <1>3, Zenon DEF InstallMutate, RemoveMutate, UpdateMutate, OrAbort, Goto, disk, local
  <2>2. pc' \in Drives /\ pc' \in CommandPcs /\ pc \notin UndoPcs
    BY <1>1, <2>1 DEF Drives, Driving, CommandPcs, Early, UndoPcs
  <2>3. Others /\ Me' = Me /\ Base(Me)' /\ Uncommitted(Me)'
    <3>1. Uncommitted(Me)
      BY <1>1, Parts DEF KInv, DriveInv
    <3> QED BY <1>1, <2>1, <2>2, <3>1, MovesNothing DEF disk
  <2>4. Untouched(Me) /\ Me.op = cmd.op /\ Me.name = cmd.name
    BY <1>1 DEF KInv, DriveInv, CommandAt, HInv, MineInv
  <2>5. Untouched(Me)'
    BY <2>1, <2>3, <2>4, Frame
  <2>6. CommandAt(Me)'
    <3>1. CASE cmd.op = "install"
      <4>1. skills[Me.name] = NoTree
        BY <1>1, <2>4, <3>1, Only, TreeParts DEF KInv, HInv, TInv, DiskTyped, Untouched
      <4>2. Copies(Me) /\ Blank(Me) /\ staging[Me.name] = NoTree
        BY <2>4, <3>1, <4>1 DEF Untouched, Copies
      <4>3. Copies(Me)'
        BY <2>1, <2>3, <4>2, Frame
      <4> QED BY <2>1, <2>3, <3>1, <4>2, <4>3 DEF CommandAt, Prepared, Blank, disk
    <3>2. CASE cmd.op \in {"rm", "update"}
      BY <2>1, <2>3, <2>4, <2>5, <3>2 DEF CommandAt, Prepared, disk
    <3> QED BY <2>1, <3>1, <3>2
  <2> QED BY <2>2, <2>3, <2>6, InCommand
<1> QED BY <1>2, <1>3

(* What a command knows between its first revision and its commit.         *)
LEMMA Now ==
    ASSUME KInv, pc \in Working
    PROVE  /\ Uncommitted(Me) /\ Base(Me) /\ CommandAt(Me)
           /\ Me \in Txn /\ Me.status = "open" /\ Me.name \in Names
           /\ Me.op = cmd.op /\ Me.name = cmd.name /\ Me.before = seen
           /\ pc \in Drives /\ pc \notin UndoPcs
           /\ skills \in [Names -> TreeOrNone] /\ staging \in [Names -> TreeOrNone]
<1>1. pc \in Drives /\ pc \in Precommit /\ pc \notin UndoPcs
  BY Parts DEF Working
<1> QED BY <1>1, Only DEF KInv, HInv, MineInv, DriveInv, TInv, DiskTyped

(* What is ready or published does not depend on the stage recorded.       *)
LEMMA SameReady ==
    ASSUME NEW t, NEW r, r.op = t.op, r.name = t.name, r.start = t.start, r.before = t.before,
           r.payload = t.payload, r.resv = t.resv, r.declared = t.declared, r.prev = t.prev
    PROVE  (Ready(r) <=> Ready(t)) /\ (Published(r) <=> Published(t))
<1>1. (Full(r) <=> Full(t)) /\ (InStaging(r) <=> InStaging(t)) /\ (InSkills(r) <=> InSkills(t))
  BY DEF Full, InStaging, InSkills, Placed
<1>2. (Unexchanged(r) <=> Unexchanged(t)) /\ (Exchanged(r) <=> Exchanged(t))
  BY <1>1 DEF Unexchanged, Exchanged, Replaces
<1>3. Taken(r) <=> Taken(t)
  BY DEF Taken, Takes, RemovedName
<1> QED BY <1>1, <1>2, <1>3 DEF Ready, Published

(* record it,                                                              *)
LEMMA RemoveLogSnapshotSafe == KInv /\ HInv' /\ RemoveLogSnapshot => KInv'
<1> SUFFICES ASSUME KInv, HInv', RemoveLogSnapshot PROVE KInv'
  OBVIOUS
<1>1. pc = "log-snapshot" /\ UNCHANGED <<disk, commits, nextId, local, last>>
  BY DEF RemoveLogSnapshot
<1>2. pc' = "quarantine"
  BY DEF RemoveLogSnapshot, Goto
<1>3. PICK r : r = [Me EXCEPT !.payload = held, !.stage = "snapshotted"] /\ WriteTxn(r)
  BY DEF RemoveLogSnapshot
<1>4. pc \in Working /\ pc' \in CommandPcs /\ pc' \in Drives /\ pc' # "clear"
  BY <1>1, <1>2 DEF Working, CommandPcs, Early, Drives, Driving
<1>5. r.payload = held
      /\ r.op = Me.op /\ r.name = Me.name /\ r.status = Me.status /\ r.start = Me.start
      /\ r.before = Me.before
  BY <1>3, <1>4, Now DEF Txn
<1>6. Others /\ Me' = r /\ r \in Txn /\ Base(Me)' /\ Uncommitted(Me)'
  BY <1>1, <1>3, <1>4, <1>5, Now, Logs DEF local
<1>7. config = r.before /\ Whole(r)
  <2>1. Untouched(Me) /\ held = skills[Me.name] /\ Me.op = "rm"
    BY <1>1, <1>4, Now DEF CommandAt, RemoveLogSnapshot
  <2>2. skills[Me.name] \in Tree
    BY <1>4, <2>1, Now, Only, TreeParts DEF Untouched
  <2> QED BY <1>5, <2>1, <2>2, Now, <1>4 DEF Untouched, Whole, Takes, KInv, IdsInv
<1>8. CommandAt(Me)'
  BY <1>1, <1>2, <1>6, <1>7, FrameTrees DEF CommandAt, Prepared, disk
<1> QED BY <1>4, <1>6, <1>8, InCommand

LEMMA UpdateLogSnapshotSafe == KInv /\ HInv' /\ UpdateLogSnapshot => KInv'
<1> SUFFICES ASSUME KInv, HInv', UpdateLogSnapshot PROVE KInv'
  OBVIOUS
<1>1. pc = "log-snapshot" /\ UNCHANGED <<disk, commits, nextId, local, last>>
  BY DEF UpdateLogSnapshot
<1>2. pc' = "reserve"
  BY DEF UpdateLogSnapshot, Goto
<1>3. PICK r : r = [Me EXCEPT !.prev = held, !.stage = "snapshotted"] /\ WriteTxn(r)
  BY DEF UpdateLogSnapshot
<1>4. pc \in Working /\ pc' \in CommandPcs /\ pc' \in Drives /\ pc' # "clear"
  BY <1>1, <1>2 DEF Working, CommandPcs, Early, Drives, Driving
<1>5. r.prev = held /\ r.stage = "snapshotted" /\ r.resv = Me.resv /\ r.declared = Me.declared
      /\ r.payload = Me.payload
      /\ r.op = Me.op /\ r.name = Me.name /\ r.status = Me.status /\ r.start = Me.start
      /\ r.before = Me.before
  BY <1>3, <1>4, Now DEF Txn
<1>6. Others /\ Me' = r /\ r \in Txn /\ Base(Me)' /\ Uncommitted(Me)'
  BY <1>1, <1>3, <1>4, <1>5, Now, Logs DEF local
<1>7. Copies(r) /\ Blank(r) /\ staging[r.name] = NoTree
  <2>1. Untouched(Me) /\ held = skills[Me.name] /\ Me.op = "update"
    BY <1>1, <1>4, Now DEF CommandAt, UpdateLogSnapshot
  <2>2. skills[Me.name] \in Tree
    BY <1>4, <2>1, Now, Only, TreeParts DEF Untouched
  <2> QED BY <1>5, <2>1, <2>2, Now, <1>4 DEF Untouched, Copies, Blank
<1>8. CommandAt(Me)'
  BY <1>1, <1>2, <1>6, <1>7, Frame DEF CommandAt, Prepared, disk, Blank
<1> QED BY <1>4, <1>6, <1>8, InCommand

LEMMA LogReservedSafe == KInv /\ HInv' /\ LogReserved => KInv'
<1> SUFFICES ASSUME KInv, HInv', LogReserved PROVE KInv'
  OBVIOUS
<1>1. pc = "log-reserved" /\ UNCHANGED <<disk, commits, nextId, local, last>>
  BY DEF LogReserved
<1>2. pc' = "publish-root"
  BY DEF LogReserved, Goto
<1>3. PICK r : r = [Me EXCEPT !.resv = held, !.declared = cmd.c] /\ WriteTxn(r)
  BY DEF LogReserved
<1>4. pc \in Working /\ pc' \in CommandPcs /\ pc' \in Drives /\ pc' # "clear"
  BY <1>1, <1>2 DEF Working, CommandPcs, Early, Drives, Driving
<1>5. r.resv = held /\ r.declared = cmd.c /\ r.prev = Me.prev /\ r.stage = Me.stage
      /\ r.payload = Me.payload
      /\ r.op = Me.op /\ r.name = Me.name /\ r.status = Me.status /\ r.start = Me.start
      /\ r.before = Me.before
  BY <1>3, <1>4, Now DEF Txn
<1>6. Others /\ Me' = r /\ r \in Txn /\ Base(Me)' /\ Uncommitted(Me)'
  BY <1>1, <1>3, <1>4, <1>5, Now, Logs DEF local
<1>7. Copies(r) /\ Claiming(r) /\ New(r, held) /\ r.resv = held /\ held \in private
      /\ staging[r.name] = NoTree /\ r.declared = cmd.c
  <2>1. /\ Copies(Me) /\ Blank(Me) /\ staging[Me.name] = NoTree /\ New(Me, held)
        /\ held.c = EMPTY /\ held \in private
    BY <1>1, <1>4, Now DEF CommandAt
  <2>2. cmd.c \in Upstream
    BY <1>1 DEF KInv, HInv, TInv, CommandInv, Staging
  <2> QED BY <1>5, <2>1, <2>2 DEF Copies, Blank, Claiming, New
<1>8. CommandAt(Me)'
  BY <1>1, <1>2, <1>6, <1>7, Frame, FrameTrees DEF CommandAt, Prepared, disk, Claiming, local
<1> QED BY <1>4, <1>6, <1>8, InCommand

LEMMA LogRootSafe == KInv /\ HInv' /\ LogRoot => KInv'
<1> SUFFICES ASSUME KInv, HInv', LogRoot PROVE KInv'
  OBVIOUS
<1>1. pc = "log-root" /\ UNCHANGED <<disk, commits, nextId, local, last>>
  BY DEF LogRoot
<1>2. pc' = "copy"
  BY DEF LogRoot, Goto
<1>3. PICK r : r = [Me EXCEPT !.resv = NoTree, !.payload = held] /\ WriteTxn(r)
  BY DEF LogRoot
<1>4. pc \in Working /\ pc' \in CommandPcs /\ pc' \in Drives /\ pc' # "clear"
  BY <1>1, <1>2 DEF Working, CommandPcs, Early, Drives, Driving
<1>5. r.resv = NoTree /\ r.declared = Me.declared /\ r.prev = Me.prev /\ r.stage = Me.stage
      /\ r.payload = held
      /\ r.op = Me.op /\ r.name = Me.name /\ r.status = Me.status /\ r.start = Me.start
      /\ r.before = Me.before
  BY <1>3, <1>4, Now DEF Txn
<1>6. Others /\ Me' = r /\ r \in Txn /\ Base(Me)' /\ Uncommitted(Me)'
  BY <1>1, <1>3, <1>4, <1>5, Now, Logs DEF local
<1>7. Copies(r) /\ Filling(r) /\ New(r, r.payload) /\ r.declared = cmd.c /\ held = r.payload
      /\ staging[r.name] = held
  <2>1. /\ Copies(Me) /\ Claiming(Me) /\ staging[Me.name] = held /\ New(Me, held)
        /\ Me.resv = held /\ Me.declared = cmd.c
    BY <1>1, <1>4, Now DEF CommandAt
  <2> QED BY <1>5, <2>1 DEF Copies, Filling, Claiming, New
<1>8. CommandAt(Me)'
  BY <1>1, <1>2, <1>6, <1>7, Frame, FrameTrees DEF CommandAt, Prepared, disk, Filling, local
<1> QED BY <1>4, <1>6, <1>8, InCommand

LEMMA InstallLogCopiedSafe == KInv /\ HInv' /\ InstallLogCopied => KInv'
<1> SUFFICES ASSUME KInv, HInv', InstallLogCopied PROVE KInv'
  OBVIOUS
<1>1. pc = "log-copied" /\ UNCHANGED <<disk, commits, nextId, local, last>>
  BY DEF InstallLogCopied
<1>2. pc' = "log-prepared"
  BY DEF InstallLogCopied, Goto
<1>3. PICK r : r = [Me EXCEPT !.payload = held, !.declared = NONE] /\ WriteTxn(r)
  BY DEF InstallLogCopied
<1>4. pc \in Working /\ pc' \in CommandPcs /\ pc' \in Drives /\ pc' # "clear"
  BY <1>1, <1>2 DEF Working, CommandPcs, Early, Drives, Driving
<1>5. r.resv = Me.resv /\ r.declared = NONE /\ r.prev = Me.prev /\ r.stage = Me.stage
      /\ r.payload = held
      /\ r.op = Me.op /\ r.name = Me.name /\ r.status = Me.status /\ r.start = Me.start
      /\ r.before = Me.before
  BY <1>3, <1>4, Now DEF Txn
<1>6. Others /\ Me' = r /\ r \in Txn /\ Base(Me)' /\ Uncommitted(Me)'
  BY <1>1, <1>3, <1>4, <1>5, Now, Logs DEF local
<1>7. config = r.before /\ Ready(r) /\ held = r.payload /\ r.op = "install" /\ r.stage = "started"
  <2>1. /\ Copies(Me) /\ Filling(Me) /\ staging[Me.name] = held /\ New(Me, Me.payload)
        /\ held.id = Me.payload.id /\ Me.op = "install"
    BY <1>1, <1>4, Now DEF CommandAt, InstallLogCopied
  <2>2. held \in Tree /\ held.id < nextId /\ Archived(held) = {}
    BY <1>4, <2>1, Now, TreeParts DEF New, Archived, Filling, Tree, NoTree, Present, TreeOrNone
  <2> QED BY <1>5, <2>1, <2>2 DEF Copies, Filling, Ready, Full, New, InStaging, Placed
<1>8. CommandAt(Me)'
  BY <1>1, <1>2, <1>5, <1>6, <1>7, FrameTrees DEF CommandAt, Prepared, disk, local, PastStaging
<1> QED BY <1>4, <1>6, <1>8, InCommand

LEMMA UpdateLogCopiedSafe == KInv /\ HInv' /\ UpdateLogCopied => KInv'
<1> SUFFICES ASSUME KInv, HInv', UpdateLogCopied PROVE KInv'
  OBVIOUS
<1>1. pc = "log-copied" /\ UNCHANGED <<disk, commits, nextId, local, last>>
  BY DEF UpdateLogCopied
<1>2. pc' = "log-prepared"
  BY DEF UpdateLogCopied, Goto
<1>3. PICK r : /\ r = [Me EXCEPT !.payload = held, !.declared = NONE, !.stage = "staged"]
               /\ WriteTxn(r)
  BY DEF UpdateLogCopied
<1>4. pc \in Working /\ pc' \in CommandPcs /\ pc' \in Drives /\ pc' # "clear"
  BY <1>1, <1>2 DEF Working, CommandPcs, Early, Drives, Driving
<1>5. r.resv = Me.resv /\ r.declared = NONE /\ r.prev = Me.prev /\ r.stage = "staged"
      /\ r.payload = held
      /\ r.op = Me.op /\ r.name = Me.name /\ r.status = Me.status /\ r.start = Me.start
      /\ r.before = Me.before
  BY <1>3, <1>4, Now DEF Txn
<1>6. Others /\ Me' = r /\ r \in Txn /\ Base(Me)' /\ Uncommitted(Me)'
  BY <1>1, <1>3, <1>4, <1>5, Now, Logs DEF local
<1>7. config = r.before /\ Ready(r) /\ held = r.payload /\ r.op = "update"
  <2>1. /\ Copies(Me) /\ Filling(Me) /\ staging[Me.name] = held /\ New(Me, Me.payload)
        /\ held.id = Me.payload.id /\ Me.op = "update"
    BY <1>1, <1>4, Now DEF CommandAt, UpdateLogCopied
  <2>2. held \in Tree /\ held.id < nextId /\ Archived(held) = {}
    BY <1>4, <2>1, Now, TreeParts DEF New, Archived, Filling, Tree, NoTree, Present, TreeOrNone
  <2>3. /\ Since(r.start) = {} /\ skills[r.name] = r.prev /\ r.prev \in Tree
        /\ r.prev.c = r.before.reg[r.name] /\ config = r.before
    BY <1>5, <2>1 DEF Copies
  <2>4. r.prev.id < nextId /\ r.payload.id # r.prev.id
    BY <1>4, <1>5, <2>1, <2>3, Now DEF New, KInv, IdsInv
  <2>5. Unexchanged(r)
    BY <1>5, <2>1, <2>2, <2>3, <2>4 DEF Filling, Unexchanged, Replaces, Full
  <2> QED BY <1>5, <2>1, <2>3, <2>5 DEF Ready
<1>8. CommandAt(Me)'
  BY <1>1, <1>2, <1>5, <1>6, <1>7, FrameTrees DEF CommandAt, Prepared, disk, local, PastStaging
<1> QED BY <1>4, <1>6, <1>8, InCommand

LEMMA RemoveLogQuarantinedSafe == KInv /\ HInv' /\ RemoveLogQuarantined => KInv'
<1> SUFFICES ASSUME KInv, HInv', RemoveLogQuarantined PROVE KInv'
  OBVIOUS
<1>1. pc = "log-quarantined" /\ UNCHANGED <<disk, commits, nextId, local, last>>
  BY DEF RemoveLogQuarantined
<1>2. pc' = "save"
  BY DEF RemoveLogQuarantined, Goto
<1>3. PICK r : r = [Me EXCEPT !.stage = "quarantined"] /\ WriteTxn(r)
  BY DEF RemoveLogQuarantined
<1>4. pc \in Working /\ pc' \in CommandPcs /\ pc' \in Drives /\ pc' # "clear"
  BY <1>1, <1>2 DEF Working, CommandPcs, Early, Drives, Driving
<1>5. r.payload = Me.payload
      /\ r.op = Me.op /\ r.name = Me.name /\ r.status = Me.status /\ r.start = Me.start
      /\ r.before = Me.before
  BY <1>3, <1>4, Now DEF Txn
<1>6. Others /\ Me' = r /\ r \in Txn /\ Base(Me)' /\ Uncommitted(Me)'
  BY <1>1, <1>3, <1>4, <1>5, Now, Logs DEF local
<1>7. config = r.before /\ Ready(r) /\ Onward(r)
  <2>1. Taken(Me) /\ config = Me.before /\ Me.op = "rm"
    BY <1>1, <1>4, Now DEF CommandAt, KInv, HInv, MineInv
  <2> QED BY <1>5, <2>1 DEF Taken, Takes, Ready, Onward, RemovedName
<1>8. CommandAt(Me)'
  BY <1>1, <1>2, <1>6, <1>7, FrameTrees DEF CommandAt, Prepared, disk, Onward, PastStaging
<1> QED BY <1>4, <1>6, <1>8, InCommand

LEMMA LogSavedSafe == KInv /\ HInv' /\ LogSaved => KInv'
<1> SUFFICES ASSUME KInv, HInv', LogSaved PROVE KInv'
  OBVIOUS
<1>1. pc = "log-saved" /\ UNCHANGED <<disk, commits, nextId, local, last>>
  BY DEF LogSaved
<1>2. pc' = IF cmd.op = "rm" THEN "prepare" ELSE "publish"
  BY DEF LogSaved, Goto
<1>3. PICK r : r = [Me EXCEPT !.stage = "config-saved"] /\ WriteTxn(r)
  BY DEF LogSaved
<1>4. pc \in Working /\ pc' \in CommandPcs /\ pc' \in Drives /\ pc' # "clear"
  BY <1>1, <1>2 DEF Working, CommandPcs, Early, Drives, Driving
<1>5. r.payload = Me.payload /\ r.resv = Me.resv /\ r.declared = Me.declared /\ r.prev = Me.prev
      /\ r.stage = "config-saved"
      /\ r.op = Me.op /\ r.name = Me.name /\ r.status = Me.status /\ r.start = Me.start
      /\ r.before = Me.before
  BY <1>3, <1>4, Now DEF Txn
<1>6. Others /\ Me' = r /\ r \in Txn /\ Base(Me)' /\ Uncommitted(Me)'
  BY <1>1, <1>3, <1>4, <1>5, Now, Logs DEF local
<1>7. config = ExpectedConfig(r) /\ Ready(r) /\ Onward(r)
  <2>1. Ready(Me) /\ config = ExpectedConfig(Me)
    BY <1>1, <1>4, Now DEF CommandAt
  <2> QED BY <1>5, <2>1, SameReady DEF Onward, Forward, PastStaging, ExpectedConfig
<1>8. CommandAt(Me)'
  <2>1. Ready(Me)' /\ config' = ExpectedConfig(r) /\ Onward(Me)'
    BY <1>1, <1>6, <1>7, FrameTrees DEF disk, Onward, PastStaging
  <2>2. cmd.op = "rm" => Published(Me)'
    BY <1>4, <1>5, <1>6, <2>1, Now DEF Ready, Published
  <2> QED BY <1>2, <1>6, <2>1, <2>2 DEF CommandAt, Prepared, ExpectedConfig
<1> QED BY <1>4, <1>6, <1>8, InCommand

LEMMA UpdateLogExchangedSafe == KInv /\ HInv' /\ UpdateLogExchanged => KInv'
<1> SUFFICES ASSUME KInv, HInv', UpdateLogExchanged PROVE KInv'
  OBVIOUS
<1>1. pc = "log-exchanged" /\ UNCHANGED <<disk, commits, nextId, local, last>>
  BY DEF UpdateLogExchanged
<1>2. pc' = "log-published"
  BY DEF UpdateLogExchanged, Goto
<1>3. PICK r : r = [Me EXCEPT !.stage = "exchanged"] /\ WriteTxn(r)
  BY DEF UpdateLogExchanged
<1>4. pc \in Working /\ pc' \in CommandPcs /\ pc' \in Drives /\ pc' # "clear"
  BY <1>1, <1>2 DEF Working, CommandPcs, Early, Drives, Driving
<1>5. r.payload = Me.payload /\ r.resv = Me.resv /\ r.declared = Me.declared /\ r.prev = Me.prev
      /\ r.stage = "exchanged"
      /\ r.op = Me.op /\ r.name = Me.name /\ r.status = Me.status /\ r.start = Me.start
      /\ r.before = Me.before
  BY <1>3, <1>4, Now DEF Txn
<1>6. Others /\ Me' = r /\ r \in Txn /\ Base(Me)' /\ Uncommitted(Me)'
  BY <1>1, <1>3, <1>4, <1>5, Now, Logs DEF local
<1>7. config = ExpectedConfig(r) /\ Published(r) /\ Onward(r)
  <2>1. Published(Me) /\ config = ExpectedConfig(Me) /\ Me.op = "update"
    BY <1>1, <1>4, Now DEF CommandAt
  <2> QED BY <1>5, <2>1, SameReady DEF Onward, Forward, PastStaging, ExpectedConfig
<1>8. CommandAt(Me)'
  <2>1. Published(Me)' /\ config' = ExpectedConfig(r) /\ Onward(Me)'
    BY <1>1, <1>6, <1>7, FrameTrees DEF disk, Onward, PastStaging
  <2> QED BY <1>2, <1>6, <1>7, <2>1 DEF CommandAt, Prepared, ExpectedConfig
<1> QED BY <1>4, <1>6, <1>8, InCommand

LEMMA LogPublishedSafe == KInv /\ HInv' /\ LogPublished => KInv'
<1> SUFFICES ASSUME KInv, HInv', LogPublished PROVE KInv'
  OBVIOUS
<1>1. pc = "log-published" /\ UNCHANGED <<disk, commits, nextId, local, last>>
  BY DEF LogPublished
<1>2. pc' = "prepare"
  BY DEF LogPublished, Goto
<1>3. PICK r : r = [Me EXCEPT !.stage = "published"] /\ WriteTxn(r)
  BY DEF LogPublished
<1>4. pc \in Working /\ pc' \in CommandPcs /\ pc' \in Drives /\ pc' # "clear"
  BY <1>1, <1>2 DEF Working, CommandPcs, Early, Drives, Driving
<1>5. r.payload = Me.payload /\ r.resv = Me.resv /\ r.declared = Me.declared /\ r.prev = Me.prev
      /\ r.stage = "published"
      /\ r.op = Me.op /\ r.name = Me.name /\ r.status = Me.status /\ r.start = Me.start
      /\ r.before = Me.before
  BY <1>3, <1>4, Now DEF Txn
<1>6. Others /\ Me' = r /\ r \in Txn /\ Base(Me)' /\ Uncommitted(Me)'
  BY <1>1, <1>3, <1>4, <1>5, Now, Logs DEF local
<1>7. config = ExpectedConfig(r) /\ Published(r) /\ Onward(r)
  <2>1. Published(Me) /\ config = ExpectedConfig(Me)
    BY <1>1, <1>4, Now DEF CommandAt
  <2> QED BY <1>5, <2>1, SameReady DEF Onward, Forward, PastStaging, ExpectedConfig
<1>8. CommandAt(Me)'
  <2>1. Published(Me)' /\ config' = ExpectedConfig(r) /\ Onward(Me)'
    BY <1>1, <1>6, <1>7, FrameTrees DEF disk, Onward, PastStaging
  <2> QED BY <1>2, <1>6, <1>7, <2>1 DEF CommandAt, Prepared, ExpectedConfig
<1> QED BY <1>4, <1>6, <1>8, InCommand

LEMMA LogTreeSafe == KInv /\ HInv' /\ LogTree => KInv'
<1> SUFFICES ASSUME KInv, HInv', LogTree PROVE KInv'
  OBVIOUS
<1>1. pc = "log-tree" /\ UNCHANGED <<disk, commits, nextId, local, last>>
  BY DEF LogTree
<1>2. pc' = "commit"
  BY DEF LogTree, Goto
<1>3. PICK r : r = [Me EXCEPT !.ctree = {p.snap : p \in cand}] /\ WriteTxn(r)
  BY DEF LogTree
<1>4. pc \in Working /\ pc' \in CommandPcs /\ pc' \in Drives /\ pc' # "clear"
  BY <1>1, <1>2 DEF Working, CommandPcs, Early, Drives, Driving
<1>5. r.payload = Me.payload /\ r.resv = Me.resv /\ r.declared = Me.declared /\ r.prev = Me.prev
      /\ r.stage = Me.stage /\ r.ctree = {p.snap : p \in cand}
      /\ r.op = Me.op /\ r.name = Me.name /\ r.status = Me.status /\ r.start = Me.start
      /\ r.before = Me.before
  BY <1>3, <1>4, Now DEF Txn
<1>6. Others /\ Me' = r /\ r \in Txn /\ Base(Me)' /\ Uncommitted(Me)'
  BY <1>1, <1>3, <1>4, <1>5, Now, Logs DEF local
<1>7. /\ config = ExpectedConfig(r) /\ Published(r) /\ Onward(r) /\ r.ctree = {Worktree}
      /\ cand = {[parent |-> HEAD, snap |-> Worktree]}
  <2>1. /\ Published(Me) /\ config = ExpectedConfig(Me) /\ Onward(Me)
        /\ cand = {[parent |-> HEAD, snap |-> Worktree]}
    BY <1>1, <1>4, Now DEF CommandAt, Prepared
  <2>2. r.ctree = {Worktree}
    BY <1>5, <2>1
  <2> QED BY <1>5, <2>1, <2>2, SameReady DEF Onward, PastStaging, ExpectedConfig
<1>8. CommandAt(Me)'
  <2>1. Published(Me)' /\ config' = ExpectedConfig(r) /\ Onward(Me)'
    BY <1>1, <1>6, <1>7, FrameTrees DEF disk, Onward, PastStaging
  <2>2. Worktree' = Worktree /\ HEAD' = HEAD /\ cand' = cand
    BY <1>1 DEF disk, local, Worktree, HEAD
  <2> QED BY <1>2, <1>6, <1>7, <2>1, <2>2 DEF CommandAt, Prepared, ExpectedConfig
<1> QED BY <1>4, <1>6, <1>8, InCommand

--------------------------------------------------------------------------------
(* What a move does to what lies under recovery/.                          *)
LEMMA PutSince ==
    ASSUME NEW h \in Nat, NEW p \in PayloadName, NEW x, p.head >= h, recovery' = Put(recovery, p, x)
    PROVE  /\ Since(h) = {} => Since(h)' = Entry(p, x)
           /\ \A r \in recovery' : r \in recovery \/ r.at.head >= h
<1> DEFINE e == [at |-> p, tree |-> x]
<1>1. recovery' = recovery \cup {e} /\ e.at = p /\ Entry(p, x) = {e}
  BY DEF Put, Entry
<1> HIDE DEF e
<1> QED BY <1>1 DEF Since

LEMMA TakeSince ==
    ASSUME NEW h \in Nat, NEW p, recovery' = Take(recovery, p)
    PROVE  /\ \A x : Since(h) = Entry(p, x) => Since(h)' = {}
           /\ Since(h) = {} => Since(h)' = {}
           /\ recovery' \subseteq recovery
<1>1. \A r : r \in recovery' <=> (r \in recovery /\ r.at # p)
  BY DEF Take
<1>2. \A x : \A r \in Entry(p, x) : r.at = p
  BY DEF Entry
<1> QED BY <1>1, <1>2 DEF Since

(* The steps that move what the transaction owns.                          *)

LEMMA RemoveQuarantineSafe == KInv /\ HInv' /\ RemoveQuarantine => KInv'
<1> SUFFICES ASSUME KInv, HInv', RemoveQuarantine PROVE KInv'
  OBVIOUS
<1>1. pc = "quarantine" /\ pc \in Working
  BY DEF RemoveQuarantine, Working, CommandPcs, Early, Prepared
<1>2. PICK t : t = Me
  OBVIOUS
<1>3. /\ Uncommitted(t) /\ Base(t) /\ CommandAt(t) /\ t \in Txn /\ t.name \in Names
      /\ t.op = cmd.op /\ t.name = cmd.name /\ t.before = seen
      /\ pc \in Drives /\ pc \notin UndoPcs /\ t.start \in Nat
      /\ skills \in [Names -> TreeOrNone] /\ staging \in [Names -> TreeOrNone]
  BY <1>1, <1>2, Now DEF Txn
<1>4. CASE Abort
  BY <1>1, <1>4, AbortSafe
<1>5. CASE ~Abort
  <2>1. /\ pc' = "log-quarantined" /\ UNCHANGED <<config, staging, private, archive>>
        /\ UNCHANGED <<commits, txns, nextId, cmd, mode, self, seen, last>>
        /\ skills' = IF OwnsPayload THEN [skills EXCEPT ![cmd.name] = NoTree] ELSE skills
        /\ recovery' = IF OwnsPayload THEN Put(recovery, RemovedName(t), t.payload) ELSE recovery
    BY <1>1, <1>2, <1>3, <1>5, Zenon DEF RemoveQuarantine, OrAbort, Goto, disk, local
  <2>2. pc' \in Drives /\ pc' \in CommandPcs /\ pc' # "clear"
    BY <2>1 DEF Drives, Driving, CommandPcs, Early
  <2>3. config = t.before /\ Whole(t) /\ t.op = "rm"
    BY <1>1, <1>2, <1>3 DEF CommandAt, KInv, HInv, MineInv
  <2>4. /\ t.payload \in Tree /\ skills' = [skills EXCEPT ![t.name] = NoTree]
        /\ recovery' = Put(recovery, RemovedName(t), t.payload) /\ Since(t.start) = {}
    BY <1>2, <1>3, <2>1, <2>3, Literals DEF Whole, Takes, OwnsPayload, Present
  <2>5. RemovedName(t) \in PayloadName /\ RemovedName(t).head >= t.start
    BY <1>3, NamesTyped, NamesApart
  <2>6. Since(t.start)' = Entry(RemovedName(t), t.payload)
        /\ \A r \in recovery' : r \in recovery \/ r.at.head >= t.start
    BY <1>3, <2>4, <2>5, PutSince
  <2>7. IdsInv'
    BY <2>1, <2>4 DEF KInv, IdsInv, HInv, TInv, DiskTyped, NoTree
  <2>8. Taken(t)'
    BY <1>3, <2>1, <2>3, <2>4, <2>6 DEF Whole, Takes, Taken, RemovedName
  <2>9. Others /\ Me' = t /\ Base(Me)' /\ Uncommitted(Me)'
    BY <1>2, <1>3, <2>1, <2>2, <2>4, <2>6, <2>7, Moves
  <2>10. CommandAt(Me)'
    BY <2>1, <2>3, <2>8, <2>9 DEF CommandAt, Prepared
  <2> QED BY <2>2, <2>9, <2>10, InCommand
<1> QED BY <1>4, <1>5

LEMMA ReserveStagedRootSafe == KInv /\ HInv' /\ ReserveStagedRoot => KInv'
<1> SUFFICES ASSUME KInv, HInv', ReserveStagedRoot PROVE KInv'
  OBVIOUS
<1>1. pc = "reserve" /\ pc \in Working
  BY DEF ReserveStagedRoot, Working, CommandPcs, Early, Prepared
<1>2. PICK t : t = Me
  OBVIOUS
<1>3. /\ Uncommitted(t) /\ Base(t) /\ CommandAt(t) /\ t \in Txn /\ t.name \in Names
      /\ t.op = cmd.op /\ t.name = cmd.name /\ t.before = seen
      /\ pc \in Drives /\ pc \notin UndoPcs /\ t.start \in Nat
      /\ skills \in [Names -> TreeOrNone] /\ staging \in [Names -> TreeOrNone]
  BY <1>1, <1>2, Now DEF Txn
<1>4. /\ pc' = "log-reserved" /\ UNCHANGED <<config, skills, staging, recovery, archive>>
      /\ UNCHANGED <<commits, txns, cmd, mode, self, seen, last>>
      /\ nextId <= MaxId /\ held' = [id |-> nextId, c |-> EMPTY]
      /\ private' = private \cup {held'} /\ nextId' = nextId + 1
  BY <1>1, <1>2, <1>3, Zenon DEF ReserveStagedRoot, Goto, disk, local
<1>5. pc' \in Drives /\ pc' \in CommandPcs /\ pc' # "clear"
  BY <1>4 DEF Drives, Driving, CommandPcs, Early
<1>6. Copies(t) /\ Blank(t) /\ staging[t.name] = NoTree /\ t.op # "rm"
  BY <1>1, <1>2, <1>3 DEF CommandAt, Copies
<1>7. nextId \in 1 .. MaxId /\ nextId' = nextId + 1 /\ held' \in Tree /\ held'.id = nextId
      /\ held'.c = EMPTY
  BY <1>4, Literals, ConstantsAssumption DEF KInv, HInv, TInv, CountersTyped, DiskTyped, Tree
<1>8. IdsInv'
  BY <1>4, <1>7 DEF KInv, IdsInv, HInv, TInv, DiskTyped, Tree, TreeOrNone, NoTree, PayloadDir
<1>9. t.prev.id < nextId
  BY <1>3, <1>6, <1>7 DEF Copies, KInv, IdsInv, NoTree
<1>10. New(t, held)'
  BY <1>4, <1>7, <1>9 DEF New, Archived, KInv, IdsInv, NoTree, HInv, TInv, DiskTyped, Tree,
     PayloadDir
<1>11. Copies(t)'
  BY <1>4, <1>6 DEF Copies, Since
<1>12. Others /\ Me' = t /\ Base(Me)' /\ Uncommitted(Me)'
  BY <1>2, <1>3, <1>4, <1>5, <1>8, Moves
<1>13. CommandAt(Me)'
  BY <1>4, <1>6, <1>7, <1>10, <1>11, <1>12 DEF CommandAt, Prepared, Blank
<1> QED BY <1>5, <1>12, <1>13, InCommand

LEMMA PublishRootSafe == KInv /\ HInv' /\ PublishRoot => KInv'
<1> SUFFICES ASSUME KInv, HInv', PublishRoot PROVE KInv'
  OBVIOUS
<1>1. pc = "publish-root" /\ pc \in Working
  BY DEF PublishRoot, Working, CommandPcs, Early, Prepared
<1>2. PICK t : t = Me
  OBVIOUS
<1>3. /\ Uncommitted(t) /\ Base(t) /\ CommandAt(t) /\ t \in Txn /\ t.name \in Names
      /\ t.op = cmd.op /\ t.name = cmd.name /\ t.before = seen
      /\ pc \in Drives /\ pc \notin UndoPcs /\ t.start \in Nat
      /\ skills \in [Names -> TreeOrNone] /\ staging \in [Names -> TreeOrNone]
  BY <1>1, <1>2, Now DEF Txn
<1>4. CASE Abort
  BY <1>1, <1>4, AbortSafe
<1>5. CASE ~Abort
  <2>1. /\ pc' = "log-root" /\ UNCHANGED <<config, skills, recovery, archive>>
        /\ UNCHANGED <<commits, txns, nextId, cmd, mode, self, held, seen, last>>
        /\ private' = private \ {held} /\ staging' = [staging EXCEPT ![t.name] = held]
    BY <1>1, <1>2, <1>3, <1>5, Zenon DEF PublishRoot, OrAbort, Goto, disk, local
  <2>2. pc' \in Drives /\ pc' \in CommandPcs /\ pc' # "clear"
    BY <2>1 DEF Drives, Driving, CommandPcs, Early
  <2>3. /\ Copies(t) /\ Claiming(t) /\ New(t, held) /\ t.resv = held /\ t.declared = cmd.c
        /\ t.op # "rm"
    BY <1>1, <1>2, <1>3 DEF CommandAt, Copies
  <2>4. \A n \in Names : staging'[n] = staging[n] \/ n = t.name
    BY <1>3, <2>1
  <2>5. staging'[t.name] = held /\ held \notin private'
    BY <1>3, <2>1
  <2>6. IdsInv'
    BY <2>1 DEF KInv, IdsInv
  <2>7. New(t, held)' /\ Claiming(t)'
    BY <2>1, <2>3 DEF New, Archived, Claiming
  <2>8. Copies(t)'
    BY <2>1, <2>3 DEF Copies, Since
  <2>9. Others /\ Me' = t /\ Base(Me)' /\ Uncommitted(Me)'
    BY <1>2, <1>3, <2>1, <2>2, <2>3, <2>4, <2>6, Moves
  <2>10. CommandAt(Me)'
    BY <2>1, <2>3, <2>5, <2>7, <2>8, <2>9 DEF CommandAt, Prepared
  <2> QED BY <2>2, <2>9, <2>10, InCommand
<1> QED BY <1>4, <1>5

LEMMA CopyStagedSafe == KInv /\ HInv' /\ CopyStaged => KInv'
<1> SUFFICES ASSUME KInv, HInv', CopyStaged PROVE KInv'
  OBVIOUS
<1>1. pc \in {"copy", "fill"} /\ pc \in Working
  BY DEF CopyStaged, Working, CommandPcs, Early, Prepared
<1>2. PICK t : t = Me
  OBVIOUS
<1>3. /\ Uncommitted(t) /\ Base(t) /\ CommandAt(t) /\ t \in Txn /\ t.name \in Names
      /\ t.op = cmd.op /\ t.name = cmd.name /\ t.before = seen
      /\ pc \in Drives /\ pc \notin UndoPcs /\ t.start \in Nat
      /\ skills \in [Names -> TreeOrNone] /\ staging \in [Names -> TreeOrNone]
  BY <1>1, <1>2, Now DEF Txn
<1>4. CASE Abort
  BY <1>1, <1>4, AbortSafe
<1>5. CASE ~Abort
  <2>1. \E c \in IF pc = "copy" /\ TornCopies THEN {TORN} ELSE {cmd.c} :
         /\ staging[cmd.name] = [held EXCEPT !.c = IF pc = "copy" THEN EMPTY ELSE TORN]
         /\ staging' = [staging EXCEPT ![cmd.name].c = c]
         /\ pc' = IF c = TORN THEN "fill" ELSE "log-copied"
         /\ held' = IF c = TORN THEN held ELSE [held EXCEPT !.c = c]
         /\ UNCHANGED <<config, skills, private, recovery, archive>>
         /\ UNCHANGED <<commits, txns, nextId, cmd, mode, self, seen, last>>
    BY <1>1, <1>2, <1>3, <1>5, Zenon DEF CopyStaged, OrAbort, Goto, disk, local
  <2>2. PICK c \in IF pc = "copy" /\ TornCopies THEN {TORN} ELSE {cmd.c} :
         /\ staging[cmd.name] = [held EXCEPT !.c = IF pc = "copy" THEN EMPTY ELSE TORN]
         /\ staging' = [staging EXCEPT ![cmd.name].c = c]
         /\ pc' = IF c = TORN THEN "fill" ELSE "log-copied"
         /\ held' = IF c = TORN THEN held ELSE [held EXCEPT !.c = c]
         /\ UNCHANGED <<config, skills, private, recovery, archive>>
         /\ UNCHANGED <<commits, txns, nextId, cmd, mode, self, seen, last>>
    BY <2>1
  <2>3. pc' \in {"fill", "log-copied"} /\ pc' \in Drives /\ pc' \in CommandPcs /\ pc' # "clear"
    BY <2>2 DEF Drives, Driving, CommandPcs, Early
  <2>4. /\ Copies(t) /\ Filling(t) /\ New(t, t.payload) /\ t.declared = cmd.c
        /\ held.id = t.payload.id /\ t.op # "rm" /\ held = t.payload
    BY <1>1, <1>2, <1>3 DEF CommandAt, Copies
  <2>5. cmd.c \in Upstream /\ cmd.c # TORN /\ (c = TORN <=> pc' = "fill") /\ (c # TORN => c = cmd.c)
        /\ (c = TORN => TornCopies)
    BY <2>2, <2>4, ConstantsAssumption DEF Filling
  <2>6. staging'[t.name] = [held EXCEPT !.c = c]
    <3>1. staging'[t.name] = [staging[t.name] EXCEPT !.c = c]
      BY <1>3, <2>2
    <3> QED BY <1>3, <2>2, <2>4, <3>1 DEF Filling, Tree
  <2>7. \A n \in Names : staging'[n] = staging[n] \/ n = t.name
    BY <1>3, <2>2
  <2>8. Copies(t)' /\ Filling(t)' /\ New(t, t.payload)' /\ IdsInv'
    BY <2>2, <2>4 DEF Copies, Since, Filling, New, Archived, KInv, IdsInv
  <2>9. Others /\ Me' = t /\ Base(Me)' /\ Uncommitted(Me)'
    BY <1>2, <1>3, <2>2, <2>3, <2>4, <2>7, <2>8, Moves
  <2>10. /\ held'.id = t.payload.id
         /\ pc' = "fill" => /\ TornCopies /\ held' = t.payload
                            /\ staging'[t.name] = [held' EXCEPT !.c = TORN]
         /\ pc' = "log-copied" => staging'[t.name] = held' /\ held'.c = t.declared
    BY <2>2, <2>4, <2>5, <2>6 DEF Filling, Tree
  <2>11. CommandAt(Me)'
    BY <2>2, <2>3, <2>4, <2>8, <2>9, <2>10 DEF CommandAt, Prepared
  <2> QED BY <2>3, <2>9, <2>11, InCommand
<1> QED BY <1>4, <1>5

LEMMA UpdateValidateStagedSafe == KInv /\ HInv' /\ UpdateValidateStaged => KInv'
<1> SUFFICES ASSUME KInv, HInv', UpdateValidateStaged PROVE KInv'
  OBVIOUS
<1>1. pc = "log-prepared" /\ pc \in Working
  BY DEF UpdateValidateStaged, Working, CommandPcs, Early, Prepared
<1>2. PICK t : t = Me
  OBVIOUS
<1>3. /\ Uncommitted(t) /\ Base(t) /\ CommandAt(t) /\ t \in Txn /\ t.name \in Names
      /\ t.op = cmd.op /\ t.name = cmd.name /\ t.before = seen
      /\ pc \in Drives /\ pc \notin UndoPcs /\ t.start \in Nat
      /\ skills \in [Names -> TreeOrNone] /\ staging \in [Names -> TreeOrNone]
  BY <1>1, <1>2, Now DEF Txn
<1>4. CASE Abort
  BY <1>1, <1>4, AbortSafe
<1>5. CASE ~Abort
  <2>1. /\ pc' = "save" /\ UNCHANGED <<disk, commits, txns, nextId, cmd, mode, self, seen, last>>
    BY <1>1, <1>2, <1>3, <1>5, Zenon DEF UpdateValidateStaged, OrAbort, Goto, disk, local
  <2>2. pc' \in Drives /\ pc' \in CommandPcs /\ pc' # "clear"
    BY <2>1 DEF Drives, Driving, CommandPcs, Early
  <2>3. config = t.before /\ Ready(t) /\ Onward(t)
    BY <1>1, <1>2, <1>3 DEF CommandAt, Onward, UpdateValidateStaged
  <2>4. Ready(t)'
    BY <2>1, <2>3, FrameTrees DEF disk
  <2>9. Others /\ Me' = t /\ Base(Me)' /\ Uncommitted(Me)'
    BY <1>2, <1>3, <2>1, <2>2, MovesNothing DEF disk
  <2>10. CommandAt(Me)'
    BY <2>1, <2>3, <2>4, <2>9 DEF CommandAt, Prepared, disk, Onward, PastStaging
  <2> QED BY <2>2, <2>9, <2>10, InCommand
<1> QED BY <1>4, <1>5

LEMMA InstallLogPreparedSafe == KInv /\ HInv' /\ InstallLogPrepared => KInv'
<1> SUFFICES ASSUME KInv, HInv', InstallLogPrepared PROVE KInv'
  OBVIOUS
<1>1. pc = "log-prepared" /\ pc \in Working /\ cmd.op = "install"
  BY DEF InstallLogPrepared, Working, CommandPcs, Early
<1>2. CASE Abort
  BY <1>1, <1>2, AbortSafe
<1>3. CASE ~Abort
  <2>1. /\ pc' = "save" /\ UNCHANGED <<disk, commits, nextId, local, last>>
        /\ WriteTxn([Me EXCEPT !.stage = "prepared"])
    BY <1>3, Zenon DEF InstallLogPrepared, OrAbort, Goto
  <2>2. PICK r : r = [Me EXCEPT !.stage = "prepared"] /\ WriteTxn(r)
    BY <2>1
  <2>3. pc' \in CommandPcs /\ pc' \in Drives /\ pc' # "clear"
    BY <2>1 DEF CommandPcs, Early, Drives, Driving
  <2>4. /\ r.payload = Me.payload /\ r.resv = Me.resv /\ r.declared = Me.declared
        /\ r.prev = Me.prev /\ r.stage = "prepared"
        /\ r.op = Me.op /\ r.name = Me.name /\ r.status = Me.status /\ r.start = Me.start
        /\ r.before = Me.before
    BY <1>1, <2>2, Now DEF Txn
  <2>5. Others /\ Me' = r /\ r \in Txn /\ Base(Me)' /\ Uncommitted(Me)'
    BY <1>1, <2>1, <2>2, <2>3, <2>4, Now, Logs DEF local
  <2>6. config = r.before /\ Ready(r) /\ Onward(r)
    <3>1. Ready(Me) /\ config = Me.before /\ Me.op = "install"
      BY <1>1, Now DEF CommandAt
    <3> QED BY <2>4, <3>1, SameReady DEF Onward, Forward
  <2>7. CommandAt(Me)'
    BY <2>1, <2>5, <2>6, FrameTrees DEF CommandAt, Prepared, disk, Onward, PastStaging
  <2> QED BY <2>3, <2>5, <2>7, InCommand
<1> QED BY <1>2, <1>3

LEMMA SaveConfigSafe == KInv /\ HInv' /\ SaveConfig => KInv'
<1> SUFFICES ASSUME KInv, HInv', SaveConfig PROVE KInv'
  OBVIOUS
<1>1. pc = "save" /\ pc \in Working
  BY DEF SaveConfig, Working, CommandPcs, Early, Prepared
<1>2. PICK t : t = Me
  OBVIOUS
<1>3. /\ Uncommitted(t) /\ Base(t) /\ CommandAt(t) /\ t \in Txn /\ t.name \in Names
      /\ t.op = cmd.op /\ t.name = cmd.name /\ t.before = seen
      /\ pc \in Drives /\ pc \notin UndoPcs /\ t.start \in Nat
      /\ skills \in [Names -> TreeOrNone] /\ staging \in [Names -> TreeOrNone]
  BY <1>1, <1>2, Now DEF Txn
<1>4. CASE Abort
  BY <1>1, <1>4, AbortSafe
<1>5. CASE ~Abort
  <2>1. /\ pc' = "log-saved" /\ config' = ExpectedConfig(t)
        /\ UNCHANGED <<skills, staging, private, recovery, archive>>
        /\ UNCHANGED <<commits, txns, nextId, cmd, mode, self, seen, last>>
    BY <1>1, <1>2, <1>3, <1>5, Zenon DEF SaveConfig, OrAbort, Goto, disk, local
  <2>2. pc' \in Drives /\ pc' \in CommandPcs /\ pc' # "clear"
    BY <2>1 DEF Drives, Driving, CommandPcs, Early
  <2>3. Ready(t) /\ Onward(t)
    BY <1>1, <1>2, <1>3 DEF CommandAt
  <2>4. Ready(t)'
    BY <2>1, <2>3, FrameTrees
  <2>9. Others /\ Me' = t /\ Base(Me)' /\ Uncommitted(Me)'
    BY <1>2, <1>3, <2>1, <2>2, MovesNothing
  <2>10. CommandAt(Me)'
    BY <2>1, <2>3, <2>4, <2>9 DEF CommandAt, Prepared, ExpectedConfig, Onward, PastStaging
  <2> QED BY <2>2, <2>9, <2>10, InCommand
<1> QED BY <1>4, <1>5

LEMMA InstallPublishSafe == KInv /\ HInv' /\ InstallPublish => KInv'
<1> SUFFICES ASSUME KInv, HInv', InstallPublish PROVE KInv'
  OBVIOUS
<1>1. pc = "publish" /\ pc \in Working
  BY DEF InstallPublish, Working, CommandPcs, Early, Prepared
<1>2. PICK t : t = Me
  OBVIOUS
<1>3. /\ Uncommitted(t) /\ Base(t) /\ CommandAt(t) /\ t \in Txn /\ t.name \in Names
      /\ t.op = cmd.op /\ t.name = cmd.name /\ t.before = seen
      /\ pc \in Drives /\ pc \notin UndoPcs /\ t.start \in Nat
      /\ skills \in [Names -> TreeOrNone] /\ staging \in [Names -> TreeOrNone]
  BY <1>1, <1>2, Now DEF Txn
<1>4. CASE Abort
  BY <1>1, <1>4, AbortSafe
<1>5. CASE ~Abort
  <2>1. /\ pc' = "log-published" /\ UNCHANGED <<config, private, recovery, archive>>
        /\ UNCHANGED <<commits, txns, nextId, cmd, mode, self, seen, last>>
        /\ skills' = [skills EXCEPT ![t.name] = t.payload]
        /\ staging' = [staging EXCEPT ![t.name] = NoTree]
        /\ cmd.op = "install"
    BY <1>1, <1>2, <1>3, <1>5, Zenon DEF InstallPublish, OrAbort, Goto, disk, local
  <2>2. pc' \in Drives /\ pc' \in CommandPcs /\ pc' # "clear"
    BY <2>1 DEF Drives, Driving, CommandPcs, Early
  <2>3. /\ Ready(t) /\ Onward(t) /\ config = ExpectedConfig(t) /\ t.op = "install"
        /\ Full(t) /\ InStaging(t)
    BY <1>1, <1>2, <1>3, <2>1 DEF CommandAt, Ready
  <2>4. /\ \A n \in Names : staging'[n] = staging[n] \/ n = t.name
        /\ \A n \in Names : skills'[n] = skills[n] \/ n = t.name
        /\ staging'[t.name] = NoTree /\ skills'[t.name] = t.payload
    BY <1>3, <2>1
  <2>5. Full(t)' /\ InSkills(t)'
    BY <2>1, <2>3, <2>4 DEF Full, InStaging, InSkills, Placed, Since, Archived
  <2>6. IdsInv'
    BY <2>1, <2>3, <2>4 DEF KInv, IdsInv, Full
  <2>9. Others /\ Me' = t /\ Base(Me)' /\ Uncommitted(Me)'
    BY <1>2, <1>3, <2>1, <2>2, <2>3, <2>4, <2>6, Moves
  <2>10. CommandAt(Me)'
    BY <2>1, <2>3, <2>5, <2>9 DEF CommandAt, Prepared, ExpectedConfig, Onward, PastStaging,
       Published
  <2> QED BY <2>2, <2>9, <2>10, InCommand
<1> QED BY <1>4, <1>5

LEMMA UpdatePublishSafe == KInv /\ HInv' /\ UpdatePublish => KInv'
<1> SUFFICES ASSUME KInv, HInv', UpdatePublish PROVE KInv'
  OBVIOUS
<1>1. pc = "publish" /\ pc \in Working
  BY DEF UpdatePublish, Exchange, Working, CommandPcs, Early, Prepared
<1>2. PICK t : t = Me
  OBVIOUS
<1>3. /\ Uncommitted(t) /\ Base(t) /\ CommandAt(t) /\ t \in Txn /\ t.name \in Names
      /\ t.op = cmd.op /\ t.name = cmd.name /\ t.before = seen
      /\ pc \in Drives /\ pc \notin UndoPcs /\ t.start \in Nat
      /\ skills \in [Names -> TreeOrNone] /\ staging \in [Names -> TreeOrNone]
  BY <1>1, <1>2, Now DEF Txn
<1>4. CASE Abort
  BY <1>1, <1>4, AbortSafe
<1>5. CASE ~Abort
  <2>1. /\ pc' = "log-exchanged" /\ UNCHANGED <<config, private, recovery, archive>>
        /\ UNCHANGED <<commits, txns, nextId, cmd, mode, self, seen, last>>
        /\ skills' = [skills EXCEPT ![t.name] = t.payload]
        /\ staging' = [staging EXCEPT ![t.name] = t.prev]
        /\ cmd.op = "update"
    BY <1>1, <1>2, <1>3, <1>5, Zenon DEF UpdatePublish, Exchange, OrAbort, Goto, disk, local
  <2>2. pc' \in Drives /\ pc' \in CommandPcs /\ pc' # "clear"
    BY <2>1 DEF Drives, Driving, CommandPcs, Early
  <2>3. /\ Ready(t) /\ Onward(t) /\ config = ExpectedConfig(t) /\ t.op = "update"
        /\ Replaces(t)
    BY <1>1, <1>2, <1>3, <2>1 DEF CommandAt, Ready, Unexchanged
  <2>4. /\ \A n \in Names : staging'[n] = staging[n] \/ n = t.name
        /\ \A n \in Names : skills'[n] = skills[n] \/ n = t.name
        /\ staging'[t.name] = t.prev /\ skills'[t.name] = t.payload
    BY <1>3, <2>1
  <2>5. Replaces(t)'
    BY <2>1, <2>3 DEF Full, Replaces, Since
  <2>6. IdsInv'
    BY <2>1, <2>3, <2>4 DEF KInv, IdsInv, Replaces, Full
  <2>7. Published(t)'
    BY <2>3, <2>4, <2>5 DEF Published, Exchanged
  <2>9. Others /\ Me' = t /\ Base(Me)' /\ Uncommitted(Me)'
    BY <1>2, <1>3, <2>1, <2>2, <2>3, <2>4, <2>6, Moves
  <2>10. CommandAt(Me)'
    BY <2>1, <2>3, <2>7, <2>9 DEF CommandAt, Prepared, ExpectedConfig, Onward, PastStaging
  <2> QED BY <2>2, <2>9, <2>10, InCommand
<1> QED BY <1>4, <1>5

LEMMA PrepareCommitSafe == KInv /\ HInv' /\ PrepareCommit => KInv'
<1> SUFFICES ASSUME KInv, HInv', PrepareCommit PROVE KInv'
  OBVIOUS
<1>1. pc = "prepare" /\ pc \in Working
  BY DEF PrepareCommit, Working, CommandPcs, Early, Prepared
<1>2. PICK t : t = Me
  OBVIOUS
<1>3. /\ Uncommitted(t) /\ Base(t) /\ CommandAt(t) /\ t \in Txn /\ t.name \in Names
      /\ t.op = cmd.op /\ t.name = cmd.name /\ t.before = seen
      /\ pc \in Drives /\ pc \notin UndoPcs /\ t.start \in Nat
      /\ skills \in [Names -> TreeOrNone] /\ staging \in [Names -> TreeOrNone]
  BY <1>1, <1>2, Now DEF Txn
<1>4. /\ pc' = "validate" /\ UNCHANGED <<disk, commits, txns, nextId, cmd, mode, self, seen, last>>
      /\ cand' = {[parent |-> HEAD, snap |-> Worktree]}
  BY <1>1, <1>2, <1>3, Zenon DEF PrepareCommit, Goto, disk, local
<1>5. pc' \in Drives /\ pc' \in CommandPcs /\ pc' # "clear"
  BY <1>4 DEF Drives, Driving, CommandPcs, Early
<1>6. Published(t) /\ Onward(t) /\ config = ExpectedConfig(t)
  BY <1>1, <1>2, <1>3 DEF CommandAt, Prepared
<1>7. Published(t)' /\ cand' = {[parent |-> HEAD', snap |-> Worktree']}
  BY <1>4, <1>6, FrameTrees DEF disk, HEAD, Worktree
<1>12. Others /\ Me' = t /\ Base(Me)' /\ Uncommitted(Me)'
  BY <1>2, <1>3, <1>4, <1>5, MovesNothing DEF disk
<1>13. CommandAt(Me)'
  BY <1>4, <1>6, <1>7, <1>12 DEF CommandAt, Prepared, disk, ExpectedConfig, Onward, PastStaging
<1> QED BY <1>5, <1>12, <1>13, InCommand

LEMMA ValidatePreparedSafe == KInv /\ HInv' /\ ValidatePrepared => KInv'
<1> SUFFICES ASSUME KInv, HInv', ValidatePrepared PROVE KInv'
  OBVIOUS
<1>1. pc = "validate" /\ pc \in Working
  BY DEF ValidatePrepared, Working, CommandPcs, Early, Prepared
<1>2. PICK t : t = Me
  OBVIOUS
<1>3. /\ Uncommitted(t) /\ Base(t) /\ CommandAt(t) /\ t \in Txn /\ t.name \in Names
      /\ t.op = cmd.op /\ t.name = cmd.name /\ t.before = seen
      /\ pc \in Drives /\ pc \notin UndoPcs /\ t.start \in Nat
      /\ skills \in [Names -> TreeOrNone] /\ staging \in [Names -> TreeOrNone]
  BY <1>1, <1>2, Now DEF Txn
<1>4. CASE Abort
  BY <1>1, <1>4, AbortSafe
<1>5. CASE ~Abort
  <2>1. /\ pc' = "log-tree"
        /\ UNCHANGED <<disk, commits, txns, nextId, cand, cmd, mode, self, seen, last>>
    BY <1>1, <1>2, <1>3, <1>5, Zenon DEF ValidatePrepared, OrAbort, Goto, disk, local
  <2>2. pc' \in Drives /\ pc' \in CommandPcs /\ pc' # "clear"
    BY <2>1 DEF Drives, Driving, CommandPcs, Early
  <2>3. /\ Published(t) /\ Onward(t) /\ config = ExpectedConfig(t)
        /\ cand = {[parent |-> HEAD, snap |-> Worktree]}
    BY <1>1, <1>2, <1>3 DEF CommandAt, Prepared
  <2>4. Published(t)' /\ cand' = {[parent |-> HEAD', snap |-> Worktree']}
    BY <2>1, <2>3, FrameTrees DEF disk, HEAD, Worktree
  <2>9. Others /\ Me' = t /\ Base(Me)' /\ Uncommitted(Me)'
    BY <1>2, <1>3, <2>1, <2>2, MovesNothing DEF disk
  <2>10. CommandAt(Me)'
    BY <2>1, <2>3, <2>4, <2>9 DEF CommandAt, Prepared, disk, ExpectedConfig, Onward, PastStaging
  <2> QED BY <2>2, <2>9, <2>10, InCommand
<1> QED BY <1>4, <1>5

(* Once published, the worktree is the config the record expects.          *)
LEMMA PublishedAgrees ==
    ASSUME KInv, NEW t \in Txn, t.name \in Names, Base(t), Published(t), config = ExpectedConfig(t),
           t.before \in Config
    PROVE  /\ Worktree = Agreed(config)
           /\ \A n \in Names : skills[n].c = config.reg[n]
           /\ t.op = "rm" => config.reg[t.name] # t.before.reg[t.name]
<1>1. config \in Config
  BY DEF KInv, HInv, TInv, DiskTyped
<1>2. \A n \in Names : config.reg[n] =
        IF n # t.name THEN t.before.reg[n] ELSE IF t.op = "rm" THEN NONE ELSE t.payload.c
  BY DEF ExpectedConfig, SetReg, Config
<1>3. skills[t.name].c = IF t.op = "rm" THEN NONE ELSE t.payload.c
  BY DEF Published, InSkills, Placed, Taken, Exchanged, NoTree
<1>4. \A n \in Names : skills[n].c = config.reg[n]
  BY <1>2, <1>3 DEF Base
<1>5. Worktree = Agreed(config)
  BY <1>1, <1>4 DEF Worktree, Agreed, Config
<1>6. t.op = "rm" => config.reg[t.name] # t.before.reg[t.name]
  <2>1. t.op = "rm" => t.payload \in Tree /\ t.payload.c = t.before.reg[t.name]
    BY DEF Published, Taken, Takes
  <2> QED BY <1>2, <2>1, Literals DEF Tree
<1> QED BY <1>4, <1>5, <1>6

LEMMA CommitPreparedSafe == KInv /\ HInv' /\ CommitPrepared => KInv'
<1> SUFFICES ASSUME KInv, HInv', CommitPrepared PROVE KInv'
  OBVIOUS
<1>1. pc = "commit" /\ pc \in Working
  BY DEF CommitPrepared, Working, CommandPcs, Early, Prepared
<1>2. PICK t : t = Me
  OBVIOUS
<1>3. /\ Uncommitted(t) /\ Base(t) /\ CommandAt(t) /\ t \in Txn /\ t.name \in Names
      /\ t.op = cmd.op /\ t.name = cmd.name /\ t.before = seen
      /\ pc \in Drives /\ pc \notin UndoPcs /\ t.start \in Nat
      /\ skills \in [Names -> TreeOrNone] /\ staging \in [Names -> TreeOrNone]
  BY <1>1, <1>2, Now DEF Txn
<1>4. CASE Abort
  BY <1>1, <1>4, AbortSafe
<1>5. CASE ~Abort
  <2>1. \E p \in cand :
         /\ pc' = "clear" /\ UNCHANGED <<disk, txns, nextId, cmd, mode, self, seen, last>>
         /\ IF p.snap = HeadSnap THEN UNCHANGED commits
            ELSE AppendCommit(CommitMsg("op", cmd.op, cmd.name), p.snap)
    BY <1>1, <1>2, <1>3, <1>5, Zenon DEF CommitPrepared, OrAbort, Goto, disk, local
  <2>2. PICK p \in cand :
         /\ pc' = "clear" /\ UNCHANGED <<disk, txns, nextId, cmd, mode, self, seen, last>>
         /\ IF p.snap = HeadSnap THEN UNCHANGED commits
            ELSE AppendCommit(CommitMsg("op", cmd.op, cmd.name), p.snap)
    BY <2>1
  <2>3. pc' \in Drives /\ pc' \in CommandPcs
    BY <2>2 DEF Drives, Driving, CommandPcs, Early
  <2>4. /\ Published(t) /\ Onward(t) /\ config = ExpectedConfig(t)
        /\ p.snap = Worktree /\ t.ctree = {Worktree}
    BY <1>1, <1>2, <1>3 DEF CommandAt, Prepared
  <2>5. Published(t)'
    BY <2>2, <2>4, FrameTrees DEF disk
  <2>6. Me' = t
    BY <1>2, <2>2 DEF Me
  <2>7. Others
    <3>1. IdsInv'
      BY <2>2 DEF KInv, IdsInv, disk
    <3>2. Revises
      BY <1>2, <1>3, <2>2, <2>3, <2>6 DEF Revises
    <3> QED BY <1>3, <2>2, <3>1, <3>2, Drive DEF disk
  <2>8. Worktree' = Worktree /\ Worktree = Agreed(ExpectedConfig(t))
    BY <1>3, <2>2, <2>4, PublishedAgrees DEF Worktree, disk, Txn
  <2>9. Base(t)' /\ HeadSnap' = Worktree' /\ (Uncommitted(t) \/ Committed(t))'
    <3>1. CASE p.snap = HeadSnap
      BY <1>3, <2>2, <2>4, <2>8, <3>1 DEF Base, HeadSnap, HEAD, Uncommitted, disk
    <3>2. CASE p.snap # HeadSnap
      <4>1. PICK c : c = [msg |-> CommitMsg("op", cmd.op, cmd.name), snap |-> p.snap]
              /\ commits' = Append(commits, c)
        BY <2>2, <3>2 DEF AppendCommit
      <4>2. /\ HEAD' = HEAD + 1 /\ commits'[HEAD + 1] = c /\ HEAD \in Nat
            /\ \A k \in DOMAIN commits : k \in DOMAIN commits' /\ commits'[k] = commits[k]
        BY <4>1 DEF KInv, HInv, TInv, BranchTyped, HEAD
      <4>9. c.msg = CommitMsg("op", t.op, t.name) /\ c.snap = Worktree
        BY <1>3, <2>4, <4>1
      <4>3. HeadSnap' = Worktree'
        BY <2>8, <4>2, <4>9 DEF HeadSnap
      <4>4. Base(t)'
        BY <1>3, <2>2, <4>2 DEF Base, disk
      <4>5. IsOperationCommit(t, HEAD)'
        BY <1>3, <2>4, <4>2, <4>9 DEF IsOperationCommit, Uncommitted
      <4>6. Agreed(ExpectedConfig(t))' = Agreed(ExpectedConfig(t))
        BY DEF Agreed, ExpectedConfig, SetReg
      <4>7. Committed(t)'
        BY <2>8, <4>3, <4>5, <4>6 DEF Committed
      <4> QED BY <4>3, <4>4, <4>7
    <3> QED BY <3>1, <3>2
  <2>10. Base(Me)' /\ CommandAt(Me)'
    BY <2>2, <2>4, <2>5, <2>6, <2>9 DEF CommandAt, Prepared, disk, ExpectedConfig, Onward,
       PastStaging
  <2> QED BY <2>2, <2>3, <2>7, <2>10, InCommand
<1> QED BY <1>4, <1>5

--------------------------------------------------------------------------------
(* A marker closes the transaction when the store agrees with HEAD again   *)
(* and what is left is what the record, completed, accounts for.           *)
LEMMA Closes ==
    ASSUME KInv, HInv', pc \in Drives, pc' \in {"reclaim", "finish-reclaim", "recover"},
           NEW r, r = [Me EXCEPT !.status = "done"], WriteTxn(r),
           UNCHANGED <<disk, commits, nextId, mode, last>>,
           Settled, Since(HEAD) = {},
           \A x \in recovery : x.at.head >= Me.start =>
               Me.op = "rm" /\ x.at = RemovedName(Me) /\ x.tree = Me.payload,
           Me.op = "install" => staging[Me.name] = NoTree,
           Me.op = "update" => staging[Me.name] \in {NoTree, Me.prev},
           mode = "abort" => pc' = "recover"
    PROVE  KInv'
<1>1. /\ Pending = {self} /\ self = Len(txns) /\ self \in DOMAIN txns /\ Me \in Txn
      /\ Me.status = "open" /\ txns \in Seq(Txn)
  BY Only DEF KInv, HInv, TInv, JournalTyped
<1>2. /\ DOMAIN txns' = DOMAIN txns /\ Len(txns') = Len(txns) /\ txns'[self] = r
      /\ \A i \in DOMAIN txns \ {self} : txns'[i] = txns[i]
  BY <1>1 DEF WriteTxn, HInv, TInv, JournalTyped
<1>3. /\ r.status = "done" /\ r.op = Me.op /\ r.name = Me.name /\ r.start = Me.start
      /\ r.payload = Me.payload /\ r.prev = Me.prev
  BY <1>1 DEF Txn
<1>4. Pending' = {}
  <2>1. \A i \in DOMAIN txns : i # self => txns[i].status # "open"
    BY <1>1 DEF Pending
  <2>2. \A i \in DOMAIN txns' : txns'[i].status # "open"
    BY <1>2, <1>3, <2>1
  <2> QED BY <2>2 DEF Pending
<1>5. DriveInv' /\ LeftInv' /\ ReclaimInv' /\ ReadyInv'
  BY <1>4, NotDriving, Parts DEF LeftInv, ReclaimInv, ReadyInv
<1>6. LastInv' /\ SettledInv' /\ IdsInv'
  BY <1>4 DEF LastInv, SettledInv, Settled, Since, HEAD, HeadSnap, Agreed, disk, KInv, IdsInv
<1>7. ASSUME NEW i \in DOMAIN txns
      PROVE  /\ txns'[i].op = txns[i].op /\ txns'[i].name = txns[i].name
             /\ txns'[i].start = txns[i].start /\ txns'[i].payload = txns[i].payload
             /\ txns'[i].prev = txns[i].prev
             /\ txns[i].status = "done" => txns'[i].status = "done"
  BY <1>2, <1>3 DEF Me
<1>8. RecoveryInv'
  <2> SUFFICES ASSUME NEW x \in recovery PROVE PutAside(x)'
    BY DEF RecoveryInv, disk
  <2>1. CASE PutAside(x)
    <3>1. PICK i \in DOMAIN txns : /\ txns[i].status = "done" /\ txns[i].op = "rm"
               /\ x.at = RemovedName(txns[i]) /\ Removable(x.tree, txns[i].payload)
      BY <2>1 DEF PutAside
    <3>2. i \in DOMAIN txns' /\ txns'[i].status = "done" /\ txns'[i].op = "rm"
          /\ x.at = RemovedName(txns'[i]) /\ Removable(x.tree, txns'[i].payload)
      BY <1>2, <1>7, <3>1 DEF RemovedName
    <3> QED BY <3>2 DEF PutAside, RemovedName, Removable
  <2>2. CASE x.at.head >= Me.start
    <3>1. Me.op = "rm" /\ x.at = RemovedName(Me) /\ x.tree = Me.payload
      BY <2>2
    <3>2. Present(x.tree)
      BY Literals DEF KInv, HInv, TInv, DiskTyped, PayloadDir, Present
    <3>3. x.at = RemovedName(r) /\ Removable(x.tree, r.payload)
      BY <1>3, <3>1, <3>2 DEF RemovedName, Removable
    <3>4. self \in DOMAIN txns' /\ txns'[self].status = "done" /\ txns'[self].op = "rm"
          /\ x.at = RemovedName(txns'[self]) /\ Removable(x.tree, txns'[self].payload)
      BY <1>1, <1>2, <1>3, <3>1, <3>3
    <3> QED BY <3>4 DEF PutAside, RemovedName, Removable
  <2> QED BY <1>1, <2>1, <2>2 DEF KInv, RecoveryInv, Me
<1>9. StagingInv'
  <2> SUFFICES ASSUME NEW n \in Names, Present(staging[n]) PROVE Replaced(n)'
    BY DEF StagingInv, disk, Present, NoTree
  <2>1. CASE Replaced(n)
    <3>1. PICK i \in DOMAIN txns :
            /\ txns[i].op = "update" /\ txns[i].name = n /\ Removable(staging[n], txns[i].prev)
            /\ \/ txns[i].status = "done"
               \/ \E j \in i + 1 .. Len(txns) : txns[j].op = "rm" /\ txns[j].name = n
      BY <2>1 DEF Replaced
    <3>2. \A j \in i + 1 .. Len(txns) : j \in DOMAIN txns /\ j \in i + 1 .. Len(txns')
      BY <1>1, <1>2
    <3>3. /\ i \in DOMAIN txns'
          /\ txns'[i].op = "update" /\ txns'[i].name = n /\ Removable(staging[n], txns'[i].prev)
          /\ \/ txns'[i].status = "done"
             \/ \E j \in i + 1 .. Len(txns') : txns'[j].op = "rm" /\ txns'[j].name = n
      BY <1>2, <1>7, <3>1, <3>2
    <3> QED BY <3>3 DEF Replaced, Removable, disk
  <2>2. CASE Me.op # "rm" /\ Me.name = n
    <3>1. Me.op = "update" /\ staging[n] = Me.prev
      BY <1>1, <2>2 DEF Txn, Present
    <3>2. /\ self \in DOMAIN txns' /\ txns'[self].op = "update" /\ txns'[self].name = n
          /\ txns'[self].status = "done" /\ Removable(staging[n], txns'[self].prev)
      BY <1>1, <1>2, <1>3, <2>2, <3>1 DEF Removable
    <3> QED BY <3>2 DEF Replaced, Removable, disk
  <2> QED BY <1>1, <2>1, <2>2 DEF KInv, StagingInv, Me
<1>10. AbortInv' /\ OutcomeInv'
  <2>1. mode = "abort" => Aborting'
    <3>1. txns' # <<>>
      BY <1>1, <1>2
    <3>2. mode = "abort" => HEAD = Me.start
      BY <1>1 DEF KInv, AbortInv, Aborting, Me
    <3> QED BY <1>1, <1>2, <1>3, <3>1, <3>2 DEF Aborting, HEAD
  <2>2. last # "rolled back"
    BY Parts DEF KInv, AbortInv
  <2> QED BY <2>1, <2>2 DEF AbortInv, KInv, OutcomeInv
<1> QED BY <1>5, <1>6, <1>8, <1>9, <1>10 DEF KInv

(* A command that published, and a recovery that found it had, close it    *)
(* with HEAD what they wrote.                                              *)
LEMMA PublishedCloses ==
    ASSUME KInv, pc \in Drives, NEW t, t = Me, Published(t), config = ExpectedConfig(t),
           \/ Committed(t)
           \/ Uncommitted(t) /\ HeadSnap = Worktree
    PROVE  /\ Settled /\ Since(HEAD) = {}
           /\ \A x \in recovery : x.at.head >= t.start =>
                t.op = "rm" /\ x.at = RemovedName(t) /\ x.tree = t.payload
           /\ t.op = "install" => staging[t.name] = NoTree
           /\ t.op = "update" => staging[t.name] = t.prev
<1>1. t \in Txn /\ t.name \in Names /\ t.before \in Config /\ Base(t) /\ t.start \in Nat
  BY Only DEF KInv, DriveInv, Txn
<1>2. Worktree = Agreed(config) /\ (\A n \in Names : skills[n].c = config.reg[n])
      /\ (t.op = "rm" => config.reg[t.name] # t.before.reg[t.name])
  BY <1>1, PublishedAgrees
<1>3. HeadSnap = Agreed(config)
  BY <1>2 DEF Committed
<1>4. Settled
  BY <1>2, <1>3 DEF Settled
<1>5. t.op = "rm" => HEAD = t.start + 1
  <2>1. Uncommitted(t) => HeadSnap = Agreed(t.before)
    BY <1>1 DEF Base, Uncommitted, HeadSnap
  <2>2. HeadSnap.cfg = config /\ Agreed(t.before).cfg = t.before
    BY <1>3 DEF Agreed
  <2>3. t.op = "rm" => ~Uncommitted(t)
    BY <1>2, <2>1, <2>2
  <2> QED BY <2>3 DEF Committed, IsOperationCommit
<1>6. HEAD \in Nat /\ HEAD >= t.start
  BY <1>1 DEF Committed, IsOperationCommit, Uncommitted
<1>7. t.op # "rm" => Since(t.start) = {}
  BY DEF Published, InSkills, Placed, Exchanged, Replaces
<1>8. t.op = "rm" => Since(t.start) = Entry(RemovedName(t), t.payload)
  BY DEF Published, Taken
<1>9. Since(HEAD) = {}
  <2>1. CASE t.op = "rm"
    <3>1. \A x \in recovery : x.at.head >= HEAD => x.at.head \in Nat /\ x.at.head >= t.start
      BY <1>1, <1>6 DEF KInv, HInv, TInv, DiskTyped, PayloadDir, PayloadName
    <3>2. \A x \in Since(HEAD) : x \in Entry(RemovedName(t), t.payload)
      BY <1>8, <2>1, <3>1 DEF Since
    <3>3. \A x \in Since(HEAD) : x.at.head = t.start /\ x.at.head >= HEAD
      BY <3>2 DEF Entry, RemovedName, Since
    <3> QED BY <1>1, <1>5, <2>1, <3>3
  <2>2. CASE t.op # "rm"
    <3>1. \A x \in recovery : x.at.head >= HEAD => x.at.head >= t.start
      BY <1>1, <1>6 DEF KInv, HInv, TInv, DiskTyped, PayloadDir, PayloadName
    <3> QED BY <1>7, <2>2, <3>1 DEF Since
  <2> QED BY <2>1, <2>2
<1>10. \A x \in recovery : x.at.head >= t.start =>
         t.op = "rm" /\ x.at = RemovedName(t) /\ x.tree = t.payload
  BY <1>7, <1>8 DEF Since, Entry
<1>11. /\ t.op = "install" => staging[t.name] = NoTree
       /\ t.op = "update" => staging[t.name] = t.prev
  BY DEF Published, InSkills, Placed, Exchanged
<1> QED BY <1>4, <1>9, <1>10, <1>11

LEMMA ClearTxnSafe == KInv /\ HInv' /\ ClearTxn => KInv'
<1> SUFFICES ASSUME KInv, HInv', ClearTxn PROVE KInv'
  OBVIOUS
<1>1. /\ pc = "clear" /\ pc' = "reclaim" /\ pc \in Drives
      /\ UNCHANGED <<disk, commits, nextId, mode, last>>
  BY DEF ClearTxn, Goto, Drives, Driving, CommandPcs, Early, local
<1>2. PICK r : r = [Me EXCEPT !.status = "done"] /\ WriteTxn(r)
  BY DEF ClearTxn
<1>3. PICK t : t = Me
  OBVIOUS
<1>4. /\ Published(t) /\ config = ExpectedConfig(t) /\ HeadSnap = Worktree
      /\ Uncommitted(t) \/ Committed(t)
  BY <1>1, <1>3 DEF KInv, DriveInv, CommandAt
<1>5. mode # "abort"
  BY <1>1 DEF KInv, AbortInv, UndoPcs
<1> QED BY <1>1, <1>2, <1>3, <1>4, <1>5, PublishedCloses, Closes

LEMMA FinishClearSafe == KInv /\ HInv' /\ FinishClear => KInv'
<1> SUFFICES ASSUME KInv, HInv', FinishClear PROVE KInv'
  OBVIOUS
<1>1. /\ pc = "finish-clear" /\ pc' = "finish-reclaim" /\ pc \in Drives
      /\ UNCHANGED <<disk, commits, nextId, mode, last>>
  BY DEF FinishClear, Goto, Drives, Driving, FinishPcs, local
<1>2. PICK r : r = [Me EXCEPT !.status = "done"] /\ WriteTxn(r)
  BY DEF FinishClear
<1>3. PICK t : t = Me
  OBVIOUS
<1>4. Published(t) /\ config = ExpectedConfig(t) /\ Committed(t)
  BY <1>1, <1>3 DEF KInv, DriveInv, FinishAt, Finished
<1>5. mode # "abort"
  BY <1>1 DEF KInv, AbortInv, UndoPcs
<1> QED BY <1>1, <1>2, <1>3, <1>4, <1>5, PublishedCloses, Closes

LEMMA UndoClearSafe == KInv /\ HInv' /\ UndoClear => KInv'
<1> SUFFICES ASSUME KInv, HInv', UndoClear PROVE KInv'
  OBVIOUS
<1>1. /\ pc = "undo-clear" /\ pc' = "recover" /\ pc \in Drives
      /\ UNCHANGED <<disk, commits, nextId, mode, last>>
  BY DEF UndoClear, Goto, Drives, Driving, UndoPcs
<1>2. PICK r : r = [Me EXCEPT !.status = "done"] /\ WriteTxn(r)
  BY DEF UndoClear
<1>3. PICK t : t = Me
  OBVIOUS
<1>4. /\ config = t.before /\ Restored(t) /\ Base(t)
      /\ Uncommitted(t) \/ Compensated(t)
  BY <1>1, <1>3 DEF KInv, DriveInv, UndoAt, Reverted
<1>5. t \in Txn /\ t.name \in Names /\ t.start \in Nat
  BY <1>1, <1>3, Only DEF Txn
<1>6. HeadSnap = Agreed(config)
  BY <1>4 DEF Base, Uncommitted, Compensated, HeadSnap
<1>7. Settled
  BY <1>4, <1>5, <1>6 DEF Settled, Base, Restored
<1>8. HEAD \in Nat /\ HEAD >= t.start
  BY <1>4, <1>5 DEF Compensated, Uncommitted
<1>9. Since(t.start) = {} /\ (t.op # "rm" => staging[t.name] = NoTree)
  BY <1>4 DEF Restored
<1>10. Since(HEAD) = {}
  <2>1. \A x \in recovery : x.at.head >= HEAD => x.at.head >= t.start
    BY <1>5, <1>8 DEF KInv, HInv, TInv, DiskTyped, PayloadDir, PayloadName
  <2> QED BY <1>9, <2>1 DEF Since
<1>11. \A x \in recovery : ~(x.at.head >= t.start)
  BY <1>9 DEF Since
<1> QED BY <1>1, <1>2, <1>3, <1>7, <1>9, <1>10, <1>11, Closes

--------------------------------------------------------------------------------
(* A step of a process that drives no transaction, or of none, that        *)
(* changes nothing that lasts.                                             *)
LEMMA Turns ==
    ASSUME KInv, HInv', UNCHANGED <<disk, commits, txns, nextId>>,
           pc \notin Drives, pc' \notin Drives, ReclaimInv', ReadyInv', AbortInv', OutcomeInv'
    PROVE  KInv'
<1>1. LeftInv'
  <2>1. \A i \in Pending : Recoverable(txns[i])
    BY DEF KInv, LeftInv
  <2>2. Pending' = Pending
    BY DEF Pending
  <2> QED BY <2>1, <2>2, Frame DEF LeftInv
<1>2. DriveInv'
  BY NotDriving
<1>3. LastInv' /\ IdsInv' /\ RecoveryInv'
  BY DEF disk, KInv, LastInv, IdsInv, RecoveryInv, PutAside, Pending
<1>4. StagingInv'
  BY DEF disk, KInv, StagingInv, Replaced, Pending
<1>5. SettledInv'
  BY DEF disk, KInv, SettledInv, Settled, Since, HEAD, HeadSnap, Pending
<1> QED BY <1>1, <1>2, <1>3, <1>4, <1>5 DEF KInv

(* Commands begin, recover before anything else, and refuse.               *)
LEMMA BeginSafe == KInv /\ HInv' /\ (BeginCommand \/ BeginRestore) => KInv'
<1> SUFFICES ASSUME KInv, HInv', BeginCommand \/ BeginRestore PROVE KInv'
  OBVIOUS
<1>1. /\ pc = "idle" /\ pc' = "recover" /\ last' = "none"
      /\ UNCHANGED <<disk, commits, txns, nextId, mode>>
  BY DEF BeginCommand, BeginInstall, BeginRemove, BeginUpdate, Begin, BeginRestore, Goto
<1>2. mode # "abort"
  BY <1>1 DEF KInv, AbortInv, UndoPcs
<1>3. AbortInv' /\ OutcomeInv' /\ ReclaimInv' /\ ReadyInv'
  BY <1>1, <1>2 DEF AbortInv, OutcomeInv, ReclaimInv, ReadyInv
<1> QED BY <1>1, <1>3, Parts, Turns

LEMMA RecoveredSafe == KInv /\ HInv' /\ Recovered => KInv'
<1> SUFFICES ASSUME KInv, HInv', Recovered PROVE KInv'
  OBVIOUS
<1>1. pc = "recover" /\ Pending = {} /\ UNCHANGED <<disk, commits, txns, nextId>>
  BY DEF Recovered, NothingPending
<1>2. \/ mode = "abort" /\ pc' = "idle" /\ mode' = "command" /\ last' = "rolled back"
      \/ mode = "command" /\ pc' = "idle" /\ mode' = "command" /\ last' = "ok"
      \/ mode = "command" /\ pc' = "load" /\ UNCHANGED <<mode, last>>
  BY DEF Recovered, Exit, Goto, local
<1>3. pc' \notin Drives /\ pc \notin Drives /\ ReclaimInv' /\ ReadyInv'
  BY <1>1, <1>2 DEF Drives, Driving, CommandPcs, UndoPcs, FinishPcs, Early, ReclaimInv, ReadyInv
<1>4. AbortInv'
  <2>1. Pending' = {} /\ (Aborting => Aborting')
    BY <1>1 DEF Pending, Aborting, HEAD
  <2>2. mode = "abort" => Aborting
    BY DEF KInv, AbortInv
  <2>3. mode = "command" => last # "rolled back"
    BY <1>1 DEF KInv, AbortInv
  <2> QED BY <1>2, <2>1, <2>2, <2>3 DEF AbortInv
<1>5. OutcomeInv'
  BY <1>2 DEF KInv, OutcomeInv
<1> QED BY <1>1, <1>3, <1>4, <1>5, Turns

LEMMA LoadConfigSafe == KInv /\ HInv' /\ LoadConfig => KInv'
<1> SUFFICES ASSUME KInv, HInv', LoadConfig PROVE KInv'
  OBVIOUS
<1>1. /\ pc = "load" /\ pc' = "sweep" /\ seen' = config /\ UNCHANGED <<disk, commits, txns, nextId>>
      /\ UNCHANGED <<mode, last>>
  BY DEF LoadConfig, Goto
<1>2. mode # "abort" /\ last # "rolled back"
  BY <1>1 DEF KInv, AbortInv, UndoPcs
<1>3. AbortInv' /\ OutcomeInv' /\ ReclaimInv' /\ ReadyInv'
  BY <1>1, <1>2 DEF AbortInv, KInv, OutcomeInv, ReclaimInv, ReadyInv, disk
<1>4. pc \notin Drives /\ pc' \notin Drives
  BY <1>1 DEF Drives, Driving, CommandPcs, UndoPcs, FinishPcs, Early
<1> QED BY <1>1, <1>3, <1>4, Turns

(* There is nothing to sweep.                                              *)
LEMMA SweepSafe == KInv /\ HInv' /\ Sweep => KInv'
<1> SUFFICES ASSUME KInv, HInv', Sweep PROVE KInv'
  OBVIOUS
<1>1. pc = "sweep" /\ pc' = "preflight" /\ UNCHANGED <<disk, txns, nextId, seen, mode, last>>
  BY DEF Sweep, Goto, local
<1>2. Settled
  BY <1>1 DEF KInv, HInv, OInv, Early, SettledInv
<1>3. Worktree = Agreed(config)
  <2>1. config.reg = [n \in Names |-> config.reg[n]]
    BY DEF KInv, HInv, TInv, DiskTyped, Config
  <2> QED BY <1>2, <2>1 DEF Worktree, Agreed, Settled
<1>4. UNCHANGED commits
  BY <1>2, <1>3 DEF Sweep, Settled
<1>5. mode # "abort" /\ last # "rolled back"
  BY <1>1 DEF KInv, AbortInv, UndoPcs
<1>6. AbortInv' /\ OutcomeInv' /\ ReclaimInv' /\ ReadyInv'
  BY <1>1, <1>5 DEF AbortInv, KInv, OutcomeInv, ReclaimInv, ReadyInv, disk
<1>7. pc \notin Drives /\ pc' \notin Drives
  BY <1>1 DEF Drives, Driving, CommandPcs, UndoPcs, FinishPcs, Early
<1> QED BY <1>1, <1>4, <1>6, <1>7, Turns

LEMMA PreflightSafe ==
    KInv /\ HInv' /\ (InstallPreflight \/ RemovePreflight \/ UpdatePreflight) => KInv'
<1> SUFFICES ASSUME KInv, HInv', InstallPreflight \/ RemovePreflight \/ UpdatePreflight
             PROVE  KInv'
  OBVIOUS
<1>2. pc = "preflight" /\ UNCHANGED <<disk, commits, txns, nextId>>
  BY DEF InstallPreflight, RemovePreflight, UpdatePreflight, Preflight
<1>3. \/ /\ pc' = "start" /\ UNCHANGED <<mode, last, seen, cmd>>
         /\ cmd.op = "install" => Available(cmd.name)
         /\ cmd.op = "update" => Updatable(cmd.name)
      \/ pc' = "idle" /\ mode' = "command" /\ last' = "refused"
  BY DEF InstallPreflight, RemovePreflight, UpdatePreflight, Preflight, Exit, Goto, local
<1>4. mode # "abort" /\ last # "rolled back"
  BY <1>2 DEF KInv, AbortInv, UndoPcs
<1>5. ReadyInv'
  <2>1. CASE pc' = "start"
    <3>1. /\ UNCHANGED <<seen, cmd>> /\ seen = config
          /\ cmd.op = "install" => Available(cmd.name)
          /\ cmd.op = "update" => Updatable(cmd.name)
      BY <1>2, <1>3, <2>1 DEF KInv, ReadyInv
    <3> QED BY <1>2, <2>1, <3>1 DEF ReadyInv, Available, Updatable, disk
  <2> QED BY <1>3, <2>1 DEF ReadyInv
<1>6. AbortInv' /\ OutcomeInv' /\ ReclaimInv'
  BY <1>3, <1>4 DEF AbortInv, KInv, OutcomeInv, ReclaimInv
<1>7. pc \notin Drives /\ pc' \notin Drives
  BY <1>2, <1>3 DEF Drives, Driving, CommandPcs, UndoPcs, FinishPcs, Early
<1> QED BY <1>2, <1>5, <1>6, <1>7, Turns

--------------------------------------------------------------------------------
(* What removing an owned tree leaves of it is still it.                   *)
LEMMA LeftShrinks ==
    ASSUME NEW t \in TreeOrNone, NEW e, NEW left \in Leftovers(t, e), Present(left)
    PROVE  Present(t) /\ left.id = t.id /\ left.c \in {t.c, EMPTY}
<1>1. CASE Removable(t, e)
  <2>1. t \in Tree
    BY <1>1 DEF Removable, TreeOrNone, Present
  <2> QED BY <1>1, <2>1 DEF Leftovers, Removable, Present, Tree
<1>2. CASE ~Removable(t, e)
  BY <1>2 DEF Leftovers
<1> QED BY <1>1, <1>2

LEMMA PayloadShrinks ==
    ASSUME KInv, NEW p, NEW e, NEW left \in Leftovers(At(recovery, p), e),
           recovery' = IF Present(left) THEN Put(Take(recovery, p), p, left) ELSE Take(recovery, p)
    PROVE  /\ \A x \in recovery' : x \in recovery \/ \E y \in recovery :
                x.at = p /\ y.at = p /\ x.tree.id = y.tree.id /\ x.tree.c \in {y.tree.c, EMPTY}
           /\ \A x \in recovery : x.at # p => x \in recovery'
           /\ ~Present(left) => \A x \in recovery' : x.at # p
           /\ \A h : Since(h) = {} => Since(h)' = {}
           /\ \A h, q, z : Since(h) = Entry(q, z) /\ q # p => Since(h)' = Entry(q, z)
<1>1. recovery \subseteq PayloadDir /\ At(recovery, p) \in TreeOrNone
  BY AtTyped DEF KInv, HInv, TInv, DiskTyped
<1>2. Present(At(recovery, p)) => \E y \in recovery : y.at = p /\ y.tree = At(recovery, p)
  BY DEF At, Present
<1>3. CASE Present(left)
  <2>1. Present(At(recovery, p)) /\ left.id = At(recovery, p).id
        /\ left.c \in {At(recovery, p).c, EMPTY}
    BY <1>1, <1>3, LeftShrinks
  <2>2. PICK y \in recovery : y.at = p /\ y.tree = At(recovery, p)
    BY <1>2, <2>1
  <2>3. PICK z : z = [at |-> p, tree |-> left]
    OBVIOUS
  <2>8. z.at = p /\ z.tree = left
    BY <2>3
  <2>4. \A x : x \in recovery' <=> (x \in recovery /\ x.at # p) \/ x = z
    BY <1>3, <2>3 DEF Put, Take
  <2>5. \A x \in recovery' : x \in recovery \/
          (x.at = p /\ x.tree.id = y.tree.id /\ x.tree.c \in {y.tree.c, EMPTY})
    BY <2>1, <2>2, <2>8, <2>4
  <2>6. ASSUME NEW h, Since(h) = {} PROVE Since(h)' = {}
    BY <2>2, <2>5, <2>6 DEF Since
  <2>7. ASSUME NEW h, NEW q, NEW x, Since(h) = Entry(q, x), q # p PROVE Since(h)' = Entry(q, x)
    <3>1. ~(p.head >= h)
      <4>1. p.head >= h => y \in Since(h)
        BY <2>2 DEF Since
      <4>2. \A w \in Entry(q, x) : w.at = q
        BY DEF Entry
      <4> QED BY <2>2, <2>7, <4>1, <4>2
    <3> QED BY <2>2, <2>8, <2>4, <2>7, <3>1 DEF Since
  <2> QED BY <1>3, <2>2, <2>4, <2>5, <2>6, <2>7
<1>4. CASE ~Present(left)
  <2>1. \A x : x \in recovery' <=> x \in recovery /\ x.at # p
    BY <1>4 DEF Take
  <2>2. ASSUME NEW h, NEW q, NEW x, Since(h) = Entry(q, x), q # p PROVE Since(h)' = Entry(q, x)
    <3>1. \A w \in Entry(q, x) : w.at = q
      BY DEF Entry
    <3> QED BY <2>1, <2>2, <3>1 DEF Since
  <2>3. \A h : Since(h) = {} => Since(h)' = {}
    BY <2>1 DEF Since
  <2> QED BY <1>4, <2>1, <2>2, <2>3
<1> QED BY <1>3, <1>4

(* so that what accounts for it still does.                                *)
LEMMA PutAsideShrinks ==
    ASSUME NEW x, NEW y, PutAside(y), x.at = y.at, x.tree.id = y.tree.id,
           x.tree.c \in {y.tree.c, EMPTY}, Present(x.tree)
    PROVE  PutAside(x)
BY DEF PutAside, Removable

(* The reclaiming that follows a marker.                                   *)
LEMMA Reclaims ==
    ASSUME KInv, HInv', pc \in {"reclaim", "finish-reclaim"},
           AfterReclaim \/ UNCHANGED <<pc, local, last>>,
           UNCHANGED <<config, skills, archive, commits, txns, nextId>>,
           Since(HEAD) = {} => Since(HEAD)' = {}, RecoveryInv', StagingInv'
    PROVE  KInv'
<1>1. Pending = {} /\ Pending' = {}
  BY DEF KInv, ReclaimInv, Pending
<1>2. \/ pc' \in {"idle", "recover"}
      \/ pc' = pc
  BY DEF AfterReclaim, Exit, Goto
<1>3. (mode' = "command" \/ mode' = mode) /\ last' \in {"ok", last}
  BY DEF AfterReclaim, Exit, local
<1>4. mode # "abort" /\ last # "rolled back"
  BY DEF KInv, AbortInv, UndoPcs
<1>5. AbortInv' /\ OutcomeInv'
  BY <1>3, <1>4 DEF AbortInv, KInv, OutcomeInv
<1>6. DriveInv' /\ LeftInv' /\ ReclaimInv' /\ ReadyInv'
  BY <1>1, <1>2, Parts, NotDriving DEF LeftInv, ReclaimInv, ReadyInv
<1>7. LastInv' /\ SettledInv' /\ IdsInv'
  BY <1>1 DEF LastInv, SettledInv, Settled, HeadSnap, HEAD, KInv, IdsInv
<1> QED BY <1>5, <1>6, <1>7 DEF KInv

LEMMA InstallReclaimSafe == KInv /\ HInv' /\ InstallReclaim => KInv'
<1> SUFFICES ASSUME KInv, HInv', InstallReclaim PROVE KInv'
  OBVIOUS
<1>1. /\ pc = "reclaim" /\ pc' = "idle" /\ UNCHANGED <<disk, commits, txns, nextId>>
      /\ mode' = "command" /\ last' = "ok"
  BY DEF InstallReclaim, Exit
<1>2. AbortInv' /\ OutcomeInv' /\ ReclaimInv' /\ ReadyInv'
  BY <1>1 DEF AbortInv, OutcomeInv, ReclaimInv, ReadyInv
<1> QED BY <1>1, <1>2, Parts, Turns

LEMMA RemoveReclaimSafe == KInv /\ HInv' /\ RemoveReclaim => KInv'
<1> SUFFICES ASSUME KInv, HInv', RemoveReclaim PROVE KInv'
  OBVIOUS
<1>1. PICK p : p = RemovedName(Me)
  OBVIOUS
<1>2. PICK left \in Leftovers(At(recovery, p), Me.payload) :
        /\ recovery' = IF Present(left) THEN Put(Take(recovery, p), p, left) ELSE Take(recovery, p)
        /\ ReclaimStep(At(recovery, p), left)
  BY <1>1 DEF RemoveReclaim
<1>3. /\ pc \in {"reclaim", "finish-reclaim"}
      /\ UNCHANGED <<config, skills, staging, private, archive, commits, txns, nextId>>
  BY DEF RemoveReclaim
<1>4. AfterReclaim \/ UNCHANGED <<pc, local, last>>
  BY <1>2 DEF ReclaimStep
<1>5. Since(HEAD) = {} => Since(HEAD)' = {}
  <2>1. PICK h : h = HEAD
    OBVIOUS
  <2>2. HEAD' = h
    BY <1>3, <2>1 DEF HEAD
  <2> QED BY <1>2, <2>1, <2>2, PayloadShrinks
<1>6. RecoveryInv'
  <2>1. Pending = {}
    BY <1>3 DEF KInv, ReclaimInv
  <2> SUFFICES ASSUME NEW x \in recovery' PROVE PutAside(x)'
    BY DEF RecoveryInv
  <2>2. PICK y \in recovery : x.at = y.at /\ x.tree.id = y.tree.id /\ x.tree.c \in {y.tree.c, EMPTY}
    BY <1>2, PayloadShrinks
  <2>3. PutAside(y)
    BY <2>1 DEF KInv, RecoveryInv
  <2>4. Present(x.tree)
    BY Literals DEF HInv, TInv, DiskTyped, PayloadDir, Present
  <2>5. PutAside(x)
    BY <2>2, <2>3, <2>4, PutAsideShrinks
  <2> QED BY <1>3, <2>5 DEF PutAside
<1>7. StagingInv'
  BY <1>3 DEF KInv, StagingInv, Replaced, Pending
<1> QED BY <1>3, <1>4, <1>5, <1>6, <1>7, Reclaims

LEMMA StagingShrinks ==
    ASSUME KInv, NEW m \in Names, NEW e, NEW left \in Leftovers(staging[m], e),
           staging' = [staging EXCEPT ![m] = left]
    PROVE  /\ \A n \in Names : n # m => staging'[n] = staging[n]
           /\ staging'[m] = left
           /\ Present(left) => /\ Present(staging[m])
                               /\ \A u : Removable(staging[m], u) => Removable(left, u)
<1>1. staging \in [Names -> TreeOrNone]
  BY DEF KInv, HInv, TInv, DiskTyped
<1>2. Present(left) => /\ Present(staging[m]) /\ left.id = staging[m].id
                       /\ left.c \in {staging[m].c, EMPTY}
  BY <1>1, LeftShrinks
<1> QED BY <1>1, <1>2 DEF Removable

LEMMA UpdateReclaimSafe == KInv /\ HInv' /\ UpdateReclaim => KInv'
<1> SUFFICES ASSUME KInv, HInv', UpdateReclaim PROVE KInv'
  OBVIOUS
<1>1. PICK m : m = Me.name
  OBVIOUS
<1>2. PICK left \in Leftovers(staging[m], Me.prev) :
        staging' = [staging EXCEPT ![m] = left] /\ ReclaimStep(staging[m], left)
  BY <1>1 DEF UpdateReclaim
<1>3. /\ pc \in {"reclaim", "finish-reclaim"}
      /\ UNCHANGED <<config, skills, private, recovery, archive, commits, txns, nextId>>
  BY DEF UpdateReclaim
<1>4. AfterReclaim \/ UNCHANGED <<pc, local, last>>
  BY <1>2 DEF ReclaimStep
<1>5. m \in Names
  <2>1. Me \in Txn
    BY <1>3, MeTyped DEF KInv, HInv, TInv, JournalTyped, DrivenInv, Driving, CommandPcs, Early,
       FinishPcs
  <2> QED BY <1>1, <2>1 DEF Txn
<1>6. Since(HEAD)' = Since(HEAD) /\ RecoveryInv'
  BY <1>3 DEF Since, HEAD, KInv, RecoveryInv, PutAside, Pending
<1>7. StagingInv'
  <2>1. Pending = {}
    BY <1>3 DEF KInv, ReclaimInv
  <2> SUFFICES ASSUME NEW n \in Names, Present(staging'[n]) PROVE Replaced(n)'
    BY DEF StagingInv, Present, NoTree
  <2>2. Present(staging[n]) /\ \A u : Removable(staging[n], u) => Removable(staging'[n], u)
    BY <1>2, <1>5, StagingShrinks
  <2>3. Replaced(n)
    BY <2>1, <2>2 DEF KInv, StagingInv
  <2> QED BY <1>3, <2>2, <2>3 DEF Replaced, Removable
<1> QED BY <1>3, <1>4, <1>6, <1>7, Reclaims

--------------------------------------------------------------------------------
(* What a record found by recovery says of recovery/ ...                   *)
LEMMA Strays ==
    ASSUME NEW t \in Txn, Recoverable(t)
    PROVE  \/ Since(t.start) = {}
           \/ Since(t.start) = Entry(RemovedName(t), t.payload)
           \/ Since(t.start) = Entry(RollbackName(t), t.payload)
           \/ Since(t.start) = Entry(UncommittedName(t), t.payload)
<1>1. CASE Unfinished(t)
  <2>1. LeftInstall(t) \/ LeftUpdate(t) \/ LeftRemove(t)
    BY <1>1 DEF Unfinished
  <2>2. LeftInstall(t) => \/ Since(t.start) = {}
                          \/ Since(t.start) = Entry(UncommittedName(t), t.payload)
    BY DEF LeftInstall, Copies, InStaging, InSkills, InRecovery, InArchive, Placed
  <2>3. LeftUpdate(t) => Since(t.start) = {}
    BY DEF LeftUpdate, Untouched, Copies, Unexchanged, Exchanged, Replaces
  <2>4. LeftRemove(t) => \/ Since(t.start) = {}
                         \/ Since(t.start) = Entry(RemovedName(t), t.payload)
    BY DEF LeftRemove, Untouched, Whole, Taken
  <2> QED BY <2>1, <2>2, <2>3, <2>4
<1>2. CASE Finished(t)
  BY <1>2 DEF Finished, Published, InSkills, Placed, Exchanged, Replaces, Taken
<1>3. CASE Reverting(t)
  BY <1>3 DEF Reverting, InSkills, InRecovery, Placed
<1>4. CASE Reverted(t)
  BY <1>4 DEF Reverted, InRecovery, InArchive, Placed
<1> QED BY <1>1, <1>2, <1>3, <1>4 DEF Recoverable

(* ... and of what is not its own.                                         *)
LEMMA OwnFrame ==
    ASSUME NEW t, UNCHANGED <<config, skills, archive, commits, nextId>>,
           staging'[t.name] = staging[t.name], t.resv \in private <=> t.resv \in private',
           Since(t.start)' = Since(t.start)
    PROVE  Recoverable(t) => Recoverable(t)'
<1>1. \A x : Archived(x)' = Archived(x)
  BY DEF Archived
<1>2. (Full(t)' <=> Full(t)) /\ (\A x : New(t, x)' <=> New(t, x))
  BY <1>1 DEF Full, New
<1>3. /\ (InStaging(t)' <=> InStaging(t)) /\ (InSkills(t)' <=> InSkills(t))
      /\ \A p : /\ InRecovery(t, p)' <=> InRecovery(t, p)
                /\ InArchive(t, p)' <=> InArchive(t, p)
  BY <1>1 DEF InStaging, InSkills, InRecovery, InArchive, Placed
<1>4. (Whole(t)' <=> Whole(t)) /\ (Taken(t)' <=> Taken(t))
  BY DEF Whole, Taken, Takes
<1>5. (Unexchanged(t)' <=> Unexchanged(t)) /\ (Exchanged(t)' <=> Exchanged(t))
  BY <1>2 DEF Unexchanged, Exchanged, Replaces
<1>6. Staged(t)' <=> Staged(t)
  BY <1>2 DEF Staged
<1>7. (Untouched(t)' <=> Untouched(t)) /\ (Copies(t)' <=> Copies(t)) /\ (Known(t)' <=> Known(t))
  BY DEF Untouched, Copies, Known
<1>8. Published(t)' <=> Published(t)
  BY <1>2, <1>3, <1>4, <1>5 DEF Published
<1>9. (LeftInstall(t)' <=> LeftInstall(t)) /\ (LeftUpdate(t)' <=> LeftUpdate(t))
      /\ (LeftRemove(t)' <=> LeftRemove(t))
  BY <1>2, <1>3, <1>4, <1>5, <1>6, <1>7 DEF LeftInstall, LeftUpdate, LeftRemove
<1>10. Unfinished(t)' <=> Unfinished(t)
  BY <1>9, FrameBranch DEF Unfinished
<1>11. Finished(t)' <=> Finished(t)
  BY <1>8, FrameBranch DEF Finished
<1>12. (Reverting(t)' <=> Reverting(t)) /\ (Reverted(t)' <=> Reverted(t))
  BY <1>2, <1>3, <1>7, FrameBranch DEF Reverting, Reverted
<1> QED BY <1>10, <1>11, <1>12, FrameBranch DEF Recoverable

(* gc changes no record but those it prunes, which are not pending.        *)
LEMMA PrunedOnly ==
    ASSUME KInv, NEW i \in DOMAIN txns, txns[i].status = "done", UNCHANGED txns \/ Pruned(i)
    PROVE  /\ Pending' = Pending /\ DOMAIN txns' = DOMAIN txns /\ Len(txns') = Len(txns)
           /\ \A k \in DOMAIN txns : /\ k # i => txns'[k] = txns[k]
                                     /\ txns'[k].op = txns[k].op /\ txns'[k].name = txns[k].name
                                     /\ txns'[k].start = txns[k].start
                                     /\ txns'[k].payload = txns[k].payload
                                     /\ txns'[k].prev = txns[k].prev
           /\ txns \in Seq(Txn) /\ (txns # <<>> => txns' # <<>>)
<1>1. txns \in Seq(Txn) /\ txns[i] \in Txn
  BY DEF KInv, HInv, TInv, JournalTyped
<1>2. CASE UNCHANGED txns
  BY <1>1, <1>2 DEF Pending
<1>3. CASE Pruned(i)
  <2>1. txns' = [txns EXCEPT ![i] = [txns[i] EXCEPT !.status = "pruned"]]
    BY <1>1, <1>3 DEF Pruned
  <2>2. /\ DOMAIN txns' = DOMAIN txns /\ Len(txns') = Len(txns)
        /\ txns'[i] = [txns[i] EXCEPT !.status = "pruned"]
        /\ \A k \in DOMAIN txns \ {i} : txns'[k] = txns[k]
    BY <1>1, <2>1
  <2>3. /\ txns'[i].status = "pruned" /\ txns'[i].op = txns[i].op /\ txns'[i].name = txns[i].name
        /\ txns'[i].start = txns[i].start /\ txns'[i].payload = txns[i].payload
        /\ txns'[i].prev = txns[i].prev
    BY <1>1, <2>2 DEF Txn
  <2>4. Pending' = Pending
    BY <2>2, <2>3 DEF Pending
  <2>5. txns # <<>> => txns' # <<>>
    BY <1>1, <2>2
  <2> QED BY <1>1, <2>2, <2>3, <2>4, <2>5
<1> QED BY <1>2, <1>3

(* What gc may remove is nothing the open transaction needs.               *)
LEMMA Collects ==
    ASSUME KInv, HInv', pc = "idle", UNCHANGED <<pc, local, last>>,
           UNCHANGED <<config, skills, archive, commits, nextId>>,
           UNCHANGED txns \/ \E i \in DOMAIN txns : txns[i].status = "done" /\ Pruned(i),
           \A j \in Pending : /\ staging'[txns[j].name] = staging[txns[j].name]
                              /\ txns[j].resv \in private <=> txns[j].resv \in private',
           \A h : Since(h) = {} => Since(h)' = {},
           \A j \in Pending : \A t : t = txns[j] =>
               \A q \in {RemovedName(t), RollbackName(t), UncommittedName(t)} : \A z :
                   Since(t.start) = Entry(q, z) => Since(t.start)' = Entry(q, z),
           RecoveryInv', StagingInv'
    PROVE  KInv'
<1>1. /\ Pending' = Pending /\ DOMAIN txns' = DOMAIN txns /\ Len(txns') = Len(txns)
      /\ \A k \in Pending : txns'[k] = txns[k]
      /\ \A k \in DOMAIN txns : txns'[k].start = txns[k].start
      /\ txns \in Seq(Txn) /\ (txns # <<>> => txns' # <<>>)
  <2>1. CASE UNCHANGED txns
    BY <2>1 DEF Pending, KInv, HInv, TInv, JournalTyped
  <2>2. CASE \E i \in DOMAIN txns : txns[i].status = "done" /\ Pruned(i)
    <3>1. PICK i \in DOMAIN txns : txns[i].status = "done" /\ Pruned(i)
      BY <2>2
    <3>2. \A k \in Pending : k \in DOMAIN txns /\ k # i
      BY <3>1 DEF Pending
    <3> QED BY <3>1, <3>2, PrunedOnly
  <2> QED BY <2>1, <2>2
<1>2. pc \notin Drives
  BY Parts
<1>3. LeftInv'
  <2> SUFFICES ASSUME NEW j \in Pending PROVE Recoverable(txns[j])'
    BY <1>1 DEF LeftInv
  <2>1. PICK t : t = txns[j]
    OBVIOUS
  <2>2. t \in Txn /\ Recoverable(t)
    BY <1>1, <1>2, <2>1 DEF KInv, LeftInv, Pending
  <2>3. Since(t.start)' = Since(t.start)
    <3>1. \A q \in {RemovedName(t), RollbackName(t), UncommittedName(t)} : \A z :
             Since(t.start) = Entry(q, z) => Since(t.start)' = Entry(q, z)
      BY <2>1
    <3>2. Since(t.start) = {} => Since(t.start)' = {}
      OBVIOUS
    <3> QED BY <2>2, <3>1, <3>2, Strays
  <2>4. Recoverable(t)'
    BY <2>1, <2>2, <2>3, OwnFrame
  <2>5. txns'[j] = t
    BY <1>1, <2>1
  <2> QED BY <2>4, <2>5
<1>4. DriveInv' /\ ReclaimInv' /\ ReadyInv'
  BY <1>2, NotDriving DEF ReclaimInv, ReadyInv
<1>5. LastInv' /\ IdsInv'
  BY <1>1 DEF KInv, LastInv, IdsInv
<1>6. SettledInv'
  <2>1. PICK h : h = HEAD
    OBVIOUS
  <2>2. HEAD' = h /\ HeadSnap' = HeadSnap
    BY <2>1 DEF HEAD, HeadSnap
  <2>3. Since(HEAD) = {} => Since(HEAD)' = {}
    BY <2>1, <2>2
  <2> QED BY <1>1, <2>2, <2>3 DEF KInv, SettledInv, Settled
<1>7. AbortInv' /\ OutcomeInv'
  <2>1. mode # "abort"
    BY DEF KInv, AbortInv, UndoPcs
  <2>2. Aborting => Aborting'
    <3>1. Aborting => Len(txns) \in DOMAIN txns
      BY <1>1 DEF Aborting
    <3> QED BY <1>1, <3>1 DEF Aborting, HEAD
  <2> QED BY <1>1, <2>1, <2>2 DEF KInv, AbortInv, OutcomeInv, local
<1> QED BY <1>3, <1>4, <1>5, <1>6, <1>7 DEF KInv

(* A private root no record claims,                                        *)
LEMMA GcReclaimLeaseSafe == KInv /\ HInv' /\ GcReclaimLease => KInv'
<1> SUFFICES ASSUME KInv, HInv', GcReclaimLease PROVE KInv'
  OBVIOUS
<1>1. /\ pc = "idle"
      /\ UNCHANGED <<config, skills, staging, recovery, archive, commits, txns, nextId>>
      /\ UNCHANGED <<pc, local, last>>
  BY DEF GcReclaimLease
<1>2. \A j \in Pending : txns[j].resv \in private <=> txns[j].resv \in private'
  BY DEF GcReclaimLease, ReservationClaims
<1>3. \A h : Since(h)' = Since(h)
  BY <1>1 DEF Since
<1>4. RecoveryInv' /\ StagingInv'
  BY <1>1 DEF KInv, RecoveryInv, PutAside, StagingInv, Replaced, Pending
<1> QED BY <1>1, <1>2, <1>3, <1>4, Collects

(* the family of a completed install, which owns nothing,                  *)
LEMMA GcPruneInstallSafe ==
    KInv /\ HInv' /\ (\E i \in DOMAIN txns : GcPruneInstall(i)) => KInv'
<1> SUFFICES ASSUME KInv, HInv', NEW i \in DOMAIN txns, GcPruneInstall(i) PROVE KInv'
  OBVIOUS
<1>1. /\ pc = "idle" /\ txns[i].status = "done" /\ txns[i].op = "install" /\ Pruned(i)
      /\ UNCHANGED <<disk, commits, nextId, pc, local, last>>
  BY DEF GcPruneInstall
<1>2. \A h : Since(h)' = Since(h)
  BY <1>1 DEF Since, disk
<1>3. /\ Pending' = Pending /\ DOMAIN txns' = DOMAIN txns /\ Len(txns') = Len(txns)
      /\ \A k \in DOMAIN txns : /\ k # i => txns'[k] = txns[k]
                                /\ txns'[k].op = txns[k].op /\ txns'[k].name = txns[k].name
                                /\ txns'[k].start = txns[k].start
      /\ txns \in Seq(Txn)
  BY <1>1, PrunedOnly
<1>4. RecoveryInv'
  <2> SUFFICES ASSUME NEW x \in recovery
               PROVE  (PutAside(x) \/ \E j \in Pending : x.at.head >= txns[j].start)'
    BY <1>1 DEF RecoveryInv, disk
  <2>1. CASE PutAside(x)
    <3>1. PICK k \in DOMAIN txns : /\ txns[k].status = "done" /\ txns[k].op = "rm"
               /\ x.at = RemovedName(txns[k]) /\ Removable(x.tree, txns[k].payload)
      BY <2>1 DEF PutAside
    <3>2. k # i /\ k \in DOMAIN txns' /\ txns'[k] = txns[k]
      BY <1>1, <1>3, <3>1
    <3> QED BY <3>1, <3>2 DEF PutAside, RemovedName, Removable
  <2>2. CASE \E j \in Pending : x.at.head >= txns[j].start
    BY <1>3, <2>2 DEF Pending
  <2> QED BY <2>1, <2>2 DEF KInv, RecoveryInv
<1>5. StagingInv'
  <2> SUFFICES ASSUME NEW n \in Names, Present(staging[n])
               PROVE  (Replaced(n) \/ \E j \in Pending : txns[j].op # "rm" /\ txns[j].name = n)'
    BY <1>1 DEF StagingInv, Present, NoTree, disk
  <2>1. CASE Replaced(n)
    <3>1. PICK k \in DOMAIN txns :
            /\ txns[k].op = "update" /\ txns[k].name = n /\ Removable(staging[n], txns[k].prev)
            /\ \/ txns[k].status = "done"
               \/ \E j \in k + 1 .. Len(txns) : txns[j].op = "rm" /\ txns[j].name = n
      BY <2>1 DEF Replaced
    <3>2. k # i /\ k \in DOMAIN txns' /\ txns'[k] = txns[k]
      BY <1>1, <1>3, <3>1
    <3>3. \A j \in k + 1 .. Len(txns) : j \in DOMAIN txns /\ j \in k + 1 .. Len(txns')
      BY <1>3
    <3>4. \A j \in k + 1 .. Len(txns) : txns'[j].op = txns[j].op /\ txns'[j].name = txns[j].name
      BY <1>3, <3>3
    <3> QED BY <1>1, <3>1, <3>2, <3>3, <3>4 DEF Replaced, Removable, disk
  <2>2. CASE \E j \in Pending : txns[j].op # "rm" /\ txns[j].name = n
    BY <1>3, <2>2 DEF Pending
  <2> QED BY <2>1, <2>2 DEF KInv, StagingInv
<1>6. \A j \in Pending : /\ staging'[txns[j].name] = staging[txns[j].name]
                         /\ txns[j].resv \in private <=> txns[j].resv \in private'
  BY <1>1 DEF disk
<1> QED BY <1>1, <1>2, <1>4, <1>5, <1>6, Collects DEF disk

(* that of a completed rm, with what it put aside,                         *)
LEMMA GcPruneRemoveSafe ==
    KInv /\ HInv' /\ (\E i \in DOMAIN txns : GcPruneRemove(i)) => KInv'
<1> SUFFICES ASSUME KInv, HInv', NEW i \in DOMAIN txns, GcPruneRemove(i) PROVE KInv'
  OBVIOUS
<1>1. /\ pc = "idle" /\ txns[i].status = "done" /\ txns[i].op = "rm"
      /\ UNCHANGED <<config, skills, staging, private, archive, commits, nextId, pc, local, last>>
  BY DEF GcPruneRemove
<1>2. PICK p : p = RemovedName(txns[i])
  OBVIOUS
<1>3. \/ /\ ~Present(txns[i].payload) \/ p \in PayloadClaims
         /\ Pruned(i) /\ UNCHANGED recovery
      \/ /\ p \notin PayloadClaims
         /\ \E left \in Leftovers(At(recovery, p), txns[i].payload) :
             /\ recovery' = IF Present(left) THEN Put(Take(recovery, p), p, left)
                            ELSE Take(recovery, p)
             /\ UNCHANGED txns \/ (~Present(left) /\ Pruned(i))
  BY <1>2 DEF GcPruneRemove, ReclaimThenPrune
<1>4. UNCHANGED txns \/ Pruned(i)
  BY <1>3
<1>5. /\ Pending' = Pending /\ DOMAIN txns' = DOMAIN txns /\ Len(txns') = Len(txns)
      /\ \A k \in DOMAIN txns : /\ k # i => txns'[k] = txns[k]
                                /\ txns'[k].op = txns[k].op /\ txns'[k].name = txns[k].name
                                /\ txns'[k].start = txns[k].start
      /\ txns \in Seq(Txn)
  BY <1>1, <1>4, PrunedOnly
<1>6. /\ \A x \in recovery' : x \in recovery \/ \E y \in recovery :
            x.at = p /\ y.at = p /\ x.tree.id = y.tree.id /\ x.tree.c \in {y.tree.c, EMPTY}
      /\ \A h : Since(h) = {} => Since(h)' = {}
      /\ \A h, q, z : Since(h) = Entry(q, z) /\ q \in PayloadClaims => Since(h)' = Entry(q, z)
  <2>1. CASE UNCHANGED recovery
    BY <2>1 DEF Since
  <2>2. CASE p \notin PayloadClaims /\ ~UNCHANGED recovery
    BY <1>3, <2>2, PayloadShrinks
  <2> QED BY <1>3, <2>1, <2>2
<1>7. \A j \in Pending : \A t : t = txns[j] =>
        \A q \in {RemovedName(t), RollbackName(t), UncommittedName(t)} : \A z :
            Since(t.start) = Entry(q, z) => Since(t.start)' = Entry(q, z)
  <2> SUFFICES ASSUME NEW j \in Pending, NEW t, t = txns[j],
                      NEW q \in {RemovedName(t), RollbackName(t), UncommittedName(t)}, NEW z,
                      Since(t.start) = Entry(q, z)
               PROVE  Since(t.start)' = Entry(q, z)
    OBVIOUS
  <2>1. q \in PayloadClaims
    BY DEF PayloadClaims
  <2> QED BY <1>6, <2>1
<1>8. RecoveryInv'
  <2> SUFFICES ASSUME NEW x \in recovery'
               PROVE  (PutAside(x) \/ \E j \in Pending : x.at.head >= txns[j].start)'
    BY DEF RecoveryInv
  <2>1. PICK y \in recovery : x.at = y.at /\ x.tree.id = y.tree.id /\ x.tree.c \in {y.tree.c, EMPTY}
    BY <1>6
  <2>2. x.tree \in Tree /\ Present(x.tree) /\ y.tree \in Tree
    BY Literals DEF KInv, HInv, TInv, DiskTyped, PayloadDir, Present
  <2>3. CASE \E j \in Pending : y.at.head >= txns[j].start
    BY <1>5, <2>1, <2>3 DEF Pending
  <2>4. CASE PutAside(y)
    <3>1. PutAside(x)
      BY <2>1, <2>2, <2>4, PutAsideShrinks
    <3>2. PICK k \in DOMAIN txns : /\ txns[k].status = "done" /\ txns[k].op = "rm"
               /\ x.at = RemovedName(txns[k]) /\ Removable(x.tree, txns[k].payload)
      BY <3>1 DEF PutAside
    <3>3. CASE txns'[k] = txns[k]
      BY <1>5, <3>2, <3>3 DEF PutAside, RemovedName, Removable
    <3>4. CASE txns'[k] # txns[k]
      <4>1. k = i /\ Pruned(i) /\ x.at = p
        BY <1>2, <1>4, <1>5, <3>2, <3>4
      <4>2. Present(txns[i].payload)
        BY <2>2, <3>2, <4>1 DEF Removable, NoTree, Present, Tree
      <4>3. CASE p \in PayloadClaims
        <5>1. PICK j \in Pending : p \in {RemovedName(txns[j]), RollbackName(txns[j]),
                                          UncommittedName(txns[j])}
          BY <4>3 DEF PayloadClaims
        <5>2. txns[j] \in Txn
          BY <1>5 DEF Pending
        <5>3. x.at.head >= txns[j].start
          BY <4>1, <5>1, <5>2, NamesApart
        <5> QED BY <1>5, <5>3 DEF Pending
      <4>4. CASE p \notin PayloadClaims
        <5>1. PICK left \in Leftovers(At(recovery, p), txns[i].payload) :
             /\ recovery' = IF Present(left) THEN Put(Take(recovery, p), p, left)
                            ELSE Take(recovery, p)
             /\ UNCHANGED txns \/ (~Present(left) /\ Pruned(i))
          BY <1>3, <4>2, <4>4
        <5>2. ~Present(left)
          BY <3>4, <5>1
        <5>3. x.at # p
          BY <5>1, <5>2, PayloadShrinks
        <5> QED BY <4>1, <5>3
      <4> QED BY <4>3, <4>4
    <3> QED BY <3>3, <3>4
  <2> QED BY <2>3, <2>4 DEF KInv, RecoveryInv
<1>9. StagingInv'
  <2> SUFFICES ASSUME NEW n \in Names, Present(staging[n])
               PROVE  (Replaced(n) \/ \E j \in Pending : txns[j].op # "rm" /\ txns[j].name = n)'
    BY <1>1 DEF StagingInv, Present, NoTree
  <2>1. CASE Replaced(n)
    <3>1. PICK k \in DOMAIN txns :
            /\ txns[k].op = "update" /\ txns[k].name = n /\ Removable(staging[n], txns[k].prev)
            /\ \/ txns[k].status = "done"
               \/ \E j \in k + 1 .. Len(txns) : txns[j].op = "rm" /\ txns[j].name = n
      BY <2>1 DEF Replaced
    <3>2. k # i /\ k \in DOMAIN txns' /\ txns'[k] = txns[k]
      BY <1>1, <1>5, <3>1
    <3>3. \A j \in k + 1 .. Len(txns) : j \in DOMAIN txns /\ j \in k + 1 .. Len(txns')
      BY <1>5
    <3>4. \A j \in k + 1 .. Len(txns) : txns'[j].op = txns[j].op /\ txns'[j].name = txns[j].name
      BY <1>5, <3>3
    <3> QED BY <1>1, <3>1, <3>2, <3>3, <3>4 DEF Replaced, Removable
  <2>2. CASE \E j \in Pending : txns[j].op # "rm" /\ txns[j].name = n
    BY <1>5, <2>2 DEF Pending
  <2> QED BY <2>1, <2>2 DEF KInv, StagingInv
<1>10. \A j \in Pending : /\ staging'[txns[j].name] = staging[txns[j].name]
                          /\ txns[j].resv \in private <=> txns[j].resv \in private'
  BY <1>1
<1>11. UNCHANGED txns \/ \E k \in DOMAIN txns : txns[k].status = "done" /\ Pruned(k)
  BY <1>1, <1>4
<1> QED BY <1>1, <1>6, <1>7, <1>8, <1>9, <1>10, <1>11, Collects

(* and that of a completed update, with what it replaced.                  *)
LEMMA GcPruneUpdateSafe ==
    KInv /\ HInv' /\ (\E i \in DOMAIN txns : GcPruneUpdate(i)) => KInv'
<1> SUFFICES ASSUME KInv, HInv', NEW i \in DOMAIN txns, GcPruneUpdate(i) PROVE KInv'
  OBVIOUS
<1>1. /\ pc = "idle" /\ txns[i].status = "done" /\ txns[i].op = "update"
      /\ UNCHANGED <<config, skills, private, recovery, archive, commits, nextId, pc, local, last>>
  BY DEF GcPruneUpdate
<1>2. PICK m : m = txns[i].name
  OBVIOUS
<1>3. \/ /\ ~Present(txns[i].prev) \/ m \in StagingClaims
         /\ Pruned(i) /\ UNCHANGED staging
      \/ /\ m \notin StagingClaims
         /\ \E left \in Leftovers(staging[m], txns[i].prev) :
             /\ staging' = [staging EXCEPT ![m] = left]
             /\ UNCHANGED txns \/ (~Present(left) /\ Pruned(i))
  BY <1>2 DEF GcPruneUpdate, ReclaimThenPrune
<1>4. UNCHANGED txns \/ Pruned(i)
  BY <1>3
<1>5. /\ Pending' = Pending /\ DOMAIN txns' = DOMAIN txns /\ Len(txns') = Len(txns)
      /\ \A k \in DOMAIN txns : /\ k # i => txns'[k] = txns[k]
                                /\ txns'[k].op = txns[k].op /\ txns'[k].name = txns[k].name
                                /\ txns'[k].start = txns[k].start /\ txns'[k].prev = txns[k].prev
      /\ txns \in Seq(Txn)
  BY <1>1, <1>4, PrunedOnly
<1>6. \A h : Since(h)' = Since(h)
  BY <1>1 DEF Since
<1>7. \A j \in DOMAIN txns : txns[j] \in Txn /\ txns[j].name \in Names
  <2>1. \A j \in DOMAIN txns : txns[j] \in Txn
    BY <1>5
  <2> QED BY <2>1 DEF Txn
<1>8. RecoveryInv'
  <2> SUFFICES ASSUME NEW x \in recovery
               PROVE  (PutAside(x) \/ \E j \in Pending : x.at.head >= txns[j].start)'
    BY <1>1 DEF RecoveryInv
  <2>1. CASE PutAside(x)
    <3>1. PICK k \in DOMAIN txns : /\ txns[k].status = "done" /\ txns[k].op = "rm"
               /\ x.at = RemovedName(txns[k]) /\ Removable(x.tree, txns[k].payload)
      BY <2>1 DEF PutAside
    <3>2. k # i /\ k \in DOMAIN txns' /\ txns'[k] = txns[k]
      BY <1>1, <1>5, <3>1
    <3> QED BY <3>1, <3>2 DEF PutAside, RemovedName, Removable
  <2>2. CASE \E j \in Pending : x.at.head >= txns[j].start
    BY <1>5, <2>2 DEF Pending
  <2> QED BY <2>1, <2>2 DEF KInv, RecoveryInv
<1>9. StagingInv'
  <2> SUFFICES ASSUME NEW n \in Names, Present(staging'[n])
               PROVE  (Replaced(n) \/ \E j \in Pending : txns[j].op # "rm" /\ txns[j].name = n)'
    BY DEF StagingInv, Present, NoTree
  <2>1. Present(staging[n]) /\ \A u : Removable(staging[n], u) => Removable(staging'[n], u)
    <3>1. CASE UNCHANGED staging
      BY <3>1 DEF Removable
    <3>2. CASE ~UNCHANGED staging
      BY <1>2, <1>3, <1>7, <3>2, StagingShrinks
    <3> QED BY <3>1, <3>2
  <2>2. CASE \E j \in Pending : txns[j].op # "rm" /\ txns[j].name = n
    BY <1>5, <2>2 DEF Pending
  <2>3. CASE Replaced(n)
    <3>1. PICK k \in DOMAIN txns :
            /\ txns[k].op = "update" /\ txns[k].name = n /\ Removable(staging[n], txns[k].prev)
            /\ \/ txns[k].status = "done"
               \/ \E j \in k + 1 .. Len(txns) : txns[j].op = "rm" /\ txns[j].name = n
      BY <2>3 DEF Replaced
    <3>2. Removable(staging'[n], txns'[k].prev) /\ txns'[k].op = "update" /\ txns'[k].name = n
      BY <1>5, <2>1, <3>1
    <3>3. \A j \in k + 1 .. Len(txns) : j \in DOMAIN txns /\ j \in k + 1 .. Len(txns')
      BY <1>5
    <3>4. \A j \in k + 1 .. Len(txns) : txns'[j].op = txns[j].op /\ txns'[j].name = txns[j].name
      BY <1>5, <3>3
    <3>5. CASE \/ txns'[k] = txns[k]
               \/ \E j \in k + 1 .. Len(txns) : txns[j].op = "rm" /\ txns[j].name = n
      BY <1>5, <3>1, <3>2, <3>3, <3>4, <3>5 DEF Replaced, Removable
    <3>6. CASE txns'[k] # txns[k]
      <4>1. k = i /\ n = m /\ Pruned(i)
        BY <1>2, <1>4, <1>5, <3>1, <3>6
      <4>2. Present(txns[i].prev)
        <5>1. staging[n] \in Tree
          BY <2>1 DEF KInv, HInv, TInv, DiskTyped, TreeOrNone, Present
        <5> QED BY <3>1, <4>1, <5>1 DEF Removable, NoTree, Present, Tree
      <4>3. m \in StagingClaims
        <5>1. SUFFICES ASSUME m \notin StagingClaims PROVE FALSE
          OBVIOUS
        <5>2. PICK left \in Leftovers(staging[m], txns[i].prev) :
                 /\ staging' = [staging EXCEPT ![m] = left]
                 /\ UNCHANGED txns \/ (~Present(left) /\ Pruned(i))
          BY <1>3, <4>2, <5>1
        <5>3. ~UNCHANGED txns
          BY <3>1, <3>6
        <5>4. ~Present(left) /\ staging'[m] = left
          <6>1. m \in DOMAIN staging
            BY <1>2, <1>7 DEF KInv, HInv, TInv, DiskTyped
          <6> QED BY <5>2, <5>3, <6>1
        <5> QED BY <2>1, <4>1, <5>4
      <4>4. PICK j \in Pending : txns[j].name = n
        BY <4>1, <4>3 DEF StagingClaims
      <4>5. CASE txns[j].op # "rm"
        BY <1>5, <4>4, <4>5 DEF Pending
      <4>6. CASE txns[j].op = "rm"
        <5>1. j = Len(txns) /\ j # i /\ i \in 1 .. Len(txns) /\ j \in i + 1 .. Len(txns)
          BY <1>1, <1>5, <4>4 DEF KInv, LastInv, Pending
        <5> QED BY <3>5, <4>1, <4>4, <4>6, <5>1
      <4> QED BY <4>5, <4>6
    <3> QED BY <3>5, <3>6
  <2> QED BY <2>1, <2>2, <2>3 DEF KInv, StagingInv
<1>10. \A j \in Pending : /\ staging'[txns[j].name] = staging[txns[j].name]
                          /\ txns[j].resv \in private <=> txns[j].resv \in private'
  <2> SUFFICES ASSUME NEW j \in Pending PROVE staging'[txns[j].name] = staging[txns[j].name]
    BY <1>1
  <2>1. txns[j].name \in StagingClaims /\ txns[j].name \in Names
    BY <1>7 DEF StagingClaims, Pending
  <2> QED BY <1>2, <1>3, <1>7, <2>1, StagingShrinks
<1>11. UNCHANGED txns \/ \E k \in DOMAIN txns : txns[k].status = "done" /\ Pruned(k)
  BY <1>1, <1>4
<1> QED BY <1>1, <1>6, <1>8, <1>9, <1>10, <1>11, Collects

--------------------------------------------------------------------------------
(* A handler takes over what the process that is gone has left.            *)
LEMMA Found ==
    ASSUME KInv, pc = "recover", NEW i \in Pending, NEW t, t = txns[i]
    PROVE  /\ i \in DOMAIN txns /\ i = Len(txns) /\ Pending = {i}
           /\ t \in Txn /\ t.status = "open"
           /\ t.name \in Names /\ t.before \in Config /\ t.start \in Nat
           /\ Recoverable(t) /\ Base(t) /\ commits[t.start].snap.cfg = t.before
           /\ mode = "abort" => Uncommitted(t)
<1>1. i \in DOMAIN txns /\ i = Len(txns) /\ Pending = {i} /\ t.status = "open" /\ txns # <<>>
  BY DEF KInv, LastInv, Pending
<1>2. t \in Txn
  BY <1>1 DEF KInv, HInv, TInv, JournalTyped
<1>3. t.name \in Names /\ t.before \in Config /\ t.start \in Nat
  BY <1>2 DEF Txn
<1>4. Recoverable(t) /\ Base(t)
  BY Parts DEF KInv, LeftInv, Recoverable
<1>5. commits[t.start].snap.cfg = t.before
  BY <1>4 DEF Base, Agreed
<1>6. mode = "abort" => Uncommitted(t)
  BY <1>1 DEF KInv, AbortInv, Aborting, Uncommitted
<1> QED BY <1>1, <1>2, <1>3, <1>4, <1>5, <1>6

(* What HEAD says tells them apart.                                        *)
LEMMA Told ==
    ASSUME NEW t \in Txn, t.start \in Nat, Recoverable(t)
    PROVE  /\ Uncommitted(t) => Unfinished(t)
           /\ ~Uncommitted(t) => Finished(t) \/ Reverting(t) \/ Reverted(t)
           /\ ~Uncommitted(t) /\ t.op # "install" => Finished(t)
<1>1. Finished(t) \/ Reverting(t) => HEAD = t.start + 1
  BY DEF Finished, Reverting, Committed, IsOperationCommit
<1>2. Reverted(t) => HEAD = t.start + 2
  BY DEF Reverted, Compensated
<1>3. Uncommitted(t) => ~(Finished(t) \/ Reverting(t) \/ Reverted(t))
  BY <1>1, <1>2 DEF Uncommitted
<1>4. Unfinished(t) => Uncommitted(t)
  BY DEF Unfinished
<1>5. Reverting(t) \/ Reverted(t) => t.op = "install"
  BY DEF Reverting, Reverted
<1> QED BY <1>3, <1>4, <1>5 DEF Recoverable

LEMMA Handled ==
    ASSUME KInv, HInv', pc = "recover", NEW i \in Pending, NEW t, t = txns[i],
           UNCHANGED <<disk, commits, txns, nextId, mode, last>>, self' = i,
           pc' \in UndoPcs \cup (FinishPcs \ {"finish-reclaim"}), mode = "abort" => pc' \in UndoPcs
    PROVE  Others /\ Me' = t /\ Base(Me)' /\ (Uncommitted(t) => Uncommitted(Me)')
<1>1. i \in DOMAIN txns /\ i = Len(txns) /\ Pending = {i} /\ Base(t)
  BY Found
<1>2. Me' = t /\ Pending' = Pending
  BY DEF Me, Pending
<1>3. pc' \in Drives /\ pc' \notin {"idle", "recover", "reclaim", "finish-reclaim"}
      /\ pc' \notin {"sweep", "preflight", "start"}
  BY Parts DEF UndoPcs, FinishPcs
<1>4. Base(Me)' /\ (Uncommitted(t) => Uncommitted(Me)')
  BY <1>1, <1>2 DEF Base, Uncommitted, HEAD, disk
<1>5. LeftInv' /\ ReclaimInv' /\ ReadyInv'
  BY <1>3 DEF LeftInv, ReclaimInv, ReadyInv
<1>6. LastInv' /\ IdsInv' /\ RecoveryInv' /\ SettledInv'
  BY <1>1, <1>2 DEF disk, KInv, LastInv, IdsInv, RecoveryInv, PutAside, Pending, SettledInv
<1>7. StagingInv'
  BY DEF disk, KInv, StagingInv, Replaced, Pending
<1>8. AbortInv' /\ OutcomeInv'
  <2>1. Aborting' <=> Aborting
    BY DEF Aborting, HEAD
  <2>2. last # "rolled back"
    BY DEF KInv, AbortInv
  <2> QED BY <2>1, <2>2 DEF KInv, AbortInv, OutcomeInv
<1> QED BY <1>2, <1>4, <1>5, <1>6, <1>7, <1>8 DEF Others

(* Recovery accepts what it finds, and knows what it found.                *)
LEMMA InstallUndoSafe ==
    KInv /\ HInv' /\ (\E i \in DOMAIN txns : InstallUndo(i)) => KInv'
<1> SUFFICES ASSUME KInv, HInv', NEW i \in DOMAIN txns, InstallUndo(i) PROVE KInv'
  OBVIOUS
<1>1. PICK t : t = txns[i]
  OBVIOUS
<1>2. pc = "recover" /\ i \in Pending /\ t.op = "install" /\ Uncommitted(t)
  BY <1>1 DEF InstallUndo, Recovering
<1>3. /\ t \in Txn /\ t.start \in Nat /\ Recoverable(t) /\ commits[t.start].snap.cfg = t.before
  BY <1>1, <1>2, Found
<1>4. Unfinished(t) /\ LeftInstall(t)
  BY <1>2, <1>3, Told DEF Unfinished
<1>5. /\ t.stage \notin {"compensating", "compensation-ready", "compensation-committed"}
      /\ \/ config = t.before
         \/ t.stage # "started" /\ config = ExpectedConfig(t)
  BY <1>2, <1>4 DEF LeftInstall, Copies, Known, Forward
<1>6. /\ self' = i /\ seen' = config /\ pc' = "undo-root"
      /\ UNCHANGED <<disk, commits, txns, nextId, mode, last>>
  BY <1>1, <1>3, <1>5, Zenon DEF InstallUndo, Handle, OrConflict, Goto
<1>7. pc' \in UndoPcs
  BY <1>6 DEF UndoPcs
<1>8. Others /\ Me' = t /\ Base(Me)' /\ Uncommitted(Me)'
  BY <1>1, <1>2, <1>6, <1>7, Handled
<1>9. Unfinished(t)' /\ config' = config
  BY <1>4, <1>6, Frame DEF disk
<1>10. UndoAt(Me)'
  BY <1>2, <1>6, <1>8, <1>9 DEF UndoAt
<1> QED BY <1>7, <1>8, <1>10, InUndo

LEMMA RemoveUndoSafe ==
    KInv /\ HInv' /\ (\E i \in DOMAIN txns : RemoveUndo(i)) => KInv'
<1> SUFFICES ASSUME KInv, HInv', NEW i \in DOMAIN txns, RemoveUndo(i) PROVE KInv'
  OBVIOUS
<1>1. PICK t : t = txns[i]
  OBVIOUS
<1>2. pc = "recover" /\ i \in Pending /\ t.op = "rm" /\ Uncommitted(t)
  BY <1>1 DEF RemoveUndo, Recovering
<1>3. /\ t \in Txn /\ t.start \in Nat /\ Recoverable(t) /\ commits[t.start].snap.cfg = t.before
  BY <1>1, <1>2, Found
<1>4. LeftRemove(t)
  BY <1>2, <1>3, Told DEF Unfinished
<1>5. config \in {t.before, ExpectedConfig(t)}
  BY <1>4 DEF LeftRemove, Untouched, Known
<1>6. /\ self' = i /\ seen' = config /\ pc' = "undo-restore"
      /\ UNCHANGED <<disk, commits, txns, nextId, mode, last>>
  BY <1>1, <1>3, <1>5, Zenon DEF RemoveUndo, Handle, OrConflict, Goto
<1>7. pc' \in UndoPcs
  BY <1>6 DEF UndoPcs
<1>8. Others /\ Me' = t /\ Base(Me)' /\ Uncommitted(Me)'
  BY <1>1, <1>2, <1>6, <1>7, Handled
<1>9. LeftRemove(t)' /\ config' = config
  BY <1>4, <1>6, Frame DEF disk
<1>10. UndoAt(Me)'
  BY <1>2, <1>6, <1>8, <1>9 DEF UndoAt
<1> QED BY <1>7, <1>8, <1>10, InUndo

LEMMA UpdateUndoSafe ==
    KInv /\ HInv' /\ (\E i \in DOMAIN txns : UpdateUndo(i)) => KInv'
<1> SUFFICES ASSUME KInv, HInv', NEW i \in DOMAIN txns, UpdateUndo(i) PROVE KInv'
  OBVIOUS
<1>1. PICK t : t = txns[i]
  OBVIOUS
<1>2. pc = "recover" /\ i \in Pending /\ t.op = "update" /\ Uncommitted(t)
  BY <1>1 DEF UpdateUndo, Recovering
<1>3. /\ t \in Txn /\ t.start \in Nat /\ Recoverable(t) /\ commits[t.start].snap.cfg = t.before
  BY <1>1, <1>2, Found
<1>4. Unfinished(t) /\ LeftUpdate(t)
  BY <1>2, <1>3, Told DEF Unfinished
<1>5. \/ config = t.before
      \/ PastStaging(t) /\ config = ExpectedConfig(t)
  BY <1>4 DEF LeftUpdate, Untouched, Copies, Known
<1>6. /\ self' = i /\ seen' = config
      /\ pc' = IF PastStaging(t) THEN "undo-exchange" ELSE "undo-root"
      /\ UNCHANGED <<disk, commits, txns, nextId, mode, last>>
  BY <1>1, <1>3, <1>5, Zenon DEF UpdateUndo, Handle, OrConflict, Goto
<1>7. pc' \in UndoPcs
  BY <1>6 DEF UndoPcs
<1>8. Others /\ Me' = t /\ Base(Me)' /\ Uncommitted(Me)'
  BY <1>1, <1>2, <1>6, <1>7, Handled
<1>9. Unfinished(t)' /\ LeftUpdate(t)' /\ config' = config /\ (PastStaging(t)' <=> PastStaging(t))
  BY <1>4, <1>6, Frame DEF disk, PastStaging
<1>10. UndoAt(Me)'
  BY <1>2, <1>6, <1>8, <1>9 DEF UndoAt
<1> QED BY <1>7, <1>8, <1>10, InUndo

LEMMA FinishSafe ==
    KInv /\ HInv' /\ (\E i \in DOMAIN txns : RemoveFinish(i) \/ UpdateFinish(i)) => KInv'
<1> SUFFICES ASSUME KInv, HInv', NEW i \in DOMAIN txns, RemoveFinish(i) \/ UpdateFinish(i)
             PROVE  KInv'
  OBVIOUS
<1>1. PICK t : t = txns[i]
  OBVIOUS
<1>2. pc = "recover" /\ i \in Pending /\ t.op \in {"rm", "update"} /\ ~Uncommitted(t)
  BY <1>1 DEF RemoveFinish, UpdateFinish, Recovering
<1>3. /\ t \in Txn /\ t.start \in Nat /\ Recoverable(t) /\ commits[t.start].snap.cfg = t.before
      /\ mode # "abort"
  BY <1>1, <1>2, Found
<1>4. Finished(t)
  BY <1>2, <1>3, Told
<1>5. IsOperationCommit(t, HEAD) /\ config = ExpectedConfig(t)
  BY <1>4 DEF Finished, Committed
<1>6. /\ t.op = "rm" => ~Present(skills[t.name])
      /\ t.op = "update" => skills[t.name] = t.payload
  BY <1>4 DEF Finished, Published, Taken, Exchanged, Present
<1>7. /\ self' = i /\ pc' = "finish-clear"
      /\ UNCHANGED <<disk, commits, txns, nextId, mode, last>>
  <2>1. CASE RemoveFinish(i)
    BY <1>1, <1>3, <1>5, <1>6, <2>1, Zenon DEF RemoveFinish, Recovering, Handle, OrConflict, Goto
  <2>2. CASE UpdateFinish(i)
    BY <1>1, <1>3, <1>5, <1>6, <2>2, Zenon DEF UpdateFinish, Recovering, Handle, OrConflict, Goto
  <2> QED BY <2>1, <2>2
<1>8. pc' \in FinishPcs \ {"finish-reclaim"}
  BY <1>7 DEF FinishPcs
<1>9. Others /\ Me' = t /\ Base(Me)'
  BY <1>1, <1>2, <1>3, <1>7, <1>8, Handled
<1>10. Finished(t)'
  BY <1>4, <1>7, Frame
<1>11. FinishAt(Me)'
  BY <1>2, <1>7, <1>9, <1>10 DEF FinishAt
<1> QED BY <1>8, <1>9, <1>11, InFinish

LEMMA InstallCompensateSafe ==
    KInv /\ HInv' /\ (\E i \in DOMAIN txns : InstallCompensate(i)) => KInv'
<1> SUFFICES ASSUME KInv, HInv', NEW i \in DOMAIN txns, InstallCompensate(i) PROVE KInv'
  OBVIOUS
<1>1. PICK t : t = txns[i]
  OBVIOUS
<1>2. pc = "recover" /\ i \in Pending /\ t.op = "install" /\ ~Uncommitted(t)
  BY <1>1 DEF InstallCompensate, Recovering
<1>3. /\ t \in Txn /\ t.start \in Nat /\ Recoverable(t) /\ commits[t.start].snap.cfg = t.before
      /\ Base(t) /\ t.name \in Names /\ t.before \in Config /\ mode # "abort"
  BY <1>1, <1>2, Found
<1>4. Finished(t) \/ Reverting(t) \/ Reverted(t)
  BY <1>2, <1>3, Told
<1>5. PICK next : next =
        IF commits[HEAD].msg = CommitMsg("recover", t.op, t.name) THEN "comp-finish"
        ELSE IF t.stage = "compensating" THEN "comp-quarantine"
        ELSE IF t.stage = "compensation-ready" THEN "comp-prepare"
        ELSE "comp-log-start"
  OBVIOUS
<1>6. Committed(t) => /\ commits[HEAD].msg # CommitMsg("recover", t.op, t.name)
                      /\ IsOperationCommit(t, HEAD)
  BY DEF Committed, IsOperationCommit, CommitMsg
<1>7. Reverted(t) => commits[HEAD].msg = CommitMsg("recover", t.op, t.name) /\ IsRecoveryCommit(t)
  BY DEF Reverted, Compensated, IsRecoveryCommit
<1>8. Finished(t) => t.stage \in Forward /\ next = "comp-log-start" /\ PublishedAsRecorded(t)
  <2> SUFFICES ASSUME Finished(t)
               PROVE  t.stage \in Forward /\ next = "comp-log-start" /\ PublishedAsRecorded(t)
    OBVIOUS
  <2>1. t.stage \in Forward /\ Committed(t) /\ config = ExpectedConfig(t) /\ Published(t)
    BY <1>2 DEF Finished, Onward
  <2>2. Full(t) /\ InSkills(t)
    BY <1>2, <2>1 DEF Published
  <2>3. RollbackName(t) \in PayloadName /\ RollbackName(t).head >= t.start
    BY <1>3, NamesTyped, NamesApart
  <2>4. ~Present(At(recovery, RollbackName(t)))
    BY <1>3, <2>2, <2>3, AtSince DEF InSkills, Placed, KInv, HInv, TInv, Present
  <2>5. Worktree = HeadSnap
    BY <1>3, <2>1, PublishedAgrees DEF Committed
  <2>6. OnlyChanged(config = t.before, FALSE, t.name)
    BY <2>5 DEF OnlyChanged, ChangedPaths
  <2>7. PublishedAsRecorded(t)
    BY <2>1, <2>2, <2>4, <2>6 DEF PublishedAsRecorded, InSkills, Placed, Present
  <2> QED BY <1>5, <1>6, <2>1, <2>7 DEF Forward
<1>9. Reverting(t) => \/ t.stage = "compensating" /\ next = "comp-quarantine"
                      \/ t.stage = "compensation-ready" /\ next = "comp-prepare"
  BY <1>5, <1>6 DEF Reverting
<1>10. Reverted(t) => next = "comp-finish"
  BY <1>5, <1>7
<1>11. /\ IF commits[HEAD].msg = CommitMsg("recover", t.op, t.name) THEN IsRecoveryCommit(t)
          ELSE IsOperationCommit(t, HEAD) /\ t.stage # "compensation-committed"
       /\ next = "comp-log-start" => PublishedAsRecorded(t)
  <2>1. CASE Finished(t)
    BY <1>6, <1>8, <2>1 DEF Finished, Forward
  <2>2. CASE Reverting(t)
    BY <1>6, <1>9, <2>2 DEF Reverting
  <2>3. CASE Reverted(t)
    BY <1>7, <1>10, <2>3
  <2> QED BY <1>4, <2>1, <2>2, <2>3
<1>12. /\ self' = i /\ seen' = config /\ pc' = next
       /\ UNCHANGED <<disk, commits, txns, nextId, mode, last>>
  BY <1>1, <1>3, <1>5, <1>11, Zenon DEF InstallCompensate, Handle, OrConflict, Goto
<1>13. pc' \in FinishPcs \ {"finish-reclaim"}
  BY <1>5, <1>12 DEF FinishPcs
<1>14. Others /\ Me' = t /\ Base(Me)'
  BY <1>1, <1>2, <1>3, <1>12, <1>13, Handled
<1>15. /\ Finished(t)' <=> Finished(t)
       /\ Reverting(t)' <=> Reverting(t)
       /\ Reverted(t)' <=> Reverted(t)
  BY <1>12, Frame
<1>16. FinishAt(Me)'
  <2>1. CASE Finished(t)
    BY <1>2, <1>8, <1>12, <1>14, <1>15, <2>1 DEF FinishAt
  <2>2. CASE Reverting(t)
    BY <1>2, <1>9, <1>12, <1>14, <1>15, <2>2 DEF FinishAt
  <2>3. CASE Reverted(t)
    BY <1>2, <1>10, <1>12, <1>14, <1>15, <2>3 DEF FinishAt
  <2> QED BY <1>4, <2>1, <2>2, <2>3
<1> QED BY <1>13, <1>14, <1>16, InFinish

--------------------------------------------------------------------------------
(* What a recovery that undoes knows.                                      *)
LEMMA NowUndo ==
    ASSUME KInv, pc \in UndoPcs
    PROVE  /\ Base(Me) /\ UndoAt(Me) /\ (pc # "undo-clear" => Uncommitted(Me))
           /\ Me \in Txn /\ Me.status = "open" /\ Me.name \in Names /\ Me.before \in Config
           /\ Me.start \in Nat /\ Me.op \in {"install", "rm", "update"}
           /\ pc \in Drives /\ pc \notin Working
           /\ skills \in [Names -> TreeOrNone] /\ staging \in [Names -> TreeOrNone]
<1>1. pc \in Drives /\ pc \notin Working
  BY Parts DEF Working
<1>2. pc # "undo-clear" => pc \in Precommit
  BY DEF Precommit
<1>3. Me \in Txn /\ Me.start \in Nat /\ Me.op \in {"install", "rm", "update"}
  BY <1>1, Only DEF Txn
<1> QED BY <1>1, <1>2, <1>3, Only DEF KInv, HInv, DriveInv, TInv, DiskTyped

(* A step of it that only goes on, one that only records, one that moves.  *)
LEMMA GoesOnUndoing ==
    ASSUME KInv, HInv', pc \in UndoPcs, pc # "undo-clear", pc' \in UndoPcs, UNCHANGED <<disk,
           commits, txns, nextId>>,
           UNCHANGED <<self, mode, last>>, UndoAt(Me)'
    PROVE  KInv'
<1>1. Others /\ Base(Me)' /\ Uncommitted(Me)'
  BY NowUndo, Parts, MovesNothing DEF disk
<1> QED BY <1>1, InUndo

LEMMA InstallUndoRootSafe == KInv /\ HInv' /\ InstallUndoRoot => KInv'
<1> SUFFICES ASSUME KInv, HInv', InstallUndoRoot PROVE KInv'
  OBVIOUS
<1>1. pc = "undo-root" /\ pc \in UndoPcs
  BY DEF InstallUndoRoot, UndoPcs
<1>2. PICK t : t = Me
  OBVIOUS
<1>3. /\ Uncommitted(t) /\ Base(t) /\ UndoAt(t) /\ t \in Txn /\ t.name \in Names /\ t.op = "install"
      /\ pc \in Drives /\ t.start \in Nat
      /\ skills \in [Names -> TreeOrNone] /\ staging \in [Names -> TreeOrNone]
  BY <1>1, <1>2, NowUndo DEF InstallUndoRoot
<1>4. Unfinished(t) /\ LeftInstall(t) /\ seen = config
  BY <1>1, <1>3 DEF UndoAt, Unfinished
<1>5. CASE t.resv = NoTree
  <2>1. pc' = "undo-entries" /\ UNCHANGED <<disk, commits, txns, nextId, local, last>>
    BY <1>2, <1>5 DEF InstallUndoRoot, Goto
  <2>2. pc' \in UndoPcs /\ Me' = t
    BY <1>2, <2>1 DEF UndoPcs, Me, local
  <2>3. LeftInstall(t)' /\ config' = config /\ seen' = seen
    BY <1>4, <2>1, Frame DEF disk, local
  <2>4. UndoAt(Me)'
    BY <1>3, <1>4, <1>5, <2>1, <2>2, <2>3 DEF UndoAt
  <2> QED BY <1>1, <2>1, <2>2, <2>4, GoesOnUndoing DEF local
<1>6. CASE t.resv # NoTree
  <2>1. Copies(t) /\ Claiming(t) /\ New(t, t.resv) /\ t.resv \in Tree
        /\ \/ t.resv \in private /\ staging[t.name] = NoTree
           \/ t.resv \notin private /\ staging[t.name] = t.resv
    BY <1>3, <1>4, <1>6 DEF LeftInstall, Full, Staged, Blank, Filling, Claiming
  <2>2. RootFound(t)
    BY <2>1, Literals DEF RootFound, Present
  <2>3. /\ pc' = "undo-log-root" /\ UNCHANGED <<config, skills, recovery, archive>>
        /\ UNCHANGED <<commits, txns, nextId, cmd, mode, self, seen, last>>
        /\ private' = private \ {t.resv} /\ staging' = [staging EXCEPT ![t.name] = t.resv]
    BY <1>2, <1>6, <2>2, Zenon DEF InstallUndoRoot, OrConflict, Goto, disk, local
  <2>4. pc' \in UndoPcs /\ pc' \in Drives
    BY <2>3, Parts DEF UndoPcs
  <2>5. IdsInv'
    BY <2>3 DEF KInv, IdsInv
  <2>6. Others /\ Me' = t /\ Base(Me)' /\ Uncommitted(Me)'
    BY <1>2, <1>3, <2>3, <2>4, <2>5, Moves
  <2>7. /\ staging'[t.name] = t.resv /\ Copies(t)' /\ New(t, t.resv)'
        /\ t.resv \notin private'
    BY <1>3, <2>1, <2>3 DEF Copies, New, Since, Archived
  <2>8. Staged(t)' /\ Claiming(t)'
    BY <2>1, <2>7 DEF Staged, Claiming
  <2>9. UndoAt(Me)'
    BY <1>3, <1>4, <2>3, <2>6, <2>7, <2>8 DEF UndoAt
  <2> QED BY <2>4, <2>6, <2>9, InUndo
<1> QED BY <1>5, <1>6

LEMMA InstallUndoLogRootSafe == KInv /\ HInv' /\ InstallUndoLogRoot => KInv'
<1> SUFFICES ASSUME KInv, HInv', InstallUndoLogRoot PROVE KInv'
  OBVIOUS
<1>1. /\ pc = "undo-log-root" /\ pc \in UndoPcs /\ pc' = "undo-entries"
      /\ UNCHANGED <<disk, commits, nextId, local, last>>
  BY DEF InstallUndoLogRoot, UndoPcs, Goto
<1>2. PICK t : t = Me
  OBVIOUS
<1>3. /\ Uncommitted(t) /\ Base(t) /\ UndoAt(t) /\ t \in Txn /\ t.op = "install" /\ pc \in Drives
  BY <1>1, <1>2, NowUndo DEF InstallUndoLogRoot
<1>4. PICK r : r = [t EXCEPT !.payload = t.resv, !.resv = NoTree] /\ WriteTxn(r)
  BY <1>2 DEF InstallUndoLogRoot
<1>5. /\ r.payload = t.resv /\ r.resv = NoTree /\ r.stage = t.stage /\ r.declared = t.declared
      /\ r.op = t.op /\ r.name = t.name /\ r.status = t.status /\ r.start = t.start
      /\ r.before = t.before /\ r.prev = t.prev
  BY <1>3, <1>4 DEF Txn
<1>6. pc' \in UndoPcs /\ pc' \in Drives
  BY <1>1, Parts DEF UndoPcs
<1>7. Others /\ Me' = r /\ Base(Me)' /\ Uncommitted(Me)'
  BY <1>1, <1>2, <1>3, <1>4, <1>5, <1>6, Logs DEF local
<1>8. Copies(t) /\ Claiming(t) /\ Staged(t) /\ staging[t.name] = t.resv /\ seen = config
  BY <1>1, <1>3 DEF UndoAt
<1>9. New(t, t.resv) /\ t.resv \in Tree
  BY <1>8, Literals DEF Staged, Claiming, Blank, Filling
<1>10. LeftInstall(r)
  <2>1. Filling(r) /\ New(r, r.payload) /\ Copies(r)
    BY <1>5, <1>8, <1>9 DEF Filling, Claiming, New, Copies
  <2>2. staging[r.name].id = r.payload.id /\ staging[r.name].c \in {EMPTY}
    BY <1>5, <1>8 DEF Claiming
  <2> QED BY <2>1, <2>2 DEF LeftInstall, Staged
<1>11. LeftInstall(r)' /\ config' = config
  BY <1>1, <1>10, Frame DEF disk
<1>12. UndoAt(Me)'
  BY <1>1, <1>3, <1>5, <1>7, <1>8, <1>11 DEF UndoAt, local
<1> QED BY <1>6, <1>7, <1>12, InUndo

(* Only a file that was not filled makes recovery refuse.                  *)
LEMMA InstallUndoEntriesSafe == KInv /\ HInv' /\ InstallUndoEntries => KInv'
<1> SUFFICES ASSUME KInv, HInv', InstallUndoEntries PROVE KInv'
  OBVIOUS
<1>1. pc = "undo-entries" /\ pc \in UndoPcs
  BY DEF InstallUndoEntries, UndoPcs
<1>2. PICK t : t = Me
  OBVIOUS
<1>3. /\ Uncommitted(t) /\ Base(t) /\ UndoAt(t) /\ t \in Txn /\ t.name \in Names /\ t.op = "install"
      /\ pc \in Drives /\ t.start \in Nat
      /\ skills \in [Names -> TreeOrNone] /\ staging \in [Names -> TreeOrNone]
  BY <1>1, <1>2, NowUndo DEF InstallUndoEntries
<1>4. LeftInstall(t) /\ t.resv = NoTree /\ seen = config
  BY <1>1, <1>3 DEF UndoAt
<1>5. CASE t.declared = NONE
  <2>1. pc' = "undo-quarantine" /\ UNCHANGED <<disk, commits, txns, nextId, local, last>>
    BY <1>2, <1>5 DEF InstallUndoEntries, Goto
  <2>2. pc' \in UndoPcs /\ Me' = t
    BY <1>2, <2>1 DEF UndoPcs, Me, local
  <2>3. LeftInstall(t)' /\ config' = config /\ seen' = seen
    BY <1>4, <2>1, Frame DEF disk, local
  <2>4. UndoAt(Me)'
    BY <1>3, <1>4, <1>5, <2>1, <2>2, <2>3 DEF UndoAt
  <2> QED BY <1>1, <2>1, <2>2, <2>4, GoesOnUndoing DEF local
<1>6. CASE t.declared # NONE
  <2>1. Copies(t) /\ Filling(t) /\ New(t, t.payload)
        /\ staging[t.name].id = t.payload.id /\ staging[t.name].c \in {EMPTY, t.declared} \cup Torn
    BY <1>3, <1>4, <1>6 DEF LeftInstall, Full, Staged, Blank, Claiming, NoTree, Tree
  <2>2. PICK x : x = staging[t.name]
    OBVIOUS
  <2>3. t.declared \in Upstream /\ t.payload \in Tree /\ x \in TreeOrNone /\ x.id = t.payload.id
    BY <1>3, <2>1, <2>2 DEF Filling
  <2>4. x \in Tree /\ Present(x) /\ Present(t.payload)
    BY <2>3, Literals DEF TreeOrNone, Tree, NoTree, Present
  <2>5. CASE ~Settles(x, t.declared)
    <3>1. TornCopies
      BY <2>1, <2>2, <2>5 DEF Settles, Torn
    <3>2. Conflict
      BY <1>2, <1>6, <2>2, <2>5 DEF InstallUndoEntries, OrConflict
    <3> QED BY <3>1, <3>2, ConflictSafe
  <2>6. CASE Settles(x, t.declared)
    <3>1. /\ pc' = "undo-quarantine" /\ UNCHANGED <<disk, commits, nextId, local, last>>
          /\ WriteTxn([t EXCEPT !.payload.c = x.c, !.declared = NONE])
      BY <1>2, <1>6, <2>2, <2>4, <2>6, Zenon DEF InstallUndoEntries, OrConflict, Goto
    <3>2. PICK r : r = [t EXCEPT !.payload.c = x.c, !.declared = NONE] /\ WriteTxn(r)
      BY <3>1
    <3>3. /\ r.payload = [t.payload EXCEPT !.c = x.c]
          /\ r.declared = NONE /\ r.resv = t.resv /\ r.stage = t.stage
          /\ r.op = t.op /\ r.name = t.name /\ r.status = t.status /\ r.start = t.start
          /\ r.before = t.before /\ r.prev = t.prev
      BY <1>3, <3>2 DEF Txn
    <3>4. r.payload = x
      BY <2>3, <2>4, <3>3 DEF Tree
    <3>5. pc' \in UndoPcs /\ pc' \in Drives
      BY <3>1, Parts DEF UndoPcs
    <3>6. Others /\ Me' = r /\ Base(Me)' /\ Uncommitted(Me)'
      BY <1>1, <1>2, <1>3, <3>1, <3>2, <3>3, <3>5, Logs DEF local
    <3>7. Full(r)
      BY <1>4, <2>1, <2>3, <2>4, <3>3, <3>4 DEF Full, New
    <3>8. InStaging(r)
      BY <1>3, <2>1, <2>2, <2>3, <3>3, <3>4 DEF InStaging, Placed, Copies, New, Archived
    <3>9. LeftInstall(r)
      BY <1>3, <2>1, <3>3, <3>7, <3>8 DEF LeftInstall, Copies, Known
    <3>10. LeftInstall(r)' /\ config' = config
      BY <3>1, <3>9, Frame DEF disk
    <3>11. UndoAt(Me)'
      BY <1>3, <1>4, <3>1, <3>3, <3>6, <3>10 DEF UndoAt, local
    <3> QED BY <3>5, <3>6, <3>11, InUndo
  <2> QED BY <2>5, <2>6
<1> QED BY <1>5, <1>6

--------------------------------------------------------------------------------
(* What archiving a payload does: it has left the name under recovery/.    *)
LEMMA Archives ==
    ASSUME KInv, pc \in Drives, NEW t, t = Me, Full(t),
           NEW p \in PayloadName, p.head >= t.start, InRecovery(t, p) \/ InArchive(t, p),
           NEW next, ArchivePayload(p, next)
    PROVE  /\ pc' = next /\ recovery' \subseteq recovery /\ InArchive(t, p)' /\ IdsInv'
           /\ UNCHANGED <<config, skills, staging, private, commits, txns, nextId, local, last>>
<1>1. PICK here : here = At(recovery, p)
  OBVIOUS
<1>2. PICK there : there = At({r \in archive : r.tree.id = t.payload.id}, p)
  OBVIOUS
<1>3. /\ t.start \in Nat /\ t.payload \in Tree /\ t.payload.id < nextId
      /\ Present(t.payload) /\ ~Present(NoTree)
  BY Only, Literals DEF Txn, Full, Present
<1>4. /\ InRecovery(t, p) => here = t.payload /\ there = NoTree
      /\ InArchive(t, p) => here = NoTree /\ there = t.payload
  BY <1>1, <1>2, <1>3, AtSince, AtArchived DEF InRecovery, InArchive, Placed, KInv, HInv, TInv
<1>5. {here, there} = {NoTree, t.payload}
  BY <1>4
<1>6. /\ pc' = next /\ recovery' = Take(recovery, p)
      /\ archive' = IF Present(here) THEN Put(archive, p, here) ELSE archive
      /\ UNCHANGED <<config, skills, staging, private, commits, txns, nextId, local, last>>
  BY <1>1, <1>2, <1>5, Zenon DEF ArchivePayload, OrConflict, Goto
<1>7. Since(t.start)' = {} /\ recovery' \subseteq recovery
  <2>1. \E x : Since(t.start) = Entry(p, x) \/ Since(t.start) = {}
    BY DEF InRecovery, InArchive, Placed
  <2>2. \A h : h = t.start => Since(h)' = {}
    BY <1>3, <1>6, <2>1, TakeSince
  <2>3. recovery' \subseteq recovery
    BY <1>6 DEF Take
  <2>4. Me' = Me
    BY <1>6 DEF Me, local
  <2> QED BY <2>2, <2>3, <2>4
<1>8. Archived(t.payload)' = Entry(p, t.payload)
  <2> DEFINE e == [at |-> p, tree |-> t.payload]
  <2>1. Entry(p, t.payload) = {e} /\ e.tree = t.payload
    BY DEF Entry
  <2>2. here = t.payload => Put(archive, p, here) = archive \cup {e}
    BY DEF Put
  <2> HIDE DEF e
  <2>3. CASE InRecovery(t, p)
    <3>1. archive' = archive \cup {e} /\ Archived(t.payload) = {}
      BY <1>3, <1>4, <1>6, <2>2, <2>3 DEF InRecovery, Placed
    <3> QED BY <2>1, <3>1 DEF Archived
  <2>4. CASE InArchive(t, p)
    BY <1>3, <1>4, <1>6, <2>4 DEF InArchive, Placed, Archived
  <2> QED BY <2>3, <2>4
<1>9. InArchive(t, p)'
  <2>1. skills[t.name] = NoTree /\ staging[t.name] = NoTree
    BY DEF InRecovery, InArchive, Placed
  <2> QED BY <1>6, <1>7, <1>8, <2>1 DEF InArchive, Placed
<1>10. IdsInv'
  <2>1. \A r \in archive' : r \in archive \/ r.tree = t.payload
    BY <1>3, <1>4, <1>6 DEF Put
  <2> QED BY <1>3, <1>6, <2>1 DEF KInv, IdsInv
<1> QED BY <1>6, <1>7, <1>9, <1>10

LEMMA InstallUndoArchiveSafe == KInv /\ HInv' /\ InstallUndoArchive => KInv'
<1> SUFFICES ASSUME KInv, HInv', InstallUndoArchive PROVE KInv'
  OBVIOUS
<1>1. pc = "undo-archive" /\ pc \in UndoPcs
  BY DEF InstallUndoArchive, UndoPcs
<1>2. PICK t : t = Me
  OBVIOUS
<1>3. /\ Uncommitted(t) /\ Base(t) /\ UndoAt(t) /\ t \in Txn /\ t.name \in Names /\ t.op = "install"
      /\ pc \in Drives /\ t.start \in Nat /\ t.before.reg[t.name] = NONE
  BY <1>1, <1>2, NowUndo, Only DEF InstallUndoArchive
<1>4. PICK p : p = UncommittedName(t)
  OBVIOUS
<1>5. p \in PayloadName /\ p.head >= t.start
  BY <1>3, <1>4, NamesTyped, NamesApart
<1>6. LeftInstall(t) /\ Full(t) /\ (InRecovery(t, p) \/ InArchive(t, p)) /\ seen = config
  BY <1>1, <1>3, <1>4 DEF UndoAt
<1>7. ArchivePayload(p, "undo-config")
  BY <1>2, <1>4 DEF InstallUndoArchive
<1>8. /\ pc' = "undo-config" /\ recovery' \subseteq recovery /\ InArchive(t, p)' /\ IdsInv'
      /\ UNCHANGED <<config, skills, staging, private, commits, txns, nextId, local, last>>
  BY <1>2, <1>3, <1>5, <1>6, <1>7, Archives
<1>9. pc' \in UndoPcs /\ pc' \in Drives
  BY <1>8, Parts DEF UndoPcs
<1>10. Others /\ Me' = t /\ Base(Me)' /\ Uncommitted(Me)'
  BY <1>2, <1>3, <1>8, <1>9, Moves DEF local
<1>11. LeftInstall(t)'
  <2>1. /\ Full(t) /\ Known(t)
        /\ t.stage \in Forward \/ (t.stage = "started" /\ config = t.before)
    BY <1>3, <1>6, Literals DEF LeftInstall, Copies, Staged, Blank, Claiming, Filling, Full, Tree,
       InRecovery, InArchive, Placed, New, Entry, Known
  <2>2. Full(t)' /\ Known(t)'
    BY <1>8, <2>1 DEF Full, Known
  <2> QED BY <1>4, <1>8, <2>1, <2>2 DEF LeftInstall
<1>12. Unfinished(t)' /\ Restored(t)'
  BY <1>3, <1>8, <1>10, <1>11 DEF Unfinished, Restored, InArchive, Placed, NoTree
<1>13. UndoAt(Me)'
  BY <1>3, <1>6, <1>8, <1>10, <1>12 DEF UndoAt, local
<1> QED BY <1>9, <1>10, <1>13, InUndo

LEMMA InstallUndoQuarantineSafe == KInv /\ HInv' /\ InstallUndoQuarantine => KInv'
<1> SUFFICES ASSUME KInv, HInv', InstallUndoQuarantine PROVE KInv'
  OBVIOUS
<1>1. pc = "undo-quarantine" /\ pc \in UndoPcs
  BY DEF InstallUndoQuarantine, UndoPcs
<1>2. PICK t : t = Me
  OBVIOUS
<1>3. /\ Uncommitted(t) /\ Base(t) /\ UndoAt(t) /\ t \in Txn /\ t.name \in Names /\ t.op = "install"
      /\ pc \in Drives /\ t.start \in Nat /\ t.before.reg[t.name] = NONE
      /\ skills \in [Names -> TreeOrNone] /\ staging \in [Names -> TreeOrNone]
  BY <1>1, <1>2, NowUndo, Only DEF InstallUndoQuarantine
<1>4. LeftInstall(t) /\ t.resv = NoTree /\ t.declared = NONE /\ seen = config
  BY <1>1, <1>3 DEF UndoAt
<1>5. PICK p : p = UncommittedName(t)
  OBVIOUS
<1>6. p \in PayloadName /\ p.head >= t.start
  BY <1>3, <1>5, NamesTyped, NamesApart
<1>7. CASE ~Full(t)
  <2>1. Copies(t) /\ Blank(t) /\ staging[t.name] = NoTree
    BY <1>4, <1>7, Literals, ConstantsAssumption DEF LeftInstall, Staged, Claiming, Filling
  <2>2. ~Present(t.payload) /\ ~Present(skills[t.name]) /\ ~Present(staging[t.name])
    BY <1>3, <2>1 DEF Blank, Copies, Present
  <2>3. pc' = "undo-config" /\ UNCHANGED <<disk, commits, txns, nextId, local, last>>
    BY <1>2, <2>2, Zenon DEF InstallUndoQuarantine, OrConflict, Goto
  <2>4. pc' \in UndoPcs /\ Me' = t
    BY <1>2, <2>3 DEF UndoPcs, Me, local
  <2>5. Restored(t)
    BY <1>3, <2>1 DEF Restored, Copies, NoTree
  <2>6. Unfinished(t)
    BY <1>3, <1>4 DEF Unfinished
  <2>7. UndoAt(Me)'
    <3>1. Unfinished(t)' /\ Restored(t)' /\ seen' = config'
      BY <1>4, <2>3, <2>5, <2>6, Frame, FrameTrees DEF disk, local
    <3> QED BY <1>3, <2>3, <2>4, <3>1 DEF UndoAt
  <2> QED BY <1>1, <2>3, <2>4, <2>7, GoesOnUndoing DEF local
<1>8. CASE Full(t)
  <2>1. /\ Known(t)
        /\ t.stage \in Forward \/ (t.stage = "started" /\ config = t.before)
        /\ InStaging(t) \/ InSkills(t) \/ InRecovery(t, p) \/ InArchive(t, p)
    <3>1. ~(Copies(t) /\ Staged(t))
      BY <1>8, Literals DEF Staged, Full, Blank, Claiming, Filling, Tree, Contents
    <3> QED BY <1>4, <1>5, <3>1 DEF LeftInstall
  <2>2. PICK x : x = At(recovery, p)
    OBVIOUS
  <2>3. t.payload \in Tree /\ Present(t.payload) /\ ~Present(NoTree)
    BY <1>8, Literals DEF Full, Present
  <2>4. /\ InStaging(t) \/ InSkills(t) \/ InArchive(t, p) => x = NoTree
        /\ InRecovery(t, p) => x = t.payload
    BY <1>3, <1>6, <2>2, AtSince DEF InStaging, InSkills, InRecovery, InArchive, Placed, KInv,
       HInv, TInv
  <2>5. /\ ~(Present(skills[t.name]) /\ Present(staging[t.name]))
        /\ Present(x) => ~Present(skills[t.name]) /\ ~Present(staging[t.name])
        /\ Present(skills[t.name]) => skills[t.name] = t.payload
        /\ Present(staging[t.name]) => staging[t.name] = t.payload
    BY <2>1, <2>3, <2>4 DEF InStaging, InSkills, InRecovery, InArchive, Placed
  <2>6. /\ pc' = "undo-archive" /\ UNCHANGED <<config, private, archive>>
        /\ UNCHANGED <<commits, txns, nextId, local, last>>
        /\ recovery' = IF Present(skills[t.name]) \/ Present(staging[t.name])
                       THEN Put(recovery, p, t.payload) ELSE recovery
        /\ skills' = [skills EXCEPT ![t.name] = NoTree]
        /\ staging' = [staging EXCEPT ![t.name] = NoTree]
    BY <1>2, <1>5, <2>2, <2>3, <2>5, Zenon DEF InstallUndoQuarantine, OrConflict, Goto
  <2>7. pc' \in UndoPcs /\ pc' \in Drives
    BY <2>6, Parts DEF UndoPcs
  <2>8. IdsInv'
    BY <1>3, <2>6 DEF KInv, IdsInv, NoTree, HInv, TInv, DiskTyped
  <2>9. \A r \in recovery' : r \in recovery \/ r.at.head >= t.start
    BY <1>3, <1>6, <2>6, PutSince
  <2>10. Others /\ Me' = t /\ Base(Me)' /\ Uncommitted(Me)'
    BY <1>2, <1>3, <2>6, <2>7, <2>8, <2>9, Moves DEF local
  <2>11. /\ skills'[t.name] = NoTree /\ staging'[t.name] = NoTree
         /\ Archived(t.payload)' = Archived(t.payload)
    BY <1>3, <2>6 DEF Archived
  <2>12. InRecovery(t, p)' \/ InArchive(t, p)'
    <3>1. CASE InStaging(t) \/ InSkills(t)
      <4>1. /\ recovery' = Put(recovery, p, t.payload)
            /\ Since(t.start) = {} /\ Archived(t.payload) = {}
        BY <2>3, <2>6, <3>1 DEF InStaging, InSkills, Placed
      <4>2. Since(t.start)' = Entry(p, t.payload)
        BY <1>3, <1>6, <4>1, PutSince
      <4> QED BY <2>11, <4>1, <4>2 DEF InRecovery, Placed
    <3>2. CASE InRecovery(t, p) \/ InArchive(t, p)
      <4>1. recovery' = recovery
        BY <2>3, <2>6, <3>2 DEF InRecovery, InArchive, Placed
      <4> QED BY <2>11, <3>2, <4>1 DEF InRecovery, InArchive, Placed, Since
    <3> QED BY <2>1, <3>1, <3>2
  <2>13. Full(t)' /\ LeftInstall(t)'
    <3>1. Full(t)' /\ Known(t)'
      BY <1>8, <2>1, <2>6 DEF Full, Known
    <3> QED BY <1>5, <2>1, <2>6, <2>12, <3>1 DEF LeftInstall
  <2>14. UndoAt(Me)'
    BY <1>3, <1>4, <1>5, <2>6, <2>10, <2>12, <2>13 DEF UndoAt, local
  <2> QED BY <2>7, <2>10, <2>14, InUndo
<1> QED BY <1>7, <1>8

LEMMA RemoveUndoRestoreSafe == KInv /\ HInv' /\ RemoveUndoRestore => KInv'
<1> SUFFICES ASSUME KInv, HInv', RemoveUndoRestore PROVE KInv'
  OBVIOUS
<1>1. pc = "undo-restore" /\ pc \in UndoPcs
  BY DEF RemoveUndoRestore, UndoPcs
<1>2. PICK t : t = Me
  OBVIOUS
<1>3. /\ Uncommitted(t) /\ Base(t) /\ UndoAt(t) /\ t \in Txn /\ t.name \in Names
      /\ pc \in Drives /\ t.start \in Nat
      /\ skills \in [Names -> TreeOrNone] /\ staging \in [Names -> TreeOrNone]
  BY <1>1, <1>2, NowUndo
<1>4. t.op = "rm" /\ LeftRemove(t) /\ seen = config
  BY <1>1, <1>3 DEF UndoAt
<1>5. PICK p : p = RemovedName(t)
  OBVIOUS
<1>6. p \in PayloadName /\ p.head >= t.start
  BY <1>3, <1>5, NamesTyped, NamesApart
<1>7. PICK x : x = At(recovery, p)
  OBVIOUS
<1>8. Untouched(t) \/ (Known(t) /\ (Whole(t) \/ Taken(t)))
  BY <1>4 DEF LeftRemove
<1>9. /\ ~Present(NoTree)
      /\ Untouched(t) => ~Present(t.payload) /\ x = NoTree
      /\ Whole(t) => Present(t.payload) /\ x = NoTree /\ skills[t.name] = t.payload
      /\ Taken(t) => Present(t.payload) /\ x = t.payload /\ skills[t.name] = NoTree
  BY <1>3, <1>5, <1>6, <1>7, AtSince, Literals DEF Untouched, Blank, Whole, Taken, Takes, Present,
     KInv, HInv, TInv
<1>10. IF Present(t.payload) THEN {skills[t.name], x} = {NoTree, t.payload} ELSE ~Present(x)
  BY <1>8, <1>9
<1>11. /\ pc' = "undo-config" /\ UNCHANGED <<config, staging, private, archive>>
       /\ UNCHANGED <<commits, txns, nextId, local, last>>
       /\ skills' = IF Present(x) THEN [skills EXCEPT ![t.name] = x] ELSE skills
       /\ recovery' = Take(recovery, p)
  BY <1>2, <1>5, <1>7, <1>10, Zenon DEF RemoveUndoRestore, OwnsPayload, OrConflict, Goto
<1>12. pc' \in UndoPcs /\ pc' \in Drives
  BY <1>11, Parts DEF UndoPcs
<1>13. recovery' \subseteq recovery /\ Since(t.start)' = {}
  <2>1. Since(t.start) = {} \/ Since(t.start) = Entry(p, t.payload)
    BY <1>5, <1>8 DEF Untouched, Whole, Taken
  <2> QED BY <1>3, <1>11, <2>1, TakeSince
<1>14. skills'[t.name] = IF Taken(t) THEN t.payload ELSE skills[t.name]
  BY <1>3, <1>8, <1>9, <1>11
<1>15. IdsInv'
  <2>1. Taken(t) => t.payload.id < nextId
    BY DEF Taken, Takes
  <2>2. \A n \in Names : skills'[n] = skills[n] \/ (Taken(t) /\ skills'[n] = t.payload)
    BY <1>3, <1>8, <1>9, <1>11
  <2> QED BY <1>11, <2>1, <2>2 DEF KInv, IdsInv
<1>16. Others /\ Me' = t /\ Base(Me)' /\ Uncommitted(Me)'
  BY <1>2, <1>3, <1>11, <1>12, <1>13, <1>15, Moves DEF local
<1>17. LeftRemove(t)' /\ Restored(t)'
  <2>1. CASE Untouched(t)
    <3>1. skills'[t.name] = skills[t.name]
      BY <1>9, <1>11, <2>1
    <3>2. Untouched(t)'
      BY <1>4, <1>11, <1>13, <2>1, <3>1 DEF Untouched, Blank
    <3> QED BY <1>4, <2>1, <3>1, <3>2, <1>13 DEF LeftRemove, Restored, Untouched
  <2>2. CASE Known(t) /\ (Whole(t) \/ Taken(t))
    <3>1. Takes(t) /\ skills'[t.name] = t.payload
      BY <1>14, <2>2 DEF Whole, Taken
    <3>2. Whole(t)' /\ Known(t)'
      BY <1>11, <1>13, <2>2, <3>1 DEF Whole, Takes, Known
    <3> QED BY <1>4, <1>13, <3>1, <3>2 DEF LeftRemove, Restored, Takes
  <2> QED BY <1>8, <2>1, <2>2
<1>18. UndoAt(Me)'
  BY <1>4, <1>11, <1>16, <1>17 DEF UndoAt, Unfinished, local
<1> QED BY <1>12, <1>16, <1>18, InUndo

LEMMA UpdateUndoExchangeSafe == KInv /\ HInv' /\ UpdateUndoExchange => KInv'
<1> SUFFICES ASSUME KInv, HInv', UpdateUndoExchange PROVE KInv'
  OBVIOUS
<1>1. pc = "undo-exchange" /\ pc \in UndoPcs
  BY DEF UpdateUndoExchange, UndoPcs
<1>2. PICK t : t = Me
  OBVIOUS
<1>3. /\ Uncommitted(t) /\ Base(t) /\ UndoAt(t) /\ t \in Txn /\ t.name \in Names
      /\ pc \in Drives /\ t.start \in Nat
      /\ skills \in [Names -> TreeOrNone] /\ staging \in [Names -> TreeOrNone]
  BY <1>1, <1>2, NowUndo
<1>4. t.op = "update" /\ LeftUpdate(t) /\ PastStaging(t) /\ seen = config
  BY <1>1, <1>3 DEF UndoAt
<1>5. /\ Known(t)
      /\ \/ Unexchanged(t) /\ (staging[t.name] = NoTree \/ Removable(staging[t.name], t.payload))
         \/ Exchanged(t)
  BY <1>4 DEF LeftUpdate, PastStaging, Untouched, Copies
<1>6. Replaces(t) /\ t.prev.id # t.payload.id /\ t.payload \in Tree /\ Full(t)
  BY <1>5 DEF Unexchanged, Exchanged, Replaces, Full
<1>7. CASE Unexchanged(t)
  <2>1. pc' = "undo-discard" /\ UNCHANGED <<disk, commits, txns, nextId, local, last>>
    BY <1>2, <1>7, Zenon DEF UpdateUndoExchange, OrConflict, Goto, Unexchanged
  <2>2. pc' \in UndoPcs /\ Me' = t
    BY <1>2, <2>1 DEF UndoPcs, Me, local
  <2>3. LeftUpdate(t)' /\ Unexchanged(t)' /\ config' = config /\ seen' = seen
    BY <1>4, <1>7, <2>1, Frame, FrameTrees DEF disk, local
  <2>4. UndoAt(Me)'
    BY <1>4, <2>1, <2>2, <2>3 DEF UndoAt
  <2> QED BY <1>1, <2>1, <2>2, <2>4, GoesOnUndoing DEF local
<1>8. CASE ~Unexchanged(t)
  <2>1. Exchanged(t) /\ skills[t.name] = t.payload /\ staging[t.name] = t.prev /\ t.payload # t.prev
    BY <1>5, <1>6, <1>8 DEF Exchanged
  <2>2. Exchange(t.name, t.prev, t.payload, "undo-discard")
    BY <1>2, <2>1, Zenon DEF UpdateUndoExchange, OrConflict, Exchangeable
  <2>3. /\ pc' = "undo-discard" /\ UNCHANGED <<config, private, recovery, archive>>
        /\ UNCHANGED <<commits, txns, nextId, local, last>>
        /\ staging' = [staging EXCEPT ![t.name] = t.payload]
        /\ skills' = [skills EXCEPT ![t.name] = t.prev]
    BY <2>2 DEF Exchange, Goto
  <2>4. pc' \in UndoPcs /\ pc' \in Drives
    BY <2>3, Parts DEF UndoPcs
  <2>5. IdsInv'
    <3>1. t.prev.id < nextId
      BY <1>6 DEF Replaces
    <3>2. \A n \in Names : skills'[n] = skills[n] \/ skills'[n] = t.prev
      BY <1>3, <2>3
    <3> QED BY <2>3, <3>1, <3>2 DEF KInv, IdsInv
  <2>6. Others /\ Me' = t /\ Base(Me)' /\ Uncommitted(Me)'
    BY <1>2, <1>3, <1>4, <2>3, <2>4, <2>5, Moves DEF local
  <2>7. staging'[t.name] = t.payload /\ skills'[t.name] = t.prev
    BY <1>3, <2>3
  <2>8. Unexchanged(t)' /\ Known(t)' /\ Removable(staging'[t.name], t.payload)
    BY <1>5, <1>6, <2>3, <2>7, Literals DEF Unexchanged, Replaces, Full, Since, Known, Removable,
       Present
  <2>9. LeftUpdate(t)'
    BY <1>4, <2>8 DEF LeftUpdate, PastStaging, Removable
  <2>10. UndoAt(Me)'
    BY <1>4, <2>3, <2>6, <2>8, <2>9 DEF UndoAt, local
  <2> QED BY <2>4, <2>6, <2>10, InUndo
<1> QED BY <1>7, <1>8

LEMMA UpdateUndoRootSafe == KInv /\ HInv' /\ UpdateUndoRoot => KInv'
<1> SUFFICES ASSUME KInv, HInv', UpdateUndoRoot PROVE KInv'
  OBVIOUS
<1>1. pc = "undo-root" /\ pc \in UndoPcs
  BY DEF UpdateUndoRoot, UndoPcs
<1>2. PICK t : t = Me
  OBVIOUS
<1>3. /\ Uncommitted(t) /\ Base(t) /\ UndoAt(t) /\ t \in Txn /\ t.name \in Names /\ t.op = "update"
      /\ pc \in Drives /\ t.start \in Nat /\ private \subseteq Tree
      /\ skills \in [Names -> TreeOrNone] /\ staging \in [Names -> TreeOrNone]
  BY <1>1, <1>2, NowUndo DEF UpdateUndoRoot, KInv, HInv, TInv, DiskTyped
<1>4. LeftUpdate(t) /\ ~PastStaging(t) /\ seen = config
  BY <1>1, <1>3 DEF UndoAt, Unfinished
<1>5. Untouched(t) \/ (Copies(t) /\ Staged(t))
  BY <1>4 DEF LeftUpdate
<1>6. t.resv \in private => Copies(t) /\ Claiming(t) /\ New(t, t.resv) /\ staging[t.name] = NoTree
  BY <1>3, <1>5, Literals DEF Untouched, Staged, Blank, Claiming, Filling
<1>7. /\ pc' = "undo-discard" /\ UNCHANGED <<config, skills, recovery, archive>>
      /\ UNCHANGED <<commits, txns, nextId, local, last>>
      /\ private' = private \ {t.resv}
      /\ staging' = IF t.resv \in private THEN [staging EXCEPT ![t.name] = t.resv] ELSE staging
  BY <1>2, <1>6, Zenon DEF UpdateUndoRoot, OrConflict, Goto, Present
<1>8. pc' \in UndoPcs /\ pc' \in Drives
  BY <1>7, Parts DEF UndoPcs
<1>9. IdsInv'
  BY <1>7 DEF KInv, IdsInv
<1>10. Others /\ Me' = t /\ Base(Me)' /\ Uncommitted(Me)'
  BY <1>2, <1>3, <1>7, <1>8, <1>9, Moves DEF local
<1>11. Untouched(t)' \/ (Copies(t)' /\ Staged(t)')
  <2>1. CASE t.resv \notin private
    <3>1. private' = private /\ UNCHANGED disk
      BY <1>7, <2>1 DEF disk
    <3> QED BY <1>5, <1>7, <3>1, Frame, FrameTrees DEF disk
  <2>2. CASE t.resv \in private
    <3>1. staging'[t.name] = t.resv /\ t.resv \notin private'
      BY <1>3, <1>7, <2>2
    <3>2. Copies(t)' /\ New(t, t.resv)' /\ Claiming(t)'
      BY <1>6, <1>7, <2>2 DEF Copies, New, Since, Archived, Claiming
    <3> QED BY <3>1, <3>2 DEF Staged
  <2> QED BY <2>1, <2>2
<1>12. LeftUpdate(t)' /\ ~PastStaging(t)'
  BY <1>4, <1>11 DEF LeftUpdate, PastStaging
<1>13. UndoAt(Me)'
  BY <1>3, <1>4, <1>7, <1>10, <1>12 DEF UndoAt, local
<1> QED BY <1>8, <1>10, <1>13, InUndo

(* Emptying what is staged stops between the content and its root.         *)
LEMMA UpdateUndoDiscardSafe == KInv /\ HInv' /\ UpdateUndoDiscard => KInv'
<1> SUFFICES ASSUME KInv, HInv', UpdateUndoDiscard PROVE KInv'
  OBVIOUS
<1>1. pc = "undo-discard" /\ pc \in UndoPcs
  BY DEF UpdateUndoDiscard, UndoPcs
<1>2. PICK t : t = Me
  OBVIOUS
<1>3. /\ Uncommitted(t) /\ Base(t) /\ UndoAt(t) /\ t \in Txn /\ t.name \in Names
      /\ pc \in Drives /\ t.start \in Nat
      /\ skills \in [Names -> TreeOrNone] /\ staging \in [Names -> TreeOrNone]
  BY <1>1, <1>2, NowUndo
<1>4. t.op = "update" /\ LeftUpdate(t) /\ (PastStaging(t) => Unexchanged(t)) /\ seen = config
  BY <1>1, <1>3 DEF UndoAt
<1>5. PICK x : x = staging[t.name]
  OBVIOUS
<1>6. x \in TreeOrNone /\ (Present(x) <=> x \in Tree) /\ (Present(x) <=> x # NoTree)
  BY <1>3, <1>5, Literals DEF TreeOrNone, Present
<1>7. \/ Untouched(t) /\ x = NoTree
      \/ Copies(t) /\ Staged(t)
      \/ PastStaging(t) /\ Known(t) /\ Unexchanged(t) /\ (x = NoTree \/ Removable(x, t.payload))
  <2>1. ~(Unexchanged(t) /\ Exchanged(t))
    BY DEF Unexchanged, Exchanged, Replaces
  <2> QED BY <1>4, <1>5, <2>1 DEF LeftUpdate, Untouched
<1>8. PICK owned : owned = IF Present(t.resv) THEN t.resv ELSE t.payload
  OBVIOUS
<1>9. Present(x) => /\ Present(owned) /\ x.id = owned.id
                    /\ (Present(t.resv) \/ Present(t.payload))
                    /\ \/ t.declared = NONE /\ Removable(x, owned)
                       \/ t.declared # NONE /\ x.c \in {EMPTY, t.declared} \cup Torn
  <2> SUFFICES ASSUME Present(x)
               PROVE  /\ Present(owned) /\ x.id = owned.id
                      /\ (Present(t.resv) \/ Present(t.payload))
                      /\ \/ t.declared = NONE /\ Removable(x, owned)
                         \/ t.declared # NONE /\ x.c \in {EMPTY, t.declared} \cup Torn
    OBVIOUS
  <2>1. \A u \in Tree : Present(u)
    BY Literals DEF Present
  <2>2. \A d \in Upstream : d # NONE
    BY ConstantsAssumption
  <2>3. CASE Copies(t) /\ Staged(t)
    <3>1. \/ Claiming(t) /\ x = t.resv
          \/ Filling(t) /\ x.id = t.payload.id /\ x.c \in {EMPTY, t.declared} \cup Torn
      BY <1>5, <1>6, <2>3 DEF Staged
    <3>2. CASE Claiming(t) /\ x = t.resv
      BY <1>8, <2>1, <2>2, <3>2 DEF Claiming
    <3>3. CASE Filling(t) /\ x.id = t.payload.id /\ x.c \in {EMPTY, t.declared} \cup Torn
      <4>1. owned = t.payload /\ Present(t.payload) /\ t.declared # NONE
        BY <1>8, <2>1, <2>2, <3>3 DEF Filling, Present
      <4> QED BY <3>3, <4>1
    <3> QED BY <3>1, <3>2, <3>3
  <2>4. CASE Unexchanged(t) /\ Removable(x, t.payload)
    <3>1. t.resv = NoTree /\ t.declared = NONE /\ Present(t.payload)
      BY <2>1, <2>4 DEF Unexchanged, Replaces, Full
    <3>2. owned = t.payload
      BY <1>8, <3>1 DEF Present
    <3> QED BY <2>4, <3>1, <3>2 DEF Removable
  <2> QED BY <1>6, <1>7, <2>3, <2>4
<1>10. CASE ~Discardable(x, t)
  <2>1. Present(x) /\ t.declared # NONE /\ x.c \in Torn
    BY <1>8, <1>9, <1>10 DEF Discardable, Settles
  <2>2. TornCopies /\ Conflict
    BY <1>2, <1>5, <1>10, <2>1 DEF UpdateUndoDiscard, OrConflict, Torn
  <2> QED BY <2>2, ConflictSafe
<1>11. CASE Discardable(x, t)
  <2>1. \E left \in IF Present(t.resv) \/ Present(t.payload) THEN Leftovers(x, x) ELSE {x} :
          /\ staging' = [staging EXCEPT ![t.name] = left]
          /\ pc' = IF left \in {NoTree, x} THEN "undo-config" ELSE "undo-discard"
          /\ UNCHANGED <<config, skills, private, recovery, archive>>
          /\ UNCHANGED <<commits, txns, nextId, local, last>>
    BY <1>2, <1>5, <1>11, Zenon DEF UpdateUndoDiscard, OrConflict, Goto
  <2>2. PICK left \in IF Present(t.resv) \/ Present(t.payload) THEN Leftovers(x, x) ELSE {x} :
          /\ staging' = [staging EXCEPT ![t.name] = left]
          /\ pc' = IF left \in {NoTree, x} THEN "undo-config" ELSE "undo-discard"
          /\ UNCHANGED <<config, skills, private, recovery, archive>>
          /\ UNCHANGED <<commits, txns, nextId, local, last>>
    BY <2>1
  <2>3. \/ left = NoTree
        \/ left = [x EXCEPT !.c = EMPTY] /\ left # x /\ left # NoTree /\ x \in Tree
    <3>1. CASE Present(x)
      <4>1. left \in {NoTree} \cup ({[x EXCEPT !.c = EMPTY]} \ {x})
        BY <1>9, <2>2, <3>1 DEF Leftovers, Removable
      <4>2. x \in Tree /\ [x EXCEPT !.c = EMPTY].id # 0
        BY <1>6, <3>1 DEF Tree
      <4> QED BY <4>1, <4>2 DEF NoTree
    <3>2. CASE ~Present(x)
      BY <1>6, <2>2, <3>2 DEF Leftovers, Removable
    <3> QED BY <3>1, <3>2
  <2>4. staging'[t.name] = left /\ pc' \in UndoPcs /\ pc' \in Drives
        /\ (pc' = "undo-config" => left = NoTree) /\ pc' \in {"undo-config", "undo-discard"}
    BY <1>3, <2>2, <2>3, Parts DEF UndoPcs
  <2>5. IdsInv'
    BY <2>2 DEF KInv, IdsInv
  <2>6. Others /\ Me' = t /\ Base(Me)' /\ Uncommitted(Me)'
    BY <1>2, <1>3, <1>4, <2>2, <2>4, <2>5, Moves DEF local
  <2>7. skills[t.name].c = t.before.reg[t.name] /\ Since(t.start) = {}
    BY <1>4, <1>7 DEF Untouched, Copies, Unexchanged, Replaces
  <2>8. /\ \A h : Since(h)' = Since(h)
        /\ \A y : New(t, y)' <=> New(t, y)
        /\ Copies(t)' <=> Copies(t)
    BY <2>2 DEF Since, New, Archived, Copies
  <2>9. LeftUpdate(t)' /\ (PastStaging(t)' => Unexchanged(t)')
    <3>1. CASE Untouched(t) /\ x = NoTree
      <4>1. left = NoTree
        BY <2>3, <3>1, Literals
      <4>2. Untouched(t)'
        BY <2>2, <2>4, <2>8, <3>1, <4>1 DEF Untouched, Blank
      <4> QED BY <1>4, <4>2 DEF LeftUpdate, PastStaging, Untouched
    <3>2. CASE Copies(t) /\ Staged(t)
      <4>1. Staged(t)'
        <5>1. CASE left = NoTree
          BY <1>4, <1>5, <2>2, <2>4, <2>8, <3>2, <5>1, Literals DEF Staged, Blank, Claiming, Filling
        <5>2. CASE left # NoTree
          <6>1. /\ left = [x EXCEPT !.c = EMPTY] /\ left # x /\ x \in Tree
                /\ left.id = x.id /\ left.c = EMPTY
            BY <2>3, <5>2 DEF Tree
          <6>2. ~Claiming(t)
            BY <1>5, <2>3, <3>2, <6>1, Literals DEF Staged, Blank, Claiming, Filling, Tree
          <6>3. Filling(t) /\ New(t, t.payload) /\ x.id = t.payload.id
            BY <1>5, <3>2, <6>1, <6>2, Literals DEF Staged
          <6>4. Filling(t)' /\ New(t, t.payload)'
            BY <2>8, <6>3 DEF Filling
          <6> QED BY <2>4, <6>1, <6>3, <6>4 DEF Staged
        <5> QED BY <5>1, <5>2
      <4>2. ~PastStaging(t)
        BY <1>4, <3>2 DEF Copies, PastStaging
      <4> QED BY <2>8, <3>2, <4>1, <4>2 DEF LeftUpdate, PastStaging
    <3>3. CASE /\ PastStaging(t) /\ Known(t) /\ Unexchanged(t)
               /\ x = NoTree \/ Removable(x, t.payload)
      <4>1. Unexchanged(t)' /\ Known(t)'
        BY <2>2, <2>8, <3>3 DEF Unexchanged, Replaces, Full, Known
      <4>2. left = NoTree \/ Removable(left, t.payload)
        <5>1. CASE left # NoTree
          <6>1. Removable(x, t.payload)
            BY <2>3, <3>3, <5>1, Literals
          <6> QED BY <2>3, <5>1, <6>1 DEF Removable, Present, Tree
        <5> QED BY <5>1
      <4> QED BY <2>4, <3>3, <4>1, <4>2 DEF LeftUpdate, PastStaging, Removable
    <3> QED BY <1>7, <3>1, <3>2, <3>3
  <2>10. pc' = "undo-config" => Unfinished(t)' /\ Restored(t)'
    BY <1>4, <2>2, <2>4, <2>6, <2>7, <2>8, <2>9 DEF Unfinished, Restored
  <2>11. UndoAt(Me)'
    BY <1>4, <2>2, <2>4, <2>6, <2>9, <2>10 DEF UndoAt, local
  <2> QED BY <2>4, <2>6, <2>11, InUndo
<1> QED BY <1>10, <1>11

LEMMA UndoConfigSafe == KInv /\ HInv' /\ UndoConfig => KInv'
<1> SUFFICES ASSUME KInv, HInv', UndoConfig PROVE KInv'
  OBVIOUS
<1>1. pc = "undo-config" /\ pc \in UndoPcs
  BY DEF UndoConfig, UndoPcs
<1>2. PICK t : t = Me
  OBVIOUS
<1>3. /\ Uncommitted(t) /\ Base(t) /\ UndoAt(t) /\ t \in Txn /\ pc \in Drives
  BY <1>1, <1>2, NowUndo
<1>4. Unfinished(t) /\ Restored(t) /\ seen = config
  BY <1>1, <1>3 DEF UndoAt
<1>5. /\ pc' = "undo-clear" /\ config' = IF seen = t.before THEN config ELSE t.before
      /\ UNCHANGED <<skills, staging, private, recovery, archive, commits, txns, nextId>>
      /\ UNCHANGED <<local, last>>
  BY <1>2, <1>4, Zenon DEF UndoConfig, RestoreTxnConfig, OrConflict, ConfigAsJudged, Goto
<1>6. config' = t.before
  BY <1>4, <1>5
<1>7. pc' \in UndoPcs /\ pc' \in Drives
  BY <1>5, Parts DEF UndoPcs
<1>8. Others /\ Me' = t /\ Base(Me)' /\ Uncommitted(Me)'
  BY <1>2, <1>3, <1>5, <1>7, MovesNothing DEF local
<1>9. Restored(t)'
  BY <1>4, <1>5, FrameTrees
<1>10. /\ Untouched(t) => Untouched(t)'
       /\ Copies(t) => Copies(t)'
       /\ Known(t)'
  BY <1>5, <1>6, FrameTrees DEF Untouched, Copies, Known
<1>11. /\ LeftInstall(t) => LeftInstall(t)'
       /\ LeftUpdate(t) => LeftUpdate(t)'
       /\ LeftRemove(t) => LeftRemove(t)'
  BY <1>5, <1>6, <1>10, FrameTrees DEF LeftInstall, LeftUpdate, LeftRemove
<1>12. Unfinished(t)'
  BY <1>4, <1>8, <1>11 DEF Unfinished
<1>13. UndoAt(Me)'
  BY <1>5, <1>6, <1>8, <1>9, <1>12 DEF UndoAt
<1> QED BY <1>7, <1>8, <1>13, InUndo

--------------------------------------------------------------------------------
(* What a recovery that compensates knows.                                 *)
LEMMA NowFinish ==
    ASSUME KInv, pc \in FinishPcs \ {"finish-reclaim", "finish-clear"}
    PROVE  /\ Base(Me) /\ FinishAt(Me) /\ Me.op = "install" /\ Me.before.reg[Me.name] = NONE
           /\ Me \in Txn /\ Me.status = "open" /\ Me.name \in Names /\ Me.before \in Config
           /\ Me.start \in Nat
           /\ RollbackName(Me) \in PayloadName /\ RollbackName(Me).head >= Me.start
           /\ pc \in Drives /\ pc \notin UndoPcs
           /\ skills \in [Names -> TreeOrNone] /\ staging \in [Names -> TreeOrNone]
<1>1. pc \in Drives /\ pc \notin UndoPcs
  BY Parts DEF FinishPcs
<1>2. Me \in Txn /\ Me.start \in Nat
  BY <1>1, Only DEF Txn
<1>3. FinishAt(Me) /\ Base(Me)
  BY <1>1 DEF KInv, DriveInv
<1>4. Me.op = "install"
  BY <1>3 DEF FinishAt, FinishPcs, Reverting, Reverted
<1> QED BY <1>1, <1>2, <1>3, <1>4, Only, NamesTyped, NamesApart DEF KInv, HInv, TInv, DiskTyped

(* The stage and the fingerprint of a record do not change what is on      *)
(* disk of it.                                                             *)
LEMMA SameInstall ==
    ASSUME NEW t \in Txn, NEW r, r.op = t.op, r.name = t.name, r.start = t.start,
           r.before = t.before,
           r.payload = t.payload, r.resv = t.resv, r.declared = t.declared, r.ctree = t.ctree
    PROVE  /\ Full(r) <=> Full(t)
           /\ InSkills(r) <=> InSkills(t)
           /\ InRecovery(r, RollbackName(r)) <=> InRecovery(t, RollbackName(t))
           /\ InArchive(r, RollbackName(r)) <=> InArchive(t, RollbackName(t))
           /\ Known(r) <=> Known(t)
           /\ Committed(r) <=> Committed(t)
           /\ r.comp = t.comp => (Compensated(r) <=> Compensated(t))
           /\ RollbackName(r) = RollbackName(t)
<1>1. ExpectedConfig(r) = ExpectedConfig(t) /\ RollbackName(r) = RollbackName(t)
  BY DEF ExpectedConfig, RollbackName
<1> QED BY <1>1 DEF Full, InSkills, InRecovery, InArchive, Placed, Known, Committed, Compensated,
       IsOperationCommit, IsRecoveryCommit

(* While it compensates the worktree differs from HEAD in fu.yaml and in   *)
(* the skill only, and each is still, or again no longer, what HEAD holds. *)
LEMMA RevertingDiffers ==
    ASSUME KInv, NEW t \in Txn, t.name \in Names, t.before \in Config, Base(t), Committed(t),
           t.op = "install", t.before.reg[t.name] = NONE, Full(t), Known(t)
    PROVE  /\ ChangedPaths(Worktree, HeadSnap) \subseteq {"fu.yaml", t.name}
           /\ config # t.before => "fu.yaml" \notin ChangedPaths(Worktree, HeadSnap)
           /\ skills[t.name] = t.payload => t.name \notin ChangedPaths(Worktree, HeadSnap)
           /\ config = t.before /\ skills[t.name] = NoTree =>
                Worktree = Agreed(t.before) /\ Worktree # HeadSnap
<1>1. PICK x : x = ExpectedConfig(t)
  OBVIOUS
<1>2. \A n \in Names : x.reg[n] = IF n = t.name THEN t.payload.c ELSE t.before.reg[n]
  BY <1>1 DEF ExpectedConfig, SetReg, Config
<1>3. HeadSnap.cfg = x /\ HeadSnap.tree = x.reg
  BY <1>1 DEF Committed, Agreed
<1>4. Worktree.cfg = config /\ \A n \in Names : Worktree.tree[n] = skills[n].c
  BY DEF Worktree
<1>5. \A n \in Names \ {t.name} : skills[n].c = x.reg[n]
  BY <1>2 DEF Base
<1>6. \A n \in Names : n # "fu.yaml"
  BY ConstantsAssumption
<1>7. config # t.before => config = x
  BY <1>1 DEF Known
<1>8. ASSUME config = t.before, skills[t.name] = NoTree
      PROVE  Worktree = Agreed(t.before) /\ Worktree # HeadSnap
  <2>1. \A n \in Names : skills[n].c = t.before.reg[n]
    BY <1>8 DEF Base, NoTree
  <2>2. Worktree = Agreed(t.before)
    BY <1>8, <2>1 DEF Worktree, Agreed, Config
  <2>3. t.payload.c # NONE
    BY Literals DEF Full, Tree
  <2>4. x # t.before
    BY <1>2, <2>3
  <2> QED BY <1>3, <1>4, <1>8, <2>2, <2>4
<1> QED BY <1>3, <1>4, <1>5, <1>6, <1>7, <1>2, <1>8 DEF ChangedPaths

(* A record that keeps all but how far the undoing got, and the commit it  *)
(* expects.                                                                *)
LEMMA CompLogStartSafe == KInv /\ HInv' /\ CompLogStart => KInv'
<1> SUFFICES ASSUME KInv, HInv', CompLogStart PROVE KInv'
  OBVIOUS
<1>1. /\ pc = "comp-log-start" /\ pc' = "comp-quarantine"
      /\ pc \in FinishPcs \ {"finish-reclaim", "finish-clear"}
      /\ UNCHANGED <<disk, commits, nextId, local, last>>
  BY DEF CompLogStart, Goto, FinishPcs
<1>2. PICK t : t = Me
  OBVIOUS
<1>3. t \in Txn /\ t.op = "install" /\ Finished(t) /\ pc \in Drives /\ pc \notin UndoPcs
  BY <1>1, <1>2, NowFinish DEF FinishAt
<1>4. PICK r : r = [t EXCEPT !.stage = "compensating"] /\ WriteTxn(r)
  BY <1>2 DEF CompLogStart
<1>5. /\ r.stage = "compensating" /\ r.status = t.status
      /\ r.op = t.op /\ r.name = t.name /\ r.start = t.start /\ r.before = t.before
      /\ r.payload = t.payload /\ r.resv = t.resv /\ r.declared = t.declared /\ r.ctree = t.ctree
  BY <1>3, <1>4 DEF Txn
<1>6. pc' \in FinishPcs /\ pc' \in Drives
  BY <1>1, Parts DEF FinishPcs
<1>7. Others /\ Me' = r /\ Base(Me)'
  BY <1>1, <1>2, <1>3, <1>4, <1>5, <1>6, Logs DEF local
<1>8. Reverting(r)
  BY <1>3, <1>5, SameInstall DEF Finished, Published, Reverting, Known
<1>9. Reverting(r)'
  BY <1>1, <1>8, Frame
<1>10. FinishAt(Me)'
  BY <1>1, <1>5, <1>7, <1>9 DEF FinishAt
<1> QED BY <1>6, <1>7, <1>10, InFinish

LEMMA CompLogReadySafe == KInv /\ HInv' /\ CompLogReady => KInv'
<1> SUFFICES ASSUME KInv, HInv', CompLogReady PROVE KInv'
  OBVIOUS
<1>1. /\ pc = "comp-log-ready" /\ pc' = "comp-prepare"
      /\ pc \in FinishPcs \ {"finish-reclaim", "finish-clear"}
      /\ UNCHANGED <<disk, commits, nextId, local, last>>
  BY DEF CompLogReady, Goto, FinishPcs
<1>2. PICK t : t = Me
  OBVIOUS
<1>3. /\ t \in Txn /\ t.op = "install" /\ Reverting(t) /\ config = t.before
      /\ InRecovery(t, RollbackName(t)) /\ pc \in Drives /\ pc \notin UndoPcs
  BY <1>1, <1>2, NowFinish DEF FinishAt
<1>4. PICK r : r = [t EXCEPT !.stage = "compensation-ready"] /\ WriteTxn(r)
  BY <1>2 DEF CompLogReady
<1>5. /\ r.stage = "compensation-ready" /\ r.status = t.status
      /\ r.op = t.op /\ r.name = t.name /\ r.start = t.start /\ r.before = t.before
      /\ r.payload = t.payload /\ r.resv = t.resv /\ r.declared = t.declared /\ r.ctree = t.ctree
  BY <1>3, <1>4 DEF Txn
<1>6. pc' \in FinishPcs /\ pc' \in Drives
  BY <1>1, Parts DEF FinishPcs
<1>7. Others /\ Me' = r /\ Base(Me)'
  BY <1>1, <1>2, <1>3, <1>4, <1>5, <1>6, Logs DEF local
<1>8. Reverting(r)
  BY <1>3, <1>5, SameInstall DEF Reverting
<1>9. Reverting(r)'
  BY <1>1, <1>8, Frame
<1>10. FinishAt(Me)'
  BY <1>1, <1>5, <1>7, <1>9 DEF FinishAt
<1> QED BY <1>6, <1>7, <1>10, InFinish

LEMMA CompQuarantineSafe == KInv /\ HInv' /\ CompQuarantine => KInv'
<1> SUFFICES ASSUME KInv, HInv', CompQuarantine PROVE KInv'
  OBVIOUS
<1>1. pc = "comp-quarantine" /\ pc \in FinishPcs \ {"finish-reclaim", "finish-clear"}
  BY DEF CompQuarantine, FinishPcs
<1>2. PICK t : t = Me
  OBVIOUS
<1>3. /\ Base(t) /\ FinishAt(t) /\ t.op = "install" /\ t.before.reg[t.name] = NONE
      /\ t \in Txn /\ t.name \in Names /\ t.before \in Config /\ t.start \in Nat
      /\ pc \in Drives /\ pc \notin UndoPcs
      /\ skills \in [Names -> TreeOrNone] /\ staging \in [Names -> TreeOrNone]
  BY <1>1, <1>2, NowFinish
<1>4. PICK p : p = RollbackName(t)
  OBVIOUS
<1>5. p \in PayloadName /\ p.head >= t.start
  BY <1>1, <1>2, <1>4, NowFinish
<1>6. /\ Full(t) /\ Committed(t) /\ t.stage = "compensating" /\ Known(t)
      /\ InSkills(t) \/ InRecovery(t, p)
  BY <1>1, <1>3, <1>4 DEF FinishAt, Reverting
<1>7. PICK x : x = At(recovery, p)
  OBVIOUS
<1>8. t.payload \in Tree /\ Present(t.payload) /\ ~Present(NoTree)
  BY <1>6, Literals DEF Full, Present
<1>9. /\ InSkills(t) => skills[t.name] = t.payload /\ x = NoTree
      /\ InRecovery(t, p) => skills[t.name] = NoTree /\ x = t.payload
      /\ staging[t.name] = NoTree
  BY <1>3, <1>5, <1>6, <1>7, AtSince DEF InSkills, InRecovery, Placed, KInv, HInv, TInv
<1>10. /\ {skills[t.name], x} = {NoTree, t.payload} /\ ~Present(staging[t.name])
       /\ config \in {ExpectedConfig(t), t.before}
  BY <1>6, <1>8, <1>9 DEF Known
<1>11. OnlyChanged(config = t.before, ~Present(skills[t.name]), t.name)
  <2>1. skills[t.name] = t.payload \/ ~Present(skills[t.name])
    BY <1>6, <1>8, <1>9
  <2> QED BY <1>3, <1>6, <2>1, RevertingDiffers DEF OnlyChanged
<1>12. /\ pc' = "comp-config" /\ UNCHANGED <<config, staging, private, archive>>
       /\ UNCHANGED <<commits, txns, nextId, self, mode, last>>
       /\ recovery' = IF Present(skills[t.name]) THEN Put(recovery, p, t.payload) ELSE recovery
       /\ skills' = [skills EXCEPT ![t.name] = NoTree]
       /\ seen' = IF config = t.before THEN config ELSE ExpectedConfig(t)
  BY <1>2, <1>4, <1>7, <1>10, <1>11, Zenon DEF CompQuarantine, OrConflict, Goto
<1>13. pc' \in FinishPcs /\ pc' \in Drives
  BY <1>12, Parts DEF FinishPcs
<1>14. IdsInv'
  BY <1>3, <1>12 DEF KInv, IdsInv, NoTree, HInv, TInv, DiskTyped
<1>15. \A r \in recovery' : r \in recovery \/ r.at.head >= t.start
  BY <1>3, <1>5, <1>12, PutSince
<1>16. Others /\ Me' = t /\ Base(Me)'
  BY <1>2, <1>3, <1>12, <1>13, <1>14, <1>15, Moves
<1>17. InRecovery(t, p)'
  <2>1. /\ skills'[t.name] = NoTree /\ staging'[t.name] = NoTree
        /\ Archived(t.payload)' = Archived(t.payload)
    BY <1>3, <1>9, <1>12 DEF Archived
  <2>2. CASE InSkills(t)
    <3>1. recovery' = Put(recovery, p, t.payload) /\ Since(t.start) = {} /\ Archived(t.payload) = {}
      BY <1>8, <1>9, <1>12, <2>2 DEF InSkills, Placed
    <3>2. Since(t.start)' = Entry(p, t.payload)
      BY <1>3, <1>5, <3>1, PutSince
    <3> QED BY <2>1, <3>1, <3>2 DEF InRecovery, Placed
  <2>3. CASE InRecovery(t, p)
    <3>1. recovery' = recovery
      BY <1>8, <1>9, <1>12, <2>3
    <3> QED BY <2>1, <2>3, <3>1 DEF InRecovery, Placed, Since
  <2> QED BY <1>6, <2>2, <2>3
<1>18. Reverting(t)' /\ seen' = config'
  <2>1. Full(t)' /\ Known(t)' /\ Committed(t)' /\ seen' = config'
    BY <1>6, <1>12, FrameBranch DEF Full, Known
  <2> QED BY <1>3, <1>4, <1>6, <1>17, <2>1 DEF Reverting
<1>19. FinishAt(Me)'
  BY <1>4, <1>6, <1>12, <1>16, <1>17, <1>18 DEF FinishAt
<1> QED BY <1>13, <1>16, <1>19, InFinish

LEMMA CompConfigSafe == KInv /\ HInv' /\ CompConfig => KInv'
<1> SUFFICES ASSUME KInv, HInv', CompConfig PROVE KInv'
  OBVIOUS
<1>1. pc = "comp-config" /\ pc \in FinishPcs \ {"finish-reclaim", "finish-clear"}
  BY DEF CompConfig, FinishPcs
<1>2. PICK t : t = Me
  OBVIOUS
<1>3. /\ t \in Txn /\ t.op = "install" /\ Reverting(t) /\ t.stage = "compensating" /\ seen = config
      /\ InRecovery(t, RollbackName(t)) /\ pc \in Drives /\ pc \notin UndoPcs
  BY <1>1, <1>2, NowFinish DEF FinishAt
<1>4. /\ pc' = "comp-log-ready" /\ config' = IF seen = t.before THEN config ELSE t.before
      /\ UNCHANGED <<skills, staging, private, recovery, archive, commits, txns, nextId>>
      /\ UNCHANGED <<local, last>>
  BY <1>2, <1>3, Zenon DEF CompConfig, RestoreTxnConfig, OrConflict, ConfigAsJudged, Goto
<1>5. config' = t.before
  BY <1>3, <1>4
<1>6. pc' \in FinishPcs /\ pc' \in Drives
  BY <1>4, Parts DEF FinishPcs
<1>7. Others /\ Me' = t /\ Base(Me)'
  BY <1>2, <1>3, <1>4, <1>6, MovesNothing DEF local
<1>8. InRecovery(t, RollbackName(t))' /\ Full(t)' /\ Committed(t)' /\ Known(t)'
  BY <1>3, <1>4, <1>5, FrameTrees, FrameBranch DEF Reverting, Known, RollbackName
<1>9. Reverting(t)'
  BY <1>3, <1>8 DEF Reverting
<1>10. FinishAt(Me)'
  BY <1>3, <1>4, <1>5, <1>7, <1>8, <1>9 DEF FinishAt
<1> QED BY <1>6, <1>7, <1>10, InFinish

LEMMA CompPrepareSafe == KInv /\ HInv' /\ CompPrepare => KInv'
<1> SUFFICES ASSUME KInv, HInv', CompPrepare PROVE KInv'
  OBVIOUS
<1>1. pc = "comp-prepare" /\ pc \in FinishPcs \ {"finish-reclaim", "finish-clear"}
  BY DEF CompPrepare, FinishPcs
<1>2. PICK t : t = Me
  OBVIOUS
<1>3. /\ Base(t) /\ FinishAt(t) /\ t.op = "install" /\ t.before.reg[t.name] = NONE
      /\ t \in Txn /\ t.name \in Names /\ t.before \in Config /\ t.start \in Nat
      /\ pc \in Drives /\ pc \notin UndoPcs
  BY <1>1, <1>2, NowFinish
<1>4. PICK p : p = RollbackName(t)
  OBVIOUS
<1>5. p \in PayloadName /\ p.head >= t.start
  BY <1>1, <1>2, <1>4, NowFinish
<1>6. /\ Reverting(t) /\ t.stage = "compensation-ready" /\ Full(t) /\ Committed(t)
      /\ config = t.before /\ InRecovery(t, p)
  BY <1>1, <1>3, <1>4 DEF FinishAt, Reverting
<1>7. PICK x : x = At(recovery, p)
  OBVIOUS
<1>8. x = t.payload /\ skills[t.name] = NoTree /\ staging[t.name] = NoTree
  BY <1>3, <1>5, <1>6, <1>7, AtSince DEF InRecovery, Placed, KInv, HInv, TInv
<1>9. OnlyChanged(TRUE, TRUE, t.name)
  BY <1>3, <1>6, RevertingDiffers DEF OnlyChanged, Known
<1>10. /\ pc' = "comp-log-tree" /\ cand' = {[parent |-> HEAD, snap |-> Worktree]}
       /\ UNCHANGED <<disk, commits, txns, nextId, mode, self, last>>
  BY <1>2, <1>4, <1>6, <1>7, <1>8, <1>9, Zenon DEF CompPrepare, OrConflict, Goto, Present
<1>11. pc' \in FinishPcs /\ pc' \in Drives
  BY <1>10, Parts DEF FinishPcs
<1>12. Others /\ Me' = t /\ Base(Me)'
  BY <1>2, <1>3, <1>10, <1>11, MovesNothing DEF disk
<1>13. Reverting(t)' /\ HEAD' = HEAD /\ Worktree' = Worktree
  BY <1>6, <1>10, Frame DEF HEAD, Worktree, disk
<1>14. FinishAt(Me)'
  BY <1>6, <1>10, <1>12, <1>13 DEF FinishAt
<1> QED BY <1>11, <1>12, <1>14, InFinish

LEMMA CompLogTreeSafe == KInv /\ HInv' /\ CompLogTree => KInv'
<1> SUFFICES ASSUME KInv, HInv', CompLogTree PROVE KInv'
  OBVIOUS
<1>1. pc = "comp-log-tree" /\ pc \in FinishPcs \ {"finish-reclaim", "finish-clear"}
  BY DEF CompLogTree, FinishPcs
<1>2. PICK t : t = Me
  OBVIOUS
<1>3. /\ t \in Txn /\ t.op = "install" /\ Reverting(t) /\ t.stage = "compensation-ready"
      /\ cand = {[parent |-> HEAD, snap |-> Worktree]} /\ pc \in Drives /\ pc \notin UndoPcs
  BY <1>1, <1>2, NowFinish DEF FinishAt
<1>4. (\A p \in cand : Worktree = p.snap) /\ {p.snap : p \in cand} = {Worktree}
  BY <1>3
<1>5. /\ pc' = "comp-commit" /\ WriteTxn([t EXCEPT !.comp = {p.snap : p \in cand}])
      /\ UNCHANGED <<disk, commits, nextId, local, last>>
  BY <1>2, <1>4, Zenon DEF CompLogTree, OrConflict, Goto
<1>6. PICK r : r = [t EXCEPT !.comp = {Worktree}] /\ WriteTxn(r)
  BY <1>4, <1>5
<1>7. /\ r.stage = "compensation-ready" /\ r.status = t.status /\ r.comp = {Worktree}
      /\ r.op = t.op /\ r.name = t.name /\ r.start = t.start /\ r.before = t.before
      /\ r.payload = t.payload /\ r.resv = t.resv /\ r.declared = t.declared /\ r.ctree = t.ctree
  BY <1>3, <1>6 DEF Txn
<1>8. pc' \in FinishPcs /\ pc' \in Drives
  BY <1>5, Parts DEF FinishPcs
<1>9. Others /\ Me' = r /\ Base(Me)'
  BY <1>2, <1>3, <1>5, <1>6, <1>7, <1>8, Logs DEF local
<1>10. Reverting(r)
  BY <1>3, <1>7, SameInstall DEF Reverting
<1>11. Reverting(r)' /\ HEAD' = HEAD /\ Worktree' = Worktree /\ cand' = cand
  BY <1>5, <1>10, Frame DEF HEAD, Worktree, disk, local
<1>12. FinishAt(Me)'
  BY <1>3, <1>5, <1>7, <1>9, <1>11 DEF FinishAt
<1> QED BY <1>8, <1>9, <1>12, InFinish

(* The compensating commit puts HEAD back to what the command started      *)
(* from.                                                                   *)
LEMMA CompCommitSafe == KInv /\ HInv' /\ CompCommit => KInv'
<1> SUFFICES ASSUME KInv, HInv', CompCommit PROVE KInv'
  OBVIOUS
<1>1. pc = "comp-commit" /\ pc \in FinishPcs \ {"finish-reclaim", "finish-clear"}
  BY DEF CompCommit, FinishPcs
<1>2. PICK t : t = Me
  OBVIOUS
<1>3. /\ Base(t) /\ FinishAt(t) /\ t.op = "install" /\ t.before.reg[t.name] = NONE
      /\ t \in Txn /\ t.name \in Names /\ t.before \in Config /\ t.start \in Nat
      /\ pc \in Drives /\ pc \notin UndoPcs
  BY <1>1, <1>2, NowFinish
<1>4. /\ Full(t) /\ Committed(t) /\ config = t.before /\ InRecovery(t, RollbackName(t))
      /\ t.stage = "compensation-ready" /\ t.comp = {Worktree}
      /\ cand = {[parent |-> HEAD, snap |-> Worktree]}
  BY <1>1, <1>3 DEF FinishAt, Reverting
<1>5. Worktree = Agreed(t.before) /\ Worktree # HeadSnap
  BY <1>3, <1>4, RevertingDiffers DEF InRecovery, Placed, Known
<1>6. \A p \in cand : p.parent = HEAD /\ p.snap = Worktree
  BY <1>4
<1>7. PICK c : /\ c = [msg |-> CommitMsg("recover", t.op, t.name), snap |-> Worktree]
               /\ pc' = "comp-log-committed" /\ commits' = Append(commits, c)
               /\ UNCHANGED <<disk, txns, nextId, local, last>>
  <2>1. \E p \in cand :
          /\ AppendCommit(CommitMsg("recover", t.op, t.name), p.snap)
          /\ pc' = "comp-log-committed" /\ UNCHANGED <<disk, txns, nextId, local, last>>
    BY <1>2, <1>5, <1>6, Zenon DEF CompCommit, OrConflict, Goto
  <2> QED BY <1>6, <2>1 DEF AppendCommit
<1>8. /\ HEAD' = HEAD + 1 /\ commits'[HEAD + 1] = c /\ HEAD \in Nat
      /\ \A k \in DOMAIN commits : k \in DOMAIN commits' /\ commits'[k] = commits[k]
  BY <1>7 DEF KInv, HInv, TInv, BranchTyped, HEAD
<1>9. c.msg = CommitMsg("recover", t.op, t.name) /\ c.snap = Worktree
  BY <1>7
<1>10. HeadSnap' = Worktree
  BY <1>8, <1>9 DEF HeadSnap
<1>11. Me' = t /\ pc' \in FinishPcs /\ pc' \in Drives
  BY <1>2, <1>7, Parts DEF FinishPcs, Me, local
<1>12. Others
  <2>1. IdsInv'
    BY <1>7 DEF KInv, IdsInv, disk
  <2>2. Revises
    BY <1>2, <1>3, <1>7, <1>11 DEF Revises, local
  <2> QED BY <1>3, <1>7, <2>1, <2>2, Drive DEF disk
<1>13. Base(t)'
  BY <1>3, <1>7, <1>8 DEF Base, disk
<1>14. IsOperationCommit(t, HEAD) /\ HEAD = t.start + 1 /\ HEAD \in DOMAIN commits
  BY <1>4, <1>8 DEF Committed, IsOperationCommit, KInv, HInv, TInv, BranchTyped, HEAD
<1>15. Compensated(t)'
  <2>1. /\ HEAD' = t.start + 2 /\ HEAD' - 1 = HEAD
        /\ commits'[HEAD'].msg = CommitMsg("recover", t.op, t.name)
    BY <1>3, <1>8, <1>9, <1>14
  <2>2. commits'[HEAD] = commits[HEAD]
    BY <1>8, <1>14
  <2>3. PICK h : h = HEAD
    OBVIOUS
  <2>4. IsOperationCommit(t, h)' /\ HEAD' - 1 = h
    BY <1>14, <2>1, <2>2, <2>3 DEF IsOperationCommit
  <2>5. IsRecoveryCommit(t)'
    BY <1>4, <1>10, <2>1, <2>4 DEF IsRecoveryCommit
  <2>6. Agreed(t.before)' = Agreed(t.before)
    BY DEF Agreed
  <2> QED BY <1>5, <1>10, <2>1, <2>5, <2>6 DEF Compensated
<1>16. Full(t)' /\ InRecovery(t, RollbackName(t))'
  <2>1. \A p : InRecovery(t, p)' <=> InRecovery(t, p)
    BY <1>7, FrameTrees DEF disk
  <2> QED BY <1>4, <1>7, <2>1 DEF Full, RollbackName
<1>17. Reverted(t)'
  BY <1>3, <1>4, <1>7, <1>15, <1>16 DEF Reverted, disk
<1>18. FinishAt(Me)'
  BY <1>7, <1>11, <1>17 DEF FinishAt
<1>19. Base(Me)'
  BY <1>11, <1>13
<1> QED BY <1>11, <1>12, <1>18, <1>19, InFinish

LEMMA CompLogCommittedSafe == KInv /\ HInv' /\ CompLogCommitted => KInv'
<1> SUFFICES ASSUME KInv, HInv', CompLogCommitted PROVE KInv'
  OBVIOUS
<1>1. /\ pc = "comp-log-committed" /\ pc' = "comp-finish"
      /\ pc \in FinishPcs \ {"finish-reclaim", "finish-clear"}
      /\ UNCHANGED <<disk, commits, nextId, local, last>>
  BY DEF CompLogCommitted, Goto, FinishPcs
<1>2. PICK t : t = Me
  OBVIOUS
<1>3. t \in Txn /\ t.op = "install" /\ Reverted(t) /\ pc \in Drives /\ pc \notin UndoPcs
  BY <1>1, <1>2, NowFinish DEF FinishAt
<1>4. PICK r : r = [t EXCEPT !.stage = "compensation-committed"] /\ WriteTxn(r)
  BY <1>2 DEF CompLogCommitted
<1>5. /\ r.stage = "compensation-committed" /\ r.status = t.status /\ r.comp = t.comp
      /\ r.op = t.op /\ r.name = t.name /\ r.start = t.start /\ r.before = t.before
      /\ r.payload = t.payload /\ r.resv = t.resv /\ r.declared = t.declared /\ r.ctree = t.ctree
  BY <1>3, <1>4 DEF Txn
<1>6. pc' \in FinishPcs /\ pc' \in Drives
  BY <1>1, Parts DEF FinishPcs
<1>7. Others /\ Me' = r /\ Base(Me)'
  BY <1>1, <1>2, <1>3, <1>4, <1>5, <1>6, Logs DEF local
<1>8. Reverted(r)
  BY <1>3, <1>5, SameInstall DEF Reverted
<1>9. Reverted(r)'
  BY <1>1, <1>8, Frame
<1>10. FinishAt(Me)'
  BY <1>1, <1>5, <1>7, <1>9 DEF FinishAt
<1> QED BY <1>6, <1>7, <1>10, InFinish

LEMMA CompFinishSafe == KInv /\ HInv' /\ CompFinish => KInv'
<1> SUFFICES ASSUME KInv, HInv', CompFinish PROVE KInv'
  OBVIOUS
<1>1. pc = "comp-finish" /\ pc \in FinishPcs \ {"finish-reclaim", "finish-clear"}
  BY DEF CompFinish, FinishPcs
<1>2. PICK t : t = Me
  OBVIOUS
<1>3. /\ t \in Txn /\ t.op = "install" /\ Reverted(t) /\ pc \in Drives /\ pc \notin UndoPcs
      /\ Base(t) /\ t.before \in Config /\ t.name \in Names /\ t.before.reg[t.name] = NONE
  BY <1>1, <1>2, NowFinish DEF FinishAt
<1>4. /\ config = t.before /\ skills[t.name] = NoTree /\ staging[t.name] = NoTree
      /\ t.stage \in {"compensation-ready", "compensation-committed"} /\ HeadSnap = Agreed(t.before)
  BY <1>3 DEF Reverted, InRecovery, InArchive, Placed, Compensated
<1>5. Worktree = HeadSnap
  <2>1. \A n \in Names : skills[n].c = t.before.reg[n]
    BY <1>3, <1>4 DEF Base, NoTree
  <2> QED BY <1>3, <1>4, <2>1 DEF Worktree, Agreed, Config
<1>6. OnlyChanged(FALSE, FALSE, t.name)
  BY <1>5 DEF OnlyChanged, ChangedPaths
<1>7. /\ pc' = "comp-archive" /\ WriteTxn([t EXCEPT !.stage = "compensation-committed"])
      /\ UNCHANGED <<disk, commits, nextId, local, last>>
  BY <1>2, <1>4, <1>6, Zenon DEF CompFinish, OrConflict, Goto, Present
<1>8. PICK r : r = [t EXCEPT !.stage = "compensation-committed"] /\ WriteTxn(r)
  BY <1>7
<1>9. /\ r.stage = "compensation-committed" /\ r.status = t.status /\ r.comp = t.comp
      /\ r.op = t.op /\ r.name = t.name /\ r.start = t.start /\ r.before = t.before
      /\ r.payload = t.payload /\ r.resv = t.resv /\ r.declared = t.declared /\ r.ctree = t.ctree
  BY <1>3, <1>8 DEF Txn
<1>10. pc' \in FinishPcs /\ pc' \in Drives
  BY <1>7, Parts DEF FinishPcs
<1>11. Others /\ Me' = r /\ Base(Me)'
  BY <1>2, <1>3, <1>7, <1>8, <1>9, <1>10, Logs DEF local
<1>12. Reverted(r)
  BY <1>3, <1>9, SameInstall DEF Reverted
<1>13. Reverted(r)'
  BY <1>7, <1>12, Frame
<1>14. FinishAt(Me)'
  BY <1>7, <1>9, <1>11, <1>13 DEF FinishAt
<1> QED BY <1>10, <1>11, <1>14, InFinish

LEMMA CompArchiveSafe == KInv /\ HInv' /\ CompArchive => KInv'
<1> SUFFICES ASSUME KInv, HInv', CompArchive PROVE KInv'
  OBVIOUS
<1>1. pc = "comp-archive" /\ pc \in FinishPcs \ {"finish-reclaim", "finish-clear"}
  BY DEF CompArchive, FinishPcs
<1>2. PICK t : t = Me
  OBVIOUS
<1>3. /\ t \in Txn /\ t.op = "install" /\ Reverted(t) /\ pc \in Drives /\ pc \notin UndoPcs
      /\ t.before.reg[t.name] = NONE /\ t.stage = "compensation-committed"
  BY <1>1, <1>2, NowFinish DEF FinishAt
<1>4. PICK p : p = RollbackName(t)
  OBVIOUS
<1>5. p \in PayloadName /\ p.head >= t.start
  BY <1>1, <1>2, <1>4, NowFinish
<1>6. Full(t) /\ (InRecovery(t, p) \/ InArchive(t, p)) /\ config = t.before /\ Compensated(t)
  BY <1>3, <1>4 DEF Reverted
<1>7. ArchivePayload(p, "undo-clear")
  BY <1>2, <1>4 DEF CompArchive
<1>8. /\ pc' = "undo-clear" /\ recovery' \subseteq recovery /\ InArchive(t, p)' /\ IdsInv'
      /\ UNCHANGED <<config, skills, staging, private, commits, txns, nextId, local, last>>
  BY <1>2, <1>3, <1>5, <1>6, <1>7, Archives
<1>9. pc' \in UndoPcs /\ pc' \in Drives
  BY <1>8, Parts DEF UndoPcs
<1>10. Others /\ Me' = t /\ Base(Me)'
  BY <1>2, <1>3, <1>8, <1>9, Moves DEF local
<1>11. Restored(t)' /\ Full(t)' /\ Compensated(t)'
  BY <1>3, <1>6, <1>8, FrameBranch DEF Restored, InArchive, Placed, NoTree, Full
<1>12. Reverted(t)'
  BY <1>3, <1>4, <1>6, <1>8, <1>11 DEF Reverted
<1>13. UndoAt(Me)'
  BY <1>4, <1>6, <1>8, <1>10, <1>11, <1>12 DEF UndoAt, UndoPcs
<1> QED BY <1>8, <1>9, <1>10, <1>13, InUndo

--------------------------------------------------------------------------------
(* The induction.                                                          *)
LEMMA InitKInv == Init => KInv
<1> SUFFICES ASSUME Init PROVE KInv
  OBVIOUS
<1>1. HInv
  BY InitHInv
<1>2. /\ pc = "idle" /\ txns = <<>> /\ Pending = {} /\ mode = "command" /\ last = "none"
      /\ recovery = {} /\ archive = {} /\ \A n \in Names : staging[n] = NoTree
  BY DEF Init, Pending
<1>3. pc \notin Drives
  BY <1>2, Parts
<1>4. DriveInv
  <2>1. pc \notin Precommit
    BY <1>3, Parts
  <2> QED BY <1>2, <1>3, <2>1 DEF DriveInv, CommandAt, UndoAt, FinishAt, Prepared, UndoPcs
<1>5. LeftInv /\ ReclaimInv /\ ReadyInv /\ LastInv /\ AbortInv /\ OutcomeInv /\ RecoveryInv
  BY <1>2 DEF LeftInv, ReclaimInv, ReadyInv, LastInv, AbortInv, OutcomeInv, RecoveryInv
<1>6. StagingInv
  BY <1>2 DEF StagingInv, Present
<1>7. PICK ids \in [Installed -> 1 .. Cardinality(Installed)], c \in [Installed -> Upstream] :
        /\ config = [reg |-> [n \in Names |-> IF n \in Installed THEN c[n] ELSE NONE],
                     note |-> NONE]
        /\ skills = [n \in Names |-> IF n \in Installed THEN [id |-> ids[n], c |-> c[n]]
                                     ELSE NoTree]
  BY DEF Init
<1>8. IdsInv
  <2>1. Cardinality(Installed) \in Nat /\ nextId = Cardinality(Installed) + 1
    BY InstalledAssumption DEF Init
  <2>2. \A n \in Names : skills[n].id < nextId
    BY <1>7, <2>1 DEF NoTree
  <2> QED BY <1>2, <2>2 DEF IdsInv
<1>9. SettledInv
  <2>1. \A n \in Names : skills[n].c = config.reg[n]
    BY <1>7 DEF NoTree
  <2>2. PICK z : z = [msg |-> CommitMsg("init", NONE, NONE), snap |-> Worktree] /\ commits = <<z>>
    BY DEF Init
  <2>3. HeadSnap = Worktree
    BY <2>2 DEF HeadSnap, HEAD
  <2>4. Worktree = Agreed(config)
    BY <1>7, <2>1 DEF Worktree, Agreed
  <2> QED BY <1>2, <2>1, <2>3, <2>4 DEF SettledInv, Settled, Since
<1> QED BY <1>1, <1>4, <1>5, <1>6, <1>8, <1>9 DEF KInv

LEMMA StandsStill == KInv /\ HInv' /\ UNCHANGED vars => KInv'
<1> SUFFICES ASSUME KInv, HInv', UNCHANGED vars PROVE KInv'
  OBVIOUS
<1>1. /\ UNCHANGED <<disk, commits, txns, nextId, pc, cmd, mode, self, held, seen, cand, last>>
      /\ UNCHANGED <<config, skills, staging, private, recovery, archive>>
  BY DEF vars, disk, local
<1>2. PICK t : t = Me
  OBVIOUS
<1>3. Me' = t /\ Worktree' = Worktree /\ HEAD' = HEAD /\ HeadSnap' = HeadSnap
  BY <1>1, <1>2 DEF Me, Worktree, HEAD, HeadSnap
<1>4. DriveInv'
  <2>1. DriveInv /\ CommandAt(t) /\ UndoAt(t) /\ FinishAt(t)
    BY <1>2 DEF KInv, DriveInv
  <2>2. CommandAt(t)'
    <3>1. /\ Untouched(t)' <=> Untouched(t)
          /\ Copies(t)' <=> Copies(t)
          /\ Whole(t)' <=> Whole(t)
          /\ Taken(t)' <=> Taken(t)
          /\ Ready(t)' <=> Ready(t)
          /\ Published(t)' <=> Published(t)
          /\ Uncommitted(t)' <=> Uncommitted(t)
          /\ Committed(t)' <=> Committed(t)
          /\ \A x : New(t, x)' <=> New(t, x)
      BY <1>1, Frame, FrameTrees, FrameBranch
    <3> QED BY <1>1, <1>3, <2>1, <3>1 DEF CommandAt, Blank, Claiming, Filling, Onward,
               PastStaging, ExpectedConfig
  <2>3. UndoAt(t)'
    <3>1. /\ Copies(t)' <=> Copies(t)
          /\ Staged(t)' <=> Staged(t)
          /\ Full(t)' <=> Full(t)
          /\ Unfinished(t)' <=> Unfinished(t)
          /\ LeftInstall(t)' <=> LeftInstall(t)
          /\ LeftUpdate(t)' <=> LeftUpdate(t)
          /\ LeftRemove(t)' <=> LeftRemove(t)
          /\ Restored(t)' <=> Restored(t)
          /\ Reverted(t)' <=> Reverted(t)
          /\ Unexchanged(t)' <=> Unexchanged(t)
          /\ Uncommitted(t)' <=> Uncommitted(t)
          /\ \A p : InRecovery(t, p)' <=> InRecovery(t, p)
          /\ \A p : InArchive(t, p)' <=> InArchive(t, p)
      BY <1>1, Frame, FrameTrees, FrameBranch
    <3> QED BY <1>1, <1>3, <2>1, <3>1 DEF UndoAt, Claiming, PastStaging, UncommittedName,
               RollbackName
  <2>4. FinishAt(t)'
    <3>1. /\ Finished(t)' <=> Finished(t)
          /\ Reverting(t)' <=> Reverting(t)
          /\ Reverted(t)' <=> Reverted(t)
          /\ \A p : InRecovery(t, p)' <=> InRecovery(t, p)
      BY <1>1, Frame, FrameTrees
    <3> QED BY <1>1, <1>3, <2>1, <3>1 DEF FinishAt, RollbackName
  <2>5. (Base(t)' <=> Base(t)) /\ (Uncommitted(t)' <=> Uncommitted(t))
    BY <1>1, FrameBranch
  <2> QED BY <1>1, <1>2, <1>3, <2>1, <2>2, <2>3, <2>4, <2>5 DEF DriveInv
<1>5. Pending' = Pending
  BY <1>1 DEF Pending
<1>6. LeftInv'
  BY <1>1, <1>5, Frame DEF KInv, LeftInv
<1>7. ReclaimInv' /\ ReadyInv' /\ LastInv' /\ IdsInv'
  BY <1>1, <1>5 DEF KInv, ReclaimInv, ReadyInv, LastInv, IdsInv, Available, Updatable
<1>8. SettledInv'
  BY <1>1, <1>3, <1>5 DEF KInv, SettledInv, Settled, Since
<1>9. RecoveryInv' /\ StagingInv'
  BY <1>1, <1>5 DEF KInv, RecoveryInv, PutAside, StagingInv, Replaced
<1>10. AbortInv' /\ OutcomeInv'
  BY <1>1, <1>3, <1>5 DEF KInv, AbortInv, Aborting, OutcomeInv
<1> QED BY <1>4, <1>6, <1>7, <1>8, <1>9, <1>10 DEF KInv

LEMMA StepKInv ==
    ASSUME Edits = {}
    PROVE  KInv /\ [Next]_vars => KInv'
<1> SUFFICES ASSUME KInv, [Next]_vars PROVE KInv'
  OBVIOUS
<1>1. HInv'
  BY StepHInv DEF KInv
<1>2. CASE RunStep
  BY <1>1, <1>2, RecoveredSafe, LoadConfigSafe, SweepSafe, StartSafe, ReserveStagedRootSafe,
     LogReservedSafe, PublishRootSafe, LogRootSafe, CopyStagedSafe, SaveConfigSafe,
     LogSavedSafe, LogPublishedSafe, PrepareCommitSafe, ValidatePreparedSafe, LogTreeSafe,
     CommitPreparedSafe, ClearTxnSafe, UndoConfigSafe, UndoClearSafe, FinishClearSafe DEF RunStep
<1>3. CASE InstallStep
  BY <1>1, <1>3, PreflightSafe, MutateSafe, InstallLogCopiedSafe, InstallLogPreparedSafe,
     InstallPublishSafe, InstallReclaimSafe, InstallUndoSafe, InstallCompensateSafe,
     InstallUndoRootSafe, InstallUndoLogRootSafe, InstallUndoEntriesSafe,
     InstallUndoQuarantineSafe, InstallUndoArchiveSafe, CompLogStartSafe, CompQuarantineSafe,
     CompConfigSafe, CompLogReadySafe, CompPrepareSafe, CompLogTreeSafe, CompCommitSafe,
     CompLogCommittedSafe, CompFinishSafe, CompArchiveSafe DEF InstallStep
<1>4. CASE RemoveStep
  BY <1>1, <1>4, PreflightSafe, MutateSafe, RemoveLogSnapshotSafe, RemoveQuarantineSafe,
     RemoveLogQuarantinedSafe, RemoveReclaimSafe, RemoveUndoSafe, FinishSafe,
     RemoveUndoRestoreSafe DEF RemoveStep
<1>5. CASE UpdateStep
  BY <1>1, <1>5, PreflightSafe, MutateSafe, UpdateLogSnapshotSafe, UpdateLogCopiedSafe,
     UpdateValidateStagedSafe, UpdatePublishSafe, UpdateLogExchangedSafe, UpdateReclaimSafe,
     UpdateUndoSafe, FinishSafe, UpdateUndoExchangeSafe, UpdateUndoRootSafe,
     UpdateUndoDiscardSafe DEF UpdateStep
<1>6. CASE BeginCommand \/ BeginRestore \/ Fail \/ Crash
  BY <1>1, <1>6, BeginSafe, FailSafe, CrashSafe
<1>7. CASE GcStep
  BY <1>1, <1>7, GcReclaimLeaseSafe, GcPruneInstallSafe, GcPruneRemoveSafe, GcPruneUpdateSafe
     DEF GcStep
<1>8. ~User
  BY DEF User, UserRemove, UserCommit
<1>9. CASE UNCHANGED vars
  BY <1>1, <1>9, StandsStill
<1> QED BY <1>2, <1>3, <1>4, <1>5, <1>6, <1>7, <1>8, <1>9 DEF Next, Step

--------------------------------------------------------------------------------
(* What it is good for.                                                    *)
LEMMA SettledAgrees ==
    ASSUME KInv, Pending = {}
    PROVE  Worktree = HeadSnap /\ \A n \in Names : config.reg[n] = skills[n].c
<1>1. HeadSnap = Agreed(config) /\ \A n \in Names : skills[n].c = config.reg[n]
  BY DEF KInv, SettledInv, Settled
<1>2. config \in Config
  BY DEF KInv, HInv, TInv, DiskTyped
<1>3. Worktree = Agreed(config)
  BY <1>1, <1>2 DEF Worktree, Agreed, Config
<1> QED BY <1>1, <1>3

LEMMA PendingRecoverable == KInv => \A i \in Pending : Recoverable(txns[i])
<1> SUFFICES ASSUME KInv, NEW i \in Pending PROVE Recoverable(txns[i])
  OBVIOUS
<1>1. CASE pc \in Drives
  BY <1>1, Leaves, Only DEF Me
<1>2. CASE pc \notin Drives
  BY <1>2 DEF KInv, LeftInv
<1> QED BY <1>1, <1>2

LEMMA RecoverableSince ==
    ASSUME NEW t \in Txn, Recoverable(t)
    PROVE  \/ Since(t.start) = {}
           \/ \E p \in {RemovedName(t), RollbackName(t), UncommittedName(t)} :
                Since(t.start) = Entry(p, t.payload)
<1>1. /\ InStaging(t) \/ InSkills(t) => Since(t.start) = {}
      /\ \A p : InRecovery(t, p) => Since(t.start) = Entry(p, t.payload)
      /\ \A p : InArchive(t, p) => Since(t.start) = {}
  BY DEF InStaging, InSkills, InRecovery, InArchive, Placed
<1>2. /\ (Untouched(t) \/ Copies(t) \/ Whole(t) \/ Unexchanged(t) \/ Exchanged(t)) =>
           Since(t.start) = {}
      /\ Taken(t) => Since(t.start) = Entry(RemovedName(t), t.payload)
  BY DEF Untouched, Copies, Whole, Unexchanged, Exchanged, Replaces, Taken
<1>3. CASE Unfinished(t)
  BY <1>1, <1>2, <1>3 DEF Unfinished, LeftInstall, LeftUpdate, LeftRemove
<1>4. CASE Finished(t)
  BY <1>1, <1>2, <1>4 DEF Finished, Published
<1>5. CASE Reverting(t) \/ Reverted(t)
  BY <1>1, <1>5 DEF Reverting, Reverted
<1> QED BY <1>3, <1>4, <1>5 DEF Recoverable

LEMMA NothingLost == KInv => NothingStranded
<1> SUFFICES ASSUME KInv PROVE NothingStranded
  OBVIOUS
<1>1. RecoveryAccounted
  <2> SUFFICES ASSUME NEW r \in recovery PROVE \E i \in DOMAIN txns : Accounts(txns[i], r)
    BY DEF RecoveryAccounted
  <2>1. CASE PutAside(r)
    BY <2>1 DEF PutAside, Accounts
  <2>2. CASE \E i \in Pending : r.at.head >= txns[i].start
    <3>1. PICK i \in Pending : r.at.head >= txns[i].start
      BY <2>2
    <3>2. PICK t : t = txns[i]
      OBVIOUS
    <3>3. i \in DOMAIN txns /\ t.status = "open" /\ t \in Txn
      BY <3>2 DEF Pending, KInv, HInv, TInv, JournalTyped
    <3>4. Recoverable(t) /\ r \in Since(t.start)
      BY <3>1, <3>2, PendingRecoverable DEF Since
    <3>5. PICK p \in {RemovedName(t), RollbackName(t), UncommittedName(t)} :
                 r \in Entry(p, t.payload)
      BY <3>3, <3>4, RecoverableSince
    <3>6. r.at = p /\ r.tree = t.payload
      BY <3>5 DEF Entry
    <3>7. Accounts(t, r)
      BY <3>3, <3>6 DEF Accounts
    <3> QED BY <3>2, <3>3, <3>7
  <2> QED BY <2>1, <2>2 DEF KInv, RecoveryInv
<1>2. StagingAccounted
  BY DEF KInv, StagingInv, Replaced, StagingAccounted, StagingClaims
<1> QED BY <1>1, <1>2 DEF NothingStranded

(* Config, content and HEAD agree whenever nothing runs and no record is   *)
(* open: whatever crashed, failed or was undone, recovery ends with        *)
(* fu.yaml, the skills and the commit saying the same.                     *)
THEOREM Agrees == Edits = {} => (Spec => []Consistent)
<1> SUFFICES ASSUME Edits = {} PROVE Spec => []Consistent
  OBVIOUS
<1>1. Init => KInv
  BY InitKInv
<1>2. KInv /\ [Next]_vars => KInv'
  BY StepKInv
<1>3. KInv => Consistent
  BY SettledAgrees DEF Consistent, Idle
<1> QED BY <1>1, <1>2, <1>3, PTL DEF Spec

(* A command that reports it rolled back has undone everything: config and *)
(* content are what they were at the commit its transaction started from.  *)
THEOREM Restores == Edits = {} => (Spec => []RollbackRestores)
<1> SUFFICES ASSUME Edits = {} PROVE Spec => []RollbackRestores
  OBVIOUS
<1>1. Init => KInv
  BY InitKInv
<1>2. KInv /\ [Next]_vars => KInv'
  BY StepKInv
<1>3. KInv => RollbackRestores
  BY SettledAgrees DEF KInv, AbortInv, Aborting, RollbackRestores, HeadSnap
<1> QED BY <1>1, <1>2, <1>3, PTL DEF Spec

(* Nothing is stranded: what lies under recovery/ is the payload of the    *)
(* open transaction or of a completed rm gc still finds, and what lies in  *)
(* staging/ is claimed by an open one, or left by an update gc still       *)
(* finds, or by one pruned for the sake of a later rm of its name.         *)
THEOREM Accounted == Edits = {} => (Spec => []NothingStranded)
<1> SUFFICES ASSUME Edits = {} PROVE Spec => []NothingStranded
  OBVIOUS
<1>1. Init => KInv
  BY InitKInv
<1>2. KInv /\ [Next]_vars => KInv'
  BY StepKInv
<1>3. KInv => NothingStranded
  BY NothingLost
<1> QED BY <1>1, <1>2, <1>3, PTL DEF Spec

(* Recovery never takes what a crash of fu left, in a command or in its    *)
(* recovery, for somebody else's interference, if no crash tears a copy.   *)
THEOREM NeverDefeated == Edits = {} /\ ~TornCopies => (Spec => []NoConflict)
<1> SUFFICES ASSUME Edits = {}, ~TornCopies PROVE Spec => []NoConflict
  OBVIOUS
<1>1. Init => KInv
  BY InitKInv
<1>2. KInv /\ [Next]_vars => KInv'
  BY StepKInv
<1>3. KInv => NoConflict
  BY DEF KInv, OutcomeInv, NoConflict
<1> QED BY <1>1, <1>2, <1>3, PTL DEF Spec
================================================================================
