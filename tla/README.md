# A formal model of fu

fu is a command-line manager for agent skills. It keeps the skills in one Git
repository (the *store*), publishes them to agents by symlinks, and records every
change as a commit. Its hard part is not what a command does but what is left when
a command is interrupted, or when the user, an agent or `git` writes to the same
directories while it runs. This directory models that part in TLA+, checks it with
TLC, and proves what can be proved for every instance with TLAPS.

Paths below are relative to the repository; `engine/` and `store/` stand for
`internal/engine/` and `internal/store/`.

## 1. Inventory

| component | state | operations | what makes it correct |
|---|---|---|---|
| recovery journal: `engine/txn.go`, `txn_prune.go` | files of `recovery/txns`: numbered revisions, completion markers, prune records | `WriteTxn`, `ClearTxn`, `PendingTxns`, `PruneCompletedTransactions` | always readable; a closed transaction never reopens; one open at a time |
| write pipeline: `engine/pipeline.go`, `write_boundary.go`, `lock.go`, `staging.go` | `fu.lock`, the operation in memory | `run`, `rollback`, `validatePreparedOperation`, `createTxnStagedRoot` | recovery first; a commit is exactly the operation; a failure leaves no trace or a pending record |
| install: `engine/ops.go`, `add.go`, `add_command.go`, `new_txn.go` | staged root, `skills/<name>`, record | `newSkill`, `addSkillTracked`, `recoverInstall` | rolled back entirely, or compensated by a recovery commit |
| remove: `engine/rm.go`, `rm_txn.go` | `recovery/<payload>`, record | `removeSkill`, `recoverRemove`, reclaim | content restored, or collectable |
| update: `engine/update.go`, `update_txn.go` | staged tree, record with both manifests | `updateSkillContent`, `recoverUpdate`, reclaim | one atomic pivot, told by manifests |
| gc: `engine/application.go`, `txn_prune.go` | none of its own | `PruneRecovery` | collects only what nobody pending claims, strands nothing |
| owned trees: `store/ownedtree.go`, `retire.go`, `exchange.go`, `identity.go`, `regularfile.go`, `rename_*` | manifests, private names | reserve, publish, copy, quarantine, exchange, archive, settle, remove | acts only on the object its manifest describes |
| Git commit path: `store/git.go` | branch, public index | `Sweep`, `PrepareCommit`, `CommitPrepared` | publishes only over the HEAD prepared on |
| `fu.yaml`: `store/config.go`, `config_exchange.go` | the file, exchange record, scratch, archive | load, `SaveConfigExpecting`, exchange and its recovery | never overwrites bytes it did not read |
| leases: `store/lease.go`, `lease_reclaim.go` | lease files with `flock` | acquire, hold, release, reclaim | a living owner's object is never collected |
| links: `engine/reconcile.go`, `scan.go`, `diff.go` | agents' skills directories | `Reconcile`, `Diff`, `retireFuLink` | removes only fu's own links; idempotent |
| adopt: `engine/adopt*.go` | record with archive and directory switch | adopt, resume | unmanaged content survives any crash |
| restore, revert, pull: `engine/restore.go`, `remote.go`, `store/worktree_apply.go`, `worktree_guard.go`, `revert.go`, `operations.go`, `remote.go`, `remote_compare.go` | worktree, index, HEAD | guarded rewrite of a worktree, fast-forward | all or resumable; user edits refused, not lost |
| fu commit: `engine/commit.go`, `store/commit_scope.go` | public index | scoped commit | leaves everything out of scope as staged |
| status, outdated, list, log, show: `engine/status.go`, `outdated.go`, `log.go` | none | read-only, without the lock | classification agrees with what recovery and gc will do |
| store opening: `store/store.go`, `roots.go`, `rootfs.go`, `fsutil.go` | pinned directory descriptors | `Init`, `Open`, checked access | works on the directories it validated |
| sources, skill files, agents, CLI | scratch clones, none, none, none | fetch; digest, metadata; detection; parsing, exit codes | |

How they interact: every write command goes through the pipeline, which takes
`fu.lock`, calls recovery (which reads the journal and hands each pending record
to the handler of its operation), sweeps external changes into a commit of their
own, and then alternates operations on the store with revisions of the journal.
Failure inside a command is the same handlers run in the same process. `fu gc`
takes the same lock but does not recover: it runs *with* a record pending. Users,
agents and `git` take no lock and are in nobody's protocol.

What is hard, hence the properties: crashes at every write, crashes during the
recovery from crashes, an error from a write that took effect, edits between
a check and the act it guards, `git commit` between a candidate and its
publication, gc and a pending transaction deriving the same names, links and
directories replaced between a scan and the act it led to, a lease whose owner may
be starting, and an adopt that has committed and must still be finished.
`PROJECT.json` lists these hazards at their lines.

## 2. Modules

| module | models | 
|---|---|
| `TxnLife` | abstract: a transaction log. Records are revised, closed, and forgotten only once closed |
| `TxnJournal` | the journal's files and the two record values a command may hold; refines `TxnLife` |
| `TxnJournalProofs` | proofs about `TxnJournal` |
| `FuStore` | the state a command works on, and the store's primitives as operators |
| `Pipeline` | the steps common to all transactional commands, aborts, crashes, conflicts |
| `InstallTxn`, `RemoveTxn`, `UpdateTxn` | what each command does in its own steps, its rollback, its completion or compensation |
| `GcPrune` | gc, as one locked session between commands |
| `FuTransactions` | composes these with the user; states the properties; refines `StoreHistory` |
| `StoreHistory` | abstract: what fu promises of the Git history |
| `FuTransactionsProofs` | proofs about `FuTransactions` whatever users do: one open transaction, types, the history, user content |
| `RecoveryProofs` | proofs about `FuTransactions` in a store only fu writes: what every crash leaves, and what recovery makes of it |
| `RestoreHard` | `fu restore --hard` with its two lock sections, over `FuTransactions` |
| `Status` | what `fu status` calls collectable, over `FuTransactions` |
| `ConfigExchange` | how one write installs `fu.yaml`, and what recovery and gc do with what is left of it; on its own |
| `Lease` | the lease of a private object: its producer, gc and status under `flock`; on its own |
| `Links` | one pass of reconcile over the agents' skills directories; on its own |
| `Worktree` | revert, pull, push, commit and the hard reset over branch, index and worktree; on its own |
| `Adopt` | what adopt does to the agents after its commit, and its resumption; on its own |
| `LeaseProofs`, `LinksProofs`, `AdoptProofs`, `ConfigExchangeProofs`, `WorktreeProofs` | proofs about the module each is named for |
| `MCTxnJournal`, `MCFuTransactions`, `MCLinks`, `MCWorktree` | instances for TLC |

The modules that stand on their own meet the others at one step each: `SaveConfig` of
`Pipeline` is a whole `ConfigExchange`; `GcReclaimLease` of `GcPrune`, for a private root, is a
whole scan of `Lease`; `Links` is the pass every write command ends with; `Worktree`
begins with nothing pending, which `FuTransactions` provides; `Adopt` begins with its
commit made, which is the pipeline's. An operator whose comment starts with "Mutant"
is not part of the model: it is a plausible bug that a property is tried against.

### The journal

`revs`, `done` and `pruned` are the files; `phaseOf` and `historyOf` are what a
reader makes of them (`PendingTxns`). `Write` and `Prune` are sessions under
`fu.lock`; `handle` is the record value in memory. There are two, because a
rollback calls `RecoverPending`, whose handler works on a record of its own, read back from
the journal (`pipeline.go` 550-569). Nothing resets the operation's own then, nor when `ClearTxn`,
which takes it by value, has completed the transaction (`rm.go:122` still uses it): what keeps
it from writing to a finished or a longer family is what `WriteTxn` finds in the journal, `NotCompleted`
(`txn.go:286`) and `Current` (`txn.go:293`). A write may fail before or
after its file got its name (`WriteResult`); in the latter case the record is behind.
gc removes the family's files one by one under a prune record and may stop after
each.

### The transactions

A tree is an object (`id`, its inode) with a content `c`. A rename carries the
object, a copy makes a new one, and an ownership manifest is a tree value: it
matches only the same object with the same content. Digests are contents.
`EMPTY` is a root that holds part of its declared entries, `TORN` one with a file
created but not filled. `config` is `fu.yaml`: the digest registered for each
skill, and `note`, the part only users write. A commit is a message and a snapshot
of config and trees. `txns` holds each record's latest revision; `TxnJournal`
justifies reading it as one value.

`pc` is where the process that holds `fu.lock` is; every action is one step after
which it can die (`Crash`), get an error (`Fail`, inside the region whose
errors reach `rollback`) or be overtaken by a user action. Errors after the terminal
marker and in a recovery end the process, which to everybody else is a crash, and
are modelled as one. An action named `Log...` writes a revision. `Handle` is
where `RecoverPending` judges a record; a step that finds the store not as it
must be goes to `Abort` before the commit and to `Conflict` in recovery.

- *Install* reserves a private root, claims it in the record with the declared
  entries, publishes it to `staging/<name>`, copies, publishes to
  `skills/<name>`, saves the config, commits. Undo finds the root under either
  name, settles it, quarantines it to `recovery/`, archives it. If HEAD moved,
  recovery compensates: quarantine, config, a commit of its own, archive, with a
  revision between each (`Comp...`).
- *Remove* snapshots, quarantines, saves, commits, marks, reclaims. Undo restores
  from `recovery/` when the manifest is there.
- *Update* snapshots the published tree, stages the new one, exchanges the two in
  one rename, saves, commits, marks, reclaims. Undo tells by the manifests which
  side of the exchange it is on.
- *gc* is a run of single steps, each taken while no command holds `fu.lock`: the
  reclaim of an unclaimed private root, or of a step of what one
  completed family accounts for, unless claimed, and then of the family. It
  runs with records pending, and may end or die after any step.

A reclaim (`RemoveOwnedTreeAt`) removes a tree in steps and may be interrupted,
leaving the emptied root; `Removable` is the comparison that still recognises it.

A direct `git commit` may land anywhere in this. One after the config is saved
takes part of the command's effect with it, which is why `StoreHistory!Install`
admits a digest already registered.

### The exchange of `fu.yaml`

`ConfigExchange` opens the step that `FuTransactions` takes as one
(`SaveConfig`). Objects are inodes: `file`, `swap`, `cands` and `archive` say which
name holds which, `bytes` what each one contains. An editor that replaces the file
puts another object under its name (`UserReplaces`); one that rewrites it changes
the bytes of whatever object is there (`UserRewrites`), fu's own in the middle of
an exchange included. Every save is a version of its own, so equal digests
mean equal versions. Users know the file by its name only: writes through a
descriptor opened before an exchange, and writes to fu's names in `staging/` and
`recovery/`, are left out.

`pc` runs through `exchangeCheckedFile` (create, fill, capture, record,
publish, exchange, judge, exchange back, archive, complete, reclaim). Every check
and every act is a step of its own, so a user or a crash comes between any two.
`Recover` is `recoverConfigExchange`: the six positions it recognises, from each of
which it joins the same path at the step that is left (`Resume`), and otherwise
a conflict. A process that ends with an error leaves what one that dies leaves, and
is modelled so. `Gc` is `ReclaimCompletedConfigExchanges`, one removal at a time.

### Leases

One producer stands for the token its lease file and its object share, so it makes
one object. `obj` says what is under each of the four prefixes the object may wear:
`live` (the name in use), `clean` and `orphan` (what `source/scratch.go` renames a scratch
to), `retired` (what gc renames it to). The file, the bytes in it, the exclusive lock and the
shared ones are four facts, each changed by a system call of its own: a new lease is
for a moment empty and unlocked. A crash drops the locks and nothing else. `Classify` is
`classifyOneLease`, which gc and status share; a verdict holds while its lock does. gc
reads the journal's claims under `fu.lock` and keeps it (`LockAndReadClaims`), except when
there is no store yet. Three ghosts keep the properties honest: `displaced` (a user moved
fu's object away), `blind` (a gc without a store removed it), `lost` (whose content went).

### Links

A directory is an inode, and the agent's path leads to one of several, to a symlink or
nowhere. The pass is `ScanIdentity`, `ListEntries`, `OpenDir`, then `Create` or
`Inspect`-`Retire`-`Verify`-`Unlink` per name, as in `scan.go`, `diff.go` and `retireFuLink`, with the
user between any two. `Diff` is the decision of `diff.go`; `Overview` is the other one, which
`fu agent` and `fu status` print. `report`, `changed` and `told` are what the command says.
`Unusable` names are those a hand-edited `fu.yaml` may hold; a name may be one that only some
agents reserve, which is why there are two agents.

### The worktree

Branch, public index and worktree are three copies of the store. `fu commit`, the sweep,
`revert`, `pull` and `restore --hard` are one process (`Begin`), whose
steps are those of `store/git.go` and `worktree_apply.go`: freeze, prepare, compare the
parent, advance the branch, synchronize the index under its lock, or vet, check a path, rewrite it,
next. `todo` is the set of the steps of a rewrite that are left and `Before` their order (removals
deepest first, then writes), so `IsNext` is the step the code takes next. The user edits, removes, stages, stages parts of a file, and commits; git
may leave its lock. `calm` says that nobody interfered with the running
command; `dropped` collects what somebody gave up by a command that says so.

### Adopt

`wal` is the record in the journal and `txn` the one in memory; a failing write
leaves them different. Each agent has a `slot` (the adopted entry, or the skills directory that is
a symlink), the name it is moved to (`aside`), and, for a whole directory, the
replacement (`sib`). The steps are those of `adopt_switch.go` (inspect, plan, rename,
archive, remove) and `adopt_switchdir.go` (record, create, link, swap, verify, land, settle
the backup), each followed by its record write; `Abandon` undoes a switch and
`Isolates` gives the agent up. `Recover` enters at the record's stage.

### Status

`collectableRecoveryNamesFromJournal` decides from names, and from the identity of one root, what gc
will be able to decide from manifests. `Status` states its buckets and compares them
with what `GcPrune` can do in the same state.

## 3. Runs

| run | instance | distinct states | shows |
|---|---|---|---|
| `txn_journal` | 2 transactions, 3 revisions, 2 failing writes | 84,045 | `NeverAhead`, `JournalReadable`, `AtMostOneOpen`, `LifeSpec` |
| `crashes` | 1 skill installed, 2 upstream contents, 3 commands, 2 faults, no user, fairness | 1,557,376 | `NoConflict`, `Consistent`, `RollbackRestores`, `NothingStranded`, `OneOpen`, `InventoryIsWhatGcDoes`, `RecoveryCompletes` |
| `interference` | 2 skills (1 installed), 1 command, `--force` allowed, 1 fault, 1 edit, deletions, direct commits | 216,806 | `TypeOK`, `LostOnlyAsRecorded`, `HistorySpec` |
| `config_exchange` | 2 installs, 2 saves of either kind, 2 faults | 201,982 | `TypeOK`, `LostOnlyOver`, `ReopenedOnlyIfStuck`, `ConflictHasCause`, `OutcomeHolds` |
| `leases` | 1 producer of any kind, 1 gc, 1 status, 2 faults, 1 thing a user puts in the way, fairness | 134,934 | `InUseKept`, `VerdictTrue`, `Evidence`, `TheirsKept`, `Converges` |
| `links` | 2 agents, 1 reserving, 1 skill and 1 reserved name, 2 directories each, 2 passes, 2 edits or faults | 1,380,900 | `ForeignKept`, `ToldOrDone`, `SecondPassIdle`, `Foretold`, `ActsOnListed` |
| `worktree` | 3 paths, 6 commits, 1 command, 2 user moves, 1 fault, fairness | 335,429 | `EditsKept`, `RevertExact`, `CommitScoped`, `Undisturbed`, `ForwardOnly`, `Recorded` |
| `adopt` | a directory, a link and a whole directory, 2 moves, 2 faults, fairness | 1,860,483 | `TheirsKept`, `NeverStripped`, `NothingParked`, `NamedAreSwitched`, `Converges` |
| `rm_edit`, `torn_copy`, `restore_hard`, `adopt_twice` | the smallest that show it | | the disagreements below |

Why these bounds. In the journal, two transactions are needed for an old
family to be mistaken for, or to block, a new one, and three revisions for a chain
with an interior; a third adds only copies, and the proofs cover every number.
With crashes, three commands let a removal, a second removal from the same start
commit and a gc between them share a payload name, and two faults let a recovery
be interrupted too. One skill suffices there because commands of different
skills share only `fu.yaml` and the branch, which `interference` exercises with
two. `MaxId` bounds the objects ever created; a command that
would need more stays where it is, so it is set above what the commands and the
edits of the instance need, or, where the edits also create objects, at a value
that cuts only runs in which every one of them does. `Edits = {}`
switches every user action off. In `config_exchange` a save
before and one after the exchange are what the protocol has to tell apart, and a
second install meets what the first one left; three installs with three saves pass
too (13.4 million states). A lease belongs to one producer, so a second one
shares only `fu.lock` and the gc's list with it; two faults let the owner and the gc
that cleans up after it both die. A second pass is where an unsettled first one
shows; two changes by a user let one mislead the scan and the other hit the rename; `MaxTrouble`
keeps edits and faults together at two. In `worktree` a path is a file in one commit
and a directory in another, one operation has been rolled back by recovery, and the
remote is one commit ahead, so that every command has something to do; one user move before a check
and one after it are needed for what `EditsKept` excludes. In `adopt` the three kinds of
agents share the record, the order in which they are switched is arbitrary, and two faults let the
abandonment of a failed switch fail as well.

Deadlock is not checked where everyone may be out of turns or at rest: in `FuTransactions`,
`ConfigExchange`, `Links` and `Worktree`. Symmetry is used for
names, contents, edits and directories, in safety runs only.

Fairness. `FuTransactions!FairSpec`: weak fairness of the steps of the running process, which
nothing but its own death stops, and of `BeginRestore`: a user who has an
interrupted command runs another write command sometime. Nothing is assumed of
new commands, of gc or of the user's edits. `Lease!FairSpec`: producers and sweeps run, gc is run
again, and a recovery that waits for `fu.lock` gets it sometime (strong fairness: `flock` blocks
until it is free, and the kernel serves who waits). `Worktree!FairSpec`: a process
runs, a later command runs while something is left to record, and a leftover `index.lock` is removed
by the user whom fu's refusal tells so. `Adopt`: a process runs, and after a crash a write
command, which recovers, is run again. Faults are bounded everywhere, so recovery is
not defeated by infinitely many crashes.

The properties:

- `NeverAhead`: a record in memory is the history the journal has or an earlier part of it, so that a
  command that goes on after a write of which nothing was published (adopt, with its other agents) can write again.
- `LifeSpec`: the files, whatever fails and wherever gc stops, are a log in which a
  closed record stays closed and history only grows.
- `NoConflict`: crashes alone never make recovery stop and ask. The run leaves out
  `TornCopies`, which breaks it (disagreement 2).
- `Consistent`, `RollbackRestores`: at rest, disk, registry and HEAD agree; a
  command that says it rolled back left what it started from.
- `NothingStranded`: nothing fu puts aside becomes
  uncollectable, with the one exception `txn_prune.go` documents (gc run while an
  rm of the same skill is pending prunes an update's record for the sake of the
  name), which `StagingAccounted` states exactly.
- `InventoryIsWhatGcDoes`: with no command running, what status calls collectable is what gc
  can collect, neither more nor less. A family may have to wait for another
  that shares its payload's name (see observation f).
- `HistorySpec`: a commit that carries a command's name is that command on its
  parent; other people's changes are never under it.
- `LostOnlyAsRecorded`: what a user wrote is on disk or in a
  commit; where rm or `--force` lose it, the lost tree is the one the record lists.
- `LostOnlyOver`: no saved version of `fu.yaml` disappears, unless fu had loaded it
  (it is swept into the history and the new config is made from it), a user saved over
  it, or it was itself a save in place over fu's own file, in an exchange not yet
  completed (observation b). An editor that replaces the file never loses a save.
- `OutcomeHolds`: whoever completes an exchange, `installed` is recorded only if
  the version it displaced was the one loaded, and a withdrawal only if fu's file is
  not the config.
- `ReopenedOnlyIfStuck`, `ConflictHasCause`: a completed exchange is taken for an
  interrupted one only if the removal of its record failed (observation c); and
  without such a failure or a save during an exchange, recovery never comes to a conflict.
- `InUseKept`, `VerdictTrue`: no scan takes the object of a living producer, or one the journal
  claims; a verdict of "abandoned" is true for as long as its lock is held.
- `Evidence`, `Lease!Converges`: whatever fu made is in the journal or has a lease gc can act
  on, and gc gets rid of it in the end, whoever died where.
- `Lease!TheirsKept`: gc removes nothing a user put under fu's names. A failing clone does
  remove what its own path names (`scratch.go`), which the property says.
- `ForeignKept`: what a user has in a skills directory and fu does not own is never
  lost, however it gets under fu's hands.
- `ToldOrDone`, `SecondPassIdle`: a command either leaves each name no user touched as `fu.yaml` says
  or reports why not; done again, it changes nothing.
- `Foretold`: the changes `fu agent` and `fu status` announce are the changes the pass makes.
- `ActsOnListed`: a plan is carried out in the directory it was made from, unless the path was
  redirected twice while fu looked away, which no identity comparison can see.
- `EditsKept`: an edit is in a file, staged or in the history, unless somebody gave it up
  by a command that says so, or made it between the check of a path and its rewrite
  (SPEC.md:179 and DESIGN.md:298 document that window).
- `RevertExact`, `CommitScoped`, `ForwardOnly`: what the commits say is what they contain, under any
  interleaving with `git commit`, and the branch loses none.
- `Undisturbed`: a command nobody interferes with does what it is for, and is refused only for the
  reasons stated. One of them, `InTheWay`, covers a path that is tracked or only staged, replaced
  by a directory with an untracked file in it: it stops `restore --hard` too
  (`worktree_apply.go` 754-781).
- `Recorded`: what was edited, staged, half rewritten or pulled ends up recorded.
- `Adopt!TheirsKept`, `NeverStripped`: no entry of a user is lost; no agent is without its skills
  directory unless the journal says how it gets one back.
- `NothingParked`, `NamedAreSwitched`, `Adopt!Converges`: a settled adopt leaves nothing under a random
  name, but for an agent that met a failure or a crash, or whose entry's path a user led elsewhere
  between the rename and the check of what was renamed (observation g; `astray`); it names the agents it switched, and it does settle where no user interferes.

The modules' `TypeOK` is checked in the runs that list it, and proved in all of them; in `TxnJournal`, `Lease`, `Links`, `Worktree` and
`Adopt` it is only proved.

### Disagreements with the documentation

1. `rm_edit`: an edit between rm's sweep and its snapshot (`rm.go:74`) is removed
   and is in no commit, although `rm.go:23` says the removed content stays in the history.
2. `torn_copy`: a crash between creating a declared file and filling it leaves a
   tree that recovery refuses (`ownedtree.go:919`), although the comment at
   `ownedtree.go:1154` says a crash at any point can be settled.
3. `restore_hard`: the second lock section of `restore --hard` (`restore.go:161`) does not recover
   first, although `txn.go:895` calls that mandatory. If another command dies
   between the two sections, the reset undoes half of its work and recovery then refuses
   the rest. The comment at `restore.go:501` describes the same omission, mended for revert.
4. `adopt_twice`: when the record of a landed directory cannot be written
   (`adopt_switchdir.go:781`) and the settlement of that fails after it removed the backup, the
   journal says `swapped` for good and every recovery demands the backup (745). The comment at
   596-600 calls such a conflict over fu's own residue the defect to avoid.

### Observations

Seen while modelling, none of them a run of its own:

- a. `update --force` has the window of disagreement 1 (`update.go:550`), against SPEC.md:187.
- b. A displaced `fu.yaml` is exchanged back after a check that the name still holds fu's bytes
  (`config.go:724`); a user who rewrites the file in place in between loses the save, which
  `config.go:409` and `714` exclude.
- c. `reclaimConfigExchangeResidue` goes on to the marker when the record could not be
  removed (`config_exchange.go:253`), which makes a finished exchange pending, the state its
  comment (212) says the order rules out.
- d. A name in `fu.yaml` that fu refuses goes unreported when the one agent that reserves it cannot be
  scanned: `alreadyReportedAsReserved` counts on a report that is only made after a successful
  scan (`reconcile.go:598`). The agent's failure is reported. `ToldOrDone` admits it.
- e. After retiring a link and putting it back because it could not be read, `retireFuLink` (796-809)
  answers with a conflict, where 669-674 says that an I/O failure says nothing about ownership.
- f. Two completed rm families can share a payload name with different objects (a removal rolled back, the
  directory recreated, a second removal interrupted). gc then reports an error for the older family, once, and
  status counts it; the comment of the inventory in `status.go` says such a state takes a hand-edited journal.
- g. In adopt: a sibling partly removed by an abandonment makes later recoveries refuse even when
  the user has restored the target (`over = "past"`). A crash between the rename of an entry and its
  record, followed by a move of the parent directory, isolates the agent and leaves the entry under
  `.fu-adopt-retired-*`, against `adopt_switch.go:80-87`. A crash
  between the two renames of a removal leaves an empty `.fu-retired-dir-*`. A failure of the last
  record write reports an agent as isolated that was switched.
- h. `applyTreeToWorktreeGuarded` leaves out of its list of changed paths one that was removed and
  could not be written again (`worktree_apply.go:402-405`; README.md:53-56 of the repository).
- i. A comment in `operations.go` says nothing can land between an operation and its compensation;
  a direct `git commit` can, and `StoreHistory!UndoInstall` admits it.

## 4. Proofs

`TxnJournalProofs` proves, for every set of transactions and stages and every bound,
from `BoundsAssumption` alone:

- `Invariance`: `Spec => []IInv`; `Typing`, `AlwaysReadable`, `OneOpenAtATime`, `NeverAheadOfJournal` follow.
- `ImplementsLife`: `Spec => LifeSpec`.

`IInv` is `TypeOK`, at most one open transaction, and for each transaction
`Family`: its files are `Fresh` (none), `Whole` (a chain of revisions from 1, with
at most a completion marker that names the last), or `Going` (a prune record that
lists a completed chain of which a part may be left); and a record in memory is that of a revision on
disk of a family gc has not begun with, since gc has the lock (`RecordsInv`). Neither readability nor
one-open is inductive alone: that a partly removed family still reads as
completed needs the marker to go last and the prune record to match what was there,
and both need the issued ids to be those with files. `TypingStep`, `FamilyStep`,
`OneOpenStep` and `RecordsStep` each take `Next` apart by action. Refinement rests on how a
reader sees a chain (`ViewOfChain`): appending a revision extends the history by
one, everything else leaves it as it is, closes it or forgets it whole.

`FuTransactionsProofs` proves four theorems about the composed system, users included:
`NoOverlap` (`[]OneOpen`, from no assumption on the constants) and, from
`ConstantsAssumption` and `InstalledAssumption`, `Types` (`[]TypeOK`), `ImplementsHistory`
(`Spec => HistorySpec`) and `LosesOnlyAsRecorded` (`[]LostOnlyAsRecorded`). Each rests on the
invariant of the one before.

- `OneOpen` is not inductive by itself: `StartTxn` opens a transaction and keeps it
  only because nothing has been pending since the command finished recovering.
  `OInv` adds that (`pc \in Early => Pending = {}`) and that `txns` is a sequence of
  records (`Ledger`). All but two of the steps are `Calm`: they open nothing and do not
  enter that part of a command. There is one lemma per module of steps (`RunCalm`,
  `InstallCalm`, `RemoveCalm`, `UpdateCalm`, `RestCalm`), with a case for each action.
- `TypeOK` is not inductive either: a step writes `txns[self]`, and a record is written from the
  command's arguments. `TInv` adds that whoever is past the first revision drives a transaction
  (`DrivenInv`) and has a command whose arguments are of its kind (`CommandInv`). It is proved by
  parts (disk, journal, branch, memory, control, counters), each with one lemma per module of steps.
- `HInv` is what the refinement needs: that a candidate which passed validation is the command and
  nothing else *on the commit it is published over*, while users commit and edit. The record in
  hand is that of the command (`MineInv`); a record's config is the store's but for its skill, and
  the tree it expects to commit has the config it expects (`OpenInv`); HEAD registers what the
  command started from or, if a user committed since it saved, what it wrote (`EarlyInv`,
  `HeadInv`); what is copied and published is what was recorded (`RecordInv`, `GoneInv`); and so a
  candidate is `Meant` (`CandidateInv`) and a compensation finds its install on the branch with only
  direct commits after it (`CompensationInv`). A step then maps as follows: `Sweep` and `UserCommit`
  to `StoreHistory!Foreign`, `CommitPrepared` to `Install`, `Update` or `Remove` or, when a user has
  already committed everything it changed, to a stutter, `CompCommit` to `UndoInstall`, everything
  else to a stutter.
- `LInv` follows a user's content. It disappears only in a reclaim, so what has to be known is that
  no other tree a step drops is a user's: what fu registers, stages and copies never is (`OwnInv`,
  `HandInv`), a payload's name is taken once (`UniqueInv`), and an undo that rewrites `fu.yaml`
  has judged one with the note its record has (`HandInv`). Each action is `Spared`: what a user wrote and is
  on disk stays there or is what a record takes away (`Guarded`), and records keep saying so
  (`Remembered`).

`RecoveryProofs` proves, for a store that only fu writes (`Edits = {}`), `Agrees`
(`[]Consistent`), `Restores` (`[]RollbackRestores`), `Accounted` (`[]NothingStranded`) and, where no
crash tears a copy (`~TornCopies`), `NeverDefeated` (`[]NoConflict`): any number of skills, contents,
commands, crashes, failing operations and runs of gc. The hypotheses are the properties' own: where users
write, the three need not agree, a rollback leaves their edits alone, and a conflict is what
recovery *should* report; `torn_copy` is the counterexample without `~TornCopies`, which the other three do not
need. `Edits = {}` switches off the user's actions and nothing else, and is what the run `crashes`
sets.

The argument is an assertion at every point where a process can die. `Recoverable(t)` says, without
mentioning `pc`, what an open record and the disk may look like: `Unfinished` (HEAD is the start; for
each operation, which of its trees is where and which of the two configs it knows is in place),
`Finished` (HEAD is the operation, everything is published), `Reverting` and `Reverted` (how far a compensation
got). `CommandAt`, `UndoAt` and `FinishAt` say what is true at each step of a command, of the undo and of
what follows a commit, and `DriveInv` puts them together; each implies `Recoverable` (`Leaves`), which
is what a crash needs (`LeftInv`), and each handler of recovery finds its own first assertion in it. The
rest of the invariant `KInv` is what the properties speak of: the open record is the last one (`LastInv`), a
store with nothing pending is settled (`SettledInv`), payloads and staged trees have an owner in the
journal (`RecoveryInv`, `StagingInv`), object ids are not reused (`IdsInv`), a rollback ends at the commit it
started from (`AbortInv`), and a conflict needs a torn copy (`OutcomeInv`). There is one lemma per action.
TLC checked `KInv` on the instance of the run `crashes` before it was proved.

`LeaseProofs` proves, from `LeaseAssumption`, `LeaseTypes`, `UseIsSafe`, `VerdictsTrue`,
`EvidenceOutlives` and `TheirsAreKept`. None of the properties is inductive: what protects an object in
use is a lock, and what makes a verdict true is a file read earlier. `IInv` says so: a producer past
`write` holds its lease's lock exclusively (`LocksInv`); a sweep at work holds the lock of the lease it
works on (`SweepLocksInv`); a gc that has `fu.lock` has read every claim there is (`StoreLockInv`); a
verdict rests on a record and lasts as long as the lock (`VerdictsInv`); and an object is under one name
only (`WhereInv`). `Same` is what a
step of one producer leaves to another, so each action is proved for its own token once.

`LinksProofs` proves, from `LinksAssumption`, `LinksTypes`, `ForeignStays`, `PlansFit`,
`NothingUntold`, `SecondPassQuiet` and `ForecastsHold`. For `ForeignKept`, the invariant is that only
the object `moved` is ever unlinked, and only when it is what was approved (`RetiredInv`). The other
properties speak of the end of a pass, so their invariants say what is already true in the middle
(`ToldInv`, `ForecastInv`, `QuietInv`): an agent whose turn is over is as the end demands, one whose
turn has not come is as the scan found it, and the current one is split by what of its plan is left
(`Going`). `SettledInv` carries the first pass over to the second.

`AdoptProofs` proves, from `AdoptAssumption`, `AdoptTypes`, `TheirsStay`, `NobodyStripped`, `NothingLeftAside`
and `NamedHaveSwitched`. The record is in memory and in the journal, and the two differ only between a
change of the disk and the write that records it (`MemoryInv`, `StageInv`); the agent in flight is the one
in hand or one of those left (`OwnerInv`); what is under a random name is what the
record's stage says (`AsideInv`, `ParkedInv`); the adopted entry has one name and so has the
replacement (`OnceInv`). The steps are first put into a few kinds without branches (`EntryMove`
and the like), and each part of the invariant is proved over those.

`ConfigExchangeProofs` proves, from the module's assumption, `ExchangeTypes`, `NothingSavedIsLost`,
`ReopenedOnlyStuck`, `ConflictsHaveCause` and, as an action property, `CompletedAsItWas`. The invariant ties each
record to where its two objects can be (`PlacesInv`), a version a user is owed to `fu.yaml` or the name
beside it (`OwedInv`), a completed exchange to its marker (`MarkedInv`), and says that a
pending record is at one of the positions recovery recognises unless a save or a stuck removal
came in between (`LocatedInv`). It was checked by TLC on four instances (2 installs, 2 saves, 2 faults;
3/1/3; 2/3/2; 1/4/2) before it was proved.

`WorktreeProofs` proves, from `WorktreeAssumption` and `HistoryAssumption` (paths are two levels deep; the initial commits
are Git trees whose parents come first), `WorktreeTypes`, `EditsStay`, `RevertsExact`,
`CommitsScoped`, `NeverBackward` and `DoesWhatItIsFor`. The branch may move under a command at any step, so the
invariant ties what a command holds to commits, not to the branch: the parent of a candidate (`CandInv`), the
commit of a guard (`GuardInv`) and the target of a revert stay in the branch's history, and a pull's
goal descends from the commit its guard saw (`GoalInv`). `PlanInv` says of each path whether the rewrite
still has to touch it, and so what is there; `AimInv` what the whole command aims at. `EditsKept` is
inductive with these. A fact about every ancestor of a commit is proved by
least counterexample, for which `WellFoundedInduction` has a theorem without an operator parameter.
`ReachKept` and `BackKept` show that a growing database of commits leaves the history of old ones as it was.
TLC checked `IInv` on the constants of the run `worktree`.

`DoesWhatItIsFor` is `Undisturbed`, by a second invariant `UInv` on top of the first. `calm` says that
since the command began no user moved anything and nothing was fetched, so what the command captured
can be tied to the store itself, place by place (`CourseInv`): in a sweep the candidate's
parent is the branch, its base the index and its tree what was frozen of them, hence the second candidate
leaves nothing to record (`SweepCourse`, `CandCourse`); from its guard to its last check a
revert or a pull has branch, index and files as the guard recorded them, up to the paths of its own plan
(`GuardCourse`); in the loop a path is either still in the plan, and then in a guarded rewrite as the index
has it, or is already as the target has it (`PlanCourse`). A hard restore, which has no guard, is the
harder half: what blocks the next write is not a tracked path, since all deletions come before any write
and every tracked path on the way was among them, so a refusal means `InTheWay`. Crashes need
no argument, as nothing is promised of a command that did not end. Two facts hold however
much is interfered: a directory of the worktree is the parent of some path (`DirsInv`), and the commit last
seen of the remote is in its history or in the store's (`TrackInv`). By the latter a push, the one step
of fu that may fall between a refused pull and the next command and is not a disturbance, cannot make the
refusal wrong. TLC checked the parts of `UInv` on the run `worktree` before they were proved.

What the attempts found. `ConstantsAssumption` now says that no skill is called `fu.yaml`, without which
`ChangedPaths` cannot tell the file from a skill (the code keeps skills below `skills/`), and `InstalledAssumption` that
`Edits` is finite, without which its bound says nothing.
`Undisturbed` did not admit a refusal that the code makes (see §3);
`NothingParked` needed the ghost `astray`; the order of a rewrite had to be a relation to be
reasoned about, where it had been a sorted sequence.

Only model-checked: `Status!InventoryIsWhatGcDoes`, which is stated with ENABLED, and the liveness
properties (`RecoveryCompletes`, `Converges` of `Lease` and of `Adopt`, `Worktree!Recorded`). Both are
outside the prover's reach. Every other property of a passing run is a theorem. No recursive operator is used anywhere.

## 5. Not modelled, and abstractions to know

In the composed system:

- In `FuTransactions` the exchange of `fu.yaml` is one compare-and-install step, which
  `ConfigExchange` justifies for users who replace the file; a user who rewrites it in
  place has the window of observation b.
- Inside one primitive of the owned trees, the object checked and the object renamed are the
  same: the re-check after each rename (`retire.go`, `ownedtree.go`) is modelled in `Links` and
  `Lease` only. Nor is the private sibling name a removal works under.
- Users edit published and staged skills and `fu.yaml`, not private roots or `recovery/`.
- Its Sweep looks at the worktree only; the public index is in `Worktree`.
- `fu new` and `fu add` are one install. Source fields are not in `config`; hence no lock-only
  update.

In the modules of their own:

- `Lease`: users leave the name an object is retired to alone, and do not replace a directory in the
  instant between `mkdir` and the record of its identity. A second failure that leaves
  `.fu-retired-staging-*` behind is not followed further. A crash is the death of a process, not of the
  machine: a record torn by the latter inside the `WriteAt` of `AttachIdentity` (`lease.go:372-379`; the code
  reports such a lease as one it cannot account for) is outside what `Evidence` and `Converges` say.
- `Links`: listing a directory and reading its links is one step, as is the check of the store's
  directory and the `symlinkat` that follows. Users leave `.fu-retired-*` names alone and edit
  `fu.yaml` only between commands.
- `Worktree`: refusals of absolute symlinks, unmerged and intent-to-add entries, files read while they
  are written, a HEAD moved to another branch, rebases and rewrites of the remote are left out. A pull
  that dies between the worktree and the branch is the documented state of DESIGN.md:316.
- `Adopt`: users leave fu's random names alone; two consecutive checks of the same name are one
  step; failures of `stat` and a changed HOME are left out; the store's side of
  `finishCommittedAdopt` holds. A failing archive of a link is a failing record.
- `Status` compares with gc in one state. Status reads its listings one after the other, without the
  lock, and says so.

Not at all: what adopt does before its commit (the classification and merge of candidates), the
batches of `fu add` and `fu update` (sequential accounting), clone and remote configuration, fetching, digests,
metadata and symlink safety (pure functions over bytes), outdated, log, list, show, parsing of arguments, rendering
and exit codes, path handling below the store's roots, permissions, and the development tools.

The components table in `PROJECT.json` gives the status of each part.

## 6. Plan

What is left of the proofs: `ConfigExchange` as an abstract compare-and-install register, so that
`SaveConfig` stands on a refinement.

And, of the model: the merge of candidates before adopt's commit, as an operator checked against a
reference definition.
