-------------------------------- MODULE InstallTxn --------------------------------
(***************************************************************************)
(* `fu new` and `fu add`: a new skill is staged, registered and published  *)
(* (engine/ops.go, add.go), and its recovery (engine/new_txn.go).  An      *)
(* interrupted install is always undone: before its commit by quarantining *)
(* and archiving what it made, after it by a compensating commit.          *)
(***************************************************************************)
EXTENDS Pipeline

(* checkNewSkillAvailable, checkAddAvailable.                              *)
Available(n) == seen.reg[n] = NONE /\ ~Present(skills[n]) /\ ~Present(staging[n])

InstallPreflight == Preflight("install", Available(cmd.name))

(* Mutate checks again before it stages anything.                          *)
InstallMutate ==
    /\ pc = "mutate" /\ cmd.op = "install"
    /\ OrAbort(Available(cmd.name),
        /\ Goto("reserve")
        /\ UNCHANGED <<disk, commits, txns, nextId, local, last, ghost>>)

(* The complete manifest replaces the declaration ...                      *)
InstallLogCopied ==
    /\ pc = "log-copied" /\ cmd.op = "install"
    /\ WriteTxn([Me EXCEPT !.payload = held, !.declared = NONE])
    /\ Goto("log-prepared")
    /\ UNCHANGED <<disk, commits, nextId, local, last, ghost>>

(* ... and once the staged tree is verified against it the install is      *)
(* prepared.                                                               *)
InstallLogPrepared ==
    /\ pc = "log-prepared" /\ cmd.op = "install"
    /\ OrAbort(staging[cmd.name] = held,
        /\ WriteTxn([Me EXCEPT !.stage = "prepared"])
        /\ Goto("save")
        /\ UNCHANGED <<disk, commits, nextId, local, last, ghost>>)

(* PublishStagedOwned moves exactly the staged tree, onto a free name.     *)
InstallPublish ==
    /\ pc = "publish" /\ cmd.op = "install"
    /\ OrAbort(~Present(skills[cmd.name]) /\ staging[cmd.name] = Me.payload,
        /\ skills' = [skills EXCEPT ![cmd.name] = Me.payload]
        /\ staging' = [staging EXCEPT ![cmd.name] = NoTree]
        /\ Goto("log-published")
        /\ UNCHANGED <<config, private, recovery, archive, commits, txns, nextId,
                       local, last, ghost>>)

InstallReclaim ==
    /\ pc = "reclaim" /\ cmd.op = "install"
    /\ Exit("ok")
    /\ UNCHANGED <<disk, commits, txns, nextId, ghost>>

--------------------------------------------------------------------------------
(* rollBackUncommittedInstall: fu.yaml has to be what the command started  *)
(* from or, once a digest is recorded, what it wrote.                      *)
InstallUndo(i) ==
    LET t == txns[i]
    IN
    /\ Recovering("install", i)
    /\ Uncommitted(t)
    /\ Handle(i, /\ t.stage \notin {"compensating", "compensation-ready", "compensation-committed"}
                 /\ \/ config = t.before
                    \/ t.stage # "started" /\ config = ExpectedConfig(t),
              "undo-root")

(* Mutant: a root that already took its final name is not looked for.      *)
RootStillPrivate(t) == t.resv \in private

(* Where a recorded reservation can be.                                    *)
RootFound(t) ==
    LET reserved == t.resv \in private
    IN
    /\ reserved # Present(staging[t.name])
    /\ reserved \/ staging[t.name] = t.resv

(* A reservation still recorded is under its private or its final name,    *)
(* never both: it is brought to the final one,                             *)
InstallUndoRoot ==
    /\ pc = "undo-root" /\ Me.op = "install"
    /\ IF Me.resv = NoTree
       THEN /\ Goto("undo-entries")
            /\ UNCHANGED <<disk, commits, txns, nextId, local, last, ghost>>
       ELSE OrConflict(RootFound(Me),
            /\ private' = private \ {Me.resv}
            /\ staging' = [staging EXCEPT ![Me.name] = Me.resv]
            /\ Goto("undo-log-root")
            /\ UNCHANGED <<config, skills, recovery, archive, commits, txns, nextId,
                           local, last, ghost>>)

(* and recorded as the payload.                                            *)
InstallUndoLogRoot ==
    /\ pc = "undo-log-root" /\ Me.op = "install"
    /\ WriteTxn([Me EXCEPT !.payload = Me.resv, !.resv = NoTree])
    /\ Goto("undo-entries")
    /\ UNCHANGED <<disk, commits, nextId, local, last, ghost>>

(* Entries declared but not yet recorded are settled into the manifest.    *)
InstallUndoEntries ==
    LET t == staging[Me.name]
    IN
    /\ pc = "undo-entries" /\ Me.op = "install"
    /\ IF Me.declared = NONE
       THEN /\ Goto("undo-quarantine")
            /\ UNCHANGED <<disk, commits, txns, nextId, local, last, ghost>>
       ELSE OrConflict(Present(Me.payload) /\ Present(t) /\ Settles(t, Me.declared),
            /\ WriteTxn([Me EXCEPT !.payload.c = t.c, !.declared = NONE])
            /\ Goto("undo-quarantine")
            /\ UNCHANGED <<disk, commits, nextId, local, last, ghost>>)

(* The content is in one place; it goes to recovery from there.            *)
InstallUndoQuarantine ==
    LET n == Me.name
        p == UncommittedName(Me)
        inSkills == Present(skills[n])
        inStaging == Present(staging[n])
        moved == Present(At(recovery, p))
    IN
    /\ pc = "undo-quarantine" /\ Me.op = "install"
    /\ IF ~Present(Me.payload)
       THEN OrConflict(~inSkills /\ ~inStaging,
            /\ Goto("undo-config")
            /\ UNCHANGED <<disk, commits, txns, nextId, local, last, ghost>>)
       ELSE OrConflict(
            /\ ~(inSkills /\ inStaging) /\ (moved => ~inSkills /\ ~inStaging)
            /\ inSkills => skills[n] = Me.payload
            /\ inStaging => staging[n] = Me.payload,
            /\ recovery' = IF inSkills \/ inStaging THEN Put(recovery, p, Me.payload) ELSE recovery
            /\ skills' = [skills EXCEPT ![n] = NoTree]
            /\ staging' = [staging EXCEPT ![n] = NoTree]
            /\ Goto("undo-archive")
            /\ UNCHANGED <<config, private, archive, commits, txns, nextId, local, last, ghost>>)

(* ArchiveRecoveryPayloadOwned: kept under a name nothing derives again.   *)
(* A payload that is already archived is accepted.                         *)
ArchivePayload(p, next) ==
    LET here == At(recovery, p)
        there == At({r \in archive : r.tree.id = Me.payload.id}, p)
    IN
    OrConflict({here, there} = {NoTree, Me.payload},
        /\ recovery' = Take(recovery, p)
        /\ archive' = IF Present(here) THEN Put(archive, p, here) ELSE archive
        /\ Goto(next)
        /\ UNCHANGED <<config, skills, staging, private, commits, txns, nextId,
                       local, last, ghost>>)

(* Mutant: the undone content is left where it was quarantined.            *)
InstallUndoArchiveSkipped ==
    /\ pc = "undo-archive" /\ Me.op = "install"
    /\ Goto("undo-config")
    /\ UNCHANGED <<disk, commits, txns, nextId, local, last, ghost>>

InstallUndoArchive ==
    /\ pc = "undo-archive" /\ Me.op = "install"
    /\ ArchivePayload(UncommittedName(Me), "undo-config")

--------------------------------------------------------------------------------
(* validateInstallWorktreeChanges: nothing differs from HEAD beyond what   *)
(* the compensation itself changes.                                        *)
OnlyChanged(allowConfig, allowSkill, n) ==
    ChangedPaths(Worktree, HeadSnap)
        \subseteq (IF allowConfig THEN {"fu.yaml"} ELSE {}) \cup (IF allowSkill THEN {n} ELSE {})

IsRecoveryCommit(t) ==
    /\ commits[HEAD].msg = CommitMsg("recover", t.op, t.name)
    /\ IsOperationCommit(t, HEAD - 1)
    /\ t.comp = {HeadSnap}

(* validateInitialState.                                                   *)
PublishedAsRecorded(t) ==
    /\ config \in {ExpectedConfig(t), t.before}
    /\ skills[t.name] = t.payload /\ ~Present(staging[t.name])
    /\ ~Present(At(recovery, RollbackName(t)))
    /\ OnlyChanged(config = t.before, FALSE, t.name)

(* rollBackCommittedInstall: HEAD is the recovery commit already, or it is *)
(* the operation's commit and the record says how far the undoing got.     *)
InstallCompensate(i) ==
    LET t == txns[i]
        recovered == commits[HEAD].msg = CommitMsg("recover", t.op, t.name)
        next == IF recovered THEN "comp-finish"
                ELSE IF t.stage = "compensating" THEN "comp-quarantine"
                ELSE IF t.stage = "compensation-ready" THEN "comp-prepare"
                ELSE "comp-log-start"
    IN
    /\ Recovering("install", i)
    /\ ~Uncommitted(t)
    /\ Handle(i,
              /\ IF recovered THEN IsRecoveryCommit(t)
                 ELSE IsOperationCommit(t, HEAD) /\ t.stage # "compensation-committed"
              /\ next = "comp-log-start" => PublishedAsRecorded(t),
              next)

CompLogStart ==
    /\ pc = "comp-log-start"
    /\ WriteTxn([Me EXCEPT !.stage = "compensating"])
    /\ Goto("comp-quarantine")
    /\ UNCHANGED <<disk, commits, nextId, local, last, ghost>>

(* resume: the state is the one before, or one after, either mutation; the *)
(* published content is quarantined first.                                 *)
CompQuarantine ==
    LET n == Me.name
        p == RollbackName(Me)
        inSkills == Present(skills[n])
    IN
    /\ pc = "comp-quarantine"
    /\ OrConflict(
        /\ config \in {ExpectedConfig(Me), Me.before}
        /\ ~Present(staging[n])
        /\ {skills[n], At(recovery, p)} = {NoTree, Me.payload}
        /\ OnlyChanged(config = Me.before, ~inSkills, n),
        /\ recovery' = IF inSkills THEN Put(recovery, p, Me.payload) ELSE recovery
        /\ skills' = [skills EXCEPT ![n] = NoTree]
        /\ seen' = IF config = Me.before THEN config ELSE ExpectedConfig(Me)
        /\ Goto("comp-config")
        /\ UNCHANGED <<config, staging, private, archive, commits, txns, nextId,
                       cmd, mode, self, held, cand, last, ghost>>)

CompConfig == pc = "comp-config" /\ RestoreTxnConfig("comp-log-ready")

CompLogReady ==
    /\ pc = "comp-log-ready"
    /\ WriteTxn([Me EXCEPT !.stage = "compensation-ready"])
    /\ Goto("comp-prepare")
    /\ UNCHANGED <<disk, commits, nextId, local, last, ghost>>

(* commit: prepare, validate and record the compensating tree, ...         *)
CompPrepare ==
    LET n == Me.name
    IN
    /\ pc = "comp-prepare"
    /\ OrConflict(
        /\ config = Me.before
        /\ ~Present(skills[n]) /\ ~Present(staging[n])
        /\ At(recovery, RollbackName(Me)) = Me.payload
        /\ OnlyChanged(TRUE, TRUE, n),
        /\ cand' = {[parent |-> HEAD, snap |-> Worktree]}
        /\ Goto("comp-log-tree")
        /\ UNCHANGED <<disk, commits, txns, nextId, cmd, mode, self, held, seen, last, ghost>>)

CompLogTree ==
    /\ pc = "comp-log-tree"
    /\ OrConflict(\A p \in cand : Worktree = p.snap,
        /\ WriteTxn([Me EXCEPT !.comp = {p.snap : p \in cand}])
        /\ Goto("comp-commit")
        /\ UNCHANGED <<disk, commits, nextId, local, last, ghost>>)

(* ... then publish it where it was prepared; there has to be something to *)
(* publish.                                                                *)
CompCommit ==
    /\ pc = "comp-commit"
    /\ OrConflict(\A p \in cand : p.parent = HEAD /\ p.snap # HeadSnap,
        \E p \in cand :
            /\ AppendCommit(CommitMsg("recover", Me.op, Me.name), p.snap)
            /\ Goto("comp-log-committed")
            /\ UNCHANGED <<disk, txns, nextId, local, last, ghost>>)

CompLogCommitted ==
    /\ pc = "comp-log-committed"
    /\ WriteTxn([Me EXCEPT !.stage = "compensation-committed"])
    /\ Goto("comp-finish")
    /\ UNCHANGED <<disk, commits, nextId, local, last, ghost>>

(* finish: the recovery commit is durable, the worktree agrees with it.    *)
(* Its arm for a record that never entered compensation is left out: the   *)
(* fingerprint IsRecoveryCommit needs is recorded only after it has.       *)
CompFinish ==
    LET n == Me.name
    IN
    /\ pc = "comp-finish"
    /\ OrConflict(
        /\ config = Me.before /\ ~Present(skills[n]) /\ ~Present(staging[n])
        /\ OnlyChanged(FALSE, FALSE, n)
        /\ Me.stage \in {"compensation-ready", "compensation-committed"},
        /\ WriteTxn([Me EXCEPT !.stage = "compensation-committed"])
        /\ Goto("comp-archive")
        /\ UNCHANGED <<disk, commits, nextId, local, last, ghost>>)

CompArchive ==
    /\ pc = "comp-archive"
    /\ ArchivePayload(RollbackName(Me), "undo-clear")

InstallStep ==
    \/ InstallPreflight \/ InstallMutate \/ InstallLogCopied \/ InstallLogPrepared
    \/ InstallPublish \/ InstallReclaim
    \/ \E i \in DOMAIN txns : InstallUndo(i) \/ InstallCompensate(i)
    \/ InstallUndoRoot \/ InstallUndoLogRoot \/ InstallUndoEntries
    \/ InstallUndoQuarantine \/ InstallUndoArchive
    \/ CompLogStart \/ CompQuarantine \/ CompConfig \/ CompLogReady \/ CompPrepare
    \/ CompLogTree \/ CompCommit \/ CompLogCommitted \/ CompFinish \/ CompArchive
================================================================================
