-------------------------------- MODULE RemoveTxn --------------------------------
(***************************************************************************)
(* `fu rm` (engine/rm.go) and its recovery (engine/rm_txn.go): the skill's *)
(* tree is moved to recovery before the commit, restored from there when   *)
(* the command does not commit, and reclaimed when it does.                *)
(***************************************************************************)
EXTENDS Pipeline

(* checkRemoveAvailable; a skill without content can be removed too.       *)
RemovePreflight == Preflight("rm", seen.reg[cmd.name] # NONE)

(* Mutate: SnapshotSkillPayload takes the manifest of whatever is there,   *)
RemoveMutate ==
    /\ pc = "mutate" /\ cmd.op = "rm"
    /\ held' = skills[cmd.name]
    /\ Goto("log-snapshot")
    /\ UNCHANGED <<disk, commits, txns, nextId, cmd, mode, self, seen, cand, last, ghost>>

(* the record owns it,                                                     *)
RemoveLogSnapshot ==
    /\ pc = "log-snapshot" /\ cmd.op = "rm"
    /\ WriteTxn([Me EXCEPT !.payload = held, !.stage = "snapshotted"])
    /\ Goto("quarantine")
    /\ UNCHANGED <<disk, commits, nextId, local, last, ghost>>

(* Mutant: a skill without content is quarantined all the same.            *)
PayloadAssumed == TRUE

OwnsPayload == Present(Me.payload)

(* and QuarantineSkillOwned moves exactly that tree away.                  *)
RemoveQuarantine ==
    LET n == cmd.name
        p == RemovedName(Me)
    IN
    /\ pc = "quarantine"
    /\ OrAbort(OwnsPayload => skills[n] = Me.payload /\ ~Present(At(recovery, p)),
        /\ skills' = IF OwnsPayload THEN [skills EXCEPT ![n] = NoTree] ELSE skills
        /\ recovery' = IF OwnsPayload THEN Put(recovery, p, Me.payload) ELSE recovery
        /\ Goto("log-quarantined")
        /\ UNCHANGED <<config, staging, private, archive, commits, txns, nextId,
                       local, last, ghost>>)

RemoveLogQuarantined ==
    /\ pc = "log-quarantined"
    /\ WriteTxn([Me EXCEPT !.stage = "quarantined"])
    /\ Goto("save")
    /\ UNCHANGED <<disk, commits, nextId, local, last, ghost>>

(* reclaimCommittedRemovePayload.                                          *)
RemoveReclaim ==
    LET p == RemovedName(Me)
        t == At(recovery, p)
    IN
    /\ pc \in {"reclaim", "finish-reclaim"} /\ Me.op = "rm"
    /\ \E left \in Leftovers(t, Me.payload) :
        /\ recovery' = IF Present(left) THEN Put(Take(recovery, p), p, left) ELSE Take(recovery, p)
        /\ ReclaimStep(t, left)
    /\ UNCHANGED <<config, skills, staging, private, archive, commits, txns, nextId, ghost>>

--------------------------------------------------------------------------------
(* Mutant: the recorded stage decides whether there is content to restore. *)
RemoveUndoByStage(i) ==
    LET t == txns[i]
    IN
    /\ Recovering("rm", i)
    /\ Uncommitted(t)
    /\ Handle(i, config \in {t.before, ExpectedConfig(t)},
              IF t.stage = "snapshotted" THEN "undo-config" ELSE "undo-restore")

(* rollBackUncommittedRemove: fu.yaml is one of the two the command knows; *)
RemoveUndo(i) ==
    LET t == txns[i]
    IN
    /\ Recovering("rm", i)
    /\ Uncommitted(t)
    /\ Handle(i, config \in {t.before, ExpectedConfig(t)}, "undo-restore")

(* the content is in exactly one place and unchanged, and is put back.     *)
RemoveUndoRestore ==
    LET n == Me.name
        p == RemovedName(Me)
        quarantined == At(recovery, p)
    IN
    /\ pc = "undo-restore"
    /\ OrConflict(
        IF OwnsPayload THEN {skills[n], quarantined} = {NoTree, Me.payload}
        ELSE ~Present(quarantined),
        /\ skills' = IF Present(quarantined) THEN [skills EXCEPT ![n] = quarantined] ELSE skills
        /\ recovery' = Take(recovery, p)
        /\ Goto("undo-config")
        /\ UNCHANGED <<config, staging, private, archive, commits, txns, nextId,
                       local, last, ghost>>)

(* finishCommittedRemove: HEAD is the recorded commit and the store still  *)
(* agrees with it.                                                         *)
RemoveFinish(i) ==
    LET t == txns[i]
    IN
    /\ Recovering("rm", i)
    /\ ~Uncommitted(t)
    /\ Handle(i, /\ IsOperationCommit(t, HEAD)
                 /\ config = ExpectedConfig(t)
                 /\ ~Present(skills[t.name]),
              "finish-clear")

RemoveStep ==
    \/ RemovePreflight \/ RemoveMutate \/ RemoveLogSnapshot \/ RemoveQuarantine
    \/ RemoveLogQuarantined \/ RemoveReclaim
    \/ \E i \in DOMAIN txns : RemoveUndo(i) \/ RemoveFinish(i)
    \/ RemoveUndoRestore
================================================================================
