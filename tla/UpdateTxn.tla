-------------------------------- MODULE UpdateTxn --------------------------------
(***************************************************************************)
(* `fu update` of a skill's content (engine/update.go) and its recovery    *)
(* (engine/update_txn.go): the replacement is staged and exchanged with    *)
(* the published tree in one rename, so both trees exist until the commit. *)
(***************************************************************************)
EXTENDS Pipeline

(* checkUpdateAvailable.  Without --force the published content has to be  *)
(* the one fu.yaml has the digest of.                                      *)
Updatable(n) ==
    /\ seen.reg[n] # NONE
    /\ ~Present(staging[n])
    /\ Present(skills[n])
    /\ cmd.force \/ skills[n].c = seen.reg[n]

UpdatePreflight == Preflight("update", Updatable(cmd.name))

(* Mutate checks again and takes the manifest of what is to be replaced,   *)
UpdateMutate ==
    /\ pc = "mutate" /\ cmd.op = "update"
    /\ OrAbort(Updatable(cmd.name),
        /\ held' = skills[cmd.name]
        /\ Goto("log-snapshot")
        /\ UNCHANGED <<disk, commits, txns, nextId, cmd, mode, self, seen, cand, last, ghost>>)

UpdateLogSnapshot ==
    /\ pc = "log-snapshot" /\ cmd.op = "update"
    /\ WriteTxn([Me EXCEPT !.prev = held, !.stage = "snapshotted"])
    /\ Goto("reserve")
    /\ UNCHANGED <<disk, commits, nextId, local, last, ghost>>

(* the replacement is recorded once it is complete, and then verified.     *)
UpdateLogCopied ==
    /\ pc = "log-copied" /\ cmd.op = "update"
    /\ WriteTxn([Me EXCEPT !.payload = held, !.declared = NONE, !.stage = "staged"])
    /\ Goto("log-prepared")
    /\ UNCHANGED <<disk, commits, nextId, local, last, ghost>>

UpdateValidateStaged ==
    /\ pc = "log-prepared" /\ cmd.op = "update"
    /\ OrAbort(staging[cmd.name] = held,
        /\ Goto("save")
        /\ UNCHANGED <<disk, commits, txns, nextId, local, last, ghost>>)

(* ExchangeStagedWithSkillOwned swaps two trees it has both verified.      *)
Exchange(n, staged, published, next) ==
    /\ staging' = [staging EXCEPT ![n] = published]
    /\ skills' = [skills EXCEPT ![n] = staged]
    /\ Goto(next)
    /\ UNCHANGED <<config, private, recovery, archive, commits, txns, nextId, local, last, ghost>>

Exchangeable(n, staged, published) == staging[n] = staged /\ skills[n] = published

UpdatePublish ==
    /\ pc = "publish" /\ cmd.op = "update"
    /\ OrAbort(Exchangeable(cmd.name, Me.payload, Me.prev),
               Exchange(cmd.name, Me.payload, Me.prev, "log-exchanged"))

UpdateLogExchanged ==
    /\ pc = "log-exchanged"
    /\ WriteTxn([Me EXCEPT !.stage = "exchanged"])
    /\ Goto("log-published")
    /\ UNCHANGED <<disk, commits, nextId, local, last, ghost>>

(* reclaimExchangedUpdatePayload: the replaced tree, in staging.           *)
UpdateReclaim ==
    LET t == staging[Me.name]
    IN
    /\ pc \in {"reclaim", "finish-reclaim"} /\ Me.op = "update"
    /\ \E left \in Leftovers(t, Me.prev) :
        /\ staging' = [staging EXCEPT ![Me.name] = left]
        /\ ReclaimStep(t, left)
    /\ UNCHANGED <<config, skills, private, recovery, archive, commits, txns, nextId, ghost>>

--------------------------------------------------------------------------------
PastStaging(t) == t.stage \notin {"started", "snapshotted"}

(* rollBackUncommittedUpdate.                                              *)
UpdateUndo(i) ==
    LET t == txns[i]
    IN
    /\ Recovering("update", i)
    /\ Uncommitted(t)
    /\ Handle(i, \/ config = t.before
                 \/ PastStaging(t) /\ config = ExpectedConfig(t),
              IF PastStaging(t) THEN "undo-exchange" ELSE "undo-root")

(* restoreExchangedUpdate: the published tree tells whether the exchange   *)
(* happened; if so it is exchanged back.                                   *)
UpdateUndoExchange ==
    LET n == Me.name
        replaced == skills[n] # Me.prev
    IN
    /\ pc = "undo-exchange"
    /\ OrConflict(replaced => Exchangeable(n, Me.prev, Me.payload),
        IF replaced THEN Exchange(n, Me.prev, Me.payload, "undo-discard")
        ELSE Goto("undo-discard")
             /\ UNCHANGED <<disk, commits, txns, nextId, local, last, ghost>>)

(* discardUpdateStagingResidue first brings a reserved root to its final   *)
(* name, so that one removal settles it.                                   *)
UpdateUndoRoot ==
    LET n == Me.name
        reserved == Me.resv \in private
    IN
    /\ pc = "undo-root" /\ Me.op = "update"
    /\ OrConflict(reserved => ~Present(staging[n]),
        /\ private' = private \ {Me.resv}
        /\ staging' = IF reserved THEN [staging EXCEPT ![n] = Me.resv] ELSE staging
        /\ Goto("undo-discard")
        /\ UNCHANGED <<config, skills, recovery, archive, commits, txns, nextId,
                       local, last, ghost>>)

(* The manifest the removal is checked against: what is declared and there *)
(* counts as the transaction's.                                            *)
Discardable(t, r) ==
    LET owned == IF Present(r.resv) THEN r.resv ELSE r.payload
    IN
    \/ ~Present(owned) \/ ~Present(t)
    \/ r.declared = NONE /\ Removable(t, owned)
    \/ r.declared # NONE /\ Settles(t, r.declared) /\ t.id = owned.id

UpdateUndoDiscard ==
    LET t == staging[Me.name]
        owned == Present(Me.resv) \/ Present(Me.payload)
    IN
    /\ pc = "undo-discard"
    /\ OrConflict(Discardable(t, Me),
        \E left \in IF owned THEN Leftovers(t, t) ELSE {t} :
            /\ staging' = [staging EXCEPT ![Me.name] = left]
            /\ Goto(IF left \in {NoTree, t} THEN "undo-config" ELSE "undo-discard")
            /\ UNCHANGED <<config, skills, private, recovery, archive, commits, txns,
                           nextId, local, last, ghost>>)

(* finishCommittedUpdate.                                                  *)
UpdateFinish(i) ==
    LET t == txns[i]
    IN
    /\ Recovering("update", i)
    /\ ~Uncommitted(t)
    /\ Handle(i, /\ IsOperationCommit(t, HEAD)
                 /\ config = ExpectedConfig(t)
                 /\ skills[t.name] = t.payload,
              "finish-clear")

UpdateStep ==
    \/ UpdatePreflight \/ UpdateMutate \/ UpdateLogSnapshot \/ UpdateLogCopied
    \/ UpdateValidateStaged \/ UpdatePublish \/ UpdateLogExchanged \/ UpdateReclaim
    \/ \E i \in DOMAIN txns : UpdateUndo(i) \/ UpdateFinish(i)
    \/ UpdateUndoExchange \/ UpdateUndoRoot \/ UpdateUndoDiscard
================================================================================
