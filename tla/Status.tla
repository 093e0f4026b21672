--------------------------------- MODULE Status ---------------------------------
(***************************************************************************)
(* What `fu status` says about the residue under recovery/ and staging/    *)
(* (engine/status.go).  It takes no lock and opens no payload: it compares *)
(* names, and the root identity of one of them, with what it read of the   *)
(* journal.  Its "collectable" is a promise about `fu gc`, which asks the  *)
(* same questions another way.                                             *)
(***************************************************************************)
EXTENDS FuTransactions

Completed == {i \in DOMAIN txns : txns[i].status = "done"}

(* Mutant: the skill's own name is taken for evidence of what has it.      *)
NamedLikeRoot(i) == Present(staging[txns[i].name])

(* StagingRootMatches: the root's identity, never its content.             *)
HoldsRoot(i) ==
    /\ Present(staging[txns[i].name])
    /\ staging[txns[i].name].id = txns[i].prev.id

UpdatesUnclaimed ==
    {i \in Completed :
        txns[i].op = "update" /\ Present(txns[i].prev) /\ txns[i].name \notin StagingClaims}

(* stagingBlocked: something else has the name, gc's reclaim will fail and *)
(* its family stay.                                                        *)
Blocked == {i \in UpdatesUnclaimed : ~HoldsRoot(i) /\ Present(staging[txns[i].name])}

(* The buckets of collectableRecoveryNamesFromJournal: families, payloads  *)
(* under recovery/ and trees under staging/ that it calls collectable.     *)
CollectableFamilies == Completed \ Blocked
CollectablePayloads ==
    {r \in recovery : r.at \notin PayloadClaims /\ \E i \in Completed :
        txns[i].op = "rm" /\ Present(txns[i].payload) /\ r.at = RemovedName(txns[i])}
CollectableStaging == {txns[i].name : i \in {j \in UpdatesUnclaimed : HoldsRoot(j)}}

--------------------------------------------------------------------------------
(* With no command running, gc can collect from here what status calls     *)
(* collectable, and nothing else: no count tells a user to run a command   *)
(* and see it not move, and no reclaim is one the report kept silent       *)
(* about.  A family may have to wait for another one that the name of its  *)
(* payload belongs to as well.  ENABLED asks what GcPrune's steps can do.  *)
Prunable(i) == ENABLED (GcStep /\ txns'[i].status = "pruned")
SameName(i, j) == txns[i].op = "rm" /\ txns[j].op = "rm" /\ RemovedName(txns[i]) = RemovedName(txns[j])
FamiliesAsPromised ==
    \A i \in Completed :
        /\ Prunable(i) => i \in CollectableFamilies
        /\ i \in CollectableFamilies =>
            Prunable(i) \/ \E j \in Completed : SameName(i, j) /\ Prunable(j)
PayloadsAsPromised ==
    \A r \in recovery : r \in CollectablePayloads <=> ENABLED (GcStep /\ r \notin recovery')
StagingAsPromised ==
    \A n \in Names : Present(staging[n]) =>
        (n \in CollectableStaging <=> ENABLED (GcStep /\ staging'[n] # staging[n]))
InventoryIsWhatGcDoes ==
    pc = "idle" => FamiliesAsPromised /\ PayloadsAsPromised /\ StagingAsPromised
================================================================================
