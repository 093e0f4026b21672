--------------------------------- MODULE GcPrune ---------------------------------
(***************************************************************************)
(* `fu gc`: the lease sweep of staging (engine/application.go) and the     *)
(* pruning of completed transactions (engine/txn_prune.go).  It does not   *)
(* recover what is pending; it stays clear of every name a pending record  *)
(* claims.                                                                 *)
(*                                                                         *)
(* Each of its two sessions holds fu.lock, keeps nothing in memory another *)
(* program could invalidate, and visits leases and families in an order    *)
(* given by random tokens, so a session is a run of the steps below taken  *)
(* while no other command runs; it may end or die after any of them.       *)
(***************************************************************************)
EXTENDS FuStore

(* Mutant: gc goes by its completed families alone.                        *)
NoPayloadClaims == {}

(* pendingPayloadClaims: every name a pending record could derive, whatever *)
(* its operation.                                                          *)
PayloadClaims ==
    UNION {{RemovedName(txns[i]), RollbackName(txns[i]), UncommittedName(txns[i])} : i \in Pending}

(* pendingStagingClaims: the skill's name and the private reservation.     *)
StagingClaims == {txns[i].name : i \in Pending}
ReservationClaims == {txns[i].resv : i \in Pending}

(* A private root whose holder is gone and that no record claims goes.     *)
GcReclaimLease ==
    /\ pc = "idle"
    /\ \E t \in private \ ReservationClaims : private' = private \ {t}
    /\ UNCHANGED <<config, skills, staging, recovery, archive, commits, txns, nextId, pc,
                   local, last, ghost>>

(* The .pruned record, after which nothing reads the family again.         *)
Pruned(i) == txns' = [txns EXCEPT ![i].status = "pruned"]

(* Mutant: a family is pruned though its content was not all removed.      *)
PruneRegardless(i, left) == Pruned(i)

(* What a family still owns goes before the family does: what refuses to   *)
(* be removed keeps its family, an interruption leaves both for next time. *)
ReclaimThenPrune(i, left) ==
    \/ UNCHANGED txns
    \/ ~Present(left) /\ Pruned(i)

GcPruneRemove(i) ==
    LET t == txns[i]
        p == RemovedName(t)
    IN
    /\ pc = "idle" /\ t.status = "done" /\ t.op = "rm"
    /\ IF ~Present(t.payload) \/ p \in PayloadClaims
       THEN Pruned(i) /\ UNCHANGED recovery
       ELSE \E left \in Leftovers(At(recovery, p), t.payload) :
               /\ recovery' = IF Present(left) THEN Put(Take(recovery, p), p, left)
                              ELSE Take(recovery, p)
               /\ ReclaimThenPrune(i, left)
    /\ UNCHANGED <<config, skills, staging, private, archive, commits, nextId, pc,
                   local, last, ghost>>

GcPruneUpdate(i) ==
    LET t == txns[i]
    IN
    /\ pc = "idle" /\ t.status = "done" /\ t.op = "update"
    /\ IF ~Present(t.prev) \/ t.name \in StagingClaims
       THEN Pruned(i) /\ UNCHANGED staging
       ELSE \E left \in Leftovers(staging[t.name], t.prev) :
               /\ staging' = [staging EXCEPT ![t.name] = left]
               /\ ReclaimThenPrune(i, left)
    /\ UNCHANGED <<config, skills, private, recovery, archive, commits, nextId, pc,
                   local, last, ghost>>

(* An install's family owns nothing: what it staged is archived for good.  *)
GcPruneInstall(i) ==
    /\ pc = "idle" /\ txns[i].status = "done" /\ txns[i].op = "install"
    /\ Pruned(i)
    /\ UNCHANGED <<disk, commits, nextId, pc, local, last, ghost>>

GcStep ==
    \/ GcReclaimLease
    \/ \E i \in DOMAIN txns : GcPruneRemove(i) \/ GcPruneUpdate(i) \/ GcPruneInstall(i)
================================================================================
