------------------------------ MODULE RestoreHard ------------------------------
(***************************************************************************)
(* `fu restore --hard` among the other write commands (engine/restore.go). *)
(* It takes fu.lock twice: Reconcile recovers what is pending and returns; *)
(* the second time the lock is taken, perhaps after waiting for a process  *)
(* that dies holding it, the tracked paths are reset to HEAD.              *)
(***************************************************************************)
EXTENDS FuTransactions

VARIABLE between   \* a `restore --hard` has done its first half

Between(b) == between' = b

HardInit == Init /\ between = FALSE

(* Reconcile with nothing left pending.                                    *)
FirstHalf ==
    /\ pc = "idle" /\ Pending = {} /\ ~between
    /\ Between(TRUE)
    /\ UNCHANGED vars

(* ResetWorktreeToHead: a directory that is there keeps its identity, what *)
(* HEAD does not have is left alone.                                       *)
Missing == {n \in Names : HeadSnap.tree[n] # NONE /\ ~Present(skills[n])}

SecondHalf ==
    /\ pc = "idle" /\ between
    /\ Between(FALSE)
    /\ config' = HeadSnap.cfg
    /\ nextId' = nextId + Cardinality(Missing) /\ nextId' <= MaxId + 1
    /\ \E made \in [Missing -> nextId .. nextId' - 1] :
        /\ \A m, n \in Missing : made[m] = made[n] => m = n
        /\ skills' = [n \in Names |->
              IF HeadSnap.tree[n] = NONE THEN skills[n]
              ELSE [id |-> IF n \in Missing THEN made[n] ELSE skills[n].id, c |-> HeadSnap.tree[n]]]
    /\ UNCHANGED <<staging, private, recovery, archive, commits, txns, pc, local, last, ghost>>

HardNext == (Next /\ UNCHANGED between) \/ FirstHalf \/ SecondHalf

HardSpec == HardInit /\ [][HardNext]_<<vars, between>>
================================================================================
