-------------------------------- MODULE TxnLife --------------------------------
(***************************************************************************)
(* What the recovery journal promises its users (internal/engine/txn.go,   *)
(* txn_prune.go): a transaction is unused, then open with a history that   *)
(* only ever grows at its end, then closed with that history frozen, then  *)
(* forgotten.  It never moves backwards, and nothing here says how the     *)
(* journal is laid out in files.                                           *)
(***************************************************************************)
EXTENDS Sequences

CONSTANTS
    Txns,     \* transaction ids (op plus random hexadecimal id)
    Stages    \* what one revision of a transaction says

VARIABLES
    phase,    \* phase[t]: "none", "open", "closed" or "forgotten"
    history   \* history[t]: the stages durably recorded, oldest first

lifeVars == <<phase, history>>

LifeInit ==
    /\ phase = [t \in Txns |-> "none"]
    /\ history = [t \in Txns |-> <<>>]

(* The first revision opens the transaction, later ones extend it.         *)
Record(t, s) ==
    /\ phase[t] \in {"none", "open"}
    /\ phase' = [phase EXCEPT ![t] = "open"]
    /\ history' = [history EXCEPT ![t] = Append(@, s)]

(* The terminal marker: an open transaction is closed as it stands.        *)
Close(t) ==
    /\ phase[t] = "open"
    /\ phase' = [phase EXCEPT ![t] = "closed"]
    /\ UNCHANGED history

(* fu gc forgets a closed transaction.                                     *)
Forget(t) ==
    /\ phase[t] = "closed"
    /\ phase' = [phase EXCEPT ![t] = "forgotten"]
    /\ history' = [history EXCEPT ![t] = <<>>]

LifeNext == \E t \in Txns : (\E s \in Stages : Record(t, s)) \/ Close(t) \/ Forget(t)

LifeSpec == LifeInit /\ [][LifeNext]_lifeVars
================================================================================
