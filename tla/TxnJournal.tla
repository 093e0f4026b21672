------------------------------- MODULE TxnJournal -------------------------------
(***************************************************************************)
(* The recovery journal of fu at the level of its files:                   *)
(* WriteTxn, ClearTxn, PendingTxns (internal/engine/txn.go) and the        *)
(* pruning of completed families by `fu gc` (txn_prune.go).                *)
(*                                                                         *)
(* Every transaction owns a family of immutable files: numbered revisions  *)
(* txn-<op>-<id>-<seq>-<digest>.json, one terminal marker .done and, while *)
(* gc removes the family, one record .pruned.  A revision's digest covers  *)
(* its own bytes, which carry the digest of the revision before it, so a   *)
(* digest stands for the whole history up to that revision: here the       *)
(* digest IS that history, a sequence of stages, and the sequence number   *)
(* is its length.  Two revision files are the same file exactly when their *)
(* histories are equal.                                                    *)
(***************************************************************************)
EXTENDS Integers, Sequences, FiniteSets

CONSTANTS
    Txns,       \* transaction ids newTxnID may draw
    Stages,     \* what a revision can say
    MaxRev,     \* bound: revisions of one family
    MaxErrors   \* bound: writes that report an error

ASSUME BoundsAssumption == MaxRev \in Nat /\ MaxErrors \in Nat

VARIABLES
    revs,      \* revs[t]: the revision files of t, each named by its history
    done,      \* done[t]: the history the .done marker names, <<>> if absent
    pruned,    \* pruned[t]: the history the .pruned record lists, <<>> if absent
    issued,    \* the ids whose first revision ever reached the disk
    session,   \* who holds fu.lock: "free", "write" or "gc"
    handle,    \* handle[h]: the in-memory TxnRecord of h, or NoHandle
    errors     \* writes that reported an error so far

vars == <<revs, done, pruned, issued, session, handle, errors>>

(* A writing command may hold two records of one transaction at once: the  *)
(* one its Op carries, and the one RecoverPending read back from disk to   *)
(* roll the command back.  Nothing resets the first when the second has    *)
(* completed the transaction, nor when ClearTxn, which takes it by value,  *)
(* has: it stays until the command returns.                                *)
Handles == {"command", "recovery"}
NoHandle == [txn |-> "none", rev |-> <<>>]
HandleType == [txn : Txns, rev : Seq(Stages)] \cup {NoHandle}

(* The revision files of a family whose newest revision is d.              *)
Chain(d) == {SubSeq(d, 1, i) : i \in 1 .. Len(d)}

(* validateTxnChain: contiguous from 1, each linked to its predecessor.    *)
ValidChain(R) == \E d \in R : R = Chain(d)

Newest(R) == CHOOSE d \in R : \A e \in R : Len(e) <= Len(d)

(* matchCompletedTxnRevisions: sequence numbers 1..n once each, and the    *)
(* marker names number n.  The links are not looked at.                    *)
MatchesMarker(R, marker) ==
    /\ {Len(d) : d \in R} = 1 .. Cardinality(R)
    /\ marker = Newest(R)

(* validatePrunedTxn.                                                      *)
ValidPrune(t) ==
    /\ revs[t] \subseteq Chain(pruned[t])
    /\ done[t] = <<>> => revs[t] = {}
    /\ done[t] # <<>> => done[t] = pruned[t]

(* The arms of the loop in pendingTxnsFromJournal: what it must be able to *)
(* establish about a family, or it fails for the whole journal.            *)
Readable(t) ==
    IF pruned[t] # <<>> THEN ValidPrune(t)
    ELSE IF revs[t] = {} THEN done[t] = <<>>
    ELSE IF done[t] # <<>> THEN MatchesMarker(revs[t], done[t])
    ELSE ValidChain(revs[t])

Pending == {t \in Txns : pruned[t] = <<>> /\ done[t] = <<>> /\ revs[t] # {}}

PendingTxnsSucceeds == \A t \in Txns : Readable(t)

(* Mutant: a command starts without recovering first.                      *)
RecoverySkipped == PendingTxnsSucceeds

(* RecoverPending has returned without an error.                           *)
NothingPending == PendingTxnsSucceeds /\ Pending = {}

(* Mutant: the terminal marker is not looked for.                          *)
CompletionIgnored(t) == TRUE

NotCompleted(t) == done[t] = <<>>

Init ==
    /\ revs = [t \in Txns |-> {}]
    /\ done = [t \in Txns |-> <<>>]
    /\ pruned = [t \in Txns |-> <<>>]
    /\ issued = {}
    /\ session = "free"
    /\ handle = [h \in Handles |-> NoHandle]
    /\ errors = 0

(* withLock: a write command, or gc, gets fu.lock.                         *)
Lock(who) ==
    /\ session = "free"
    /\ session' = who
    /\ UNCHANGED <<revs, done, pruned, issued, handle, errors>>

(* The command or gc returns, with or without an error, or its process     *)
(* dies: the kernel drops the lock and every in-memory record is gone.     *)
Unlock ==
    /\ session # "free"
    /\ session' = "free"
    /\ handle' = [h \in Handles |-> NoHandle]
    /\ UNCHANGED <<revs, done, pruned, issued, errors>>

(* writeTxnFileNoReplace, seen by its caller.  It can succeed, fail before *)
(* the file is published, or report an error after it was (closing or      *)
(* syncing the directory failed): only the error bit tells the caller.     *)
WriteResult(ok, written) ==
    /\ ok => written
    /\ ~ok => errors < MaxErrors
    /\ errors' = IF ok THEN errors ELSE errors + 1

(* RecoverPending hands a pending record to its handler; the record of an  *)
(* earlier call is gone.                                                   *)
ReadPending(t) ==
    /\ session = "write"
    /\ PendingTxnsSucceeds
    /\ t \in Pending
    /\ handle' = [handle EXCEPT !["recovery"] = [txn |-> t, rev |-> Newest(revs[t])]]
    /\ UNCHANGED <<revs, done, pruned, issued, session, errors>>

(* WriteTxn with Sequence 0: a fresh id and no look at the journal.  Every *)
(* caller reaches it after RecoverPending left nothing pending, and gives  *)
(* up on the record when the write reports an error.                       *)
FirstWrite(t, s, ok, written) ==
    /\ session = "write"
    /\ NothingPending
    /\ t \notin issued
    /\ WriteResult(ok, written)
    /\ issued' = IF written THEN issued \cup {t} ELSE issued
    /\ revs' = [revs EXCEPT ![t] = IF written THEN @ \cup {<<s>>} ELSE @]
    /\ handle' = [handle EXCEPT
                    !["command"] = IF ok THEN [txn |-> t, rev |-> <<s>>] ELSE NoHandle,
                    !["recovery"] = NoHandle]
    /\ UNCHANGED <<done, pruned, session>>

(* What WriteTxn and ClearTxn establish about the record they are given    *)
(* before they write: the whole journal scans, the family is a valid       *)
(* chain, and its newest revision is the one in memory.                    *)
Current(r) ==
    /\ r # NoHandle
    /\ ValidChain(revs[r.txn])
    /\ Newest(revs[r.txn]) = r.rev

(* Mutant: the record is updated before the outcome of the write is known. *)
AppendAhead(h, s, ok, written) ==
    LET r == handle[h]
        next == Append(r.rev, s)
    IN
    /\ session = "write"
    /\ Current(r)
    /\ NotCompleted(r.txn)
    /\ Len(r.rev) < MaxRev
    /\ WriteResult(ok, written)
    /\ revs' = [revs EXCEPT ![r.txn] = IF written THEN @ \cup {next} ELSE @]
    /\ handle' = [handle EXCEPT ![h].rev = next]
    /\ UNCHANGED <<done, pruned, issued, session>>

(* WriteTxn with Sequence > 0.                                             *)
AppendRevision(h, s, ok, written) ==
    LET r == handle[h]
        next == Append(r.rev, s)
    IN
    /\ session = "write"
    /\ Current(r)
    /\ NotCompleted(r.txn)
    /\ Len(r.rev) < MaxRev
    /\ WriteResult(ok, written)
    /\ revs' = [revs EXCEPT ![r.txn] = IF written THEN @ \cup {next} ELSE @]
    /\ handle' = IF ok THEN [handle EXCEPT ![h].rev = next] ELSE handle
    /\ UNCHANGED <<done, pruned, issued, session>>

(* ClearTxn.  A marker already there is accepted when it says the same.    *)
ClearTxn(h, ok, written) ==
    LET r == handle[h]
    IN
    /\ session = "write"
    /\ Current(r)
    /\ done[r.txn] \in {<<>>, r.rev}
    /\ WriteResult(ok, written)
    /\ done' = [done EXCEPT ![r.txn] = IF written THEN r.rev ELSE @]
    /\ UNCHANGED <<revs, pruned, issued, session, handle>>

(* pruneCompletedTransactionsLocked, a completed family: the whole chain   *)
(* is validated again, then the .pruned record is written.                 *)
RecordPrune(t) ==
    /\ session = "gc"
    /\ done[t] # <<>> /\ pruned[t] = <<>>
    /\ ValidChain(revs[t]) /\ Newest(revs[t]) = done[t]
    /\ pruned' = [pruned EXCEPT ![t] = done[t]]
    /\ UNCHANGED <<revs, done, issued, session, handle, errors>>

(* Its removal loop, one file at a time: revisions in ascending order,     *)
(* then the marker, then the .pruned record.                               *)
RemoveRevision(t) ==
    /\ session = "gc"
    /\ pruned[t] # <<>> /\ ValidPrune(t)
    /\ \E d \in revs[t] :
        /\ \A e \in revs[t] : Len(d) <= Len(e)
        /\ revs' = [revs EXCEPT ![t] = @ \ {d}]
    /\ UNCHANGED <<done, pruned, issued, session, handle, errors>>

(* Mutant: the marker goes before the revisions.                           *)
RemoveMarkerEarly(t) ==
    /\ session = "gc"
    /\ pruned[t] # <<>> /\ ValidPrune(t)
    /\ done[t] # <<>>
    /\ done' = [done EXCEPT ![t] = <<>>]
    /\ UNCHANGED <<revs, pruned, issued, session, handle, errors>>

RemoveMarker(t) ==
    /\ session = "gc"
    /\ pruned[t] # <<>> /\ ValidPrune(t)
    /\ revs[t] = {} /\ done[t] # <<>>
    /\ done' = [done EXCEPT ![t] = <<>>]
    /\ UNCHANGED <<revs, pruned, issued, session, handle, errors>>

RemovePruneRecord(t) ==
    /\ session = "gc"
    /\ pruned[t] # <<>> /\ ValidPrune(t)
    /\ revs[t] = {} /\ done[t] = <<>>
    /\ pruned' = [pruned EXCEPT ![t] = <<>>]
    /\ UNCHANGED <<revs, done, issued, session, handle, errors>>

Write ==
    \E ok, written \in BOOLEAN :
        \/ \E t \in Txns, s \in Stages : FirstWrite(t, s, ok, written)
        \/ \E h \in Handles, s \in Stages : AppendRevision(h, s, ok, written)
        \/ \E h \in Handles : ClearTxn(h, ok, written)

Prune ==
    \E t \in Txns :
        \/ RecordPrune(t)
        \/ RemoveRevision(t)
        \/ RemoveMarker(t)
        \/ RemovePruneRecord(t)

Next ==
    \/ \E who \in {"write", "gc"} : Lock(who)
    \/ Unlock
    \/ \E t \in Txns : ReadPending(t)
    \/ Write
    \/ Prune

Spec == Init /\ [][Next]_vars

--------------------------------------------------------------------------------
(* Every variable has its type.  txn.go: TxnRecord, txnCompletion,         *)
(* txnPrune are the three kinds of file.                                   *)
TypeOK ==
    /\ revs \in [Txns -> SUBSET Seq(Stages)]
    /\ done \in [Txns -> Seq(Stages)]
    /\ pruned \in [Txns -> Seq(Stages)]
    /\ issued \subseteq Txns
    /\ session \in {"free", "write", "gc"}
    /\ handle \in [Handles -> HandleType]
    /\ errors \in 0 .. MaxErrors

(* Whatever was interrupted, and whichever write reported an error it did  *)
(* or did not deserve, the next command's PendingTxns (txn.go:650) can     *)
(* read the journal: one bad family would refuse every later write.        *)
JournalReadable == PendingTxnsSucceeds

(* RecoverPending (txn.go:904) runs before any new transaction starts, so  *)
(* two transactions are never open together: rm.go's payload names and     *)
(* txn_prune.go:463-476 both rest on it.                                   *)
AtMostOneOpen == \A t, u \in Pending : t = u

(* A family seen as the life of a transaction: a .pruned record already    *)
(* forgets it, whatever files remain.                                      *)
phaseOf == [t \in Txns |->
    IF pruned[t] # <<>> THEN "forgotten"
    ELSE IF done[t] # <<>> THEN "closed"
    ELSE IF revs[t] # {} THEN "open"
    ELSE IF t \in issued THEN "forgotten" ELSE "none"]

historyOf == [t \in Txns |->
    IF pruned[t] = <<>> /\ revs[t] # {} THEN Newest(revs[t]) ELSE <<>>]

(* Whatever a write reported, and whoever else wrote to the family or      *)
(* completed it, a record in memory says no more than the journal: it is   *)
(* the recorded history or an earlier part of it, never another branch.    *)
(* WriteTxn brings it up to date last (txn.go:311-313): adopt writes again *)
(* after a write that failed (adopt_switch.go:88-89), and would be refused *)
(* for good with a record ahead of the journal.                            *)
NeverAhead ==
    \A h \in Handles : handle[h] # NoHandle =>
        handle[h].rev \in Chain(historyOf[handle[h].txn])

Life == INSTANCE TxnLife WITH phase <- phaseOf, history <- historyOf

(* The files implement the life of a transaction: the recorded stages only *)
(* grow at their end, a closed transaction is never reopened nor altered,  *)
(* gc forgets only closed ones (txn.go:256-386, txn_prune.go:225-664).     *)
LifeSpec == Life!LifeSpec
================================================================================
