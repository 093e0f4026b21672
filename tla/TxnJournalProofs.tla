----------------------------- MODULE TxnJournalProofs -----------------------------
(***************************************************************************)
(* Proofs about TxnJournal for every set of transactions and stages and    *)
(* every bound: the variables keep their types, the journal can always be  *)
(* read, at most one transaction is open, no record in memory is ahead of  *)
(* the journal, and the files implement the life of a transaction          *)
(* (TxnLife).                                                              *)
(***************************************************************************)
EXTENDS TxnJournal, SequenceTheorems, FiniteSetTheorems, FunctionTheorems, TLAPS

History == Seq(Stages) \ {<<>>}

(* What the chain of a history holds, and that its newest file gives the   *)
(* history back (txn.go: validateTxnChain).                                *)
LEMMA ChainMembers ==
    ASSUME NEW d \in History
    PROVE  /\ Len(d) \in Nat \ {0}
           /\ d \in Chain(d)
           /\ Chain(d) \subseteq History
           /\ \A e \in Chain(d) : Len(e) \in 1 .. Len(d) /\ e = SubSeq(d, 1, Len(e))
           /\ \A i \in 1 .. Len(d) : Len(SubSeq(d, 1, i)) = i
<1>1. d \in Seq(Stages) /\ d # <<>> /\ Len(d) \in Nat /\ Len(d) # 0
  BY EmptySeq DEF History
<1>2. \A i \in 1 .. Len(d) : SubSeq(d, 1, i) \in Seq(Stages) /\ Len(SubSeq(d, 1, i)) = i
  <2>1. TAKE i \in 1 .. Len(d)
  <2>2. \A j \in 1 .. i : d[j] \in Stages
    BY <1>1, ElementOfSeq
  <2>3. QED
    BY <2>2, SubSeqProperties, <1>1
<1>3. SubSeq(d, 1, Len(d)) = d
  BY <1>1, SubSeqFull
<1>4. \A i \in 1 .. Len(d) : SubSeq(d, 1, i) # <<>>
  BY <1>1, <1>2, EmptySeq
<1>5. d \in Chain(d)
  <2>1. Len(d) \in 1 .. Len(d)
    BY <1>1
  <2>2. SubSeq(d, 1, Len(d)) \in Chain(d)
    BY <2>1 DEF Chain
  <2>3. QED
    BY <1>3, <2>2
<1>6. Chain(d) \subseteq History
  BY <1>2, <1>4 DEF Chain, History
<1>7. \A e \in Chain(d) : Len(e) \in 1 .. Len(d) /\ e = SubSeq(d, 1, Len(e))
  BY <1>2 DEF Chain
<1>8. QED
  BY <1>1, <1>2, <1>5, <1>6, <1>7

LEMMA ChainNewest ==
    ASSUME NEW d \in History
    PROVE  Newest(Chain(d)) = d /\ ValidChain(Chain(d))
<1>1. \A e \in Chain(d) : (\A f \in Chain(d) : Len(f) <= Len(e)) => e = d
  <2>1. TAKE e \in Chain(d)
  <2>2. HAVE \A f \in Chain(d) : Len(f) <= Len(e)
  <2>3. Len(e) = Len(d)
    BY <2>2, ChainMembers
  <2>4. QED
    BY <2>3, ChainMembers, SubSeqFull DEF History
<1>2. \A e \in Chain(d) : Len(e) <= Len(d)
  BY ChainMembers
<1>3. QED
  BY <1>1, <1>2, ChainMembers DEF Newest, ValidChain

(* A family that passes validateTxnChain is the chain of its newest file.  *)
LEMMA ValidChainIsChain ==
    ASSUME NEW R \in SUBSET Seq(Stages), ValidChain(R)
    PROVE  Newest(R) \in History /\ R = Chain(Newest(R))
<1>1. PICK d \in R : R = Chain(d)
  BY DEF ValidChain
<1>2. d # <<>>
  <2>1. SUFFICES ASSUME d = <<>> PROVE FALSE
    OBVIOUS
  <2>2. Chain(<<>>) = {}
    BY EmptySeq DEF Chain
  <2>3. QED
    BY <1>1, <2>1, <2>2
<1>3. QED
  BY <1>1, <1>2, ChainNewest DEF History

(* Publishing the next revision extends the chain by one file.             *)
LEMMA ChainAppend ==
    ASSUME NEW d \in History, NEW s \in Stages
    PROVE  /\ Append(d, s) \in History
           /\ Chain(Append(d, s)) = Chain(d) \cup {Append(d, s)}
<1> DEFINE e == Append(d, s)
<1>1. d \in Seq(Stages) /\ e \in Seq(Stages) /\ e # <<>> /\ Len(e) = Len(d) + 1 /\ Len(d) \in Nat
  BY AppendProperties DEF History
<1>2. \A i \in 1 .. Len(d) : SubSeq(e, 1, i) = SubSeq(d, 1, i)
  <2>1. <<s>> \in Seq(Stages) /\ e = d \o <<s>>
    BY <1>1, AppendIsConcat
  <2>2. QED
    BY <1>1, <2>1, SubSeqOfConcat1
<1>3. SubSeq(e, 1, Len(d) + 1) = e
  BY <1>1, SubSeqFull
<1>4. 1 .. Len(d) + 1 = (1 .. Len(d)) \cup {Len(d) + 1}
  BY <1>1
<1>5. QED
  BY <1>1, <1>2, <1>3, <1>4 DEF Chain, History

LEMMA ChainFirst ==
    ASSUME NEW s \in Stages
    PROVE  <<s>> \in History /\ Chain(<<s>>) = {<<s>>}
<1>1. <<s>> \in Seq(Stages) /\ <<s>> # <<>> /\ Len(<<s>>) = 1
  OBVIOUS
<1>2. SubSeq(<<s>>, 1, 1) = <<s>>
  BY <1>1, SubSeqFull
<1>3. QED
  BY <1>1, <1>2 DEF Chain, History

(* A whole chain has exactly the sequence numbers a marker is matched      *)
(* against (txn.go: matchCompletedTxnRevisions).                           *)
LEMMA ChainNumbers ==
    ASSUME NEW d \in History
    PROVE  MatchesMarker(Chain(d), d)
<1> DEFINE n == Len(d)
           f == [i \in 1 .. n |-> SubSeq(d, 1, i)]
<1>1. n \in Nat /\ \A i \in 1 .. n : Len(SubSeq(d, 1, i)) = i
  BY ChainMembers
<1>2. f \in Bijection(1 .. n, Chain(d))
  <2>1. f \in [1 .. n -> Chain(d)]
    BY DEF Chain
  <2>2. \A i, j \in 1 .. n : f[i] = f[j] => i = j
    BY <1>1
  <2>3. \A e \in Chain(d) : \E i \in 1 .. n : f[i] = e
    BY DEF Chain
  <2>4. QED
    BY <2>1, <2>2, <2>3, Fun_IsBij
<1>3. Cardinality(Chain(d)) = n
  BY <1>1, <1>2, FS_CountingElements DEF ExistsBijection
<1>4. {Len(e) : e \in Chain(d)} = 1 .. n
  BY <1>1 DEF Chain
<1>5. QED
  BY <1>3, <1>4, ChainNewest DEF MatchesMarker

--------------------------------------------------------------------------------
(***************************************************************************)
(* The inductive invariant.  JournalReadable alone is not inductive: it    *)
(* does not say that a completed family is a chain link by link (a marker  *)
(* is matched on numbers only), nor that gc removes files in an order that *)
(* leaves a readable rest, nor that an id never drawn has no files.        *)
(***************************************************************************)
Fresh(t) == revs[t] = {} /\ done[t] = <<>> /\ pruned[t] = <<>>

Whole(t) ==
    /\ pruned[t] = <<>>
    /\ ValidChain(revs[t])
    /\ done[t] \in {<<>>, Newest(revs[t])}

Going(t) ==
    /\ pruned[t] # <<>>
    /\ ValidPrune(t)

Family(t) ==
    \/ Fresh(t)
    \/ /\ t \in issued
       /\ Whole(t) \/ Going(t)

(* A record in memory is that of a revision on disk, in a family gc has    *)
(* not begun to remove: gc needs the lock its holder has.                  *)
RecordsInv ==
    \A h \in Handles : handle[h] # NoHandle =>
        /\ session = "write"
        /\ pruned[handle[h].txn] = <<>>
        /\ handle[h].rev \in revs[handle[h].txn]

IInv ==
    /\ TypeOK
    /\ \A t \in Txns : Family(t)
    /\ AtMostOneOpen
    /\ RecordsInv

LEMMA FamilyFrame ==
    ASSUME NEW t \in Txns, Family(t), issued \subseteq issued',
           revs'[t] = revs[t], done'[t] = done[t], pruned'[t] = pruned[t]
    PROVE  Family(t)'
BY DEF Family, Fresh, Whole, Going, ValidPrune

(* A record WriteTxn and ClearTxn accept is the newest file of a family    *)
(* that is a whole chain.                                                  *)
LEMMA CurrentRecord ==
    ASSUME TypeOK, NEW h \in Handles, Current(handle[h])
    PROVE  /\ handle[h].txn \in Txns
           /\ handle[h].rev \in History
           /\ revs[handle[h].txn] = Chain(handle[h].rev)
<1>1. handle[h] \in [txn : Txns, rev : Seq(Stages)]
  BY DEF TypeOK, HandleType, Current
<1>2. revs[handle[h].txn] \in SUBSET Seq(Stages)
  BY <1>1 DEF TypeOK
<1>3. QED
  BY <1>1, <1>2, ValidChainIsChain DEF Current

(* Type correctness: every write, error, crash and gc step leaves records  *)
(* and files of the shapes txn.go and txn_prune.go decode.                 *)
LEMMA TypingStep == IInv /\ [Next]_vars => TypeOK'
<1> SUFFICES ASSUME IInv, [Next]_vars PROVE TypeOK'
  OBVIOUS
<1>0. TypeOK /\ MaxErrors \in Nat
  BY BoundsAssumption DEF IInv
<1>1. ASSUME NEW who \in {"write", "gc"}, Lock(who) PROVE TypeOK'
  BY <1>0, <1>1 DEF TypeOK, Lock
<1>2. ASSUME Unlock PROVE TypeOK'
  BY <1>0, <1>2 DEF TypeOK, Unlock, HandleType, NoHandle, Handles
<1>3. ASSUME NEW t \in Txns, ReadPending(t) PROVE TypeOK'
  <2>1. Newest(revs[t]) \in Seq(Stages)
    <3>1. ValidChain(revs[t])
      BY <1>3 DEF ReadPending, PendingTxnsSucceeds, Readable, Pending
    <3>2. revs[t] \in SUBSET Seq(Stages)
      BY <1>0 DEF TypeOK
    <3>3. QED
      BY <3>1, <3>2, ValidChainIsChain DEF History
  <2>2. handle' \in [Handles -> HandleType]
    BY <1>0, <1>3, <2>1 DEF TypeOK, ReadPending, HandleType
  <2>3. QED
    BY <1>0, <1>3, <2>2 DEF TypeOK, ReadPending
<1>4. ASSUME NEW t \in Txns, NEW s \in Stages, NEW ok \in BOOLEAN, NEW written \in BOOLEAN,
             FirstWrite(t, s, ok, written)
      PROVE  TypeOK'
  <2>1. <<s>> \in Seq(Stages)
    OBVIOUS
  <2>2. revs' \in [Txns -> SUBSET Seq(Stages)]
    BY <1>0, <1>4, <2>1 DEF TypeOK, FirstWrite
  <2>3. handle' \in [Handles -> HandleType]
    BY <1>0, <1>4, <2>1 DEF TypeOK, FirstWrite, HandleType, NoHandle
  <2>4. errors' \in 0 .. MaxErrors
    BY <1>0, <1>4 DEF TypeOK, FirstWrite, WriteResult
  <2>5. QED
    BY <1>0, <1>4, <2>2, <2>3, <2>4 DEF TypeOK, FirstWrite
<1>5. ASSUME NEW h \in Handles, NEW s \in Stages, NEW ok \in BOOLEAN, NEW written \in BOOLEAN,
             AppendRevision(h, s, ok, written)
      PROVE  TypeOK'
  <2> DEFINE r == handle[h]
  <2>1. r.txn \in Txns /\ r.rev \in Seq(Stages) /\ Append(r.rev, s) \in Seq(Stages)
    BY <1>0, <1>5, CurrentRecord, ChainAppend DEF AppendRevision, History
  <2>2. revs' \in [Txns -> SUBSET Seq(Stages)]
    BY <1>0, <1>5, <2>1 DEF TypeOK, AppendRevision
  <2>3. r \in [txn : Txns, rev : Seq(Stages)]
    BY <1>0, <1>5 DEF TypeOK, AppendRevision, Current, HandleType
  <2>4. [r EXCEPT !.rev = Append(r.rev, s)] \in [txn : Txns, rev : Seq(Stages)]
    BY <2>1, <2>3
  <2>5. handle' \in [Handles -> HandleType]
    BY <1>0, <1>5, <2>4 DEF TypeOK, AppendRevision, HandleType
  <2>6. errors' \in 0 .. MaxErrors
    BY <1>0, <1>5 DEF TypeOK, AppendRevision, WriteResult
  <2>7. QED
    BY <1>0, <1>5, <2>2, <2>5, <2>6 DEF TypeOK, AppendRevision
<1>6. ASSUME NEW h \in Handles, NEW ok \in BOOLEAN, NEW written \in BOOLEAN,
             ClearTxn(h, ok, written)
      PROVE  TypeOK'
  <2>1. handle[h].rev \in Seq(Stages)
    BY <1>0, <1>6, CurrentRecord DEF ClearTxn, History
  <2>2. done' \in [Txns -> Seq(Stages)]
    BY <1>0, <1>6, <2>1 DEF TypeOK, ClearTxn
  <2>3. handle' \in [Handles -> HandleType]
    BY <1>0, <1>6 DEF TypeOK, ClearTxn, HandleType
  <2>4. errors' \in 0 .. MaxErrors
    BY <1>0, <1>6 DEF TypeOK, ClearTxn, WriteResult
  <2>5. QED
    BY <1>0, <1>6, <2>2, <2>3, <2>4 DEF TypeOK, ClearTxn
<1>7. ASSUME NEW t \in Txns, RecordPrune(t) PROVE TypeOK'
  BY <1>0, <1>7 DEF TypeOK, RecordPrune
<1>8. ASSUME NEW t \in Txns, RemoveRevision(t) PROVE TypeOK'
  BY <1>0, <1>8 DEF TypeOK, RemoveRevision
<1>9. ASSUME NEW t \in Txns, RemoveMarker(t) PROVE TypeOK'
  BY <1>0, <1>9, EmptySeq DEF TypeOK, RemoveMarker
<1>10. ASSUME NEW t \in Txns, RemovePruneRecord(t) PROVE TypeOK'
  BY <1>0, <1>10, EmptySeq DEF TypeOK, RemovePruneRecord
<1>11. CASE UNCHANGED vars
  BY <1>0, <1>11 DEF TypeOK, vars
<1>12. QED
  BY <1>1, <1>2, <1>3, <1>4, <1>5, <1>6, <1>7, <1>8, <1>9, <1>10, <1>11 DEF Next, Write, Prune

(* Every step leaves each family fresh, a whole chain that its marker (if  *)
(* any) names, or a rest of one that gc can go on removing.                *)
LEMMA FamilyStep == IInv /\ [Next]_vars => \A t \in Txns : Family(t)'
<1> SUFFICES ASSUME IInv, [Next]_vars, NEW u \in Txns PROVE Family(u)'
  OBVIOUS
<1>0. TypeOK /\ Family(u)
  BY DEF IInv
<1>1. ASSUME NEW who \in {"write", "gc"}, Lock(who) PROVE Family(u)'
  BY <1>0, <1>1, FamilyFrame DEF Lock
<1>2. ASSUME Unlock PROVE Family(u)'
  BY <1>0, <1>2, FamilyFrame DEF Unlock
<1>3. ASSUME NEW t \in Txns, ReadPending(t) PROVE Family(u)'
  BY <1>0, <1>3, FamilyFrame DEF ReadPending
<1>4. ASSUME NEW t \in Txns, NEW s \in Stages, NEW ok \in BOOLEAN, NEW written \in BOOLEAN,
             FirstWrite(t, s, ok, written)
      PROVE  Family(u)'
  <2>1. CASE u = t /\ written
    <3>1. Fresh(t)
      BY <1>4 DEF FirstWrite, IInv, Family
    <3>2. revs'[t] = {<<s>>} /\ done'[t] = <<>> /\ pruned'[t] = <<>> /\ t \in issued'
      BY <1>0, <1>4, <2>1, <3>1 DEF TypeOK, FirstWrite, Fresh
    <3>3. ValidChain({<<s>>})
      BY ChainFirst, ChainNewest
    <3>4. QED
      BY <2>1, <3>2, <3>3 DEF Family, Whole
  <2>2. CASE ~(u = t /\ written)
    <3>1. revs'[u] = revs[u] /\ issued \subseteq issued'
      BY <1>0, <1>4, <2>2 DEF TypeOK, FirstWrite
    <3>2. QED
      BY <1>0, <1>4, <3>1, FamilyFrame DEF FirstWrite
  <2>3. QED
    BY <2>1, <2>2
<1>5. ASSUME NEW h \in Handles, NEW s \in Stages, NEW ok \in BOOLEAN, NEW written \in BOOLEAN,
             AppendRevision(h, s, ok, written)
      PROVE  Family(u)'
  <2> DEFINE r == handle[h]
             next == Append(r.rev, s)
  <2>1. r.txn \in Txns /\ r.rev \in History /\ revs[r.txn] = Chain(r.rev)
    BY <1>0, <1>5, CurrentRecord DEF AppendRevision
  <2>2. CASE u = r.txn /\ written
    <3>1. r.rev \in revs[u]
      BY <2>1, <2>2, ChainMembers
    <3>2. Whole(u) /\ u \in issued
      BY <1>0, <1>5, <2>2, <3>1 DEF AppendRevision, NotCompleted, Family, Fresh, Going, ValidPrune
    <3>3. revs'[u] = Chain(next) /\ done'[u] = <<>> /\ pruned'[u] = <<>> /\ u \in issued'
      BY <1>0, <1>5, <2>1, <2>2, <3>2, ChainAppend
         DEF TypeOK, AppendRevision, NotCompleted, Whole
    <3>4. ValidChain(Chain(next))
      BY <2>1, ChainAppend, ChainNewest
    <3>5. QED
      BY <3>3, <3>4 DEF Family, Whole
  <2>3. CASE ~(u = r.txn /\ written)
    <3>1. revs'[u] = revs[u]
      BY <1>0, <1>5, <2>3 DEF TypeOK, AppendRevision
    <3>2. QED
      BY <1>0, <1>5, <3>1, FamilyFrame DEF AppendRevision
  <2>4. QED
    BY <2>2, <2>3
<1>6. ASSUME NEW h \in Handles, NEW ok \in BOOLEAN, NEW written \in BOOLEAN,
             ClearTxn(h, ok, written)
      PROVE  Family(u)'
  <2> DEFINE r == handle[h]
  <2>1. r.txn \in Txns /\ r.rev \in History /\ revs[r.txn] = Chain(r.rev)
        /\ Newest(revs[r.txn]) = r.rev
    BY <1>0, <1>6, CurrentRecord DEF ClearTxn, Current
  <2>2. CASE u = r.txn /\ written
    <3>1. r.rev \in revs[u]
      BY <2>1, <2>2, ChainMembers
    <3>2. done'[u] = r.rev /\ revs'[u] = revs[u] /\ pruned'[u] = pruned[u] /\ issued' = issued
      BY <1>0, <1>6, <2>2 DEF TypeOK, ClearTxn
    <3>3. CASE Whole(u)
      BY <1>0, <2>1, <2>2, <3>1, <3>2, <3>3 DEF Family, Fresh, Whole
    <3>4. CASE Going(u)
      BY <1>0, <1>6, <2>1, <2>2, <3>1, <3>2, <3>4 DEF ClearTxn, Family, Fresh, Going, ValidPrune, History
    <3>5. QED
      BY <1>0, <3>1, <3>3, <3>4 DEF Family, Fresh
  <2>3. CASE ~(u = r.txn /\ written)
    <3>1. done'[u] = done[u]
      BY <1>0, <1>6, <2>3 DEF TypeOK, ClearTxn
    <3>2. QED
      BY <1>0, <1>6, <3>1, FamilyFrame DEF ClearTxn
  <2>4. QED
    BY <2>2, <2>3
<1>7. ASSUME NEW t \in Txns, RecordPrune(t) PROVE Family(u)'
  <2>1. CASE u = t
    <3>1. pruned'[u] = done[u] /\ done[u] # <<>> /\ Newest(revs[u]) = done[u] /\ ValidChain(revs[u])
      BY <1>0, <1>7, <2>1 DEF TypeOK, RecordPrune
    <3>2. revs[u] = Chain(done[u])
      BY <1>0, <3>1, ValidChainIsChain DEF TypeOK
    <3>3. u \in issued
      BY <1>0, <3>1 DEF Family, Fresh
    <3>4. QED
      BY <1>7, <3>1, <3>2, <3>3 DEF RecordPrune, Family, Going, ValidPrune
  <2>2. CASE u # t
    BY <1>0, <1>7, <2>2, FamilyFrame DEF TypeOK, RecordPrune
  <2>3. QED
    BY <2>1, <2>2
<1>8. ASSUME NEW t \in Txns, RemoveRevision(t) PROVE Family(u)'
  <2>1. CASE u = t
    <3>1. revs'[u] \subseteq revs[u] /\ revs[u] # {}
      BY <1>0, <1>8, <2>1 DEF TypeOK, RemoveRevision
    <3>2. Going(u) /\ u \in issued
      BY <1>0, <1>8, <2>1, <3>1 DEF RemoveRevision, Family, Fresh, Going
    <3>3. QED
      BY <1>8, <3>1, <3>2 DEF RemoveRevision, Family, Going, ValidPrune
  <2>2. CASE u # t
    BY <1>0, <1>8, <2>2, FamilyFrame DEF TypeOK, RemoveRevision
  <2>3. QED
    BY <2>1, <2>2
<1>9. ASSUME NEW t \in Txns, RemoveMarker(t) PROVE Family(u)'
  <2>1. CASE u = t
    BY <1>0, <1>9, <2>1 DEF TypeOK, RemoveMarker, Family, Fresh, Going, ValidPrune
  <2>2. CASE u # t
    BY <1>0, <1>9, <2>2, FamilyFrame DEF TypeOK, RemoveMarker
  <2>3. QED
    BY <2>1, <2>2
<1>10. ASSUME NEW t \in Txns, RemovePruneRecord(t) PROVE Family(u)'
  <2>1. CASE u = t
    BY <1>0, <1>10, <2>1 DEF TypeOK, RemovePruneRecord, Family, Fresh
  <2>2. CASE u # t
    BY <1>0, <1>10, <2>2, FamilyFrame DEF TypeOK, RemovePruneRecord
  <2>3. QED
    BY <2>1, <2>2
<1>11. CASE UNCHANGED vars
  BY <1>0, <1>11, FamilyFrame DEF vars
<1>12. QED
  BY <1>1, <1>2, <1>3, <1>4, <1>5, <1>6, <1>7, <1>8, <1>9, <1>10, <1>11 DEF Next, Write, Prune

(* Only the first revision of a transaction makes a family pending, and it *)
(* is written when nothing else is.                                        *)
LEMMA OneOpenStep == IInv /\ [Next]_vars => AtMostOneOpen'
<1> SUFFICES ASSUME IInv, [Next]_vars PROVE AtMostOneOpen'
  OBVIOUS
<1>0. TypeOK /\ AtMostOneOpen
  BY DEF IInv
<1>a. ASSUME Pending' \subseteq Pending PROVE AtMostOneOpen'
  BY <1>0, <1>a DEF AtMostOneOpen
<1>1. ASSUME NEW who \in {"write", "gc"}, Lock(who) PROVE Pending' \subseteq Pending
  BY <1>1 DEF Lock, Pending
<1>2. ASSUME Unlock PROVE Pending' \subseteq Pending
  BY <1>2 DEF Unlock, Pending
<1>3. ASSUME NEW t \in Txns, ReadPending(t) PROVE Pending' \subseteq Pending
  BY <1>3 DEF ReadPending, Pending
<1>4. ASSUME NEW t \in Txns, NEW s \in Stages, NEW ok \in BOOLEAN, NEW written \in BOOLEAN,
             FirstWrite(t, s, ok, written)
      PROVE  AtMostOneOpen'
  <2>1. Pending' \subseteq {t}
    BY <1>0, <1>4 DEF TypeOK, FirstWrite, NothingPending, Pending
  <2>2. QED
    BY <2>1 DEF AtMostOneOpen
<1>5. ASSUME NEW h \in Handles, NEW s \in Stages, NEW ok \in BOOLEAN, NEW written \in BOOLEAN,
             AppendRevision(h, s, ok, written)
      PROVE  Pending' \subseteq Pending
  <2>1. handle[h].txn \in Txns /\ revs[handle[h].txn] # {}
    BY <1>0, <1>5, CurrentRecord, ChainMembers DEF AppendRevision
  <2>2. QED
    BY <1>0, <1>5, <2>1 DEF TypeOK, AppendRevision, Pending
<1>6. ASSUME NEW h \in Handles, NEW ok \in BOOLEAN, NEW written \in BOOLEAN,
             ClearTxn(h, ok, written)
      PROVE  Pending' \subseteq Pending
  <2>1. handle[h].rev # <<>>
    BY <1>0, <1>6, CurrentRecord DEF ClearTxn, History
  <2>2. QED
    BY <1>0, <1>6, <2>1 DEF TypeOK, ClearTxn, Pending
<1>7. ASSUME NEW t \in Txns, RecordPrune(t) PROVE Pending' \subseteq Pending
  BY <1>0, <1>7 DEF TypeOK, RecordPrune, Pending
<1>8. ASSUME NEW t \in Txns, RemoveRevision(t) PROVE Pending' \subseteq Pending
  BY <1>0, <1>8 DEF TypeOK, RemoveRevision, Pending
<1>9. ASSUME NEW t \in Txns, RemoveMarker(t) PROVE Pending' \subseteq Pending
  BY <1>0, <1>9 DEF TypeOK, RemoveMarker, Pending
<1>10. ASSUME NEW t \in Txns, RemovePruneRecord(t) PROVE Pending' \subseteq Pending
  BY <1>0, <1>10 DEF TypeOK, RemovePruneRecord, Pending
<1>11. CASE UNCHANGED vars
  BY <1>0, <1>11 DEF vars, AtMostOneOpen, Pending
<1>12. QED
  BY <1>a, <1>1, <1>2, <1>3, <1>4, <1>5, <1>6, <1>7, <1>8, <1>9, <1>10, <1>11
     DEF Next, Write, Prune

(* A record follows what its writer published, and is gone before gc gets  *)
(* the lock.                                                               *)
LEMMA RecordsStep == IInv /\ [Next]_vars => RecordsInv'
<1> SUFFICES ASSUME IInv, [Next]_vars PROVE RecordsInv'
  OBVIOUS
<1>0. TypeOK /\ RecordsInv /\ \A t \in Txns : Family(t)
  BY DEF IInv
<1>a. \A h \in Handles : handle[h] # NoHandle => handle[h].txn \in Txns
  BY <1>0 DEF TypeOK, HandleType
<1>b. ASSUME session # "write", session' = session, handle' = handle PROVE RecordsInv'
  BY <1>0, <1>b DEF RecordsInv
<1>1. ASSUME NEW who \in {"write", "gc"}, Lock(who) PROVE RecordsInv'
  BY <1>0, <1>1 DEF RecordsInv, Lock
<1>2. ASSUME Unlock PROVE RecordsInv'
  BY <1>0, <1>2 DEF RecordsInv, Unlock, Handles
<1>3. ASSUME NEW t \in Txns, ReadPending(t) PROVE RecordsInv'
  <2>1. Newest(revs[t]) \in revs[t] /\ pruned[t] = <<>> /\ session = "write"
    <3>1. ValidChain(revs[t]) /\ pruned[t] = <<>>
      BY <1>3 DEF ReadPending, PendingTxnsSucceeds, Readable, Pending
    <3>2. revs[t] \in SUBSET Seq(Stages)
      BY <1>0 DEF TypeOK
    <3>3. Newest(revs[t]) \in revs[t]
      BY <3>1, <3>2, ValidChainIsChain, ChainMembers
    <3>4. QED
      BY <1>3, <3>1, <3>3 DEF ReadPending
  <2>2. handle' = [handle EXCEPT !["recovery"] = [txn |-> t, rev |-> Newest(revs[t])]]
        /\ UNCHANGED <<revs, pruned, session>>
    BY <1>3 DEF ReadPending
  <2>3. QED
    BY <1>0, <2>1, <2>2 DEF RecordsInv, TypeOK
<1>4. ASSUME NEW t \in Txns, NEW s \in Stages, NEW ok \in BOOLEAN, NEW written \in BOOLEAN,
             FirstWrite(t, s, ok, written)
      PROVE  RecordsInv'
  <2>1. pruned[t] = <<>> /\ (ok => written) /\ session = "write"
    BY <1>0, <1>4 DEF FirstWrite, WriteResult, Family, Fresh
  <2>2. handle'["command"] \in {[txn |-> t, rev |-> <<s>>], NoHandle}
        /\ (handle'["command"] # NoHandle => ok) /\ handle'["recovery"] = NoHandle
    BY <1>0, <1>4 DEF FirstWrite, TypeOK, Handles
  <2>3. written => <<s>> \in revs'[t]
    BY <1>0, <1>4 DEF FirstWrite, TypeOK
  <2>4. QED
    BY <1>4, <2>1, <2>2, <2>3 DEF RecordsInv, FirstWrite, Handles
<1>5. ASSUME NEW h \in Handles, NEW s \in Stages, NEW ok \in BOOLEAN, NEW written \in BOOLEAN,
             AppendRevision(h, s, ok, written)
      PROVE  RecordsInv'
  <2> DEFINE r == handle[h]
             next == Append(r.rev, s)
  <2>1. r \in [txn : Txns, rev : Seq(Stages)] /\ r # NoHandle
    BY <1>0, <1>5 DEF TypeOK, AppendRevision, Current, HandleType
  <2>2. \A t \in Txns : revs[t] \subseteq revs'[t]
    BY <1>0, <1>5 DEF AppendRevision, TypeOK
  <2>3. written => next \in revs'[r.txn]
    BY <1>0, <1>5, <2>1 DEF AppendRevision, TypeOK
  <2>4. ok => written
    BY <1>5 DEF AppendRevision, WriteResult
  <2>5. ASSUME NEW g \in Handles
        PROVE  handle'[g] = handle[g] \/ (ok /\ handle'[g].txn = r.txn /\ handle'[g].rev = next)
    <3> HIDE DEF next
    <3>1. handle' = IF ok THEN [handle EXCEPT ![h].rev = next] ELSE handle
      BY <1>5 DEF AppendRevision, next
    <3>2. QED
      BY <1>0, <2>1, <3>1 DEF TypeOK
  <2>6. session = "write" /\ UNCHANGED <<pruned, session>>
    BY <1>5 DEF AppendRevision
  <2>7. pruned[r.txn] = <<>>
    BY <1>0, <2>1 DEF RecordsInv
  <2> HIDE DEF r, next
  <2>8. QED
    BY <1>0, <1>a, <2>2, <2>3, <2>4, <2>5, <2>6, <2>7 DEF RecordsInv
<1>6. ASSUME NEW h \in Handles, NEW ok \in BOOLEAN, NEW written \in BOOLEAN,
             ClearTxn(h, ok, written)
      PROVE  RecordsInv'
  BY <1>0, <1>6 DEF RecordsInv, ClearTxn
<1>7. ASSUME NEW t \in Txns, RecordPrune(t) PROVE RecordsInv'
  BY <1>7, <1>b DEF RecordPrune
<1>8. ASSUME NEW t \in Txns, RemoveRevision(t) PROVE RecordsInv'
  BY <1>8, <1>b DEF RemoveRevision
<1>9. ASSUME NEW t \in Txns, RemoveMarker(t) PROVE RecordsInv'
  BY <1>9, <1>b DEF RemoveMarker
<1>10. ASSUME NEW t \in Txns, RemovePruneRecord(t) PROVE RecordsInv'
  BY <1>10, <1>b DEF RemovePruneRecord
<1>11. CASE UNCHANGED vars
  BY <1>0, <1>11 DEF vars, RecordsInv
<1>12. QED
  BY <1>1, <1>2, <1>3, <1>4, <1>5, <1>6, <1>7, <1>8, <1>9, <1>10, <1>11 DEF Next, Write, Prune

LEMMA InitIInv == Init => IInv
<1> SUFFICES ASSUME Init PROVE IInv
  OBVIOUS
<1>1. <<>> \in Seq(Stages)
  BY EmptySeq
<1>2. TypeOK
  <2>1. done \in [Txns -> Seq(Stages)] /\ pruned \in [Txns -> Seq(Stages)]
    BY <1>1 DEF Init
  <2>2. errors \in 0 .. MaxErrors
    BY BoundsAssumption DEF Init
  <2>3. QED
    BY <2>1, <2>2 DEF Init, TypeOK, HandleType
<1>3. \A t \in Txns : Family(t)
  BY DEF Init, Family, Fresh
<1>4. AtMostOneOpen
  BY DEF Init, AtMostOneOpen, Pending
<1>5. RecordsInv
  BY DEF Init, RecordsInv
<1>6. QED
  BY <1>2, <1>3, <1>4, <1>5 DEF IInv

(* The journal's inductive invariant holds in every reachable state.       *)
THEOREM Invariance == Spec => []IInv
<1>1. IInv /\ [Next]_vars => IInv'
  <2> SUFFICES ASSUME IInv, [Next]_vars PROVE IInv'
    OBVIOUS
  <2>1. TypeOK'
    BY TypingStep
  <2>2. \A t \in Txns : Family(t)'
    BY FamilyStep
  <2>3. AtMostOneOpen'
    BY OneOpenStep
  <2>4. RecordsInv'
    BY RecordsStep
  <2>5. QED
    BY <2>1, <2>2, <2>3, <2>4 DEF IInv
<1>2. QED
  BY InitIInv, <1>1, PTL DEF Spec

(* Every file and every in-memory record keeps the shape txn.go decodes.   *)
THEOREM Typing == Spec => []TypeOK
<1>1. IInv => TypeOK
  BY DEF IInv
<1>2. QED
  BY <1>1, Invariance, PTL

(* PendingTxns (txn.go:650) never fails on what interrupted writes, errors *)
(* reported after the fact and interrupted gc runs leave behind.           *)
THEOREM AlwaysReadable == Spec => []JournalReadable
<1>1. IInv => JournalReadable
  <2> SUFFICES ASSUME IInv, NEW t \in Txns PROVE Readable(t)
    BY DEF JournalReadable, PendingTxnsSucceeds
  <2>1. CASE Fresh(t)
    BY <2>1 DEF Fresh, Readable
  <2>2. CASE Whole(t)
    <3>1. revs[t] \in SUBSET Seq(Stages)
      BY DEF IInv, TypeOK
    <3>2. Newest(revs[t]) \in History /\ revs[t] = Chain(Newest(revs[t]))
      BY <2>2, <3>1, ValidChainIsChain DEF Whole
    <3>3. MatchesMarker(revs[t], Newest(revs[t]))
      BY <3>2, ChainNumbers
    <3>4. revs[t] # {}
      BY <3>2, ChainMembers
    <3>5. QED
      BY <2>2, <3>3, <3>4 DEF Whole, Readable
  <2>3. CASE Going(t)
    BY <2>3 DEF Going, Readable
  <2>4. QED
    BY <2>1, <2>2, <2>3 DEF IInv, Family
<1>2. QED
  BY <1>1, Invariance, PTL

(* No command ever opens a transaction while another is unfinished         *)
(* (txn.go:904), however often recovery itself was interrupted.            *)
THEOREM OneOpenAtATime == Spec => []AtMostOneOpen
<1>1. IInv => AtMostOneOpen
  BY DEF IInv
<1>2. QED
  BY <1>1, Invariance, PTL

(* However a write failed and whoever completed the transaction, a record  *)
(* in memory is the recorded history or an earlier part of it              *)
(* (txn.go:256-315, pipeline.go:550-569).                                  *)
THEOREM NeverAheadOfJournal == Spec => []NeverAhead
<1>1. IInv => NeverAhead
  <2> SUFFICES ASSUME IInv, NEW h \in Handles, handle[h] # NoHandle
               PROVE  handle[h].rev \in Chain(historyOf[handle[h].txn])
    BY DEF NeverAhead
  <2> DEFINE t == handle[h].txn
  <2>1. t \in Txns /\ pruned[t] = <<>> /\ handle[h].rev \in revs[t]
    BY DEF IInv, RecordsInv, TypeOK, HandleType
  <2>2. ValidChain(revs[t])
    BY <2>1 DEF IInv, Family, Fresh, Whole, Going
  <2>3. revs[t] \in SUBSET Seq(Stages)
    BY <2>1 DEF IInv, TypeOK
  <2>4. revs[t] = Chain(Newest(revs[t]))
    BY <2>2, <2>3, ValidChainIsChain
  <2>5. historyOf[t] = Newest(revs[t])
    BY <2>1 DEF historyOf
  <2>6. QED
    BY <2>1, <2>4, <2>5
<1>2. QED
  BY <1>1, Invariance, PTL

--------------------------------------------------------------------------------
(***************************************************************************)
(* The files implement TxnLife.  The first two lemmas are what a step that *)
(* leaves a family's files alone, or touches one family only, does to the  *)
(* life seen through phaseOf and historyOf.                                *)
(***************************************************************************)
SameFiles(u) ==
    /\ revs'[u] = revs[u] /\ done'[u] = done[u] /\ pruned'[u] = pruned[u]
    /\ u \in issued' <=> u \in issued

LEMMA ViewFrame ==
    ASSUME NEW u \in Txns, SameFiles(u)
    PROVE  phaseOf'[u] = phaseOf[u] /\ historyOf'[u] = historyOf[u]
BY DEF SameFiles, phaseOf, historyOf

LEMMA ViewStutter ==
    ASSUME \A u \in Txns : SameFiles(u)
    PROVE  UNCHANGED Life!lifeVars
<1>1. \A u \in Txns : phaseOf'[u] = phaseOf[u] /\ historyOf'[u] = historyOf[u]
  BY ViewFrame
<1>2. phaseOf' = phaseOf
  BY <1>1 DEF phaseOf
<1>3. historyOf' = historyOf
  BY <1>1 DEF historyOf
<1>4. QED
  BY <1>2, <1>3 DEF Life!lifeVars

LEMMA ViewOne ==
    ASSUME NEW t \in Txns, \A u \in Txns \ {t} : SameFiles(u)
    PROVE  /\ phaseOf' = [phaseOf EXCEPT ![t] = phaseOf'[t]]
           /\ historyOf' = [historyOf EXCEPT ![t] = historyOf'[t]]
<1>1. \A u \in Txns \ {t} : phaseOf'[u] = phaseOf[u] /\ historyOf'[u] = historyOf[u]
  BY ViewFrame
<1>2. phaseOf' = [phaseOf EXCEPT ![t] = phaseOf'[t]]
  BY <1>1 DEF phaseOf
<1>3. historyOf' = [historyOf EXCEPT ![t] = historyOf'[t]]
  BY <1>1 DEF historyOf
<1>4. QED
  BY <1>2, <1>3

(* An unpruned chain shows as an open or a closed transaction with the     *)
(* history of its newest file.                                             *)
LEMMA ViewOfChain ==
    ASSUME NEW t \in Txns, NEW d \in History, revs[t] = Chain(d), pruned[t] = <<>>
    PROVE  /\ historyOf[t] = d
           /\ phaseOf[t] = IF done[t] = <<>> THEN "open" ELSE "closed"
<1>1. revs[t] # {} /\ Newest(revs[t]) = d
  BY ChainMembers, ChainNewest
<1>2. QED
  BY <1>1 DEF phaseOf, historyOf

(* Every step of the journal is a step of TxnLife or leaves it alone.      *)
LEMMA LifeStep == IInv /\ IInv' /\ [Next]_vars => [Life!LifeNext]_(Life!lifeVars)
<1> SUFFICES ASSUME IInv, IInv', [Next]_vars PROVE [Life!LifeNext]_(Life!lifeVars)
  OBVIOUS
<1> DEFINE Goal == [Life!LifeNext]_(Life!lifeVars)
<1>0. TypeOK /\ (\A t \in Txns : Family(t)) /\ (\A t \in Txns : Family(t)')
  BY DEF IInv
<1>a. ASSUME \A u \in Txns : SameFiles(u) PROVE Goal
  BY <1>a, ViewStutter
<1>b. ASSUME NEW t \in Txns, NEW s \in Stages, \A u \in Txns \ {t} : SameFiles(u),
             phaseOf[t] \in {"none", "open"}, phaseOf'[t] = "open",
             historyOf'[t] = Append(historyOf[t], s)
      PROVE  Goal
  BY <1>b, ViewOne DEF Life!LifeNext, Life!Record
<1>c. ASSUME NEW t \in Txns, \A u \in Txns \ {t} : SameFiles(u),
             phaseOf[t] = "open", phaseOf'[t] = "closed", historyOf'[t] = historyOf[t]
      PROVE  Goal
  BY <1>c, ViewOne DEF Life!LifeNext, Life!Close, historyOf
<1>d. ASSUME NEW t \in Txns, \A u \in Txns \ {t} : SameFiles(u),
             phaseOf[t] = "closed", phaseOf'[t] = "forgotten", historyOf'[t] = <<>>
      PROVE  Goal
  BY <1>d, ViewOne DEF Life!LifeNext, Life!Forget
<1>e. ASSUME NEW t \in Txns, \A u \in Txns \ {t} : SameFiles(u),
             phaseOf'[t] = phaseOf[t], historyOf'[t] = historyOf[t]
      PROVE  Goal
  <2>1. phaseOf = [phaseOf EXCEPT ![t] = phaseOf[t]]
    BY DEF phaseOf
  <2>2. historyOf = [historyOf EXCEPT ![t] = historyOf[t]]
    BY DEF historyOf
  <2>3. phaseOf' = phaseOf /\ historyOf' = historyOf
    BY <1>e, <2>1, <2>2, ViewOne
  <2>4. QED
    BY <2>3 DEF Life!lifeVars
<1>1. ASSUME NEW who \in {"write", "gc"}, Lock(who) PROVE Goal
  BY <1>1, <1>a DEF Lock, SameFiles
<1>2. ASSUME Unlock PROVE Goal
  BY <1>2, <1>a DEF Unlock, SameFiles
<1>3. ASSUME NEW t \in Txns, ReadPending(t) PROVE Goal
  BY <1>3, <1>a DEF ReadPending, SameFiles
<1>4. ASSUME NEW t \in Txns, NEW s \in Stages, NEW ok \in BOOLEAN, NEW written \in BOOLEAN,
             FirstWrite(t, s, ok, written)
      PROVE  Goal
  <2>1. CASE written
    <3>1. \A u \in Txns \ {t} : SameFiles(u)
      BY <1>0, <1>4, <2>1 DEF TypeOK, FirstWrite, SameFiles
    <3>2. Fresh(t)
      BY <1>0, <1>4 DEF FirstWrite, Family
    <3>3. phaseOf[t] = "none" /\ historyOf[t] = <<>>
      BY <1>4, <3>2 DEF FirstWrite, Fresh, phaseOf, historyOf
    <3>4. revs'[t] = {<<s>>} /\ done'[t] = <<>> /\ pruned'[t] = <<>>
      BY <1>0, <1>4, <2>1, <3>2 DEF TypeOK, FirstWrite, Fresh
    <3>5. Newest({<<s>>}) = <<s>>
      BY ChainFirst, ChainNewest
    <3>6. phaseOf'[t] = "open" /\ historyOf'[t] = <<s>>
      BY <3>4, <3>5 DEF phaseOf, historyOf
    <3>7. Append(<<>>, s) = <<s>>
      OBVIOUS
    <3>8. QED
      BY <1>b, <3>1, <3>3, <3>6, <3>7
  <2>2. CASE ~written
    BY <1>0, <1>4, <2>2, <1>a DEF TypeOK, FirstWrite, SameFiles
  <2>3. QED
    BY <2>1, <2>2
<1>5. ASSUME NEW h \in Handles, NEW s \in Stages, NEW ok \in BOOLEAN, NEW written \in BOOLEAN,
             AppendRevision(h, s, ok, written)
      PROVE  Goal
  <2> DEFINE t == handle[h].txn
             d == handle[h].rev
  <2>1. t \in Txns /\ d \in History /\ revs[t] = Chain(d)
    BY <1>0, <1>5, CurrentRecord DEF AppendRevision
  <2>2. CASE written
    <3>1. \A u \in Txns \ {t} : SameFiles(u)
      BY <1>0, <1>5, <2>2 DEF TypeOK, AppendRevision, SameFiles
    <3>2. d \in revs[t]
      BY <2>1, ChainMembers
    <3>3. pruned[t] = <<>> /\ done[t] = <<>>
      BY <1>0, <1>5, <2>1, <3>2
         DEF AppendRevision, NotCompleted, Family, Fresh, Whole, Going, ValidPrune
    <3>4. phaseOf[t] = "open" /\ historyOf[t] = d
      BY <2>1, <3>3, ViewOfChain
    <3>5. Append(d, s) \in History /\ revs'[t] = Chain(Append(d, s))
      BY <1>0, <1>5, <2>1, <2>2, ChainAppend DEF TypeOK, AppendRevision
    <3>6. revs'[t] # {} /\ Newest(revs'[t]) = Append(d, s)
      <4> DEFINE next == Append(d, s)
      <4>1. next \in History /\ revs'[t] = Chain(next)
        BY <3>5
      <4> HIDE DEF next
      <4>2. next \in Chain(next) /\ Newest(Chain(next)) = next
        BY <4>1, ChainMembers, ChainNewest
      <4>3. revs'[t] # {} /\ Newest(revs'[t]) = next
        BY <4>1, <4>2
      <4>4. QED
        BY <4>3 DEF next
    <3>7. done'[t] = <<>> /\ pruned'[t] = <<>>
      BY <1>5, <3>3 DEF AppendRevision
    <3>8. phaseOf'[t] = "open" /\ historyOf'[t] = Append(d, s)
      BY <2>1, <3>6, <3>7 DEF phaseOf, historyOf
    <3>9. QED
      BY <1>b, <2>1, <3>1, <3>4, <3>8
  <2>3. CASE ~written
    BY <1>0, <1>5, <2>3, <1>a DEF TypeOK, AppendRevision, SameFiles
  <2>4. QED
    BY <2>2, <2>3
<1>6. ASSUME NEW h \in Handles, NEW ok \in BOOLEAN, NEW written \in BOOLEAN,
             ClearTxn(h, ok, written)
      PROVE  Goal
  <2> DEFINE t == handle[h].txn
             d == handle[h].rev
  <2>1. t \in Txns /\ d \in History /\ revs[t] = Chain(d)
    BY <1>0, <1>6, CurrentRecord DEF ClearTxn
  <2>2. CASE written /\ done[t] = <<>>
    <3>1. \A u \in Txns \ {t} : SameFiles(u)
      BY <1>0, <1>6, <2>2 DEF TypeOK, ClearTxn, SameFiles
    <3>2. d \in revs[t]
      BY <2>1, ChainMembers
    <3>3. pruned[t] = <<>>
      BY <1>0, <2>1, <2>2, <3>2 DEF Family, Fresh, Whole, Going, ValidPrune
    <3>4. phaseOf[t] = "open" /\ historyOf[t] = d
      BY <2>1, <2>2, <3>3, ViewOfChain
    <3>5. revs'[t] = revs[t] /\ done'[t] = d /\ d # <<>> /\ pruned'[t] = <<>>
      BY <1>0, <1>6, <2>1, <2>2, <3>3 DEF TypeOK, ClearTxn, History
    <3>6. phaseOf'[t] = "closed" /\ historyOf'[t] = historyOf[t]
      BY <2>1, <3>3, <3>5 DEF phaseOf, historyOf
    <3>7. QED
      BY <1>c, <2>1, <3>1, <3>4, <3>6
  <2>3. CASE ~(written /\ done[t] = <<>>)
    <3>1. done' = done
      BY <1>0, <1>6, <2>1, <2>3 DEF TypeOK, ClearTxn, History
    <3>2. QED
      BY <1>6, <3>1, <1>a DEF ClearTxn, SameFiles
  <2>4. QED
    BY <2>2, <2>3
<1>7. ASSUME NEW t \in Txns, RecordPrune(t) PROVE Goal
  <2>1. \A u \in Txns \ {t} : SameFiles(u)
    BY <1>0, <1>7 DEF TypeOK, RecordPrune, SameFiles
  <2>2. pruned[t] = <<>> /\ done[t] # <<>> /\ pruned'[t] # <<>>
    BY <1>0, <1>7 DEF TypeOK, RecordPrune
  <2>3. phaseOf[t] = "closed" /\ phaseOf'[t] = "forgotten" /\ historyOf'[t] = <<>>
    BY <2>2 DEF phaseOf, historyOf
  <2>4. QED
    BY <1>d, <2>1, <2>3
<1>8. ASSUME NEW t \in Txns, RemoveRevision(t) PROVE Goal
  <2>1. \A u \in Txns \ {t} : SameFiles(u)
    BY <1>0, <1>8 DEF TypeOK, RemoveRevision, SameFiles
  <2>2. pruned[t] # <<>> /\ pruned'[t] # <<>>
    BY <1>8 DEF RemoveRevision
  <2>3. phaseOf'[t] = phaseOf[t] /\ historyOf'[t] = historyOf[t]
    BY <2>2 DEF phaseOf, historyOf
  <2>4. QED
    BY <1>e, <2>1, <2>3
<1>9. ASSUME NEW t \in Txns, RemoveMarker(t) PROVE Goal
  <2>1. \A u \in Txns \ {t} : SameFiles(u)
    BY <1>0, <1>9 DEF TypeOK, RemoveMarker, SameFiles
  <2>2. pruned[t] # <<>> /\ pruned'[t] # <<>>
    BY <1>9 DEF RemoveMarker
  <2>3. phaseOf'[t] = phaseOf[t] /\ historyOf'[t] = historyOf[t]
    BY <2>2 DEF phaseOf, historyOf
  <2>4. QED
    BY <1>e, <2>1, <2>3
<1>10. ASSUME NEW t \in Txns, RemovePruneRecord(t) PROVE Goal
  <2>1. \A u \in Txns \ {t} : SameFiles(u)
    BY <1>0, <1>10 DEF TypeOK, RemovePruneRecord, SameFiles
  <2>2. pruned[t] # <<>> /\ t \in issued
    BY <1>0, <1>10 DEF RemovePruneRecord, Family, Fresh
  <2>3. pruned'[t] = <<>> /\ revs'[t] = {} /\ done'[t] = <<>> /\ t \in issued'
    BY <1>0, <1>10, <2>2 DEF TypeOK, RemovePruneRecord
  <2>4. phaseOf[t] = "forgotten" /\ historyOf[t] = <<>>
    BY <2>2 DEF phaseOf, historyOf
  <2>5. phaseOf'[t] = "forgotten" /\ historyOf'[t] = <<>>
    BY <2>3 DEF phaseOf, historyOf
  <2>6. QED
    BY <1>e, <2>1, <2>4, <2>5
<1>11. CASE UNCHANGED vars
  BY <1>11, <1>a DEF vars, SameFiles
<1>12. QED
  BY <1>1, <1>2, <1>3, <1>4, <1>5, <1>6, <1>7, <1>8, <1>9, <1>10, <1>11 DEF Next, Write, Prune

(* The files of the journal implement the life of a transaction: recorded  *)
(* stages are never altered, a closed transaction is never reopened and    *)
(* only a closed one is forgotten (txn.go:256-386, txn_prune.go:225-664).  *)
THEOREM ImplementsLife == Spec => LifeSpec
<1>1. Init => Life!LifeInit
  BY DEF Init, Life!LifeInit, phaseOf, historyOf
<1>2. IInv /\ IInv' /\ [Next]_vars => [Life!LifeNext]_(Life!lifeVars)
  BY LifeStep
<1>3. QED
  BY <1>1, <1>2, Invariance, PTL DEF Spec, LifeSpec, Life!LifeSpec
================================================================================
