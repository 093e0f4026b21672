---------------------------- MODULE LeaseProofs ----------------------------
(***************************************************************************)
(* For every set of producers, collectors and scanners and every bound:    *)
(* the object of a living producer, and one the journal names, is never    *)
(* taken; a verdict is true while its lock is held; evidence never         *)
(* predeceases its object; and what users put in staging is kept.          *)
(***************************************************************************)
EXTENDS Lease, TLAPS, FiniteSetTheorems

(* Where a producer holds the lock of its lease.                           *)
Locked == {"write", "make", "attach", "fill", "close", "quarantined", "emptied", "orphan",
           "orphaned", "discard", "unwind", "journal", "handover", "handed", "release",
           "unlock"}
(* Where it has a lease file that only it, or nobody, may unlink.          *)
Filed == (Locked \ {"handed", "unlock"}) \cup {"lock"}
Stages == Locked \cup {"idle", "create", "lock", "unacquire", "publish", "ended"}

HoldsLease(h) == pc[h] \in Locked \/ (pc[h] = "publish" /\ kind[h] = "clone")

(* Where a sweeper works on one lease, where it holds its lock, and where  *)
(* it acts on a verdict.                                                   *)
Acting == {"remove", "retire", "purge", "unlink"}
Holding == Acting \cup {"classify", "drop"}
Steps == Holding \cup {"idle", "lock", "list", "next", "probe"}
ScanSteps == {"idle", "list", "next", "probe", "classify", "drop"}

SweepRecord == [claimed : SUBSET Producers, todo : SUBSET Producers,
                on : Producers \cup {Nobody}, name : Names \cup {"none"},
                state : {"unset", "collectable", "unaccountable"}]

Types ==
    /\ TypeOK
    /\ pc \in [Producers -> Stages]
    /\ spc \in [Sweepers -> Steps]
    /\ sweep \in [Sweepers -> SweepRecord]
    /\ \A s \in Scanners : spc[s] \in ScanSteps

(* A lease is opened before its lock is tried.                             *)
Opened == \A s \in Sweepers : spc[s] \in Holding \cup {"probe"} => sweep[s].on \in Producers

(* What each kind of producer does, and what its record says by then.      *)
KindsInv == \A h \in Producers :
    /\ pc[h] \in {"journal", "handover", "handed"} => kind[h] = "root"
    /\ pc[h] \in {"close", "quarantined", "emptied", "orphan", "orphaned"} => kind[h] = "scratch"
    /\ pc[h] = "fill" => kind[h] # "root"
    /\ pc[h] \in {"discard", "publish"} => kind[h] # "scratch"

RecordsInv == \A h \in Producers :
    /\ pc[h] \in {"idle", "create", "lock", "write"} => record[h] = "empty"
    /\ pc[h] \in {"make", "attach"} => record[h] = "named"
    /\ pc[h] \in {"fill", "close", "quarantined", "emptied", "publish", "journal",
                  "handover", "handed"} => record[h] = "identified"

(* A producer holds the lock of its lease wherever it has an object there. *)
LocksInv == \A h \in Producers : HoldsLease(h) => held[h] = h

(* A sweeper holds the lock of the lease it works on.                      *)
SweepLocksInv ==
    /\ \A s \in Collectors : spc[s] \in Holding => held[sweep[s].on] = s
    /\ \A s \in Scanners : spc[s] \in {"classify", "drop"} => s \in shared[sweep[s].on]

FilesInv == \A h \in Producers :
    pc[h] \in Filed \/ (pc[h] = "publish" /\ kind[h] = "clone") => file[h]

(* fu.lock belongs to the one write command that stages a root, or to the  *)
(* one gc that has read every claim there is.                              *)
StoreLockInv ==
    /\ \A h \in Producers : kind[h] = "root" /\ pc[h] \notin {"idle", "ended"} => fulock = h
    /\ \A s \in Collectors : fulock = s => claims \subseteq sweep[s].claimed

ClaimsInv ==
    /\ \A h \in claims :
        /\ kind[h] = "root"
        /\ pc[h] \in {"handover", "handed", "publish", "unwind", "release", "unlock", "ended"}
    /\ \A h \in Producers : pc[h] = "handover" => h \in claims

(* A verdict rests on a record and lasts no longer than the lock, and what *)
(* a collector holds by its claimed name it does not act on.               *)
VerdictsInv == \A s \in Sweepers :
    /\ sweep[s].state = "collectable" =>
        /\ spc[s] \in Acting \cup {"drop"}
        /\ record[sweep[s].on] # "empty"
    /\ spc[s] \in Acting => sweep[s].state = "collectable"
    /\ spc[s] \in {"remove", "retire"} /\ sweep[s].on \in sweep[s].claimed
        => sweep[s].name # "live"
    /\ spc[s] = "retire" => sweep[s].name \in Names

(* A token's own object is in one place, and nowhere before it is made or  *)
(* once its lease is about to be dropped.                                  *)
OneOwnInv == \A h \in Producers : \A m, n \in Names :
    obj[h][m] \in Own /\ obj[h][n] \in Own => m = n

NoOwnInv == \A h \in Producers, n \in Names :
    pc[h] \in {"idle", "create", "lock", "write", "unacquire", "make", "release", "unlock"}
        => obj[h][n] \notin Own

(* A collector knows where the object is, whatever users put elsewhere.    *)
WhereInv == \A s \in Collectors, n \in Names :
    spc[s] \in Acting /\ obj[sweep[s].on][n] \in Own =>
        /\ spc[s] # "unlink"
        /\ n = IF spc[s] = "purge" THEN "retired" ELSE sweep[s].name

(* What was lost a clone removed by its own path.                          *)
LostInv == \A l \in lost : l[2] = "producer" /\ kind[l[1]] = "clone" /\ pc[l[1]] # "idle"

IInv ==
    /\ Types /\ Opened
    /\ KindsInv /\ RecordsInv /\ LocksInv /\ SweepLocksInv /\ FilesInv
    /\ StoreLockInv /\ ClaimsInv /\ VerdictsInv
    /\ OneOwnInv /\ NoOwnInv /\ WhereInv /\ LostInv
    /\ InUseKept /\ Evidence

--------------------------------------------------------------------------------
(* What another producer's step leaves to a token.                         *)
Same(g) ==
    /\ pc'[g] = pc[g] /\ kind'[g] = kind[g] /\ file'[g] = file[g]
    /\ record'[g] = record[g] /\ held'[g] = held[g] /\ obj'[g] = obj[g]
    /\ g \in claims' <=> g \in claims
    /\ fulock = g => fulock' = g

(* The step of a producer is about its own token.                          *)
LEMMA ProducerFrame ==
    ASSUME Types, NEW h \in Producers, Produce(h) \/ Die(h) \/ Recover(h)
    PROVE  /\ UNCHANGED <<shared, spc, sweep, displaced, blind>>
           /\ \A g \in Producers \ {h} : Same(g)
<1>1. UNCHANGED <<shared, spc, sweep, displaced, blind>>
  BY DEF Produce, Start, CreateLease, LockLease, WriteLease, Unacquire, MakeObject,
     AttachIdentity, Fill, Quarantine, EmptyQuarantine, RemoveQuarantine, RetireOrphan,
     RemoveOrphan, Discard, Unwind, JournalRoot, ReleaseLease, UnlockLease, PublishRoot,
     PublishClone, Die, Recover, Elsewhere, staging, sweeping, ghosts
<1>2. ASSUME NEW g \in Producers \ {h} PROVE Same(g)
  <2> USE DEF Produce, Start, CreateLease, LockLease, WriteLease, Unacquire, MakeObject,
              AttachIdentity, Fill, Quarantine, EmptyQuarantine, RemoveQuarantine,
              RetireOrphan, RemoveOrphan, Discard, Unwind, JournalRoot, ReleaseLease,
              UnlockLease, PublishRoot, PublishClone, Die, Recover
  <2>1. pc'[g] = pc[g] /\ kind'[g] = kind[g]
    BY DEF Types, TypeOK, Goto, End, Elsewhere
  <2>2. file'[g] = file[g] /\ record'[g] = record[g]
    BY DEF Types, TypeOK, staging
  <2>3. held'[g] = held[g]
    BY DEF Types, TypeOK, End, staging
  <2>4. obj'[g] = obj[g]
    BY DEF Types, TypeOK, Put, Move, staging
  <2>5. g \in claims' <=> g \in claims
    BY DEF Types, TypeOK
  <2>6. fulock = g => fulock' = g
    BY LeaseAssumption DEF Types, TypeOK, End
  <2> HIDE DEF Produce, Start, CreateLease, LockLease, WriteLease, Unacquire, MakeObject,
               AttachIdentity, Fill, Quarantine, EmptyQuarantine, RemoveQuarantine,
               RetireOrphan, RemoveOrphan, Discard, Unwind, JournalRoot, ReleaseLease,
               UnlockLease, PublishRoot, PublishClone, Die, Recover
  <2>7. QED BY <2>1, <2>2, <2>3, <2>4, <2>5, <2>6 DEF Same
<1>3. QED BY <1>1, <1>2

(* What a producer's stage says of its lease, its lock and its claim.      *)
LEMMA ProducerPhases ==
    ASSUME Types, KindsInv, RecordsInv, LocksInv, FilesInv, ClaimsInv, StoreLockInv,
           NEW h \in Producers, Produce(h) \/ Die(h) \/ Recover(h)
    PROVE  KindsInv' /\ RecordsInv' /\ LocksInv' /\ FilesInv' /\ ClaimsInv' /\ StoreLockInv'
<1>0. \A g \in Producers \ {h} : Same(g)
  BY ProducerFrame
<1>1. KindsInv' 
  <2>1.
    /\ pc'[h] \in {"journal", "handover", "handed"} => kind'[h] = "root"
    /\ pc'[h] \in {"close", "quarantined", "emptied", "orphan", "orphaned"} => kind'[h] = "scratch"
    /\ pc'[h] = "fill" => kind'[h] # "root"
    /\ pc'[h] \in {"discard", "publish"} => kind'[h] # "scratch"
    BY DEF KindsInv, Types, TypeOK, Kinds, Produce, Start, CreateLease, LockLease, WriteLease,
       Unacquire, MakeObject, AttachIdentity, Fill, Quarantine, EmptyQuarantine,
       RemoveQuarantine, RetireOrphan, RemoveOrphan, Discard, Unwind, JournalRoot, ReleaseLease,
       UnlockLease, PublishRoot, PublishClone, Die, Recover, Goto, End, Elsewhere
  <2>2. QED BY <1>0, <2>1 DEF KindsInv, Same
<1>2. RecordsInv' 
  <2>1.
    /\ pc'[h] \in {"idle", "create", "lock", "write"} => record'[h] = "empty"
    /\ pc'[h] \in {"make", "attach"} => record'[h] = "named"
    /\ pc'[h] \in {"fill", "close", "quarantined", "emptied", "publish", "journal",
                  "handover", "handed"} => record'[h] = "identified"
    BY DEF RecordsInv, Types, TypeOK, Kinds, Produce, Start, CreateLease, LockLease, WriteLease,
       Unacquire, MakeObject, AttachIdentity, Fill, Quarantine, EmptyQuarantine,
       RemoveQuarantine, RetireOrphan, RemoveOrphan, Discard, Unwind, JournalRoot, ReleaseLease,
       UnlockLease, PublishRoot, PublishClone, Die, Recover, Goto, End, Elsewhere, staging
  <2>2. QED BY <1>0, <2>1 DEF RecordsInv, Same
<1>3. LocksInv' 
  <2>1. HoldsLease(h)' => held'[h] = h
    BY DEF LocksInv, HoldsLease, Locked, KindsInv, Types, TypeOK, Kinds, Produce, Start,
       CreateLease, LockLease, WriteLease, Unacquire, MakeObject, AttachIdentity, Fill,
       Quarantine, EmptyQuarantine, RemoveQuarantine, RetireOrphan, RemoveOrphan, Discard,
       Unwind, JournalRoot, ReleaseLease, UnlockLease, PublishRoot, PublishClone, Die, Recover,
       Goto, End, Elsewhere, staging
  <2>2. QED BY <1>0, <2>1 DEF LocksInv, Same, HoldsLease
<1>4. FilesInv' 
  <2>1. pc'[h] \in Filed \/ (pc'[h] = "publish" /\ kind'[h] = "clone") => file'[h]
    BY DEF FilesInv, Filed, Locked, KindsInv, Types, TypeOK, Kinds, Produce, Start, CreateLease,
       LockLease, WriteLease, Unacquire, MakeObject, AttachIdentity, Fill, Quarantine,
       EmptyQuarantine, RemoveQuarantine, RetireOrphan, RemoveOrphan, Discard, Unwind,
       JournalRoot, ReleaseLease, UnlockLease, PublishRoot, PublishClone, Die, Recover, Goto,
       End, Elsewhere, staging
  <2>2. QED BY <1>0, <2>1 DEF FilesInv, Same
<1>5. ClaimsInv'
  <2>1. h \in claims' => /\ kind'[h] = "root"
        /\ pc'[h] \in {"handover", "handed", "publish", "unwind", "release", "unlock", "ended"}
    BY DEF ClaimsInv, KindsInv, Types, TypeOK, Goto, End, Elsewhere, Produce, Start, CreateLease,
       LockLease, WriteLease, Unacquire, MakeObject, AttachIdentity, Fill, Quarantine,
       EmptyQuarantine, RemoveQuarantine, RetireOrphan, RemoveOrphan, Discard, Unwind,
       JournalRoot, ReleaseLease, UnlockLease, PublishRoot, PublishClone, Die, Recover
  <2>2. pc'[h] = "handover" => h \in claims'
    BY DEF ClaimsInv, KindsInv, Types, TypeOK, Goto, End, Elsewhere, Produce, Start, CreateLease,
       LockLease, WriteLease, Unacquire, MakeObject, AttachIdentity, Fill, Quarantine,
       EmptyQuarantine, RemoveQuarantine, RetireOrphan, RemoveOrphan, Discard, Unwind,
       JournalRoot, ReleaseLease, UnlockLease, PublishRoot, PublishClone, Die, Recover
  <2>3. claims' \subseteq Producers
    BY DEF Types, TypeOK, Elsewhere, Produce, Start, CreateLease, LockLease, WriteLease,
       Unacquire, MakeObject, AttachIdentity, Fill, Quarantine, EmptyQuarantine,
       RemoveQuarantine, RetireOrphan, RemoveOrphan, Discard, Unwind, JournalRoot, ReleaseLease,
       UnlockLease, PublishRoot, PublishClone, Die, Recover
  <2>4. QED BY <1>0, <2>1, <2>2, <2>3 DEF ClaimsInv, Same
<1>6. StoreLockInv'
  <2>1. kind'[h] = "root" /\ pc'[h] \notin {"idle", "ended"} => fulock' = h
    BY DEF StoreLockInv, KindsInv, Types, TypeOK, Goto, End, Elsewhere, Produce, Start,
       CreateLease, LockLease, WriteLease, Unacquire, MakeObject, AttachIdentity, Fill,
       Quarantine, EmptyQuarantine, RemoveQuarantine, RetireOrphan, RemoveOrphan, Discard,
       Unwind, JournalRoot, ReleaseLease, UnlockLease, PublishRoot, PublishClone, Die, Recover
  <2>2. sweep' = sweep
    BY ProducerFrame
  <2>3. \A s \in Collectors : fulock' = s => fulock = s
    BY LeaseAssumption DEF End, Elsewhere, Produce, Start, CreateLease, LockLease, WriteLease,
       Unacquire, MakeObject, AttachIdentity, Fill, Quarantine, EmptyQuarantine,
       RemoveQuarantine, RetireOrphan, RemoveOrphan, Discard, Unwind, JournalRoot, ReleaseLease,
       UnlockLease, PublishRoot, PublishClone, Die, Recover
  <2>4. claims' \subseteq claims \/ (claims' = claims \cup {h} /\ pc[h] = "journal")
    BY DEF Elsewhere, Produce, Start, CreateLease, LockLease, WriteLease, Unacquire, MakeObject,
       AttachIdentity, Fill, Quarantine, EmptyQuarantine, RemoveQuarantine, RetireOrphan,
       RemoveOrphan, Discard, Unwind, JournalRoot, ReleaseLease, UnlockLease, PublishRoot,
       PublishClone, Die, Recover
  <2>5. ASSUME NEW s \in Collectors, fulock' = s PROVE claims' \subseteq sweep'[s].claimed
    <3>1. pc[h] # "journal"
      BY <2>3, <2>5, LeaseAssumption DEF StoreLockInv, KindsInv
    <3>2. QED BY <3>1, <2>2, <2>3, <2>4, <2>5 DEF StoreLockInv
  <2>6. QED BY <1>0, <2>1, <2>5 DEF StoreLockInv, Same
<1>7. QED BY <1>1, <1>2, <1>3, <1>4, <1>5, <1>6

--------------------------------------------------------------------------------
(* What a sweeper's step leaves alone.                                     *)
LEMMA SweeperFrame ==
    ASSUME Types, NEW s \in Sweepers, Begin(s) \/ Sweep(s) \/ DieSweeping(s)
    PROVE  /\ UNCHANGED <<store, kind, pc, record, claims, displaced>>
           /\ \A t \in Sweepers \ {s} : spc'[t] = spc[t] /\ sweep'[t] = sweep[t]
<1>1. UNCHANGED <<store, kind, pc, record, claims, displaced>>
  BY DEF Sweep, LockAndReadClaims, List, OpenLease, Probe, Classify, RemoveEmpty, Retire, Purge,
     Drop, Finish, Begin, DieSweeping, Others, producer, staging
<1>2. ASSUME NEW t \in Sweepers \ {s} PROVE spc'[t] = spc[t] /\ sweep'[t] = sweep[t]
  <2>1. spc'[t] = spc[t]
    BY DEF Types, At, Stop, Sweep, LockAndReadClaims, List, OpenLease, Probe, Classify,
       RemoveEmpty, Retire, Purge, Drop, Finish, Begin, DieSweeping
  <2>2. sweep'[t] = sweep[t]
    BY DEF Types, Set, Stop, Sweep, LockAndReadClaims, List, OpenLease, Probe, Classify,
       RemoveEmpty, Retire, Purge, Drop, Finish, Begin, DieSweeping
  <2>3. QED BY <2>1, <2>2
<1>3. QED BY <1>1, <1>2

(* The name an object wears is one of fu's, if it wears exactly one.       *)
LEMMA NameNowType == 
    ASSUME Types, NEW h \in Producers
    PROVE NameNow(h) \in Names \cup {"none"}
<1>1. CASE Cardinality(Present(h)) = 1
  <2>1. Present(h) # {}
    BY <1>1, FS_EmptySet
  <2>2. QED BY <1>1, <2>1 DEF NameNow, Present
<1>2. CASE Cardinality(Present(h)) # 1
  BY <1>2 DEF NameNow
<1>3. QED BY <1>1, <1>2

(* A name takes an entry, its own or another name's.                       *)
LEMMA EntriesTyped ==
    ASSUME obj \in [Producers -> [Names -> Entry]], NEW h \in Producers, NEW n \in Names,
           \/ \E e \in Entry : Put(h, n, e)
           \/ \E m \in Names : Move(h, m, n)
    PROVE  obj' \in [Producers -> [Names -> Entry]]
<1>1. CASE \E e \in Entry : Put(h, n, e)
  BY <1>1 DEF Put
<1>2. CASE \E m \in Names : Move(h, m, n)
  BY <1>2 DEF Move, Entry
<1>3. QED BY <1>1, <1>2

(* A sweeper keeps every type, and works on a lease it has opened.         *)
LEMMA SweepTypes ==
    ASSUME Types, Opened, VerdictsInv, NEW s \in Sweepers, Begin(s) \/ Sweep(s) \/ DieSweeping(s)
    PROVE  Types' /\ Opened'
<1>1. spc' \in [Sweepers -> Steps]
  BY DEF Types, At, Stop, Steps, Holding, Acting, Sweep, LockAndReadClaims, List, OpenLease,
     Probe, Classify, RemoveEmpty, Retire, Purge, Drop, Finish, Begin, DieSweeping
<1>2. s \in Scanners => spc'[s] \in ScanSteps
  BY LeaseAssumption DEF Types, At, Stop, ScanSteps, Sweep, LockAndReadClaims, List, OpenLease,
     Probe, Classify, RemoveEmpty, Retire, Purge, Drop, Finish, Begin, DieSweeping
<1>3. /\ sweep' \in [Sweepers -> SweepRecord]
      /\ spc'[s] \in Holding \cup {"probe"} => sweep'[s].on \in Producers
  <2>0. sweep[s] \in SweepRecord /\ sweep[s].todo \subseteq Producers
    BY DEF Types, SweepRecord
  <2>1. CASE Classify(s)
    BY <2>0, <2>1, NameNowType DEF Classify, Set, At, Types, Opened, SweepRecord, Verdict,
       Working, Holding
  <2>2. CASE LockAndReadClaims(s)
    BY <2>0, <2>2 DEF LockAndReadClaims, Set, At, Types, TypeOK, SweepRecord, Listed, Holding,
       Acting
  <2>3. CASE List(s)
    BY <2>0, <2>3 DEF List, Set, At, Types, TypeOK, SweepRecord, Listed, Holding, Acting
  <2>4. CASE OpenLease(s)
    <3>1. PICK h \in sweep[s].todo :
            \/ sweep' = [sweep EXCEPT ![s] = [sweep[s] EXCEPT !.on = h, !.todo = @ \ {h}]]
            \/ /\ sweep' = [sweep EXCEPT ![s] = [sweep[s] EXCEPT !.todo = @ \ {h}]]
               /\ UNCHANGED spc
      BY <2>4 DEF OpenLease, Set
    <3>2. /\ [sweep[s] EXCEPT !.on = h, !.todo = @ \ {h}] \in SweepRecord
          /\ [sweep[s] EXCEPT !.todo = @ \ {h}] \in SweepRecord
      BY <2>0 DEF SweepRecord
    <3>3. spc[s] = "next" /\ [sweep[s] EXCEPT !.on = h, !.todo = @ \ {h}].on = h
      BY <2>0, <2>4 DEF OpenLease, SweepRecord
    <3>4. h \in Producers
      BY <2>0
    <3>5. QED BY <3>1, <3>2, <3>3, <3>4 DEF Types, Holding, Acting
  <2>5. CASE Probe(s)
    <3>1. [sweep[s] EXCEPT !.on = Nobody] \in SweepRecord
      BY <2>0 DEF SweepRecord
    <3>2. sweep[s].on \in Producers
      BY <2>5 DEF Probe, Opened
    <3>3. \/ UNCHANGED sweep
          \/ /\ sweep' = [sweep EXCEPT ![s] = [sweep[s] EXCEPT !.on = Nobody]]
             /\ spc'[s] = "next"
      BY <2>5 DEF Probe, Set, At, Types
    <3>4. QED BY <3>1, <3>2, <3>3 DEF Types, Holding, Acting
  <2>6. CASE Drop(s)
    BY <2>0, <2>6 DEF Drop, Set, At, Types, TypeOK, SweepRecord, Holding, Acting
  <2>7. CASE Finish(s) \/ DieSweeping(s)
    <3>1. NoSweep \in SweepRecord
      BY DEF NoSweep, SweepRecord
    <3>2. sweep' = [sweep EXCEPT ![s] = NoSweep] /\ spc'[s] = "idle"
      BY <2>7 DEF Finish, DieSweeping, Stop, Set, At, Types
    <3>3. QED BY <3>1, <3>2 DEF Types, Holding, Acting
  <2>8. CASE Begin(s) \/ RemoveEmpty(s) \/ Retire(s) \/ Purge(s)
    BY <2>0, <2>8 DEF Begin, RemoveEmpty, Retire, Purge, At, Types, TypeOK, Holding, Acting, Opened
  <2>9. QED BY <2>1, <2>2, <2>3, <2>4, <2>5, <2>6, <2>7, <2>8 DEF Sweep
<1>4. Opened'
  BY <1>3, SweeperFrame DEF Opened
<1>6. Working(s) \in Producers \/ spc[s] \notin Holding \cup {"probe"}
  BY DEF Opened, Working
<1>7. /\ held' \in [Producers -> Producers \cup Collectors \cup {Nobody}]
      /\ shared' \in [Producers -> SUBSET Scanners]
      /\ \A g \in Producers : held'[g] = Nobody \/ shared'[g] = {}
  <2>1. CASE Probe(s)
    <3> DEFINE h == Working(s)
    <3>1. h \in Producers
      BY <1>6, <2>1 DEF Probe
    <3>2. \/ UNCHANGED <<held, shared>>
          \/ /\ shared[h] = {} /\ s \in Collectors
             /\ held' = [held EXCEPT ![h] = s] /\ UNCHANGED shared
          \/ /\ held[h] = Nobody /\ s \in Scanners
             /\ shared' = [shared EXCEPT ![h] = @ \cup {s}] /\ UNCHANGED held
      BY <2>1 DEF Probe, Sweepers
    <3> HIDE DEF h
    <3>3. /\ held \in [Producers -> Producers \cup Collectors \cup {Nobody}]
          /\ shared \in [Producers -> SUBSET Scanners]
          /\ \A g \in Producers : held[g] = Nobody \/ shared[g] = {}
      BY DEF Types, TypeOK
    <3>4. QED BY ONLY <3>1, <3>2, <3>3
  <2>2. CASE Drop(s) \/ Finish(s) \/ DieSweeping(s)
    BY <2>2 DEF Drop, Finish, DieSweeping, Stop, Unheld, Types, TypeOK
  <2>3. CASE UNCHANGED <<held, shared>>
    BY <2>3 DEF Types, TypeOK
  <2>4. QED BY <2>1, <2>2, <2>3 DEF Sweep, LockAndReadClaims, List, OpenLease, Classify,
               RemoveEmpty, Retire, Purge, Begin, staging
<1>8. obj' \in [Producers -> [Names -> Entry]]
  <2>1. /\ spc[s] = "remove" => sweep[s].name \in Names \cup {"none"}
        /\ spc[s] = "retire" => sweep[s].name \in Names
    BY DEF Types, SweepRecord, VerdictsInv
  <2>2. \/ UNCHANGED obj
        \/ \E h \in Producers, n \in Names : Put(h, n, "none")
        \/ \E h \in Producers, n \in Names : Move(h, n, "retired")
    <3>1. CASE RemoveEmpty(s)
      BY <1>6, <2>1, <3>1 DEF RemoveEmpty, Hollow, Holding, Acting
    <3>2. CASE Retire(s)
      BY <1>6, <2>1, <3>2 DEF Retire, Holding, Acting
    <3>3. CASE Purge(s)
      BY <1>6, <3>3 DEF Purge, Holding, Acting, Names
    <3>4. QED BY <3>1, <3>2, <3>3 DEF Sweep, LockAndReadClaims, List, OpenLease, Probe, Classify,
                 Drop, Finish, Begin, DieSweeping, staging
  <2>3. obj \in [Producers -> [Names -> Entry]] /\ "none" \in Entry
    BY DEF Types, TypeOK, Entry
  <2>4. CASE UNCHANGED obj
    BY <2>3, <2>4
  <2>5. CASE \E h \in Producers, n \in Names : Put(h, n, "none") \/ Move(h, n, "retired")
    <3>1. PICK h \in Producers, n \in Names : Put(h, n, "none") \/ Move(h, n, "retired")
      BY <2>5
    <3>2. "retired" \in Names
      BY DEF Names
    <3>3. QED BY <2>3, <3>1, <3>2, EntriesTyped
  <2>6. QED BY <2>2, <2>4, <2>5
<1>9. file' \in [Producers -> BOOLEAN] /\ \A h \in Producers : file'[h] => file[h]
  BY DEF Types, TypeOK, Sweep, LockAndReadClaims, List, OpenLease, Probe, Classify, RemoveEmpty,
     Retire, Purge, Drop, Finish, Begin, DieSweeping, staging
<1>10. fulock' \in Producers \cup Collectors \cup {Nobody}
  BY DEF Types, TypeOK, Sweepers, ScanSteps, Sweep, LockAndReadClaims, List, OpenLease, Probe,
     Classify, RemoveEmpty, Retire, Purge, Drop, Finish, Begin, DieSweeping, Stop
<1>11. blind' \subseteq Producers /\ lost' = lost
  <2>1. \/ blind' = blind \/ (blind' = blind \cup {Working(s)} /\ spc[s] \in Holding)
    BY DEF TakenBlindly, Holding, Acting, Sweep, LockAndReadClaims, List, OpenLease, Probe,
       Classify, RemoveEmpty, Retire, Purge, Drop, Finish, Begin, DieSweeping
  <2>2. lost' = lost
    BY DEF MovedIsOwn, Own, Sweep, LockAndReadClaims, List, OpenLease, Probe, Classify,
       RemoveEmpty, Retire, Purge, Drop, Finish, Begin, DieSweeping
  <2>3. QED BY <1>6, <2>1, <2>2 DEF Types, TypeOK
<1>12. Types'
  <2>1. TypeOK'
    BY <1>7, <1>8, <1>9, <1>10, <1>11, SweeperFrame DEF Types, TypeOK
  <2>2. pc' \in [Producers -> Stages]
    BY SweeperFrame DEF Types
  <2>3. \A t \in Scanners : spc'[t] \in ScanSteps
    BY <1>2, SweeperFrame DEF Types, Sweepers
  <2>4. QED BY <1>1, <1>3, <2>1, <2>2, <2>3 DEF Types
<1>13. QED BY <1>4, <1>12

(* A sweeper takes a lock only when it is free and drops only its own.     *)
LEMMA SweeperHeld ==
    ASSUME Types, NEW s \in Sweepers, Begin(s) \/ Sweep(s) \/ DieSweeping(s),
           NEW h \in Producers, NEW t \in Producers \cup Sweepers, t # s
    PROVE  (held[h] = t => held'[h] = t) /\ (t \in shared[h] => t \in shared'[h])
<1>1. CASE Probe(s)
  BY <1>1, LeaseAssumption DEF Probe, Types, TypeOK, Sweepers
<1>2. CASE Drop(s) \/ Finish(s) \/ DieSweeping(s)
  BY <1>2 DEF Drop, Finish, DieSweeping, Stop, Unheld, Types, TypeOK
<1>3. CASE UNCHANGED <<held, shared>>
  BY <1>3
<1>4. QED
  BY <1>1, <1>2, <1>3 DEF Sweep, LockAndReadClaims, List, OpenLease, Classify, RemoveEmpty,
     Retire, Purge, Begin, staging

(* While a collector acts, or a scanner counts, the producer is past every *)
(* use of its object: it has a record and does not hold its lock.          *)
LEMMA VerdictHolds ==
    ASSUME Types, Opened, RecordsInv, LocksInv, SweepLocksInv, VerdictsInv,
           NEW s \in Sweepers, sweep[s].state = "collectable"
    PROVE  /\ Working(s) \in Producers
           /\ ~HoldsLease(Working(s))
           /\ pc[Working(s)] \in {"unacquire", "publish", "ended"}
           /\ Home(Working(s)) = "none"
<1> DEFINE h == Working(s)
<1>1. h \in Producers /\ spc[s] \in Acting \cup {"drop"} /\ record[h] # "empty"
  BY DEF VerdictsInv, Opened, Working, Holding, Acting
<1>2. (s \in Collectors /\ held[h] = s) \/ (s \in Scanners /\ s \in shared[h])
  BY <1>1 DEF Types, Sweepers, SweepLocksInv, Working, Holding, Acting, ScanSteps
<1>3. held[h] # h
  <2>1. CASE s \in Collectors /\ held[h] = s
    BY <1>1, <2>1, LeaseAssumption
  <2>2. CASE s \in Scanners /\ s \in shared[h]
    BY <1>1, <2>2, LeaseAssumption DEF Types, TypeOK
  <2>3. QED BY <1>2, <2>1, <2>2
<1>4. ~HoldsLease(h)
  BY <1>1, <1>3 DEF LocksInv
<1>5. pc[h] \in {"unacquire", "publish", "ended"}
  BY <1>1, <1>4 DEF RecordsInv, HoldsLease, Types, Stages
<1> HIDE DEF h
<1>6. Home(h) = "none"
  BY <1>4, <1>5 DEF Home, HoldsLease
<1>7. QED BY <1>1, <1>4, <1>5, <1>6 DEF h

(* The claims a gc read it keeps until it ends.                            *)
LEMMA ClaimedKept ==
    ASSUME Types, NEW s \in Sweepers, Begin(s) \/ Sweep(s) \/ DieSweeping(s),
           ~LockAndReadClaims(s), ~Finish(s), ~DieSweeping(s)
    PROVE  sweep'[s].claimed = sweep[s].claimed
<1>1. sweep \in [Sweepers -> SweepRecord] /\ sweep[s] \in SweepRecord
  BY DEF Types
<1>2. CASE List(s)
  BY <1>1, <1>2 DEF List, Set, SweepRecord
<1>3. CASE OpenLease(s)
  BY <1>1, <1>3 DEF OpenLease, Set, SweepRecord
<1>4. CASE Probe(s)
  BY <1>1, <1>4 DEF Probe, Set, SweepRecord
<1>5. CASE Classify(s)
  BY <1>1, <1>5 DEF Classify, Set, SweepRecord
<1>6. CASE Drop(s)
  BY <1>1, <1>6 DEF Drop, Set, SweepRecord
<1>7. CASE UNCHANGED sweep
  BY <1>7
<1>8. QED
  BY <1>2, <1>3, <1>4, <1>5, <1>6, <1>7 DEF Sweep, RemoveEmpty, Retire, Purge, Begin

(* No sweep disturbs what a producer's stage says of its lease.            *)
LEMMA SweeperPhases ==
    ASSUME Types, Opened, KindsInv, RecordsInv, LocksInv, SweepLocksInv, FilesInv, ClaimsInv,
           StoreLockInv, VerdictsInv,
           NEW s \in Sweepers, Begin(s) \/ Sweep(s) \/ DieSweeping(s)
    PROVE  KindsInv' /\ RecordsInv' /\ LocksInv' /\ FilesInv' /\ ClaimsInv' /\ StoreLockInv'
<1>1. UNCHANGED <<kind, pc, record, claims>>
  BY SweeperFrame
<1>2. KindsInv' /\ RecordsInv' /\ ClaimsInv'
  BY <1>1 DEF KindsInv, RecordsInv, ClaimsInv
<1>3. LocksInv'
  <2>1. \A h \in Producers : held[h] = h => held'[h] = h
    BY SweeperHeld, LeaseAssumption DEF Sweepers
  <2>2. QED BY <1>1, <2>1 DEF LocksInv, HoldsLease
<1>4. FilesInv'
  <2>1. ASSUME NEW h \in Producers, file[h], ~file'[h]
        PROVE  spc[s] = "unlink" /\ h = Working(s)
    BY <2>1 DEF Types, TypeOK, staging, Sweep, LockAndReadClaims, List, OpenLease, Probe,
       Classify, RemoveEmpty, Retire, Purge, Drop, Finish, Begin, DieSweeping
  <2>2. ASSUME NEW h \in Producers, file[h], ~file'[h]
        PROVE  ~HoldsLease(h) /\ pc[h] # "lock"
    BY <2>1, <2>2, VerdictHolds DEF VerdictsInv, Acting
  <2>3. QED BY <1>1, <2>2 DEF FilesInv, Filed, HoldsLease
<1>5. StoreLockInv'
  <2>1. \A h \in Producers : fulock = h => fulock' = h
    BY LeaseAssumption DEF Stop, Sweepers, Sweep, LockAndReadClaims, List, OpenLease, Probe,
       Classify, RemoveEmpty, Retire, Purge, Drop, Finish, Begin, DieSweeping
  <2>2. ASSUME NEW t \in Collectors, fulock' = t
        PROVE  claims' \subseteq sweep'[t].claimed
    <3>1. CASE t # s
      <4>1. fulock = t
        BY <2>2, <3>1, LeaseAssumption DEF Stop, Sweep, LockAndReadClaims, List, OpenLease,
           Probe, Classify, RemoveEmpty, Retire, Purge, Drop, Finish, Begin, DieSweeping
      <4>2. QED BY <4>1, <3>1, <1>1, SweeperFrame DEF StoreLockInv, Sweepers
    <3>2. CASE t = s
      <4>1. CASE LockAndReadClaims(s)
        BY <1>1, <3>2, <4>1 DEF LockAndReadClaims, Set, Types, SweepRecord
      <4>2. CASE ~LockAndReadClaims(s)
        <5>1. fulock = s /\ ~Finish(s) /\ ~DieSweeping(s)
          BY <2>2, <3>2, <4>2, LeaseAssumption DEF Stop, Sweep, LockAndReadClaims, List,
             OpenLease, Probe, Classify, RemoveEmpty, Retire, Purge, Drop, Finish, Begin,
             DieSweeping
        <5>2. sweep'[s].claimed = sweep[s].claimed
          BY <4>2, <5>1, ClaimedKept
        <5>3. QED BY <1>1, <2>2, <3>2, <5>1, <5>2 DEF StoreLockInv
      <4>3. QED BY <4>1, <4>2
    <3>3. QED BY <3>1, <3>2
  <2>3. QED BY <1>1, <2>1, <2>2 DEF StoreLockInv
<1>6. QED BY <1>2, <1>3, <1>4, <1>5

(* A sweeper holds the lock of its lease until it drops it.                *)
LEMMA SweeperLocks ==
    ASSUME Types, Opened, SweepLocksInv, VerdictsInv,
           NEW s \in Sweepers, Begin(s) \/ Sweep(s) \/ DieSweeping(s)
    PROVE  SweepLocksInv'
<1>1. ASSUME NEW h \in Producers
      PROVE  /\ \A t \in Collectors \ {s} : held[h] = t => held'[h] = t
             /\ \A t \in Scanners \ {s} : t \in shared[h] => t \in shared'[h]
  BY SweeperHeld DEF Sweepers
<1>2. ASSUME NEW t \in Sweepers \ {s}
      PROVE  /\ t \in Collectors /\ spc'[t] \in Holding => held'[sweep'[t].on] = t
             /\ t \in Scanners /\ spc'[t] \in {"classify", "drop"} => t \in shared'[sweep'[t].on]
  BY <1>1, SweeperFrame DEF SweepLocksInv, Opened, Holding, Acting
<1>3. /\ s \in Collectors /\ spc'[s] \in Holding => held'[sweep'[s].on] = s
      /\ s \in Scanners /\ spc'[s] \in {"classify", "drop"} => s \in shared'[sweep'[s].on]
  <2>1. CASE Probe(s)
    <3>1. Working(s) \in Producers
      BY <2>1 DEF Probe, Opened, Working
    <3>2. QED BY <2>1, <3>1, LeaseAssumption DEF Probe, At, Set, Working, Types, TypeOK, Holding,
                 Acting
  <2>2. CASE Classify(s)
    <3>1. sweep'[s].on = sweep[s].on
      BY <2>2 DEF Classify, Set, Types, SweepRecord
    <3>2. QED BY <2>2, <3>1 DEF Classify, SweepLocksInv, staging, Holding
  <2>3. CASE RemoveEmpty(s) \/ Retire(s) \/ Purge(s)
    BY <2>3 DEF RemoveEmpty, Retire, Purge, SweepLocksInv, Types, ScanSteps, Holding, Acting
  <2>4. CASE spc'[s] \notin Holding
    BY <2>4 DEF Holding
  <2>5. QED
    BY <2>1, <2>2, <2>3, <2>4 DEF At, Stop, Types, Holding, Acting, Sweep, LockAndReadClaims,
       List, OpenLease, Drop, Finish, Begin, DieSweeping
<1>4. QED BY <1>2, <1>3 DEF SweepLocksInv, Sweepers

(* One entry stands where no more than one does.                           *)
LEMMA OneName ==
    ASSUME NEW h \in Producers, Verdict(h) = "collectable"
    PROVE  /\ record[h] # "empty"
           /\ \A n \in Names : obj[h][n] # "none" => n = NameNow(h)
<1>1. record[h] # "empty" /\ ~(Cardinality(Present(h)) > 1)
  BY DEF Verdict
<1>2. IsFiniteSet(Names)
  <2>1. IsFiniteSet({})
    BY FS_EmptySet
  <2>2. IsFiniteSet({} \cup {"live"})
    BY <2>1, FS_AddElement
  <2>3. IsFiniteSet(({} \cup {"live"}) \cup {"clean"})
    BY <2>2, FS_AddElement
  <2>4. IsFiniteSet((({} \cup {"live"}) \cup {"clean"}) \cup {"orphan"})
    BY <2>3, FS_AddElement
  <2>5. IsFiniteSet(((({} \cup {"live"}) \cup {"clean"}) \cup {"orphan"}) \cup {"retired"})
    BY <2>4, FS_AddElement
  <2>6. Names = ((({} \cup {"live"}) \cup {"clean"}) \cup {"orphan"}) \cup {"retired"}
    BY DEF Names
  <2>7. QED BY <2>5, <2>6
<1>3. IsFiniteSet(Present(h))
  BY <1>2, FS_Subset DEF Present
<1>4. Cardinality(Present(h)) \in Nat
  BY <1>3, FS_CardinalityType
<1>5. CASE Cardinality(Present(h)) = 0
  BY <1>1, <1>3, <1>5, FS_EmptySet DEF Present
<1>6. CASE Cardinality(Present(h)) = 1
  <2>1. PICK m : Present(h) = {m}
    BY <1>3, <1>6, FS_Singleton
  <2>2. NameNow(h) = m
    BY <1>6, <2>1 DEF NameNow
  <2>3. QED BY <1>1, <2>1, <2>2 DEF Present
<1>7. QED BY <1>1, <1>4, <1>5, <1>6

(* A verdict is given under the lock and dropped with it.                  *)
LEMMA SweeperVerdicts ==
    ASSUME Types, Opened, VerdictsInv,
           NEW s \in Sweepers, Begin(s) \/ Sweep(s) \/ DieSweeping(s)
    PROVE  VerdictsInv'
<1> DEFINE V(t) ==
      /\ sweep'[t].state = "collectable" =>
            spc'[t] \in Acting \cup {"drop"} /\ record'[sweep'[t].on] # "empty"
      /\ spc'[t] \in Acting => sweep'[t].state = "collectable"
      /\ spc'[t] \in {"remove", "retire"} /\ sweep'[t].on \in sweep'[t].claimed
            => sweep'[t].name # "live"
      /\ spc'[t] = "retire" => sweep'[t].name \in Names
<1>1. record' = record
  BY SweeperFrame
<1>2. ASSUME NEW t \in Sweepers \ {s} PROVE V(t)
  BY <1>1, SweeperFrame DEF VerdictsInv
<1>3. V(s)
  <2>0. /\ sweep \in [Sweepers -> SweepRecord] /\ sweep[s] \in SweepRecord
        /\ spc \in [Sweepers -> Steps]
    BY DEF Types
  <2>1. CASE Classify(s)
    <3> DEFINE h == Working(s)
    <3>1. /\ sweep'[s] = [sweep[s] EXCEPT !.name = NameNow(h), !.state = Verdict(h)]
          /\ spc'[s] = IF s \in Collectors /\ Verdict(h) = "collectable" /\ ~Claimed(s, NameNow(h))
                 THEN "remove" ELSE "drop"
      BY <2>0, <2>1 DEF Classify, Set, At
    <3>2. /\ sweep'[s].state = Verdict(h) /\ sweep'[s].name = NameNow(h)
          /\ sweep'[s].on = h /\ sweep'[s].claimed = sweep[s].claimed
      BY <2>0, <3>1 DEF SweepRecord, Working
    <3>3. h \in Producers
      BY <2>1 DEF Classify, Opened, Holding, Working
    <3>4. Verdict(h) = "collectable" => record[h] # "empty"
      BY DEF Verdict
    <3> HIDE DEF h
    <3>5. h = Working(s)
      BY DEF h
    <3>6. QED BY <1>1, <3>1, <3>2, <3>4, <3>5 DEF Claimed, Acting
  <2>2. CASE RemoveEmpty(s)
    <3>1. sweep' = sweep /\ spc[s] = "remove" /\ spc'[s] \in {"unlink", "drop", "purge", "retire"}
      BY <2>0, <2>2 DEF RemoveEmpty, At
    <3>2. spc'[s] = "retire" => sweep[s].name # "none"
      BY <2>0, <2>2 DEF RemoveEmpty, At
    <3>3. QED BY <1>1, <2>0, <3>1, <3>2 DEF VerdictsInv, Acting, SweepRecord
  <2>3. CASE Retire(s) \/ Purge(s)
    BY <1>1, <2>0, <2>3 DEF Retire, Purge, At, VerdictsInv, Acting
  <2>4. CASE LockAndReadClaims(s) \/ List(s) \/ OpenLease(s) \/ Probe(s) \/ Begin(s)
    <3>1. sweep'[s].state = sweep[s].state
      <4>1. CASE LockAndReadClaims(s)
        BY <2>0, <4>1 DEF LockAndReadClaims, Set, SweepRecord
      <4>2. CASE List(s)
        BY <2>0, <4>2 DEF List, Set, SweepRecord
      <4>3. CASE OpenLease(s)
        BY <2>0, <4>3 DEF OpenLease, Set, SweepRecord
      <4>4. CASE Probe(s)
        BY <2>0, <4>4 DEF Probe, Set, SweepRecord
      <4>5. QED BY <2>4, <4>1, <4>2, <4>3, <4>4 DEF Begin
    <3>2. spc[s] \notin Acting \cup {"drop"} /\ spc'[s] \notin Acting
      BY <2>0, <2>4 DEF LockAndReadClaims, List, OpenLease, Probe, Begin, At, Acting
    <3>3. QED BY <3>1, <3>2 DEF VerdictsInv, Acting
  <2>5. CASE Drop(s) \/ Finish(s) \/ DieSweeping(s)
    <3>1. sweep'[s].state = "unset"
      <4>1. CASE Drop(s)
        BY <2>0, <4>1 DEF Drop, Set, SweepRecord
      <4>2. CASE Stop(s)
        BY <2>0, <4>2 DEF Stop, Set, NoSweep
      <4>3. QED BY <2>5, <4>1, <4>2 DEF Finish, DieSweeping
    <3>2. spc'[s] \notin Acting
      BY <2>0, <2>5 DEF Drop, Finish, DieSweeping, Stop, At, Acting
    <3>3. QED BY <3>1, <3>2 DEF Acting
  <2>6. QED BY <2>1, <2>2, <2>3, <2>4, <2>5 DEF Sweep
<1>4. QED BY <1>2, <1>3 DEF VerdictsInv

(* What a collector does to what stands in staging: nothing, or under the  *)
(* lock of a lease it found collectable one name is emptied or retired.    *)
LEMMA SweeperObject ==
    ASSUME Types, Opened, VerdictsInv,
           NEW s \in Sweepers, Begin(s) \/ Sweep(s) \/ DieSweeping(s)
    PROVE  \/ UNCHANGED obj
           \/ /\ spc[s] = "remove" /\ Put(Working(s), sweep[s].name, "none")
              /\ sweep[s].name \in Names /\ spc'[s] = "unlink"
           \/ /\ spc[s] = "retire" /\ Move(Working(s), sweep[s].name, "retired")
              /\ sweep[s].name \in Names \ {"retired"} /\ spc'[s] = "purge"
              /\ obj[Working(s)]["retired"] = "none"
           \/ /\ spc[s] = "purge" /\ Put(Working(s), "retired", "none") /\ spc'[s] = "unlink"
<1>0. sweep[s] \in SweepRecord /\ spc \in [Sweepers -> Steps]
  BY DEF Types
<1>1. CASE RemoveEmpty(s)
  BY <1>0, <1>1 DEF RemoveEmpty, At, Hollow, SweepRecord
<1>2. CASE Retire(s)
  <2>1. spc[s] = "retire" /\ sweep[s].name \in Names
    BY <1>2 DEF Retire, VerdictsInv
  <2>2. QED BY <1>0, <1>2, <2>1 DEF Retire, At
<1>3. CASE Purge(s)
  BY <1>0, <1>3 DEF Purge, At
<1>4. QED
  BY <1>1, <1>2, <1>3 DEF Sweep, LockAndReadClaims, List, OpenLease, Probe, Classify, Drop,
     Finish, Begin, DieSweeping, staging

(* Nobody's own object appears by a sweep: it is where it was, or in the   *)
(* retired name instead.                                                   *)
LEMMA SweeperOwn ==
    ASSUME Types, Opened, VerdictsInv,
           NEW s \in Sweepers, Begin(s) \/ Sweep(s) \/ DieSweeping(s),
           NEW h \in Producers, NEW n \in Names, obj'[h][n] \in Own
    PROVE  \/ obj[h][n] = obj'[h][n]
           \/ /\ spc[s] = "retire" /\ h = Working(s) /\ n = "retired"
              /\ sweep[s].name \in Names \ {"retired"}
              /\ obj[h][sweep[s].name] = obj'[h][n]
              /\ obj'[h][sweep[s].name] = "none"
<1>1. obj \in [Producers -> [Names -> Entry]] /\ "none" \notin Own
  BY DEF Types, TypeOK, Own
<1>2. CASE UNCHANGED obj
  BY <1>2
<1>3. CASE \E m \in Names : Put(Working(s), m, "none")
  BY <1>1, <1>3 DEF Put
<1>4. CASE /\ spc[s] = "retire" /\ Move(Working(s), sweep[s].name, "retired")
           /\ sweep[s].name \in Names \ {"retired"}
  BY <1>1, <1>4 DEF Move, Names
<1>5. QED
  BY <1>2, <1>3, <1>4, SweeperObject DEF Names

(* Nothing in use is taken, and no lease goes before its object.           *)
LEMMA SweeperObjects ==
    ASSUME Types, Opened, RecordsInv, LocksInv, SweepLocksInv, VerdictsInv, ClaimsInv, StoreLockInv,
           OneOwnInv, NoOwnInv, WhereInv, LostInv, InUseKept, Evidence,
           NEW s \in Sweepers, Begin(s) \/ Sweep(s) \/ DieSweeping(s)
    PROVE  OneOwnInv' /\ NoOwnInv' /\ WhereInv' /\ LostInv' /\ InUseKept' /\ Evidence'
<1>0. /\ obj \in [Producers -> [Names -> Entry]] /\ sweep \in [Sweepers -> SweepRecord]
      /\ spc \in [Sweepers -> Steps] /\ "none" \notin Own
  BY DEF Types, TypeOK, Own
<1>1. UNCHANGED <<kind, pc, record, claims, displaced>>
  BY SweeperFrame
<1>2. LostInv'
  <2>1. lost' = lost
    BY DEF MovedIsOwn, Own, Sweep, LockAndReadClaims, List, OpenLease, Probe, Classify,
       RemoveEmpty, Retire, Purge, Drop, Finish, Begin, DieSweeping
  <2>2. QED BY <1>1, <2>1 DEF LostInv
<1>3. OneOwnInv'
  BY SweeperOwn, <1>0 DEF OneOwnInv
<1>4. NoOwnInv'
  BY SweeperOwn, <1>1 DEF NoOwnInv
<1>5. spc[s] \in Acting =>
        /\ s \in Collectors /\ Working(s) \in Producers /\ held[Working(s)] = s
        /\ ~HoldsLease(Working(s)) /\ Home(Working(s)) = "none"
  <2>1. spc[s] \in Acting => s \in Collectors /\ held[Working(s)] = s
    BY DEF Types, ScanSteps, Sweepers, SweepLocksInv, Working, Holding, Acting
  <2>2. QED BY <2>1, VerdictHolds DEF VerdictsInv
<1>6. \A h \in Producers : obj'[h] # obj[h] => spc[s] \in Acting /\ h = Working(s)
  BY <1>0, SweeperObject DEF Put, Move, Acting
<1>7. WhereInv'
  <2> SUFFICES ASSUME NEW t \in Collectors, NEW n \in Names,
                      spc'[t] \in Acting, obj'[sweep'[t].on][n] \in Own
               PROVE  /\ spc'[t] # "unlink"
                      /\ n = IF spc'[t] = "purge" THEN "retired" ELSE sweep'[t].name
    BY DEF WhereInv
  <2>1. CASE t # s
    <3>1. spc'[t] = spc[t] /\ sweep'[t] = sweep[t]
      BY <2>1, SweeperFrame DEF Sweepers
    <3>2. held[sweep[t].on] = t /\ sweep[t].on \in Producers
      BY <3>1 DEF SweepLocksInv, Opened, Holding, Sweepers
    <3>3. obj'[sweep[t].on] = obj[sweep[t].on]
      BY <1>5, <1>6, <2>1, <3>2
    <3>4. QED BY <3>1, <3>3 DEF WhereInv
  <2>2. CASE t = s
    <3> DEFINE h == Working(s)
               m == sweep[s].name
    <3>0. h \in Producers \/ spc[s] \notin Holding
      BY DEF Opened, Working, Holding
    <3>1. CASE Classify(s)
      <4>1. /\ sweep'[s] = [sweep[s] EXCEPT !.name = NameNow(h), !.state = Verdict(h)]
            /\ spc'[s] = "remove" /\ Verdict(h) = "collectable" /\ UNCHANGED obj
        BY <1>0, <2>2, <3>1 DEF Classify, Set, At, Acting, staging
      <4>2. sweep'[s].on = h /\ sweep'[s].name = NameNow(h)
        BY <1>0, <4>1 DEF SweepRecord, Working
      <4>3. n = NameNow(h)
        BY <1>0, <2>2, <3>0, <3>1, <4>1, <4>2, OneName DEF Classify, Holding
      <4>4. QED BY <2>2, <4>1, <4>2, <4>3
    <3>2. CASE RemoveEmpty(s)
      <4>1. /\ spc[s] = "remove" /\ sweep' = sweep /\ s \in Collectors /\ h \in Producers
            /\ obj'[h][n] \in Own
        BY <1>5, <2>2, <3>2 DEF RemoveEmpty, Acting, Working
      <4>2. \A k \in Names : obj[h][k] \in Own => k = m
        BY <4>1 DEF WhereInv, Working, Acting
      <4>3. CASE Put(h, m, "none")
        <5>1. n # m /\ obj[h][n] \in Own
          BY <1>0, <4>1, <4>3 DEF Put
        <5>2. QED BY <4>2, <5>1
      <4>4. CASE UNCHANGED obj
        <5>1. n = m /\ m \in Names /\ obj[h][m] \in Own
          BY <4>1, <4>2, <4>4
        <5>2. m # "none"
          BY <5>1 DEF Names
        <5>3. obj[h][m] \notin {"none"} /\ ~Put(h, m, "none")
          BY <1>0, <4>1, <4>4, <5>1 DEF Put
        <5>4. spc'[s] \in {"drop", "purge", "retire"} /\ (spc'[s] = "purge" => m = "retired")
          BY <1>0, <3>2, <5>2, <5>3 DEF RemoveEmpty, At
        <5>5. QED BY <2>2, <4>1, <5>1, <5>4
      <4>5. QED BY <3>2, <4>3, <4>4 DEF RemoveEmpty
    <3>3. CASE Retire(s)
      <4>1. /\ spc[s] = "retire" /\ spc'[s] = "purge" /\ Move(h, m, "retired") /\ sweep' = sweep
            /\ m \in Names \ {"retired"}
        <5>1. spc[s] = "retire" /\ m \in Names
          BY <3>3 DEF Retire, VerdictsInv
        <5>2. QED BY <1>0, <2>2, <3>3, <5>1 DEF Retire, At, Acting
      <4>2. s \in Collectors /\ h \in Producers /\ obj'[h][n] \in Own
        BY <1>5, <2>2, <4>1 DEF Acting, Working
      <4>3. obj[h][n] \in Own => n = m
        BY <4>1, <4>2 DEF WhereInv, Working, Acting
      <4>4. obj'[h][m] = "none"
        BY <1>0, <4>1, <4>2 DEF Move
      <4>5. n = "retired"
        BY <1>0, <4>2, <4>3, <4>4, SweeperOwn
      <4>6. QED BY <2>2, <4>1, <4>5
    <3>4. CASE Purge(s)
      <4>1. spc[s] = "purge" /\ Put(h, "retired", "none") /\ sweep' = sweep
        BY <1>0, <2>2, <3>4 DEF Purge, At, Acting
      <4>2. s \in Collectors /\ h \in Producers /\ obj'[h][n] \in Own
        BY <1>5, <2>2, <4>1 DEF Acting, Working
      <4>3. n # "retired" /\ obj[h][n] \in Own
        BY <1>0, <4>1, <4>2 DEF Put
      <4>4. QED BY <4>1, <4>2, <4>3 DEF WhereInv, Working, Acting
    <3>5. QED
      BY <1>0, <2>2, <3>1, <3>2, <3>3, <3>4 DEF At, Stop, Acting, Sweep, LockAndReadClaims, List,
         OpenLease, Probe, Drop, Finish, Begin, DieSweeping
  <2>3. QED BY <2>1, <2>2
<1>8. InUseKept'
  <2>1. \A h \in Producers : Home(h)' = Home(h)
    BY <1>1 DEF Home
  <2>2. ASSUME NEW h \in Producers, Home(h) # "none", h \notin displaced
        PROVE  obj'[h][Home(h)] \in Own
    BY <2>2, <1>5, <1>6 DEF InUseKept
  <2>3. ASSUME NEW h \in claims, h \notin displaced, h \notin blind'
        PROVE  obj'[h]["live"] \in Own
    <3> DEFINE g == Working(s)
               m == sweep[s].name
    <3>1. h \in Producers /\ h \notin blind /\ obj[h]["live"] \in Own
      <4>1. blind \subseteq blind'
        BY DEF TakenBlindly, Sweep, LockAndReadClaims, List, OpenLease, Probe, Classify,
           RemoveEmpty, Retire, Purge, Drop, Finish, Begin, DieSweeping
      <4>2. QED BY <2>3, <4>1 DEF InUseKept, Types, TypeOK
    <3>2. CASE spc[s] \in {"remove", "retire"} /\ h = g /\ m = "live" /\ obj' # obj
      <4>1. blind' = TakenBlindly(s)
        BY <3>1, <3>2 DEF Sweep, LockAndReadClaims, List, OpenLease, Probe, Classify,
           RemoveEmpty, Retire, Purge, Drop, Finish, Begin, DieSweeping, Own, staging
      <4>2. fulock = s
        BY <2>3, <3>2, <4>1 DEF TakenBlindly
      <4>3. h \in sweep[s].claimed
        BY <1>5, <2>3, <3>2, <4>2 DEF StoreLockInv, Acting
      <4>4. QED BY <3>2, <4>3 DEF VerdictsInv, Working
    <3>3. CASE ~(spc[s] \in {"remove", "retire"} /\ h = g /\ m = "live" /\ obj' # obj)
      <4>1. obj'[h]["live"] = obj[h]["live"]
        <5>1. "live" \in Names /\ "retired" # "live"
          BY DEF Names
        <5>2. CASE obj' = obj
          BY <5>2
        <5>3. CASE Put(g, m, "none") /\ spc[s] = "remove"
          BY <1>0, <3>1, <3>3, <5>1, <5>3 DEF Put
        <5>4. CASE Put(g, "retired", "none")
          BY <1>0, <3>1, <5>1, <5>4 DEF Put
        <5>5. CASE Move(g, m, "retired") /\ spc[s] = "retire"
          BY <1>0, <3>1, <3>3, <5>1, <5>5 DEF Move
        <5>6. QED BY <5>2, <5>3, <5>4, <5>5, SweeperObject
      <4>2. QED BY <3>1, <4>1
    <3>4. QED BY <3>2, <3>3
  <2>4. QED BY <1>1, <2>1, <2>2, <2>3 DEF InUseKept
<1>9. Evidence'
  <2> SUFFICES ASSUME NEW h \in Producers, NEW n \in Names, obj'[h][n] \in Own, h \notin claims
               PROVE  /\ file'[h]
                      /\ record[h] = "identified" \/ (record[h] = "named" /\ obj'[h][n] = "empty")
    BY <1>1 DEF Evidence
  <2>1. PICK m \in Names : obj[h][m] = obj'[h][n]
    BY SweeperOwn
  <2>2. /\ file[h]
        /\ record[h] = "identified" \/ (record[h] = "named" /\ obj'[h][n] = "empty")
    BY <2>1 DEF Evidence
  <2>3. file'[h] = file[h]
    <3>1. CASE spc[s] = "unlink" /\ Drop(s) /\ h = Working(s)
      BY <1>5, <2>1, <3>1 DEF WhereInv, Working, Acting
    <3>2. CASE ~(spc[s] = "unlink" /\ Drop(s) /\ h = Working(s))
      BY <2>2, <3>2 DEF Types, TypeOK, Sweep, LockAndReadClaims, List, OpenLease, Probe,
         Classify, RemoveEmpty, Retire, Purge, Drop, Finish, Begin, DieSweeping, staging
    <3>3. QED BY <3>1, <3>2
  <2>4. QED BY <2>2, <2>3
<1>10. QED BY <1>2, <1>3, <1>4, <1>7, <1>8, <1>9

--------------------------------------------------------------------------------
(* A producer keeps every type.                                            *)
LEMMA ProducerTypes ==
    ASSUME Types, NEW h \in Producers, Produce(h) \/ Die(h) \/ Recover(h)
    PROVE  Types'
<1>1. pc' \in [Producers -> Stages]
  BY DEF Types, TypeOK, Goto, End, Stages, Locked, Produce, Start, CreateLease, LockLease,
     WriteLease, Unacquire, MakeObject, AttachIdentity, Fill, Quarantine, EmptyQuarantine,
     RemoveQuarantine, RetireOrphan, RemoveOrphan, Discard, Unwind, JournalRoot, ReleaseLease,
     UnlockLease, PublishRoot, PublishClone, Die, Recover
<1>2. held' \in [Producers -> Producers \cup Collectors \cup {Nobody}]
  BY DEF Types, TypeOK, End, staging, Produce, Start, CreateLease, LockLease, WriteLease,
     Unacquire, MakeObject, AttachIdentity, Fill, Quarantine, EmptyQuarantine, RemoveQuarantine,
     RetireOrphan, RemoveOrphan, Discard, Unwind, JournalRoot, ReleaseLease, UnlockLease,
     PublishRoot, PublishClone, Die, Recover
<1>3. \A g \in Producers : held'[g] = Nobody \/ shared'[g] = {}
  BY DEF Types, TypeOK, Elsewhere, End, staging, Produce, Start, CreateLease, LockLease,
     WriteLease, Unacquire, MakeObject, AttachIdentity, Fill, Quarantine, EmptyQuarantine,
     RemoveQuarantine, RetireOrphan, RemoveOrphan, Discard, Unwind, JournalRoot, ReleaseLease,
     UnlockLease, PublishRoot, PublishClone, Die, Recover
<1>4. record' \in [Producers -> {"empty", "named", "identified"}]
  BY DEF Types, TypeOK, staging, Produce, Start, CreateLease, LockLease, WriteLease, Unacquire,
     MakeObject, AttachIdentity, Fill, Quarantine, EmptyQuarantine, RemoveQuarantine,
     RetireOrphan, RemoveOrphan, Discard, Unwind, JournalRoot, ReleaseLease, UnlockLease,
     PublishRoot, PublishClone, Die, Recover
<1>5. \A g \in Producers : pc'[g] = "idle" => ~file'[g]
  BY DEF Types, TypeOK, Goto, End, staging, Produce, Start, CreateLease, LockLease, WriteLease,
     Unacquire, MakeObject, AttachIdentity, Fill, Quarantine, EmptyQuarantine, RemoveQuarantine,
     RetireOrphan, RemoveOrphan, Discard, Unwind, JournalRoot, ReleaseLease, UnlockLease,
     PublishRoot, PublishClone, Die, Recover
<1>6. obj' \in [Producers -> [Names -> Entry]]
  <2>1. \/ UNCHANGED obj
        \/ \E n \in Names : \E e \in Entry : Put(h, n, e)
        \/ \E m, n \in Names : Move(h, m, n)
    BY DEF Names, Entry, Own, staging, Produce, Start, CreateLease, LockLease, WriteLease,
       Unacquire, MakeObject, AttachIdentity, Fill, Quarantine, EmptyQuarantine,
       RemoveQuarantine, RetireOrphan, RemoveOrphan, Discard, Unwind, JournalRoot, ReleaseLease,
       UnlockLease, PublishRoot, PublishClone, Die, Recover
  <2>2. obj \in [Producers -> [Names -> Entry]]
    BY DEF Types, TypeOK
  <2>3. CASE UNCHANGED obj
    BY <2>2, <2>3
  <2>4. CASE \E n \in Names : \E e \in Entry : Put(h, n, e)
    BY <2>2, <2>4, EntriesTyped
  <2>5. CASE \E m, n \in Names : Move(h, m, n)
    BY <2>2, <2>5, EntriesTyped
  <2>6. QED BY <2>1, <2>3, <2>4, <2>5
<1>7. file' \in [Producers -> BOOLEAN]
  BY DEF Types, TypeOK, staging, Produce, Start, CreateLease, LockLease, WriteLease, Unacquire,
     MakeObject, AttachIdentity, Fill, Quarantine, EmptyQuarantine, RemoveQuarantine,
     RetireOrphan, RemoveOrphan, Discard, Unwind, JournalRoot, ReleaseLease, UnlockLease,
     PublishRoot, PublishClone, Die, Recover
<1>8. fulock' \in Producers \cup Collectors \cup {Nobody}
  BY DEF Types, TypeOK, End, Elsewhere, Produce, Start, CreateLease, LockLease, WriteLease,
     Unacquire, MakeObject, AttachIdentity, Fill, Quarantine, EmptyQuarantine, RemoveQuarantine,
     RetireOrphan, RemoveOrphan, Discard, Unwind, JournalRoot, ReleaseLease, UnlockLease,
     PublishRoot, PublishClone, Die, Recover
<1>9. claims' \subseteq Producers
  BY DEF Types, TypeOK, Produce, Start, CreateLease, LockLease, WriteLease, Unacquire,
     MakeObject, AttachIdentity, Fill, Quarantine, EmptyQuarantine, RemoveQuarantine,
     RetireOrphan, RemoveOrphan, Discard, Unwind, JournalRoot, ReleaseLease, UnlockLease,
     PublishRoot, PublishClone, Die, Recover
<1>10. lost' \subseteq Producers \X {"gc", "producer"}
  BY DEF Types, TypeOK, ghosts, Produce, Start, CreateLease, LockLease, WriteLease, Unacquire,
     MakeObject, AttachIdentity, Fill, Quarantine, EmptyQuarantine, RemoveQuarantine,
     RetireOrphan, RemoveOrphan, Discard, Unwind, JournalRoot, ReleaseLease, UnlockLease,
     PublishRoot, PublishClone, Die, Recover
<1>11. store' \in BOOLEAN
  BY DEF Types, TypeOK, Elsewhere, Produce, Start, CreateLease, LockLease, WriteLease, Unacquire,
     MakeObject, AttachIdentity, Fill, Quarantine, EmptyQuarantine, RemoveQuarantine,
     RetireOrphan, RemoveOrphan, Discard, Unwind, JournalRoot, ReleaseLease, UnlockLease,
     PublishRoot, PublishClone, Die, Recover
<1>12. kind' \in [Producers -> Kinds]
  BY DEF Types, TypeOK, Elsewhere, Produce, Start, CreateLease, LockLease, WriteLease, Unacquire,
     MakeObject, AttachIdentity, Fill, Quarantine, EmptyQuarantine, RemoveQuarantine,
     RetireOrphan, RemoveOrphan, Discard, Unwind, JournalRoot, ReleaseLease, UnlockLease,
     PublishRoot, PublishClone, Die, Recover
<1>13. TypeOK'
  BY <1>2, <1>3, <1>4, <1>5, <1>6, <1>7, <1>8, <1>9, <1>10, <1>11, <1>12, ProducerFrame
     DEF Types, TypeOK
<1>14. QED BY <1>1, <1>13, ProducerFrame DEF Types

(* A producer disturbs no lease whose lock a sweeper holds.                *)
LEMMA ProducerSweeps ==
    ASSUME Types, Opened, RecordsInv, LocksInv, SweepLocksInv, VerdictsInv, WhereInv,
           NEW h \in Producers, Produce(h) \/ Die(h) \/ Recover(h)
    PROVE  Opened' /\ SweepLocksInv' /\ VerdictsInv' /\ WhereInv'
<1>1. UNCHANGED <<shared, spc, sweep>> /\ \A g \in Producers \ {h} : Same(g)
  BY ProducerFrame
<1>2. Opened'
  BY <1>1 DEF Opened
<1>3. \A t \in Collectors : held[h] = t => held'[h] = t
  BY LeaseAssumption DEF LocksInv, HoldsLease, Locked, Types, TypeOK, End, Elsewhere, staging,
     Produce, Start, CreateLease, LockLease, WriteLease, Unacquire, MakeObject, AttachIdentity,
     Fill, Quarantine, EmptyQuarantine, RemoveQuarantine, RetireOrphan, RemoveOrphan, Discard,
     Unwind, JournalRoot, ReleaseLease, UnlockLease, PublishRoot, PublishClone, Die, Recover
<1>4. SweepLocksInv'
  <2>1. \A s \in Collectors : spc[s] \in Holding => held'[sweep[s].on] = s
    BY <1>1, <1>3 DEF SweepLocksInv, Opened, Same, Sweepers
  <2>2. QED BY <1>1, <2>1 DEF SweepLocksInv
<1>5. ASSUME NEW s \in Sweepers, sweep[s].state = "collectable", Working(s) = h
      PROVE  /\ record'[h] = record[h]
             /\ \A n \in Names : obj'[h][n] \in Own => obj[h][n] \in Own
  <2>1. pc[h] \in {"unacquire", "publish", "ended"} /\ ~HoldsLease(h)
    BY <1>5, VerdictHolds
  <2>2. record'[h] = record[h]
    BY <2>1 DEF Produce, Start, CreateLease, LockLease, WriteLease, Unacquire, MakeObject,
       AttachIdentity, Fill, Quarantine, EmptyQuarantine, RemoveQuarantine, RetireOrphan,
       RemoveOrphan, Discard, Unwind, JournalRoot, ReleaseLease, UnlockLease, PublishRoot,
       PublishClone, Die, Recover
  <2>3. obj' = obj \/ Put(h, "live", "none")
    BY <2>1 DEF HoldsLease, staging, Produce, Start, CreateLease, LockLease, WriteLease,
       Unacquire, MakeObject, AttachIdentity, Fill, Quarantine, EmptyQuarantine,
       RemoveQuarantine, RetireOrphan, RemoveOrphan, Discard, Unwind, JournalRoot, ReleaseLease,
       UnlockLease, PublishRoot, PublishClone, Die, Recover
  <2>4. QED BY <2>2, <2>3 DEF Put, Types, TypeOK, Own
<1>6. VerdictsInv'
  <2>1. \A s \in Sweepers : sweep[s].state = "collectable" => sweep[s].on \in Producers
    BY VerdictHolds DEF Working
  <2>2. \A s \in Sweepers : sweep[s].state = "collectable"
            => record'[sweep[s].on] = record[sweep[s].on]
    BY <1>1, <1>5, <2>1 DEF Same, Working
  <2>3. QED BY <1>1, <2>2 DEF VerdictsInv
<1>7. WhereInv'
  <2>1. ASSUME NEW s \in Collectors, NEW n \in Names, spc[s] \in Acting,
               obj'[sweep[s].on][n] \in Own
        PROVE  obj[sweep[s].on][n] \in Own
    <3>1. sweep[s].state = "collectable" /\ sweep[s].on \in Producers
      BY <2>1 DEF VerdictsInv, Opened, Holding, Sweepers
    <3>2. QED BY <1>1, <1>5, <2>1, <3>1 DEF Same, Working, Sweepers
  <2>2. QED BY <1>1, <2>1 DEF WhereInv
<1>8. QED BY <1>2, <1>4, <1>6, <1>7

(* A producer makes one object and knows where it is.                      *)
LEMMA ProducerObjects ==
    ASSUME Types, KindsInv, RecordsInv, LocksInv, FilesInv, ClaimsInv,
           OneOwnInv, NoOwnInv, LostInv, InUseKept, Evidence,
           NEW h \in Producers, Produce(h) \/ Die(h) \/ Recover(h)
    PROVE  OneOwnInv' /\ NoOwnInv' /\ LostInv' /\ InUseKept' /\ Evidence'
<1>0. UNCHANGED <<displaced, blind>> /\ \A g \in Producers \ {h} : Same(g)
  BY ProducerFrame
<1>1. \A g \in Producers \ {h} : Home(g)' = Home(g)
  BY <1>0 DEF Same, Home
<1>2. OneOwnInv'
  <2>1. \A m, n \in Names : obj'[h][m] \in Own /\ obj'[h][n] \in Own => m = n
    BY DEF OneOwnInv, NoOwnInv, Types, TypeOK, Put, Move, Own, Names, staging, Produce, Start,
       CreateLease, LockLease, WriteLease, Unacquire, MakeObject, AttachIdentity, Fill,
       Quarantine, EmptyQuarantine, RemoveQuarantine, RetireOrphan, RemoveOrphan, Discard,
       Unwind, JournalRoot, ReleaseLease, UnlockLease, PublishRoot, PublishClone, Die, Recover
  <2>2. QED BY <1>0, <2>1 DEF OneOwnInv, Same
<1>3. NoOwnInv'
  <2>1. \A n \in Names : 
    pc'[h] \in {"idle", "create", "lock", "write", "unacquire", "make", "release", "unlock"}
        => obj'[h][n] \notin Own
    BY DEF OneOwnInv, NoOwnInv, Types, TypeOK, Put, Move, Goto, End, Own, Names, Present,
       staging, Produce, Start, CreateLease, LockLease, WriteLease, Unacquire, MakeObject,
       AttachIdentity, Fill, Quarantine, EmptyQuarantine, RemoveQuarantine, RetireOrphan,
       RemoveOrphan, Discard, Unwind, JournalRoot, ReleaseLease, UnlockLease, PublishRoot,
       PublishClone, Die, Recover
  <2>2. QED BY <1>0, <2>1 DEF NoOwnInv, Same
<1>4. LostInv'
  BY DEF LostInv, KindsInv, Types, TypeOK, Goto, End, Elsewhere, ghosts, Produce, Start,
     CreateLease, LockLease, WriteLease, Unacquire, MakeObject, AttachIdentity, Fill, Quarantine,
     EmptyQuarantine, RemoveQuarantine, RetireOrphan, RemoveOrphan, Discard, Unwind, JournalRoot,
     ReleaseLease, UnlockLease, PublishRoot, PublishClone, Die, Recover
<1>5. \A n \in Names : obj'[h][n] \in Own /\ h \notin claims' => 
          /\ file'[h]
          /\ record'[h] = "identified" \/ (record'[h] = "named" /\ obj'[h][n] = "empty")
  BY DEF Evidence, RecordsInv, ClaimsInv, FilesInv, Filed, Locked, OneOwnInv, NoOwnInv, Types,
     TypeOK, Put, Move, Goto, End, Own, Names, Present, staging, Produce, Start, CreateLease,
     LockLease, WriteLease, Unacquire, MakeObject, AttachIdentity, Fill, Quarantine,
     EmptyQuarantine, RemoveQuarantine, RetireOrphan, RemoveOrphan, Discard, Unwind, JournalRoot,
     ReleaseLease, UnlockLease, PublishRoot, PublishClone, Die, Recover
<1>6. Home(h)' # "none" /\ h \notin displaced => obj'[h][Home(h)'] \in Own
  <2> DEFINE AtLive == {"attach", "fill", "close", "orphan", "discard", "journal", "handover"}
  <2>1. h \notin displaced =>
          /\ pc[h] \in AtLive \/ (pc[h] = "publish" /\ kind[h] = "clone") => obj[h]["live"] \in Own
          /\ pc[h] \in {"quarantined", "emptied"} => obj[h]["clean"] \in Own
          /\ pc[h] = "orphaned" => obj[h]["orphan"] \in Own
    BY DEF InUseKept, Home
  <2>2. h \notin displaced =>
          (pc'[h] \in AtLive \/ (pc'[h] = "publish" /\ kind'[h] = "clone")
             => obj'[h]["live"] \in Own)
    BY <2>1 DEF KindsInv, Types, TypeOK, Put, Move, Goto, End, Elsewhere, Own, Names, staging,
       Produce, Start, CreateLease, LockLease, WriteLease, Unacquire, MakeObject, AttachIdentity,
       Fill, Quarantine, EmptyQuarantine, RemoveQuarantine, RetireOrphan, RemoveOrphan, Discard,
       Unwind, JournalRoot, ReleaseLease, UnlockLease, PublishRoot, PublishClone, Die, Recover
  <2>3. h \notin displaced => (pc'[h] \in {"quarantined", "emptied"} => obj'[h]["clean"] \in Own)
    BY <2>1 DEF KindsInv, Types, TypeOK, Put, Move, Goto, End, Own, Names, staging, Produce,
       Start, CreateLease, LockLease, WriteLease, Unacquire, MakeObject, AttachIdentity, Fill,
       Quarantine, EmptyQuarantine, RemoveQuarantine, RetireOrphan, RemoveOrphan, Discard,
       Unwind, JournalRoot, ReleaseLease, UnlockLease, PublishRoot, PublishClone, Die, Recover
  <2>4. h \notin displaced => (pc'[h] = "orphaned" => obj'[h]["orphan"] \in Own)
    BY <2>1 DEF KindsInv, Types, TypeOK, Put, Move, Goto, End, Own, Names, staging, Produce,
       Start, CreateLease, LockLease, WriteLease, Unacquire, MakeObject, AttachIdentity, Fill,
       Quarantine, EmptyQuarantine, RemoveQuarantine, RetireOrphan, RemoveOrphan, Discard,
       Unwind, JournalRoot, ReleaseLease, UnlockLease, PublishRoot, PublishClone, Die, Recover
  <2>5. QED BY <2>2, <2>3, <2>4 DEF Home
<1>7. h \in claims' \ (displaced \cup blind) => obj'[h]["live"] \in Own
  BY DEF InUseKept, Home, ClaimsInv, KindsInv, Types, TypeOK, Put, Move, Goto, End, Own, Names,
     staging, Produce, Start, CreateLease, LockLease, WriteLease, Unacquire, MakeObject,
     AttachIdentity, Fill, Quarantine, EmptyQuarantine, RemoveQuarantine, RetireOrphan,
     RemoveOrphan, Discard, Unwind, JournalRoot, ReleaseLease, UnlockLease, PublishRoot,
     PublishClone, Die, Recover
<1>8. InUseKept'
  <2>1. claims' \subseteq Producers
    BY DEF Types, TypeOK, Produce, Start, CreateLease, LockLease, WriteLease, Unacquire,
       MakeObject, AttachIdentity, Fill, Quarantine, EmptyQuarantine, RemoveQuarantine,
       RetireOrphan, RemoveOrphan, Discard, Unwind, JournalRoot, ReleaseLease, UnlockLease,
       PublishRoot, PublishClone, Die, Recover
  <2>2. ASSUME NEW g \in Producers
        PROVE  Home(g)' # "none" /\ g \notin displaced => obj'[g][Home(g)'] \in Own
    BY <1>0, <1>1, <1>6 DEF InUseKept, Same
  <2>3. ASSUME NEW g \in claims' \ (displaced \cup blind)
        PROVE  obj'[g]["live"] \in Own
    BY <1>0, <1>7, <2>1 DEF InUseKept, Same
  <2>4. QED BY <1>0, <2>2, <2>3 DEF InUseKept
<1>9. Evidence'
  <2> SUFFICES ASSUME NEW g \in Producers, NEW n \in Names, obj'[g][n] \in Own, g \notin claims'
               PROVE  /\ file'[g]
                      /\ record'[g] = "identified" \/ (record'[g] = "named" /\ obj'[g][n] = "empty")
    BY DEF Evidence
  <2>1. CASE g = h
    BY <1>5, <2>1
  <2>2. CASE g # h
    BY <1>0, <2>2 DEF Evidence, Same
  <2>3. QED BY <2>1, <2>2
<1>10. QED BY <1>2, <1>3, <1>4, <1>8, <1>9

--------------------------------------------------------------------------------
(* A user adds nothing of fu's, and fu init nothing at all.                *)
LEMMA OthersKeep ==
    ASSUME IInv, InitStore \/ \E h \in Producers, n \in Names : Meddle(h, n)
    PROVE  IInv'
<1>1. CASE InitStore
  BY <1>1 DEF IInv, InitStore, Types, TypeOK, Opened, KindsInv, RecordsInv, LocksInv, HoldsLease,
     SweepLocksInv, FilesInv, StoreLockInv, ClaimsInv, VerdictsInv, OneOwnInv, NoOwnInv,
     WhereInv, LostInv, InUseKept, Home, Evidence, producer, staging, sweeping, ghosts, bounds
<1>2. ASSUME NEW h \in Producers, NEW n \in Names, Meddle(h, n) PROVE IInv'
  <2>0. Types
    BY DEF IInv
  <2>1. UNCHANGED <<store, fulock, kind, pc, file, record, held, shared, claims, spc, sweep,
                    lost, blind>>
    BY <1>2 DEF Meddle, producer, sweeping
  <2>2. PICK e \in Theirs : Put(h, n, e)
    BY <1>2 DEF Meddle
  <2>3. obj' \in [Producers -> [Names -> Entry]]
    BY <2>0, <2>2, EntriesTyped DEF Types, TypeOK, Entry
  <2>4. ASSUME NEW g \in Producers, NEW m \in Names
        PROVE  /\ obj'[g][m] = obj[g][m] \/ (g = h /\ m = n /\ obj'[g][m] \notin Own)
               /\ obj'[g][m] \in Own => obj[g][m] = obj'[g][m]
    BY <2>0, <2>2 DEF Put, Types, TypeOK, Theirs, Own
  <2>5. displaced' = displaced \cup {g \in {h} : obj[h][n] \in Own}
    BY <1>2 DEF Meddle
  <2>6. Types'
    BY <2>0, <2>1, <2>3, <2>5 DEF Types, TypeOK
  <2>7. /\ Opened' /\ KindsInv' /\ RecordsInv' /\ LocksInv' /\ SweepLocksInv' /\ FilesInv'
        /\ StoreLockInv' /\ ClaimsInv' /\ VerdictsInv' /\ LostInv'
    BY <2>1 DEF IInv, Opened, KindsInv, RecordsInv, LocksInv, HoldsLease, SweepLocksInv,
       FilesInv, StoreLockInv, ClaimsInv, VerdictsInv, LostInv
  <2>8. OneOwnInv' /\ NoOwnInv'
    BY <2>1, <2>4 DEF IInv, OneOwnInv, NoOwnInv
  <2>9. WhereInv'
    <3>1. \A s \in Collectors : spc[s] \in Acting => sweep[s].on \in Producers
      BY DEF IInv, Opened, Holding, Sweepers
    <3>2. QED BY <2>1, <2>4, <3>1 DEF IInv, WhereInv
  <2>10. InUseKept'
    <3>1. \A g \in Producers : Home(g)' = Home(g) /\ (Home(g) # "none" => Home(g) \in Names)
      BY <2>1 DEF Home, Names
    <3>2. ASSUME NEW g \in Producers, NEW m \in Names, obj[g][m] \in Own, g \notin displaced'
          PROVE  obj'[g][m] \in Own
      BY <2>4, <2>5, <3>2
    <3>3. "live" \in Names /\ claims \subseteq Producers /\ displaced \subseteq displaced'
      BY <2>0, <2>5 DEF Names, Types, TypeOK
    <3>4. QED BY <2>1, <3>1, <3>2, <3>3 DEF IInv, InUseKept
  <2>11. Evidence'
    BY <2>1, <2>4 DEF IInv, Evidence
  <2>12. QED BY <2>6, <2>7, <2>8, <2>9, <2>10, <2>11 DEF IInv
<1>3. QED BY <1>1, <1>2

(* Staging is empty at first.                                              *)
LEMMA InitIInv == Init => IInv
<1> SUFFICES ASSUME Init PROVE IInv
  OBVIOUS
<1>1. Types
  BY LeaseAssumption DEF Init, Types, TypeOK, Kinds, Stages, Steps, ScanSteps, SweepRecord, NoSweep,
     Entry, Names, Sweepers
<1>2. /\ Opened /\ KindsInv /\ RecordsInv /\ LocksInv /\ SweepLocksInv /\ FilesInv
      /\ StoreLockInv /\ ClaimsInv /\ VerdictsInv /\ LostInv
  BY LeaseAssumption DEF Init, Opened, KindsInv, RecordsInv, LocksInv, HoldsLease, Locked,
     SweepLocksInv,
     FilesInv, Filed, StoreLockInv, ClaimsInv, VerdictsInv, LostInv, Holding, Acting, NoSweep,
     Sweepers
<1>3. \A h \in Producers, n \in Names : obj[h][n] \notin Own
  BY DEF Init, Own
<1>4. OneOwnInv /\ NoOwnInv /\ Evidence /\ InUseKept
  BY <1>3 DEF Init, OneOwnInv, NoOwnInv, Evidence, InUseKept, Home
<1>5. WhereInv
  BY DEF Init, WhereInv, Acting, Sweepers
<1>6. QED BY <1>1, <1>2, <1>4, <1>5 DEF IInv

(* The induction.                                                          *)
LEMMA StepIInv == IInv /\ [Next]_vars => IInv'
<1> SUFFICES ASSUME IInv, [Next]_vars PROVE IInv'
  OBVIOUS
<1>1. ASSUME NEW h \in Producers, Produce(h) \/ Die(h) \/ Recover(h) PROVE IInv'
  BY <1>1, ProducerTypes, ProducerPhases, ProducerSweeps, ProducerObjects DEF IInv
<1>2. ASSUME NEW s \in Sweepers, Begin(s) \/ Sweep(s) \/ DieSweeping(s) PROVE IInv'
  BY <1>2, SweepTypes, SweeperPhases, SweeperLocks, SweeperVerdicts, SweeperObjects DEF IInv
<1>3. CASE UNCHANGED vars
  BY <1>3 DEF vars, IInv, Types, TypeOK, Opened, KindsInv, RecordsInv, LocksInv, HoldsLease,
     SweepLocksInv, FilesInv, StoreLockInv, ClaimsInv, VerdictsInv, OneOwnInv, NoOwnInv,
     WhereInv, LostInv, InUseKept, Home, Evidence, producer, staging, sweeping, ghosts, bounds
<1>4. QED BY <1>1, <1>2, <1>3, OthersKeep DEF Next

(* The inductive invariant holds of every behaviour.                       *)
LEMMA Invariant == Spec => []IInv
  BY InitIInv, StepIInv, PTL DEF Spec

--------------------------------------------------------------------------------
(* Every variable keeps its type: a lease that a process holds exclusively *)
(* is read by no scan (store/lease.go, tryLockLease).                      *)
THEOREM LeaseTypes == Spec => []TypeOK
<1>1. IInv => TypeOK
  BY DEF IInv, Types
<1>2. QED BY <1>1, Invariant, PTL

(* The object of a living producer, and one the journal names, is never    *)
(* taken, however many collectors and scans there are (store/lease.go,     *)
(* lease_reclaim.go, sweepStagingUnderLock).                               *)
THEOREM UseIsSafe == Spec => []InUseKept
<1>1. IInv => InUseKept
  BY DEF IInv
<1>2. QED BY <1>1, Invariant, PTL

(* Whatever gc may remove and status counts as collectable, no producer    *)
(* uses (store/lease_reclaim.go, classifyOneLease).                        *)
THEOREM VerdictsTrue == Spec => []VerdictTrue
<1>1. IInv => VerdictTrue
  <2> SUFFICES ASSUME IInv, NEW s \in Sweepers, sweep[s].state = "collectable"
               PROVE  /\ Home(Working(s)) = "none"
                      /\ pc[Working(s)] \notin {"create", "lock", "write", "make"}
    BY DEF VerdictTrue
  <2>1. QED BY VerdictHolds DEF IInv
<1>2. QED BY <1>1, Invariant, PTL

(* Whatever fu made in staging is in the journal or has a lease that       *)
(* accounts for it, at whatever point producers and collectors die         *)
(* (store/lease.go, ReleaseIfObjectGone; lease_reclaim.go).                *)
THEOREM EvidenceOutlives == Spec => []Evidence
<1>1. IInv => Evidence
  BY DEF IInv
<1>2. QED BY <1>1, Invariant, PTL

(* What users put under fu's names is removed by no gc and no scratch      *)
(* (store/lease_reclaim.go, removeLeasedTreeWhole).                        *)
THEOREM TheirsAreKept == Spec => []TheirsKept
<1>1. IInv => TheirsKept
  BY DEF IInv, LostInv, TheirsKept
<1>2. QED BY <1>1, Invariant, PTL
=============================================================================
