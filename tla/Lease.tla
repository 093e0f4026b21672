------------------------------ MODULE Lease ------------------------------
(***************************************************************************)
(* The evidence fu keeps for its private objects in staging                *)
(* (store/lease.go, lease_reclaim.go, source/scratch.go).  A producer      *)
(* creates a lease file, locks it with flock, writes what it is about to   *)
(* create, creates the object, records its identity, uses it, and drops    *)
(* the lease when the object is gone, published or in the journal.  gc and *)
(* status ask the same classifier about every lease they list: only a lock *)
(* the kernel dropped says the producer is dead.                           *)
(*                                                                         *)
(* A producer makes one object, so it stands for the token its lease and   *)
(* object share; the lease file is never created twice, and an unlinked    *)
(* one still has its record and its lock for whoever opened it.  Users put *)
(* things of their own under the object's names, except under the name gc  *)
(* retires it to (the residue removeLeasedTreeWhole states).               *)
(***************************************************************************)
EXTENDS Integers, FiniteSets

CONSTANTS
    Producers,   \* processes that make an object: fu add, fu clone, a write command
    Collectors,  \* runs of fu gc at a time
    Scanners,    \* runs of fu status at a time
    Nobody,      \* who holds a free lock
    MaxScans,    \* bound: runs of fu status
    MaxFaults,   \* bound: crashes and failing operations
    MaxMeddles   \* bound: entries users put under a leased name

ASSUME LeaseAssumption ==
    /\ Nobody \notin Producers \cup Collectors \cup Scanners
    /\ Producers \cap (Collectors \cup Scanners) = {} /\ Collectors \cap Scanners = {}
    /\ MaxScans \in Nat /\ MaxFaults \in Nat /\ MaxMeddles \in Nat

Sweepers == Collectors \cup Scanners

Kinds == {"scratch", "clone", "root"}

(* The prefixes a leased object may wear.                                  *)
Names == {"live", "clean", "orphan", "retired"}

(* What a name holds: fu's own directory or a user's, empty or not.        *)
Own == {"empty", "full"}
Theirs == {"theirs-empty", "theirs"}
Hollow == {"empty", "theirs-empty"}
Entry == {"none"} \cup Own \cup Theirs

NoSweep == [claimed |-> {}, todo |-> {}, on |-> Nobody, name |-> "none", state |-> "unset"]

VARIABLES
    store,     \* whether $FU_HOME/store exists
    fulock,    \* who holds fu.lock
    kind, pc,  \* what each producer makes and where it is
    file,      \* staging/.fu-lease-<token> exists
    record,    \* what that inode holds: "empty", "named" or "identified"
    held,      \* who holds its exclusive lock
    shared,    \* the scans that hold it shared
    obj,       \* what is under each name of the token
    claims,    \* the tokens whose object a pending transaction's journal names
    spc, sweep,\* where each sweeper is, and what it works on
    displaced, \* tokens whose own object a user moved out of staging
    lost,      \* <<token, who>>: a user's content removed by gc or by its producer
    blind,     \* tokens whose object a sweep without a store removed
    faults, scans, meddles

staging == <<file, record, held, shared, obj>>
producer == <<kind, pc>>
sweeping == <<spc, sweep>>
ghosts == <<displaced, lost, blind>>
bounds == <<faults, scans, meddles>>
vars == <<store, fulock, producer, staging, claims, sweeping, ghosts, bounds>>

Init ==
    /\ store \in BOOLEAN /\ fulock = Nobody
    /\ kind = [h \in Producers |-> "scratch"] /\ pc = [h \in Producers |-> "idle"]
    /\ file = [h \in Producers |-> FALSE] /\ record = [h \in Producers |-> "empty"]
    /\ held = [h \in Producers |-> Nobody] /\ shared = [h \in Producers |-> {}]
    /\ obj = [h \in Producers |-> [n \in Names |-> "none"]]
    /\ claims = {}
    /\ spc = [s \in Sweepers |-> "idle"] /\ sweep = [s \in Sweepers |-> NoSweep]
    /\ displaced = {} /\ lost = {} /\ blind = {}
    /\ faults = 0 /\ scans = 0 /\ meddles = 0

--------------------------------------------------------------------------------
(* Producers                                                               *)

Present(h) == {n \in Names : obj[h][n] # "none"}
Goto(h, p) == pc' = [pc EXCEPT ![h] = p]
Fault == faults < MaxFaults /\ faults' = faults + 1
Put(h, n, e) == obj' = [obj EXCEPT ![h][n] = e]
Move(h, from, to) == obj' = [obj EXCEPT ![h][from] = "none", ![h][to] = obj[h][from]]

Elsewhere == UNCHANGED <<store, kind, shared, sweeping, displaced, blind, scans, meddles>>

(* The process ends: the kernel drops its locks.                           *)
End(h) ==
    /\ Goto(h, "ended")
    /\ held' = [held EXCEPT ![h] = IF @ = h THEN Nobody ELSE @]
    /\ fulock' = IF fulock = h THEN Nobody ELSE fulock

(* A write command stages under fu.lock; fu add fetches without it; a      *)
(* clone runs only where there is no store.                                *)
Start(h) ==
    /\ pc[h] = "idle"
    /\ \E k \in Kinds :
        /\ store = (k # "clone")
        /\ k = "root" => fulock = Nobody
        /\ kind' = [kind EXCEPT ![h] = k]
        /\ fulock' = IF k = "root" THEN h ELSE fulock
    /\ Goto(h, "create")
    /\ UNCHANGED <<store, staging, claims, sweeping, ghosts, bounds>>

(* Mutant: the record is written when the file is made, before the lock.   *)
CreateWrittenLease(h) ==
    /\ pc[h] = "create"
    /\ file' = [file EXCEPT ![h] = TRUE]
    /\ record' = [record EXCEPT ![h] = "named"]
    /\ Goto(h, "lock")
    /\ Elsewhere /\ UNCHANGED <<fulock, held, obj, claims, lost, faults>>

(* AcquireLease: O_EXCL makes the file, listable, empty and unlocked,      *)
CreateLease(h) ==
    /\ pc[h] = "create"
    /\ file' = [file EXCEPT ![h] = TRUE]
    /\ Goto(h, "lock")
    /\ Elsewhere /\ UNCHANGED <<fulock, record, held, obj, claims, lost, faults>>

(* Mutant: a lock that is not free is not waited for.                      *)
LockLeaseIfFree(h) ==
    /\ pc[h] = "lock"
    /\ held' = IF held[h] = Nobody /\ shared[h] = {} THEN [held EXCEPT ![h] = h] ELSE held
    /\ Goto(h, "write")
    /\ Elsewhere /\ UNCHANGED <<fulock, file, record, obj, claims, lost, faults>>

(* the flock waits for a scan or a collector that came first,              *)
LockLease(h) ==
    /\ pc[h] = "lock"
    /\ held[h] = Nobody /\ shared[h] = {}
    /\ held' = [held EXCEPT ![h] = h]
    /\ Goto(h, "write")
    /\ Elsewhere /\ UNCHANGED <<fulock, file, record, obj, claims, lost, faults>>

(* and the record says what is about to exist.  A failed write may have    *)
(* reached the file; the lock is then dropped and the file removed.        *)
WriteLease(h) ==
    /\ pc[h] = "write"
    /\ \/ /\ record' = [record EXCEPT ![h] = "named"]
          /\ Goto(h, "make")
          /\ UNCHANGED <<held, faults>>
       \/ /\ Fault
          /\ \E r \in {"empty", "named"} : record' = [record EXCEPT ![h] = r]
          /\ held' = [held EXCEPT ![h] = Nobody]
          /\ Goto(h, "unacquire")
    /\ Elsewhere /\ UNCHANGED <<fulock, file, obj, claims, lost>>

Unacquire(h) ==
    /\ pc[h] = "unacquire"
    /\ file' = [file EXCEPT ![h] = FALSE]
    /\ End(h)
    /\ Elsewhere /\ UNCHANGED <<record, obj, claims, lost, faults>>

(* mkdir is exclusive; the identity is what stands there right after it,   *)
(* with nobody quick enough to replace it.  When the identity cannot be    *)
(* captured, scratch and root remove the empty directory.                  *)
MakeObject(h) ==
    /\ pc[h] = "make"
    /\ \/ obj[h]["live"] = "none" /\ Put(h, "live", "empty") /\ Goto(h, "attach")
          /\ UNCHANGED faults
       \/ obj[h]["live"] # "none" /\ Goto(h, "unwind") /\ UNCHANGED <<obj, faults>>
       \/ /\ obj[h]["live"] = "none" /\ Fault
          /\ IF kind[h] = "clone" THEN Put(h, "live", "empty") ELSE UNCHANGED obj
          /\ Goto(h, "unwind")
    /\ Elsewhere /\ UNCHANGED <<fulock, file, record, held, claims, lost>>

(* AttachIdentity.  After a failure scratch retires the directory to its   *)
(* orphan name, root to a name of its own, and clone leaves it.            *)
AttachIdentity(h) ==
    /\ pc[h] = "attach"
    /\ \/ /\ record' = [record EXCEPT ![h] = "identified"]
          /\ Goto(h, IF kind[h] = "root" THEN "journal" ELSE "fill")
          /\ UNCHANGED faults
       \/ /\ Fault
          /\ \E r \in {"named", "identified"} : record' = [record EXCEPT ![h] = r]
          /\ Goto(h, CASE kind[h] = "scratch" -> "orphan"
                       [] kind[h] = "root" -> "discard"
                       [] OTHER -> "unwind")
    /\ Elsewhere /\ UNCHANGED <<fulock, file, held, obj, claims, lost>>

(* A scratch is filled through its descriptor or a checked name, a clone   *)
(* by its name.                                                            *)
Fill(h) ==
    /\ pc[h] = "fill"
    /\ IF obj[h]["live"] = "empty" THEN Put(h, "live", "full") ELSE UNCHANGED obj
    /\ \/ Goto(h, IF kind[h] = "clone" THEN "publish" ELSE "close") /\ UNCHANGED faults
       \/ kind[h] = "clone" /\ Fault /\ Goto(h, "discard")
    /\ Elsewhere /\ UNCHANGED <<fulock, file, record, held, claims, lost>>

--------------------------------------------------------------------------------
(* Each kind's end.                                                        *)

(* ownedScratch.Close: only the object it made is moved to the clean name; *)
Quarantine(h) ==
    /\ pc[h] = "close"
    /\ IF obj[h]["live"] \in Own /\ obj[h]["clean"] = "none"
       THEN Goto(h, "quarantined") /\ Move(h, "live", "clean") /\ UNCHANGED <<fulock, held>>
       ELSE End(h) /\ UNCHANGED obj
    /\ Elsewhere /\ UNCHANGED <<file, record, claims, lost, faults>>

(* its contents are removed through the descriptor it was made with,       *)
EmptyQuarantine(h) ==
    /\ pc[h] = "quarantined"
    /\ \/ /\ obj[h]["clean"] \in Own
          /\ Put(h, "clean", "empty")
          /\ Goto(h, "emptied")
          /\ UNCHANGED <<fulock, held, faults>>
       \/ /\ obj[h]["clean"] \notin Own
          /\ End(h)
          /\ IF obj[h]["live"] = "none" THEN Move(h, "clean", "live") ELSE UNCHANGED obj
          /\ UNCHANGED faults
       \/ Fault /\ End(h) /\ UNCHANGED obj
    /\ Elsewhere /\ UNCHANGED <<file, record, claims, lost>>

(* and the directory itself by its name, if it is still that one.          *)
RemoveQuarantine(h) ==
    /\ pc[h] = "emptied"
    /\ \/ /\ obj[h]["clean"] \in Own
          /\ Put(h, "clean", "none")
          /\ Goto(h, "release")
          /\ UNCHANGED <<fulock, held, faults>>
       \/ obj[h]["clean"] \notin Own /\ End(h) /\ UNCHANGED <<obj, faults>>
       \/ Fault /\ End(h) /\ UNCHANGED obj
    /\ Elsewhere /\ UNCHANGED <<file, record, claims, lost>>

(* cleanupCreatedScratch: move, verify what moved, remove it or put it back. *)
RetireOrphan(h) ==
    /\ pc[h] = "orphan"
    /\ IF obj[h]["live"] # "none" /\ obj[h]["orphan"] = "none"
       THEN Move(h, "live", "orphan") /\ Goto(h, "orphaned")
       ELSE UNCHANGED obj /\ Goto(h, "unwind")
    /\ Elsewhere /\ UNCHANGED <<fulock, file, record, held, claims, lost, faults>>

RemoveOrphan(h) ==
    /\ pc[h] = "orphaned"
    /\ IF obj[h]["orphan"] = "empty" THEN Put(h, "orphan", "none")
       ELSE IF obj[h]["live"] = "none" THEN Move(h, "orphan", "live") ELSE UNCHANGED obj
    /\ Goto(h, "unwind")
    /\ Elsewhere /\ UNCHANGED <<fulock, file, record, held, claims, lost, faults>>

(* A root retires and removes only what it made, or puts it back; a clone  *)
(* removes whatever its path names.                                        *)
Discard(h) ==
    /\ pc[h] = "discard"
    /\ \/ /\ kind[h] = "clone" \/ obj[h]["live"] = "empty"
          /\ Put(h, "live", "none")
          /\ lost' = IF obj[h]["live"] = "theirs" THEN lost \cup {<<h, "producer">>} ELSE lost
          /\ UNCHANGED faults
       \/ kind[h] = "root" /\ obj[h]["live"] # "empty" /\ UNCHANGED <<obj, lost, faults>>
       \/ Fault /\ UNCHANGED <<obj, lost>>
    /\ Goto(h, "unwind")
    /\ Elsewhere /\ UNCHANGED <<fulock, file, record, held, claims>>

(* Mutant: an unwinding producer drops its lease whatever it leaves.       *)
UnwindRelease(h) ==
    /\ pc[h] = "unwind"
    /\ Goto(h, "release")
    /\ Elsewhere /\ UNCHANGED <<fulock, staging, claims, lost, faults>>

(* ReleaseIfObjectGone: the record stays with an object that stays.        *)
Unwind(h) ==
    /\ pc[h] = "unwind"
    /\ IF Present(h) = {} THEN Goto(h, "release") /\ UNCHANGED <<fulock, held>> ELSE End(h)
    /\ Elsewhere /\ UNCHANGED <<file, record, obj, claims, lost, faults>>

(* createTxnStagedRoot: the reservation is journalled before the lease is  *)
(* dropped.  A failed write may be in the journal all the same.            *)
JournalRoot(h) ==
    /\ pc[h] = "journal"
    /\ \/ claims' = claims \cup {h} /\ Goto(h, "handover") /\ UNCHANGED faults
       \/ /\ Fault
          /\ \/ claims' = claims \cup {h}
             \/ UNCHANGED claims
          /\ Goto(h, "unwind")
    /\ Elsewhere /\ UNCHANGED <<fulock, file, record, held, obj, lost>>

(* Release: the name goes first, the lock with the descriptor.             *)
ReleaseLease(h) ==
    /\ pc[h] \in {"release", "handover"}
    /\ \/ /\ file' = [file EXCEPT ![h] = FALSE]
          /\ Goto(h, IF pc[h] = "release" THEN "unlock" ELSE "handed")
          /\ UNCHANGED <<fulock, held, faults>>
       \/ Fault /\ End(h) /\ UNCHANGED file
    /\ Elsewhere /\ UNCHANGED <<record, obj, claims, lost>>

UnlockLease(h) ==
    /\ \/ pc[h] = "unlock" /\ End(h)
       \/ /\ pc[h] = "handed"
          /\ Goto(h, "publish")
          /\ held' = [held EXCEPT ![h] = Nobody]
          /\ UNCHANGED fulock
    /\ Elsewhere /\ UNCHANGED <<file, record, obj, claims, lost, faults>>

(* A root is moved to its public name, and its transaction ends: the       *)
(* steps between are those of a write command.  A clone becomes the store. *)
PublishRoot(h) ==
    /\ pc[h] = "publish" /\ kind[h] = "root"
    /\ IF obj[h]["live"] \in Own
       THEN Put(h, "live", "none") /\ claims' = claims \ {h}
       ELSE UNCHANGED <<obj, claims>>
    /\ End(h)
    /\ Elsewhere /\ UNCHANGED <<file, record, lost, faults>>

PublishClone(h) ==
    /\ pc[h] = "publish" /\ kind[h] = "clone"
    /\ IF obj[h]["live"] \in Own /\ ~store
       THEN store' = TRUE /\ Put(h, "live", "none") /\ Goto(h, "release")
       ELSE Goto(h, "discard") /\ UNCHANGED <<store, obj>>
    /\ UNCHANGED <<fulock, kind, file, record, held, shared, claims, sweeping, ghosts, bounds>>

(* A producer dies anywhere.                                               *)
Die(h) ==
    /\ pc[h] \notin {"idle", "ended"}
    /\ Fault
    /\ End(h)
    /\ Elsewhere /\ UNCHANGED <<file, record, obj, claims, lost>>

(* The next write command recovers what the journal names, under fu.lock.  *)
(* One whose object is gone is a conflict, and stays.                      *)
Recover(h) ==
    /\ h \in claims /\ pc[h] = "ended" /\ fulock = Nobody
    /\ obj[h]["live"] \in Own /\ Put(h, "live", "none")
    /\ claims' = claims \ {h}
    /\ Elsewhere /\ UNCHANGED <<fulock, pc, file, record, held, lost, faults>>

--------------------------------------------------------------------------------
(* Sweepers: classifyLeases, with ReclaimLeases as the action of gc and    *)
(* none for status.                                                        *)

At(s, p) == spc' = [spc EXCEPT ![s] = p]
Set(s, r) == sweep' = [sweep EXCEPT ![s] = r]
Working(s) == sweep[s].on
Others == UNCHANGED <<store, producer, claims, displaced, meddles>>

(* gc opens the store first: without one it sweeps with no claims and no   *)
(* lock.  status needs a store and takes no lock.                          *)
Listed == {h \in Producers : file[h]}

Begin(s) ==
    /\ spc[s] = "idle"
    /\ IF s \in Collectors /\ store
       THEN At(s, "lock") /\ UNCHANGED scans
       ELSE /\ s \in Scanners => store /\ scans < MaxScans
            /\ scans' = IF s \in Scanners THEN scans + 1 ELSE scans
            /\ At(s, "list")
    /\ Others /\ UNCHANGED <<sweep, fulock, staging, lost, blind, faults>>

List(s) ==
    /\ spc[s] = "list"
    /\ Set(s, [sweep[s] EXCEPT !.todo = Listed])
    /\ At(s, "next")
    /\ Others /\ UNCHANGED <<fulock, staging, lost, blind, faults, scans>>

(* Mutant: the claims are read before the lock is taken.                   *)
LockWithOldClaims(s) ==
    \/ /\ spc[s] = "lock" /\ sweep[s].on = Nobody
       /\ Set(s, [sweep[s] EXCEPT !.claimed = claims, !.on = s])
       /\ Others /\ UNCHANGED <<spc, fulock, staging, lost, blind, faults, scans>>
    \/ /\ spc[s] = "lock" /\ sweep[s].on = s /\ fulock = Nobody
       /\ fulock' = s
       /\ Set(s, [sweep[s] EXCEPT !.on = Nobody, !.todo = Listed])
       /\ At(s, "next")
       /\ Others /\ UNCHANGED <<staging, lost, blind, faults, scans>>

(* sweepStagingUnderLock: the claims are read under the lock that is kept. *)
LockAndReadClaims(s) ==
    /\ spc[s] = "lock" /\ fulock = Nobody
    /\ fulock' = s
    /\ Set(s, [sweep[s] EXCEPT !.claimed = claims, !.todo = Listed])
    /\ At(s, "next")
    /\ Others /\ UNCHANGED <<staging, lost, blind, faults, scans>>

(* One lease after the other is opened; one that is gone by then is        *)
(* another process's business.                                             *)
OpenLease(s) ==
    /\ spc[s] = "next"
    /\ \E h \in sweep[s].todo :
        IF file[h]
        THEN At(s, "probe") /\ Set(s, [sweep[s] EXCEPT !.on = h, !.todo = @ \ {h}])
        ELSE UNCHANGED spc /\ Set(s, [sweep[s] EXCEPT !.todo = @ \ {h}])
    /\ Others /\ UNCHANGED <<fulock, staging, lost, blind, faults, scans>>

(* The lock is tried on what was opened, whether or not it has a name by   *)
(* now: exclusively by gc, shared by status.  In use, it is left alone.    *)
Probe(s) ==
    /\ spc[s] = "probe"
    /\ LET h == Working(s) IN
        IF held[h] = Nobody /\ (s \in Collectors => shared[h] = {})
        THEN /\ IF s \in Collectors
                THEN held' = [held EXCEPT ![h] = s] /\ UNCHANGED shared
                ELSE shared' = [shared EXCEPT ![h] = @ \cup {s}] /\ UNCHANGED held
             /\ At(s, "classify") /\ UNCHANGED sweep
        ELSE /\ At(s, "next") /\ Set(s, [sweep[s] EXCEPT !.on = Nobody])
             /\ UNCHANGED <<held, shared>>
    /\ Others /\ UNCHANGED <<fulock, file, record, obj, lost, blind, faults, scans>>

(* Mutant: an object whose identity was never recorded is left alone.      *)
EmptyUnidentified(e) == FALSE

(* Without an identity only an empty directory can be what fu left.        *)
UnidentifiedLeftover(e) == e \in Hollow

(* classifyOneLease under the lock: the name the object wears now, and     *)
(* whether the record accounts for what stands there.                      *)
NameNow(h) == IF Cardinality(Present(h)) = 1 THEN CHOOSE n \in Present(h) : TRUE ELSE "none"
Verdict(h) ==
    IF \/ record[h] = "empty"
       \/ Cardinality(Present(h)) > 1
       \/ /\ Present(h) # {}
          /\ IF record[h] = "named" THEN ~UnidentifiedLeftover(obj[h][NameNow(h)])
             ELSE obj[h][NameNow(h)] \notin Own
    THEN "unaccountable" ELSE "collectable"

(* The journal names a private root by its live spelling.                  *)
Claimed(s, name) == Working(s) \in sweep[s].claimed /\ name = "live"

(* Only a collectable lease whose object nothing claims is acted on.       *)
Classify(s) ==
    /\ spc[s] = "classify"
    /\ LET h == Working(s) IN
        /\ Set(s, [sweep[s] EXCEPT !.name = NameNow(h), !.state = Verdict(h)])
        /\ At(s, IF s \in Collectors /\ Verdict(h) = "collectable" /\ ~Claimed(s, NameNow(h))
                 THEN "remove" ELSE "drop")
    /\ Others /\ UNCHANGED <<fulock, staging, lost, blind, faults, scans>>

TakenBlindly(s) == IF fulock # s THEN blind \cup {Working(s)} ELSE blind

(* removeLeasedObject: a directory-only unlink first.  What is not empty   *)
(* is left unless an identity was recorded and still stands there.         *)
RemoveEmpty(s) ==
    /\ spc[s] = "remove"
    /\ LET h == Working(s)
           n == sweep[s].name
           e == IF n = "none" THEN "none" ELSE obj[h][n]
       IN  \/ e = "none" /\ At(s, "unlink") /\ UNCHANGED <<obj, blind>>
           \/ /\ e \in Hollow
              /\ Put(h, n, "none")
              /\ blind' = IF e \in Own THEN TakenBlindly(s) ELSE blind
              /\ At(s, "unlink")
           \/ /\ e \in {"full", "theirs"}
              /\ At(s, CASE record[h] # "identified" -> "drop"
                         [] n = "retired" -> "purge"
                         [] e = "theirs" -> "drop"
                         [] OTHER -> "retire")
              /\ UNCHANGED <<obj, blind>>
    /\ Others /\ UNCHANGED <<sweep, fulock, file, record, held, shared, lost, faults, scans>>

(* removeLeasedTreeWhole: whatever the name holds by now is moved to the   *)
(* retired name, without replacement,                                      *)
Retire(s) ==
    /\ spc[s] = "retire"
    /\ LET h == Working(s) IN
        IF obj[h][sweep[s].name] # "none" /\ obj[h]["retired"] = "none"
        THEN /\ Move(h, sweep[s].name, "retired") /\ At(s, "purge")
             /\ blind' = IF obj[h][sweep[s].name] \in Own THEN TakenBlindly(s) ELSE blind
        ELSE UNCHANGED <<obj, blind>> /\ At(s, "drop")
    /\ Others /\ UNCHANGED <<sweep, fulock, file, record, held, shared, lost, faults, scans>>

(* Mutant: what was moved is not looked at again.                          *)
MovedIsOurs(e) == TRUE

MovedIsOwn(e) == e \in Own

(* and what moved is removed only if it is the object of the lease.        *)
Purge(s) ==
    /\ spc[s] = "purge"
    /\ LET h == Working(s)
           e == obj[h]["retired"]
       IN  \/ /\ MovedIsOwn(e)
              /\ Put(h, "retired", "none")
              /\ lost' = IF e = "theirs" THEN lost \cup {<<h, "gc">>} ELSE lost
              /\ At(s, "unlink")
              /\ UNCHANGED faults
           \/ ~MovedIsOwn(e) /\ At(s, "drop") /\ UNCHANGED <<obj, lost, faults>>
           \/ Fault /\ At(s, "drop") /\ UNCHANGED <<obj, lost>>
    /\ Others /\ UNCHANGED <<sweep, fulock, file, record, held, shared, blind, scans>>

Unheld(s) ==
    /\ held' = [h \in Producers |-> IF held[h] = s THEN Nobody ELSE held[h]]
    /\ shared' = [h \in Producers |-> shared[h] \ {s}]

(* The lease goes last, and only if nothing is left for it to account for. *)
Drop(s) ==
    /\ spc[s] \in {"unlink", "drop"}
    /\ \/ file' = [file EXCEPT ![Working(s)] = @ /\ spc[s] = "drop"] /\ UNCHANGED faults
       \/ spc[s] = "unlink" /\ Fault /\ UNCHANGED file
    /\ Unheld(s)
    /\ At(s, "next")
    /\ Set(s, [sweep[s] EXCEPT !.on = Nobody, !.name = "none", !.state = "unset"])
    /\ Others /\ UNCHANGED <<fulock, record, obj, lost, blind, scans>>

Stop(s) ==
    /\ Unheld(s)
    /\ fulock' = IF fulock = s THEN Nobody ELSE fulock
    /\ At(s, "idle") /\ Set(s, NoSweep)

Finish(s) ==
    /\ spc[s] = "next" /\ sweep[s].todo = {}
    /\ Stop(s)
    /\ Others /\ UNCHANGED <<file, record, obj, lost, blind, faults, scans>>

DieSweeping(s) ==
    /\ spc[s] # "idle"
    /\ Fault
    /\ Stop(s)
    /\ Others /\ UNCHANGED <<file, record, obj, lost, blind, scans>>

--------------------------------------------------------------------------------
(* A user moves fu's object away and puts something in its place, or puts  *)
(* something under a name the object does not wear now.                    *)
Meddle(h, n) ==
    /\ meddles < MaxMeddles /\ meddles' = meddles + 1
    /\ n \in Names \ {"retired"} /\ obj[h][n] \notin Theirs
    /\ pc[h] \notin {"idle", "create"}
    /\ \E e \in Theirs : Put(h, n, e)
    /\ displaced' = IF obj[h][n] \in Own THEN displaced \cup {h} ELSE displaced
    /\ UNCHANGED <<store, fulock, producer, file, record, held, shared, claims, sweeping, lost,
                   blind, faults, scans>>

Produce(h) ==
    \/ Start(h) \/ CreateLease(h) \/ LockLease(h) \/ WriteLease(h) \/ Unacquire(h)
    \/ MakeObject(h) \/ AttachIdentity(h) \/ Fill(h) \/ Quarantine(h)
    \/ EmptyQuarantine(h) \/ RemoveQuarantine(h) \/ RetireOrphan(h) \/ RemoveOrphan(h)
    \/ Discard(h) \/ Unwind(h) \/ JournalRoot(h) \/ ReleaseLease(h) \/ UnlockLease(h)
    \/ PublishRoot(h) \/ PublishClone(h)

Sweep(s) ==
    \/ LockAndReadClaims(s) \/ List(s) \/ OpenLease(s) \/ Probe(s) \/ Classify(s) \/ RemoveEmpty(s)
    \/ Retire(s) \/ Purge(s) \/ Drop(s) \/ Finish(s)

(* fu init.                                                                *)
InitStore ==
    /\ ~store /\ store' = TRUE
    /\ UNCHANGED <<fulock, producer, staging, claims, sweeping, ghosts, bounds>>

Next ==
    \/ InitStore
    \/ \E h \in Producers : Produce(h) \/ Die(h) \/ Recover(h)
    \/ \E s \in Sweepers : Begin(s) \/ Sweep(s) \/ DieSweeping(s)
    \/ \E h \in Producers, n \in Names : Meddle(h, n)

Spec == Init /\ [][Next]_vars

(* Processes run on until they end or die, a command that follows recovers *)
(* what is pending, and the user keeps running gc.                         *)
FairSpec ==
    /\ Spec
    /\ \A h \in Producers : WF_vars(Produce(h)) /\ SF_vars(Recover(h))
    /\ \A s \in Sweepers : WF_vars(Sweep(s))
    /\ \A s \in Collectors : WF_vars(Begin(s))

--------------------------------------------------------------------------------
(* Properties                                                              *)

(* Every variable keeps its type: a token has one lock owner or shared    *)
(* holders, never both, and no lease before its producer began.            *)
TypeOK ==
    /\ store \in BOOLEAN
    /\ fulock \in Producers \cup Collectors \cup {Nobody}
    /\ kind \in [Producers -> Kinds]
    /\ \A h \in Producers : pc[h] = "idle" => ~file[h]
    /\ file \in [Producers -> BOOLEAN]
    /\ record \in [Producers -> {"empty", "named", "identified"}]
    /\ held \in [Producers -> Producers \cup Collectors \cup {Nobody}]
    /\ shared \in [Producers -> SUBSET Scanners]
    /\ obj \in [Producers -> [Names -> Entry]]
    /\ claims \subseteq Producers /\ displaced \subseteq Producers /\ blind \subseteq Producers
    /\ lost \subseteq Producers \X {"gc", "producer"}
    /\ \A h \in Producers : held[h] = Nobody \/ shared[h] = {}

(* Where the object of a live producer is while its lease is held.         *)
Home(h) ==
    CASE pc[h] \in {"attach", "fill", "close", "orphan", "discard", "journal",
                    "handover"} -> "live"
      [] pc[h] = "publish" /\ kind[h] = "clone" -> "live"
      [] pc[h] \in {"quarantined", "emptied"} -> "clean"
      [] pc[h] = "orphaned" -> "orphan"
      [] OTHER -> "none"

(* The object of a living producer is never taken from it, whatever gc and *)
(* status do meanwhile: not before its lease is locked or written, not     *)
(* after a scan won the race for the lock, not while it is being renamed.  *)
(* Nor is one the journal names taken from recovery, whose producer is     *)
(* dead: gc reads the claims under the lock writers hold, and only a gc    *)
(* that began when there was no store can take it.                         *)
InUseKept ==
    /\ \A h \in Producers : Home(h) # "none" /\ h \notin displaced => obj[h][Home(h)] \in Own
    /\ \A h \in claims \ (displaced \cup blind) : obj[h]["live"] \in Own

(* A verdict that nobody uses the object is true while its lock is held:   *)
(* what status counts as collectable is what gc may remove.                *)
VerdictTrue ==
    \A s \in Sweepers :
        sweep[s].state = "collectable"
            => Home(Working(s)) = "none" /\ pc[Working(s)] \notin {"create", "lock", "write", "make"}

(* Evidence neither predeceases its object nor falls short of it: whatever *)
(* fu made in staging is in the journal or has a lease gc can act on.      *)
Evidence ==
    \A h \in Producers, n \in Names :
        obj[h][n] \in Own =>
            \/ h \in claims
            \/ /\ file[h]
               /\ record[h] = "identified" \/ (record[h] = "named" /\ obj[h][n] = "empty")

(* Content users put under fu's names is never removed by gc or a scratch; *)
(* a failing clone removes what its own path names.                        *)
TheirsKept == \A l \in lost : l[2] = "producer" /\ kind[l[1]] = "clone"

(* What a dead producer left, nobody replaced and the journal does not     *)
(* name is gone in the end, lease and object, wherever producer and gc     *)
(* were interrupted.                                                       *)
Residue(h) ==
    /\ pc[h] = "ended" /\ h \notin displaced \cup blind
    /\ \A n \in Names : obj[h][n] \notin Theirs
    /\ record[h] # "empty"
    /\ file[h] \/ Present(h) # {}
Converges == \A h \in Producers : Residue(h) ~> ~Residue(h)
================================================================================
