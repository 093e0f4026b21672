------------------------------ MODULE ConfigExchange ------------------------------
(***************************************************************************)
(* How fu installs fu.yaml only over the bytes it started from             *)
(* (store/config.go, config_exchange.go).  A filled and recorded candidate *)
(* is exchanged with fu.yaml in one rename; what was displaced is judged   *)
(* afterwards, and put back if it is not what was expected.  A record      *)
(* without a completion marker is an exchange to recover.  One process at  *)
(* a time holds fu.lock; users save fu.yaml whenever they like.            *)
(*                                                                         *)
(* An object is an inode: renames move it, a save in place changes its     *)
(* bytes, a save by rename puts another object under the name.  Every      *)
(* save is a version of its own, so a digest is the version.  Users write  *)
(* fu.yaml by its name: not through a descriptor they opened before an     *)
(* exchange, and not fu's names in staging and recovery.                   *)
(***************************************************************************)
EXTENDS Integers, FiniteSets

CONSTANTS
    MaxInstalls,  \* bound: installs begun
    MaxEdits,     \* bound: versions users save
    MaxFaults     \* bound: crashes and failing operations

ASSUME ExchangeAssumption ==
    MaxInstalls \in Nat /\ MaxEdits \in Nat /\ MaxFaults \in Nat

NONE == 0
Objects == 1 .. 1 + MaxInstalls + MaxEdits
Versions == 1 .. 1 + MaxInstalls + MaxEdits

(* The record: identities of both objects, digests of both versions.       *)
Record == [staged : Objects, prev : Objects, expect : Versions, data : Versions]
NoRecord == [staged |-> NONE, prev |-> NONE, expect |-> NONE, data |-> NONE]
Outcome == {"installed", "withdrawn"}
Marker == [staged : Objects, outcome : Outcome]

VARIABLES
    file,      \* store/fu.yaml: the object it names
    bytes,     \* what each object holds; NONE until it is filled
    cands,     \* staging/.fu-config-candidate-*, by the object's identity
    swap,      \* staging/.fu-config-swap: an object, or NONE
    archive,   \* recovery/.fu-config-archive-<identity>
    records,   \* recovery/.fu-config-exchange-*.json
    markers,   \* recovery/.fu-config-exchange-*.done
    pc,        \* where the process holding fu.lock is; "idle": nobody does
    mode,      \* whether it recovers or installs
    rec,       \* the record it works on
    seen,      \* the version it loaded, NONE before
    outcome,   \* what it is about to complete the exchange as
    last,      \* how the previous process ended
    nextObject, nextVersion,
    installs, faults,
    edits,     \* versions users saved
    settled,   \* versions no longer owed: loaded by fu, or saved over by users
    over,      \* edits saved in place over fu's file of an unfinished exchange
    displaced, \* per staged object, the version it displaced from fu.yaml
    finished,  \* the staged objects of exchanges that have been completed
    stuck,     \* those of them whose record could not be removed
    meddled    \* whether a user saved during an exchange not yet completed

disk == <<file, bytes, cands, swap, archive, records, markers>>
local == <<mode, rec, seen, outcome>>
counters == <<nextObject, nextVersion, installs>>
user == <<edits, over, meddled>>
ghost == <<settled, displaced, finished, stuck>>
vars == <<disk, pc, local, last, counters, faults, user, ghost>>

(* A record is pending while its marker does not exist, whatever it says.  *)
Pending == {r \in records : \A m \in markers : m.staged # r.staged}

Init ==
    /\ file = 1 /\ bytes = [o \in Objects |-> IF o = 1 THEN 1 ELSE NONE]
    /\ cands = {} /\ swap = NONE /\ archive = {} /\ records = {} /\ markers = {}
    /\ pc = "idle" /\ mode = "recover" /\ rec = NoRecord /\ seen = NONE
    /\ outcome = "installed" /\ last = "none"
    /\ nextObject = 2 /\ nextVersion = 2 /\ installs = 0 /\ faults = 0
    /\ edits = {} /\ settled = {} /\ over = {} /\ meddled = FALSE
    /\ displaced = [o \in Objects |-> NONE] /\ finished = {} /\ stuck = {}

--------------------------------------------------------------------------------
Goto(p) == pc' = p

Exit(how) ==
    /\ pc' = "idle"
    /\ mode' = "recover" /\ rec' = NoRecord /\ seen' = NONE /\ outcome' = "installed"
    /\ last' = how

(* The process stops on an error: nothing more is touched.                 *)
Stop(how) == Exit(how) /\ UNCHANGED disk

(* A write command begins: RecoverConfigExchanges comes first.             *)
Begin ==
    /\ pc = "idle" /\ installs < MaxInstalls
    /\ installs' = installs + 1
    /\ Goto("recover")
    /\ last' = "none"
    /\ UNCHANGED <<disk, local, nextObject, nextVersion, faults, user, ghost>>

(* Nothing is pending (any more): the config is loaded, and installed      *)
(* later; installConfigExpecting recovers once more before it starts.      *)
Recovered ==
    /\ pc = "recover" /\ Pending = {}
    /\ Goto(IF seen = NONE THEN "load" ELSE "create")
    /\ UNCHANGED <<disk, local, last, counters, faults, user, ghost>>

Load ==
    /\ pc = "load"
    /\ seen' = bytes[file]
    /\ settled' = settled \cup {bytes[file]}
    /\ Goto("recover")
    /\ UNCHANGED <<disk, mode, rec, outcome, last, counters, faults, user, displaced, finished,
                   stuck>>

(* exchangeCheckedFile: an active entry nobody accounts for is not touched; *)
(* a candidate is created under a name of its own,                         *)
CreateCandidate ==
    /\ pc = "create"
    /\ IF swap # NONE
       THEN Stop("failed") /\ UNCHANGED counters
       ELSE /\ cands' = cands \cup {nextObject}
            /\ rec' = [rec EXCEPT !.staged = nextObject]
            /\ nextObject' = nextObject + 1
            /\ mode' = "install"
            /\ Goto("fill")
            /\ UNCHANGED <<file, bytes, swap, archive, records, markers, seen, outcome, last,
                           nextVersion, installs>>
    /\ UNCHANGED <<faults, user, ghost>>

(* filled,                                                                 *)
FillCandidate ==
    /\ pc = "fill"
    /\ bytes' = [bytes EXCEPT ![rec.staged] = nextVersion]
    /\ rec' = [rec EXCEPT !.expect = seen, !.data = nextVersion]
    /\ nextVersion' = nextVersion + 1
    /\ Goto("capture")
    /\ UNCHANGED <<file, cands, swap, archive, records, markers, mode, seen, outcome, last,
                   nextObject, installs, faults, user, ghost>>

(* Mutant: only the candidate is identified.                               *)
CaptureNothing ==
    /\ pc = "capture"
    /\ Goto("record")
    /\ UNCHANGED <<disk, local, last, counters, faults, user, ghost>>

(* and recorded with the identity of what fu.yaml names now.               *)
CapturePrevious ==
    /\ pc = "capture"
    /\ rec' = [rec EXCEPT !.prev = file]
    /\ Goto("record")
    /\ UNCHANGED <<disk, mode, seen, outcome, last, counters, faults, user, ghost>>

WriteRecord ==
    /\ pc = "record"
    /\ records' = records \cup {rec}
    /\ Goto("publish")
    /\ UNCHANGED <<file, bytes, cands, swap, archive, markers, local, last, counters, faults,
                   user, ghost>>

(* The recorded candidate becomes the active entry.  If that fails, it is  *)
(* archived and the exchange withdrawn.                                    *)
PublishCandidate ==
    /\ pc = "publish"
    /\ \/ /\ swap' = rec.staged
          /\ cands' = cands \ {rec.staged}
          /\ Goto("exchange")
          /\ UNCHANGED <<outcome, faults>>
       \/ /\ faults < MaxFaults
          /\ faults' = faults + 1
          /\ outcome' = "withdrawn"
          /\ Goto("archive-candidate")
          /\ UNCHANGED <<swap, cands>>
    /\ UNCHANGED <<file, bytes, archive, records, markers, mode, rec, seen, last, counters,
                   user, ghost>>

Exchanged == file' = swap /\ swap' = file

Exchange ==
    /\ pc = "exchange"
    /\ Exchanged
    /\ displaced' = [displaced EXCEPT ![rec.staged] = bytes[file]]
    /\ Goto("judge")
    /\ UNCHANGED <<bytes, cands, archive, records, markers, local, last, counters, faults,
                   user, settled, finished, stuck>>

(* Mutant: the displaced object is recognised by its identity alone.       *)
SameObject == swap = rec.prev

(* The displaced object is the one recorded, holding what was expected.    *)
AsExpected == swap = rec.prev /\ bytes[swap] = rec.expect

Judge ==
    /\ pc = "judge"
    /\ IF AsExpected THEN outcome' = "installed" /\ Goto("archive-swap")
       ELSE outcome' = "withdrawn" /\ Goto("check-current")
    /\ UNCHANGED <<disk, mode, rec, seen, last, counters, faults, user, ghost>>

(* Mutant: whatever fu.yaml holds by now is exchanged back.                *)
StillOursAssumed == TRUE

StillOurs == file = rec.staged /\ bytes[file] = rec.data

(* It goes back only while fu.yaml is still what fu put there; a third     *)
(* version stays where it is and the displaced one stays parked.           *)
CheckCurrent ==
    /\ pc = "check-current"
    /\ IF StillOurs THEN Goto("exchange-back") /\ UNCHANGED <<disk, local, last>>
       ELSE Stop("changed")
    /\ UNCHANGED <<counters, faults, user, ghost>>

ExchangeBack ==
    /\ pc = "exchange-back"
    /\ Exchanged
    /\ Goto(IF mode = "recover" THEN "revalidate" ELSE "archive-swap")
    /\ UNCHANGED <<bytes, cands, archive, records, markers, local, last, counters, faults,
                   user, ghost>>

(* archiveNamedConfigEntry: the identity is proved, the object moved to a  *)
(* name that states it.                                                    *)
ArchiveCandidate ==
    /\ pc = "archive-candidate"
    /\ cands' = cands \ {rec.staged}
    /\ archive' = archive \cup {rec.staged}
    /\ Goto("complete")
    /\ UNCHANGED <<file, bytes, swap, records, markers, local, last, counters, faults,
                   user, ghost>>

Displaced == IF outcome = "installed" THEN rec.prev ELSE rec.staged

ArchiveSwap ==
    /\ pc = "archive-swap"
    /\ IF swap = Displaced
       THEN /\ swap' = NONE
            /\ archive' = archive \cup {Displaced}
            /\ Goto("complete")
            /\ UNCHANGED <<file, bytes, cands, records, markers, local, last>>
       ELSE Stop("failed")
    /\ UNCHANGED <<counters, faults, user, ghost>>

(* completeConfigExchange: the terminal marker,                            *)
Complete ==
    /\ pc = "complete"
    /\ markers' = markers \cup {[staged |-> rec.staged, outcome |-> outcome]}
    /\ finished' = finished \cup {rec.staged}
    /\ Goto("reclaim-record")
    /\ UNCHANGED <<file, bytes, cands, swap, archive, records, local, last, counters, faults,
                   user, settled, displaced, stuck>>

(* then the residue, in this order.  Each removal is best-effort: one that  *)
(* fails does not stop the next.                                           *)
Reclaim(from, to, removal) ==
    /\ pc = from
    /\ \/ removal /\ UNCHANGED <<faults, stuck>>
       \/ /\ faults < MaxFaults
          /\ faults' = faults + 1
          /\ stuck' = IF from = "reclaim-record" THEN stuck \cup {rec.staged} ELSE stuck
          /\ UNCHANGED <<records, markers, archive>>
    /\ Goto(to)
    /\ UNCHANGED <<file, bytes, cands, swap, local, last, counters, user, settled, displaced,
                   finished>>

Unrecorded == {r \in records : r.staged # rec.staged}
Unmarked == {m \in markers : m.staged # rec.staged}

(* Mutant: the marker goes first.                                          *)
ReclaimMarkerFirst ==
    \/ Reclaim("reclaim-record", "reclaim-marker",
               markers' = Unmarked /\ UNCHANGED <<records, archive>>)
    \/ Reclaim("reclaim-marker", "reclaim-previous",
               records' = Unrecorded /\ UNCHANGED <<markers, archive>>)

ReclaimBookkeeping ==
    \/ Reclaim("reclaim-record", "reclaim-marker",
               records' = Unrecorded /\ UNCHANGED <<markers, archive>>)
    \/ Reclaim("reclaim-marker", "reclaim-previous",
               markers' = Unmarked /\ UNCHANGED <<records, archive>>)

ReclaimArchives ==
    \/ Reclaim("reclaim-previous", "reclaim-staged",
               archive' = archive \ {rec.prev} /\ UNCHANGED <<records, markers>>)
    \/ Reclaim("reclaim-staged", "reclaimed",
               archive' = archive \ {rec.staged} /\ UNCHANGED <<records, markers>>)

Reclaimed ==
    /\ pc = "reclaimed"
    /\ IF mode = "install"
       THEN Exit(IF outcome = "installed" THEN "installed" ELSE "changed")
       ELSE Goto("recover") /\ rec' = NoRecord /\ UNCHANGED <<mode, seen, outcome, last>>
    /\ UNCHANGED <<disk, counters, faults, user, ghost>>

--------------------------------------------------------------------------------
(* recoverConfigExchange: where the recorded objects are says how far the  *)
(* exchange got.                                                           *)
Holds(o, v) == bytes[o] = v
Unpublished(r) == r.staged \in cands /\ Holds(r.staged, r.data)
Active(r) == swap = r.staged /\ Holds(swap, r.data) /\ file = r.prev
InstalledNow(r) == file = r.staged /\ Holds(file, r.data)
Gone(r) == r.staged \notin cands /\ swap = NONE

(* Mutant: a displaced object is accepted by its identity alone.           *)
SwappedOverPrevious(r) == InstalledNow(r) /\ swap = r.prev

Swapped(r) == InstalledNow(r) /\ swap = r.prev /\ Holds(swap, r.expect)
SwappedOverEdit(r) == InstalledNow(r) /\ swap = r.prev /\ ~Holds(swap, r.expect)
InstalledArchived(r) == InstalledNow(r) /\ Gone(r) /\ r.prev \in archive /\ Holds(r.prev, r.expect)
WithdrawnArchived(r) ==
    file = r.prev /\ Gone(r) /\ r.staged \in archive /\ Holds(r.staged, r.data)

(* Recovery goes on as r says, from where the exchange stands.             *)
Resume(r, how, next) ==
    /\ rec' = r /\ outcome' = how
    /\ Goto(next)
    /\ UNCHANGED <<disk, mode, seen, last>>

Recover ==
    /\ pc = "recover"
    /\ \E r \in Pending :
        \/ Unpublished(r) /\ Resume(r, "withdrawn", "archive-candidate")
        \/ Active(r) /\ Resume(r, "withdrawn", "archive-swap")
        \/ Swapped(r) /\ Resume(r, "installed", "archive-swap")
        \/ SwappedOverEdit(r) /\ Resume(r, "withdrawn", "restore")
        \/ InstalledArchived(r) /\ Resume(r, "installed", "complete")
        \/ WithdrawnArchived(r) /\ Resume(r, "withdrawn", "complete")
        \/ /\ ~(\/ Unpublished(r) \/ Active(r) \/ Swapped(r) \/ SwappedOverEdit(r)
                \/ InstalledArchived(r) \/ WithdrawnArchived(r))
           /\ Stop("conflict")
    /\ UNCHANGED <<counters, faults, user, ghost>>

(* revalidateConfigExchangePair, before and after exchanging back.         *)
Revalidate(from, next, atFile, atSwap) ==
    /\ pc = from
    /\ IF file = atFile /\ swap = atSwap THEN Goto(next) /\ UNCHANGED <<disk, local, last>>
       ELSE Stop("failed")
    /\ UNCHANGED <<counters, faults, user, ghost>>

RestorePair ==
    \/ Revalidate("restore", "exchange-back", rec.staged, rec.prev)
    \/ Revalidate("revalidate", "archive-swap", rec.prev, rec.staged)

--------------------------------------------------------------------------------
(* ReclaimCompletedConfigExchanges, run by gc under fu.lock without        *)
(* recovering: a marked record, then a marker without a record, and        *)
(* archives only while nothing is pending.  It may stop after any removal. *)
GcRecord ==
    \E r \in records \ Pending : records' = records \ {r} /\ UNCHANGED <<markers, archive>>

GcMarker ==
    \E m \in markers :
        /\ \A r \in records : r.staged # m.staged
        /\ markers' = markers \ {m} /\ UNCHANGED <<records, archive>>

(* Mutant: archives are collected whatever is pending.                     *)
AnythingCollectable == TRUE

ArchivesCollectable == Pending = {}

GcArchive ==
    /\ ArchivesCollectable
    /\ \E o \in archive : archive' = archive \ {o} /\ UNCHANGED <<records, markers>>

Gc ==
    /\ pc = "idle"
    /\ GcRecord \/ GcMarker \/ GcArchive
    /\ UNCHANGED <<file, bytes, cands, swap, pc, local, last, counters, faults, user, ghost>>

(* The process dies.                                                       *)
Crash ==
    /\ pc # "idle" /\ faults < MaxFaults
    /\ faults' = faults + 1
    /\ Stop("crashed")
    /\ UNCHANGED <<counters, user, ghost>>

--------------------------------------------------------------------------------
(* A user saves fu.yaml, knowing what they save over.                      *)
Underway == Pending # {} \/ pc \in {"record", "publish"}

Save ==
    /\ Cardinality(edits) < MaxEdits
    /\ edits' = edits \cup {nextVersion}
    /\ nextVersion' = nextVersion + 1
    /\ settled' = settled \cup {bytes[file]}
    /\ meddled' = (meddled \/ Underway)
    /\ UNCHANGED <<cands, swap, archive, records, markers, pc, local, last, installs, faults,
                   displaced, finished, stuck>>

UserReplaces ==
    /\ Save
    /\ file' = nextObject
    /\ bytes' = [bytes EXCEPT ![nextObject] = nextVersion]
    /\ nextObject' = nextObject + 1
    /\ UNCHANGED over

UserRewrites ==
    /\ Save
    /\ bytes' = [bytes EXCEPT ![file] = nextVersion]
    /\ over' = IF \E r \in Pending : r.staged = file THEN over \cup {nextVersion} ELSE over
    /\ UNCHANGED <<file, nextObject>>

Next ==
    \/ Begin \/ Recovered \/ Load
    \/ CreateCandidate \/ FillCandidate \/ CapturePrevious \/ WriteRecord \/ PublishCandidate
    \/ Exchange \/ Judge \/ CheckCurrent \/ ExchangeBack
    \/ ArchiveCandidate \/ ArchiveSwap \/ Complete
    \/ ReclaimBookkeeping \/ ReclaimArchives \/ Reclaimed
    \/ Recover \/ RestorePair
    \/ Gc \/ Crash
    \/ UserReplaces \/ UserRewrites

Spec == Init /\ [][Next]_vars

--------------------------------------------------------------------------------
TypeOK ==
    /\ file \in Objects /\ swap \in Objects \cup {NONE}
    /\ bytes \in [Objects -> Versions \cup {NONE}]
    /\ cands \subseteq Objects /\ archive \subseteq Objects
    /\ records \subseteq Record /\ markers \subseteq Marker
    /\ pc \in {"idle", "recover", "load", "create", "fill", "capture", "record", "publish",
               "exchange", "judge", "check-current", "exchange-back", "archive-candidate",
               "archive-swap", "complete", "reclaim-record", "reclaim-marker",
               "reclaim-previous", "reclaim-staged", "reclaimed", "restore", "revalidate"}
    /\ mode \in {"recover", "install"}
    /\ \A f \in DOMAIN rec : rec[f] \in Objects \cup {NONE}
    /\ seen \in Versions \cup {NONE} /\ outcome \in Outcome
    /\ last \in {"none", "installed", "changed", "conflict", "failed", "crashed"}
    /\ nextObject \in Nat /\ nextVersion \in Nat
    /\ edits \subseteq Versions /\ over \subseteq edits /\ settled \subseteq Versions
    /\ displaced \in [Objects -> Versions \cup {NONE}] /\ finished \subseteq Objects
    /\ stuck \subseteq finished

(* No version a user saved is lost: unless fu has read it (it is then in   *)
(* the store's history) or a user has saved over it, some name still       *)
(* holds it.  config.go: SaveConfigExpecting "preserves whatever is there".*)
(* The one exception is a save in place over fu's own file, in an exchange *)
(* not yet completed: an editor that replaces the file never loses one.    *)
Held == {bytes[o] : o \in ({file, swap} \cup archive) \ {NONE}}
LostOnlyOver == edits \subseteq Held \cup settled \cup over

(* An exchange is completed as installed only if the version fu displaced  *)
(* was the one it had loaded, and as withdrawn only if its own is not the  *)
(* config; whichever process completes it.                                 *)
OutcomeHolds ==
    [][\A m \in markers' \ markers :
        IF m.outcome = "installed"
        THEN \E r \in records : r.staged = m.staged /\ displaced[m.staged] = r.expect
        ELSE file # m.staged]_vars

(* A completed exchange is never taken for an interrupted one again: "every *)
(* intermediate state here is safe" (reclaimConfigExchangeResidue), except *)
(* when its record could not be removed and its marker could.              *)
ReopenedOnlyIfStuck == \A r \in Pending : r.staged \in finished => r.staged \in stuck

(* Recovery never stops for good unless a user saved fu.yaml while an      *)
(* exchange was under way, or a record could not be removed: crashes and   *)
(* gc alone do not wedge the store.                                        *)
ConflictHasCause == last = "conflict" => meddled \/ stuck # {}
================================================================================
