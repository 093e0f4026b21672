---------------------------- MODULE ConfigExchangeProofs ----------------------------
(***************************************************************************)
(* For every number of installs, edits and failures: no version a user     *)
(* saved in fu.yaml is lost to an exchange, an exchange is completed as    *)
(* what it was, and only users or a record that cannot be removed make     *)
(* recovery stop over one.                                                 *)
(***************************************************************************)
EXTENDS ConfigExchange, FiniteSetTheorems, TLAPS

(* Where a candidate is made, its exchange is pending, and its residue is  *)
(* removed.                                                                *)
Making == {"fill", "capture", "record"}
Open == {"publish", "exchange", "judge", "check-current", "exchange-back", "archive-candidate",
         "archive-swap", "complete", "restore", "revalidate"}
Closing == {"reclaim-record", "reclaim-marker", "reclaim-previous", "reclaim-staged", "reclaimed"}

(* The bounds suffice: each process makes one candidate, each save one     *)
(* version.                                                                *)
Due(more) == IF pc # "idle" /\ (mode = "recover" \/ more) THEN 1 ELSE 0
CountersInv ==
    /\ nextObject \in Nat \ {0} /\ nextVersion \in Nat \ {0} /\ installs \in Nat
    /\ installs <= MaxInstalls /\ Cardinality(edits) <= MaxEdits
    /\ nextObject + Due(FALSE) <= 2 + installs + Cardinality(edits)
    /\ nextVersion + Due(pc = "fill") <= 2 + installs + Cardinality(edits)

(* The record in the process may still lack its parts.                     *)
RecInv == rec \in [staged : Objects \cup {NONE}, prev : Objects \cup {NONE},
                   expect : Versions \cup {NONE}, data : Versions \cup {NONE}]

(* Whatever has a name, is recorded or was saved was made before,          *)
FreshInv ==
    /\ file < nextObject /\ swap < nextObject
    /\ \A o \in cands \cup archive \cup finished : o < nextObject
    /\ \A o \in Objects : bytes[o] < nextVersion
    /\ \A v \in edits \cup settled : v < nextVersion
    /\ \A r \in records : r.staged < nextObject /\ r.prev < nextObject /\ r.data < nextVersion
    /\ rec.staged < nextObject /\ rec.prev < nextObject /\ rec.data < nextVersion

(* has one name, and a content unless it is a new candidate.               *)
NamesInv ==
    /\ file \notin cands \cup archive \cup {swap}
    /\ swap \notin cands \cup archive /\ cands \cap archive = {}
    /\ bytes[file] # NONE /\ (swap # NONE => bytes[swap] # NONE)
    /\ \A r \in records : bytes[r.staged] # NONE

(* Each candidate has one record; what was expected fu has read, and what  *)
(* it installs no user saved.                                              *)
Sound(r) == r.staged # r.prev /\ r.expect \in settled /\ r.data \notin edits
RecordsInv ==
    /\ \A r \in records : Sound(r)
    /\ \A r, s \in records : r.staged = s.staged => r = s
    /\ \A m \in markers : m.staged \in finished

(* One exchange at a time.                                                 *)
OneInv ==
    /\ \A r, s \in Pending : r = s
    /\ pc \in {"load", "create"} \cup Making => Pending = {}
    /\ pc \in Open => rec \in Pending
    /\ pc \in Closing => Pending \subseteq {rec}

(* What the process knows of it.                                           *)
StepInv ==
    /\ pc \in Making \cup {"publish", "exchange", "judge", "check-current"} => mode = "install"
    /\ pc \in {"idle", "recover", "load", "create", "restore", "revalidate"} => mode = "recover"
    /\ seen # NONE => seen \in settled
    /\ pc \in {"create"} \cup Making => seen # NONE
    /\ pc \in Making =>
        /\ rec.staged \in cands /\ rec.staged \notin finished /\ swap = NONE
        /\ \A r \in records : r.staged # rec.staged
    /\ pc \in {"capture", "record"} =>
        bytes[rec.staged] = rec.data /\ rec.data \in Versions \ edits /\ rec.expect = seen
    /\ pc = "record" => rec.prev \in Objects \ (archive \cup {rec.staged})
    /\ pc \in {"publish", "archive-candidate"} => rec.staged \in cands
    /\ pc \in {"publish", "exchange"} => rec.prev \notin archive
    /\ pc \in {"check-current", "exchange-back", "archive-candidate", "restore", "revalidate"} =>
        outcome = "withdrawn"
    /\ pc = "exchange" => swap = rec.staged
    /\ pc \in {"judge", "check-current", "exchange-back", "restore"} =>
        swap \notin {NONE, rec.staged}
    /\ pc = "judge" => displaced[rec.staged] = bytes[swap]
    /\ pc = "archive-swap" /\ outcome = "installed" =>
        swap = rec.prev /\ bytes[swap] = rec.expect /\ displaced[rec.staged] = rec.expect
    /\ pc = "complete" =>
        IF outcome = "installed" THEN displaced[rec.staged] = rec.expect
                                 ELSE rec.staged \in archive
    /\ pc \in {"complete"} \cup Closing => swap = NONE /\ rec.staged \notin cands
    /\ pc \in Closing =>
        rec.staged \in finished /\ \A r \in records : r.staged = rec.staged => r = rec
    /\ pc \in {"reclaim-record", "reclaim-marker"} /\ rec.prev \in archive =>
        displaced[rec.staged] = rec.expect

(* Where the objects of a pending exchange are.                            *)
PlacesInv == \A r \in Pending :
    /\ r.staged \in cands => swap = NONE
    /\ r.staged \in finished => swap = NONE /\ r.staged \notin cands
    /\ file = r.staged /\ swap # NONE => displaced[r.staged] = bytes[swap]
    /\ r.prev \in archive => displaced[r.staged] = r.expect

(* A version a user is owed is in fu.yaml or parked beside it, never in an *)
(* archive or in the candidate of an exchange to come.                     *)
Owed == edits \ (settled \cup over)
OwedInv ==
    /\ Owed \subseteq {bytes[o] : o \in {file, swap} \ {NONE}}
    /\ \A o \in archive : bytes[o] \notin Owed
    /\ \A r \in Pending : r.staged \in finished \/ bytes[r.staged] \notin Owed

(* A completed exchange is marked, unless its record cannot be removed.    *)
MarkedInv ==
    /\ ReopenedOnlyIfStuck
    /\ pc = "reclaim-marker" => rec.staged \in stuck \/ \A r \in records : r.staged # rec.staged

(* Without a user's save and a record that stays, an exchange is where     *)
(* recovery expects one.                                                   *)
Both(r) == InstalledNow(r) /\ swap = r.prev
Located(r) ==
    \/ Unpublished(r) /\ file = r.prev
    \/ Active(r)
    \/ Both(r)
    \/ InstalledArchived(r)
    \/ WithdrawnArchived(r)
LocatedInv == ~meddled /\ stuck = {} =>
    /\ \A r \in Pending : Located(r)
    /\ pc = "record" => file = rec.prev
    /\ pc \in {"publish", "archive-candidate"} => Unpublished(rec) /\ file = rec.prev
    /\ pc \in {"exchange", "revalidate"} => Active(rec)
    /\ pc \in {"judge", "check-current", "exchange-back", "restore"} => Both(rec)
    /\ pc = "archive-swap" => IF outcome = "installed" THEN Both(rec) ELSE Active(rec)
    /\ pc = "complete" =>
        IF outcome = "installed" THEN InstalledArchived(rec) ELSE WithdrawnArchived(rec)

IInv ==
    /\ TypeOK /\ CountersInv /\ RecInv /\ FreshInv /\ NamesInv /\ RecordsInv /\ OneInv /\ StepInv
    /\ PlacesInv /\ OwedInv /\ MarkedInv /\ LocatedInv /\ ConflictHasCause


(* The steps, without their branches.  A process stops,                    *)
Halt ==
    /\ pc # "idle" /\ pc' = "idle"
    /\ mode' = "recover" /\ rec' = NoRecord /\ seen' = NONE /\ outcome' = "installed"
    /\ UNCHANGED <<disk, counters, user, ghost>>
    /\ last' \in {"installed", "changed", "conflict", "failed", "crashed"}
    /\ last' = "conflict" => pc = "recover" /\ \E r \in Pending : ~Located(r)

(* goes on without a change to the disk,                                   *)
Walk(from, to) ==
    /\ pc = from /\ pc' = to
    /\ last' \in {last, "none"}
    /\ installs' = IF from = "idle" THEN installs + 1 ELSE installs
    /\ UNCHANGED <<disk, mode, seen, nextObject, nextVersion, user, ghost>>
Same == UNCHANGED <<rec, outcome>>
Enter == Same /\ Walk("idle", "recover") /\ installs < MaxInstalls
Proceed == Same /\ Walk("recover", IF seen = NONE THEN "load" ELSE "create") /\ Pending = {}
Capture == UNCHANGED outcome /\ Walk("capture", "record") /\ rec' = [rec EXCEPT !.prev = file]
Unpublish == UNCHANGED rec /\ outcome' = "withdrawn" /\ Walk("publish", "archive-candidate")
Accept ==
    UNCHANGED rec /\ outcome' = "installed" /\ Walk("judge", "archive-swap") /\ AsExpected
Refuse == UNCHANGED rec /\ outcome' = "withdrawn" /\ Walk("judge", "check-current")
Return == Same /\ Walk("check-current", "exchange-back") /\ file = rec.staged
Again ==
    UNCHANGED outcome /\ rec' = NoRecord /\ Walk("reclaimed", "recover") /\ mode # "install"
Resumed(r, how, next) == rec' = r /\ outcome' = how /\ Walk("recover", next)
Resumption(r) ==
    \/ Unpublished(r) /\ Resumed(r, "withdrawn", "archive-candidate")
    \/ Active(r) /\ Resumed(r, "withdrawn", "archive-swap")
    \/ Swapped(r) /\ Resumed(r, "installed", "archive-swap")
    \/ SwappedOverEdit(r) /\ Resumed(r, "withdrawn", "restore")
    \/ InstalledArchived(r) /\ Resumed(r, "installed", "complete")
    \/ WithdrawnArchived(r) /\ Resumed(r, "withdrawn", "complete")
Ready == Same /\ Walk("restore", "exchange-back") /\ file = rec.staged /\ swap = rec.prev
Restored == Same /\ Walk("revalidate", "archive-swap") /\ file = rec.prev /\ swap = rec.staged
Quiet ==
    \/ Enter \/ Proceed \/ Capture \/ Unpublish \/ Accept \/ Refuse \/ Return \/ Again
    \/ Ready \/ Restored \/ \E r \in Pending : Resumption(r)

(* or changes one or two of its names.                                     *)
Make ==
    /\ pc = "create" /\ pc' = "fill" /\ swap = NONE
    /\ cands' = cands \cup {nextObject} /\ rec' = [rec EXCEPT !.staged = nextObject]
    /\ nextObject' = nextObject + 1 /\ mode' = "install"
    /\ UNCHANGED <<file, bytes, swap, archive, records, markers, seen, outcome, last,
                   nextVersion, installs, user, ghost>>
Publish ==
    /\ pc = "publish" /\ pc' = "exchange"
    /\ swap' = rec.staged /\ cands' = cands \ {rec.staged}
    /\ UNCHANGED <<file, bytes, archive, records, markers, local, last, counters, user, ghost>>
Park ==
    /\ pc = "archive-swap" /\ pc' = "complete"
    /\ swap = Displaced /\ swap' = NONE /\ archive' = archive \cup {swap}
    /\ UNCHANGED <<file, bytes, cands, records, markers, local, last, counters, user, ghost>>

(* Residue is removed, or stays.                                           *)
Tidies(from, to) ==
    /\ pc = from /\ pc' = to
    /\ UNCHANGED <<file, bytes, cands, swap, local, last, counters, user, settled, displaced,
                   finished>>
DropRecord ==
    /\ Tidies("reclaim-record", "reclaim-marker")
    /\ records' = Unrecorded /\ UNCHANGED <<markers, archive, stuck>>
KeepRecord ==
    /\ Tidies("reclaim-record", "reclaim-marker")
    /\ stuck' = stuck \cup {rec.staged} /\ UNCHANGED <<records, markers, archive>>
DropMarker ==
    /\ Tidies("reclaim-marker", "reclaim-previous")
    /\ markers' = Unmarked /\ UNCHANGED <<records, archive, stuck>>
DropArchive ==
    /\ \/ Tidies("reclaim-previous", "reclaim-staged")
       \/ Tidies("reclaim-staged", "reclaimed")
    /\ archive' \subseteq archive /\ UNCHANGED <<records, markers, stuck>>
KeepMarker ==
    /\ Tidies("reclaim-marker", "reclaim-previous")
    /\ UNCHANGED <<records, markers, archive, stuck>>

(* The steps but those of the model that have no branch.                   *)
Branching ==
    \/ Halt \/ Quiet \/ Make \/ Publish \/ Park
    \/ DropRecord \/ KeepRecord \/ DropMarker \/ KeepMarker \/ DropArchive
Straight ==
    \/ Load \/ FillCandidate \/ WriteRecord \/ Exchange \/ ExchangeBack \/ ArchiveCandidate
    \/ Complete \/ Gc \/ UserReplaces \/ UserRewrites

--------------------------------------------------------------------------------
(* Objects and versions are counted from one.                              *)
LEMMA Numbers ==
    /\ Objects \subseteq Nat \ {0} /\ Versions \subseteq Nat \ {0} /\ NONE = 0
    /\ \A n \in Objects \cup Versions \cup {NONE} : n \in Nat
BY ExchangeAssumption DEF Objects, Versions, NONE

(* The types, one by one.                                                  *)
LEMMA Typed ==
    ASSUME TypeOK
    PROVE  /\ file \in Objects /\ swap \in Objects \cup {NONE}
           /\ bytes \in [Objects -> Versions \cup {NONE}]
           /\ cands \subseteq Objects /\ archive \subseteq Objects
           /\ \A r \in records : /\ r.staged \in Objects /\ r.prev \in Objects
                                 /\ r.expect \in Versions /\ r.data \in Versions
           /\ \A m \in markers : m.staged \in Objects /\ m.outcome \in Outcome
           /\ seen \in Versions \cup {NONE} /\ outcome \in Outcome
           /\ edits \subseteq Versions /\ over \subseteq edits /\ settled \subseteq Versions
           /\ displaced \in [Objects -> Versions \cup {NONE}]
           /\ finished \subseteq Objects /\ stuck \subseteq finished
           /\ nextObject \in Nat /\ nextVersion \in Nat
BY DEF TypeOK, Record, Marker

(* Every step is one of them.                                              *)
LEMMA Steps ==
    ASSUME Next
    PROVE  Branching \/ Straight
<1> USE DEF Branching, Straight, disk, local, counters, user, ghost
<1>1. CASE Begin BY <1>1 DEF Begin, Goto, Quiet, Enter, Same, Walk
<1>2. CASE Recovered BY <1>2 DEF Recovered, Goto, Quiet, Proceed, Same, Walk
<1>3. CASE CreateCandidate BY <1>3 DEF CreateCandidate, Goto, Stop, Exit, Halt, Make
<1>4. CASE CapturePrevious BY <1>4 DEF CapturePrevious, Goto, Quiet, Capture, Walk
<1>5. CASE PublishCandidate
  BY <1>5 DEF PublishCandidate, Goto, Publish, Quiet, Unpublish, Walk
<1>6. CASE Judge BY <1>6 DEF Judge, Goto, Quiet, Accept, Refuse, Walk
<1>7. CASE CheckCurrent
  BY <1>7 DEF CheckCurrent, StillOurs, Goto, Stop, Exit, Halt, Quiet, Return, Same, Walk
<1>8. CASE ArchiveSwap BY <1>8 DEF ArchiveSwap, Goto, Stop, Exit, Halt, Park
<1>9. CASE ReclaimBookkeeping
  BY <1>9 DEF ReclaimBookkeeping, Reclaim, Goto, DropRecord, KeepRecord, DropMarker, KeepMarker,
     Tidies
<1>10. CASE ReclaimArchives BY <1>10 DEF ReclaimArchives, Reclaim, Goto, DropArchive, Tidies
<1>11. CASE Reclaimed
  BY <1>11 DEF Reclaimed, Goto, Exit, Halt, Quiet, Again, Walk
<1>12. CASE Recover
  BY <1>12 DEF Recover, Resume, Goto, Stop, Exit, Halt, Quiet, Resumption, Resumed, Walk, Located,
     Both, Swapped, SwappedOverEdit
<1>13. CASE RestorePair
  BY <1>13 DEF RestorePair, Revalidate, Goto, Stop, Exit, Halt, Quiet, Ready, Restored, Same, Walk
<1>14. CASE Crash BY <1>14 DEF Crash, Stop, Exit, Halt
<1> QED BY <1>1, <1>2, <1>3, <1>4, <1>5, <1>6, <1>7, <1>8, <1>9, <1>10, <1>11, <1>12, <1>13, <1>14
        DEF Next

(* A process that stops or goes on changes nothing beside it.              *)
Still == UNCHANGED <<file, bytes, cands, swap, archive, records, markers, nextObject, nextVersion,
                     edits, over, meddled, settled, displaced, finished, stuck>>

(* Stopping and going on are still.                                       *)
LEMMA StillIs ==
    ASSUME Halt \/ Quiet \/ UNCHANGED vars
    PROVE  Still
BY DEF Still, Halt, Quiet, Enter, Proceed, Capture, Unpublish, Accept, Refuse, Return, Again, Ready,
   Restored, Resumption, Resumed, Walk, disk, counters, user, ghost, vars

(* What a record in the process is made of.                                *)
LEMMA RecTyped ==
    ASSUME RecInv
    PROVE  /\ rec.staged \in Objects \cup {NONE} /\ rec.prev \in Objects \cup {NONE}
           /\ rec.expect \in Versions \cup {NONE} /\ rec.data \in Versions \cup {NONE}
BY DEF RecInv

(* An object or a version can be made when one is due.                     *)
LEMMA Room ==
    ASSUME TypeOK, CountersInv, StepInv
    PROVE  /\ IsFiniteSet(edits) /\ Cardinality(edits) \in Nat
           /\ pc = "create" => nextObject \in Objects
           /\ pc = "fill" => nextVersion \in Versions
           /\ Cardinality(edits) < MaxEdits => nextObject \in Objects /\ nextVersion \in Versions
<1>1. IsFiniteSet(Versions)
  BY ExchangeAssumption, FS_Interval DEF Versions
<1>2. IsFiniteSet(edits) /\ Cardinality(edits) \in Nat
  BY <1>1, Typed, FS_Subset, FS_CardinalityType
<1>3. pc = "create" => nextObject \in Objects
  BY <1>2, ExchangeAssumption DEF CountersInv, StepInv, Due, Objects
<1>4. pc = "fill" => nextVersion \in Versions
  BY <1>2, ExchangeAssumption DEF CountersInv, StepInv, Due, Versions
<1>5. Cardinality(edits) < MaxEdits => nextObject \in Objects /\ nextVersion \in Versions
  BY <1>2, ExchangeAssumption DEF CountersInv, StepInv, Due, Objects, Versions
<1> QED BY <1>2, <1>3, <1>4, <1>5

(* A save is one version more.                                             *)
LEMMA OneMore ==
    ASSUME TypeOK, CountersInv, StepInv, FreshInv, Save
    PROVE  Cardinality(edits') = Cardinality(edits) + 1
<1>1. nextVersion \notin edits
  BY Typed, Numbers DEF FreshInv
<1> QED BY <1>1, Room, FS_AddElement DEF Save

(* The bounds stay sufficient.                                            *)
LEMMA CountersStay ==
    ASSUME TypeOK, CountersInv, StepInv, FreshInv, [Next]_vars
    PROVE  CountersInv'
<1>t. Cardinality(edits) \in Nat /\ nextObject \in Nat /\ nextVersion \in Nat
  BY Room, Typed
<1>s. Branching \/ Straight \/ UNCHANGED vars
  BY Steps
<1>1. CASE UserReplaces
  <2>1. Cardinality(edits') = Cardinality(edits) + 1 BY <1>1, OneMore DEF UserReplaces
  <2> QED BY <2>1, <1>1, <1>t, ExchangeAssumption DEF UserReplaces, Save, CountersInv, Due, local
<1>2. CASE UserRewrites
  <2>1. Cardinality(edits') = Cardinality(edits) + 1 BY <1>2, OneMore DEF UserRewrites
  <2> QED BY <2>1, <1>2, <1>t, ExchangeAssumption DEF UserRewrites, Save, CountersInv, Due, local
<1>3. CASE Halt
  BY <1>3, <1>t DEF Halt, CountersInv, Due, counters, user
<1>4. CASE Enter
  BY <1>4, <1>t, ExchangeAssumption DEF Enter, Same, Walk, CountersInv, Due, user
<1>5. CASE Quiet /\ ~Enter
  <2>1. nextObject' = nextObject /\ nextVersion' = nextVersion /\ edits' = edits /\ mode' = mode
    BY <1>5 DEF Quiet, Proceed, Capture, Unpublish, Accept, Refuse, Return, Again, Ready, Restored,
       Resumption, Resumed, Walk, user
  <2>2. pc \notin {"idle", "fill"} /\ pc' \notin {"idle", "fill"}
    BY <1>5 DEF Quiet, Proceed, Capture, Unpublish, Accept, Refuse, Return, Again, Ready, Restored,
       Resumption, Resumed, Walk
  <2>3. installs' = installs
    BY <1>5 DEF Quiet, Proceed, Capture, Unpublish, Accept, Refuse, Return, Again, Ready, Restored,
       Resumption, Resumed, Walk
  <2> QED BY <2>1, <2>2, <2>3, <1>t DEF CountersInv, Due
<1>6. CASE Make
  BY <1>6, <1>t DEF Make, CountersInv, Due, user, StepInv
<1>7. CASE FillCandidate
  BY <1>7, <1>t DEF FillCandidate, Goto, CountersInv, Due, user, StepInv, Making
<1>8. CASE Publish \/ Park \/ DropRecord \/ KeepRecord \/ DropMarker \/ KeepMarker \/ DropArchive
  BY <1>8, <1>t DEF Publish, Park, DropRecord, KeepRecord, DropMarker, KeepMarker, DropArchive,
     Tidies, CountersInv, Due, user, local, counters
<1>9. CASE Load \/ WriteRecord \/ Exchange \/ ExchangeBack \/ ArchiveCandidate \/ Complete
  BY <1>9, <1>t DEF Load, WriteRecord, Exchange, ExchangeBack, ArchiveCandidate, Complete, Goto,
     CountersInv, Due, user, local, counters
<1>10. CASE Gc \/ UNCHANGED vars
  BY <1>10, <1>t DEF Gc, CountersInv, Due, user, local, counters, vars
<1> QED BY <1>s, <1>1, <1>2, <1>3, <1>4, <1>5, <1>6, <1>7, <1>8, <1>9, <1>10
        DEF Branching, Straight

(* The parts of the record in the process stay what they are.              *)
LEMMA RecStays ==
    ASSUME TypeOK, RecInv, CountersInv, StepInv, [Next]_vars
    PROVE  RecInv'
<1>t. /\ RecInv /\ \A r \in Pending : r \in records
      /\ records \subseteq Record /\ file \in Objects /\ seen \in Versions \cup {NONE}
  BY DEF TypeOK, Pending
<1>s. Branching \/ Straight \/ UNCHANGED vars
  BY Steps
<1>1. CASE Make
  <2>1. nextObject \in Objects BY <1>1, Room DEF Make
  <2> QED BY <2>1, <1>1, <1>t DEF Make, RecInv
<1>2. CASE FillCandidate
  <2>1. nextVersion \in Versions BY <1>2, Room DEF FillCandidate
  <2> QED BY <2>1, <1>2, <1>t DEF FillCandidate, RecInv
<1>3. CASE Capture
  BY <1>3, <1>t DEF Capture, RecInv
<1>4. CASE \E r \in Pending : Resumption(r)
  <2>1. rec' \in records BY <1>4, <1>t DEF Resumption, Resumed
  <2> QED BY <2>1, <1>t DEF RecInv, Record
<1>5. CASE Halt \/ Again
  BY <1>5 DEF Halt, Again, NoRecord, RecInv
<1>6. CASE rec' = rec
  BY <1>6, <1>t DEF RecInv
<1> QED BY <1>s, <1>1, <1>2, <1>3, <1>4, <1>5, <1>6
        DEF Branching, Straight, Quiet, Enter, Proceed, Unpublish, Accept, Refuse, Return, Ready,
            Restored, Same, Publish, Park, Tidies, DropRecord, KeepRecord, DropMarker, KeepMarker,
            DropArchive, Load, WriteRecord, Exchange, ExchangeBack, ArchiveCandidate, Complete, Gc,
            UserReplaces, UserRewrites, Save, local, vars

(* What a process works on exists.                                         *)
LEMMA AtWork ==
    ASSUME TypeOK, RecInv, OneInv, StepInv
    PROVE  /\ pc \in Making \cup Open \cup Closing => rec.staged \in Objects
           /\ pc \in Open => rec \in Record /\ rec.prev \in Objects
           /\ pc = "record" => rec \in Record
<1>1. pc \in Open => rec \in Record /\ rec.prev \in Objects /\ rec.staged \in Objects
  BY DEF TypeOK, OneInv, Pending, Record
<1>2. pc \in Making => rec.staged \in Objects
  BY Typed DEF StepInv
<1>3. pc \in Closing => rec.staged \in Objects
  BY Typed DEF StepInv
<1>4. pc = "record" => rec \in Record
  <2> SUFFICES ASSUME pc = "record" PROVE rec \in Record
    OBVIOUS
  <2>1. rec.prev \in Objects /\ rec.data \in Versions /\ rec.expect = seen
    BY DEF StepInv
  <2>2. seen \in Versions
    BY Typed DEF StepInv, Making
  <2> QED BY <2>1, <2>2, <1>2 DEF RecInv, Record, Making
<1> QED BY <1>1, <1>2, <1>3, <1>4

(* The types in three parts.                                               *)
DiskTyped ==
    /\ file \in Objects /\ swap \in Objects \cup {NONE}
    /\ bytes \in [Objects -> Versions \cup {NONE}]
    /\ cands \subseteq Objects /\ archive \subseteq Objects
    /\ records \subseteq Record /\ markers \subseteq Marker
LocalTyped ==
    /\ pc \in {"idle", "recover", "load", "create"} \cup Making \cup Open \cup Closing
    /\ mode \in {"recover", "install"} /\ outcome \in Outcome
    /\ seen \in Versions \cup {NONE}
    /\ last \in {"none", "installed", "changed", "conflict", "failed", "crashed"}
GhostTyped ==
    /\ edits \subseteq Versions /\ over \subseteq edits /\ settled \subseteq Versions
    /\ displaced \in [Objects -> Versions \cup {NONE}]
    /\ finished \subseteq Objects /\ stuck \subseteq finished
(* The parts make the types, with what the record and the counters are.   *)
LEMMA TypeIs ==
    /\ TypeOK => DiskTyped /\ LocalTyped /\ GhostTyped
    /\ DiskTyped /\ LocalTyped /\ GhostTyped /\ RecInv /\ CountersInv => TypeOK
<1>1. ASSUME RecInv PROVE \A f \in DOMAIN rec : rec[f] \in Objects \cup {NONE}
  <2>1. DOMAIN rec = {"staged", "prev", "expect", "data"}
    BY <1>1 DEF RecInv
  <2>2. Versions = Objects
    BY DEF Versions, Objects
  <2> QED BY <2>1, <2>2, <1>1, RecTyped
<1> QED BY <1>1 DEF TypeOK, DiskTyped, LocalTyped, GhostTyped, CountersInv, Making, Open, Closing

(* What is in the files has a type,                                        *)
LEMMA DiskTypesStay ==
    ASSUME TypeOK, RecInv, CountersInv, StepInv, OneInv, [Next]_vars
    PROVE  DiskTyped'
<1>t. DiskTyped /\ outcome \in Outcome
  BY TypeIs DEF LocalTyped
<1>s. Branching \/ Straight \/ UNCHANGED vars
  BY Steps
<1>w. /\ pc \in Making \cup Open \cup Closing => rec.staged \in Objects
      /\ pc \in Open => rec.prev \in Objects
      /\ pc = "record" => rec \in Record
  BY AtWork
<1>1. CASE Halt \/ Quiet \/ UNCHANGED vars
  BY <1>1, <1>t, StillIs DEF Still, DiskTyped
<1>2. CASE Make
  <2>1. nextObject \in Objects BY <1>2, Room DEF Make
  <2> QED BY <2>1, <1>2, <1>t DEF Make, DiskTyped
<1>3. CASE FillCandidate
  <2>1. nextVersion \in Versions BY <1>3, Room DEF FillCandidate
  <2> QED BY <2>1, <1>3, <1>t DEF FillCandidate, DiskTyped
<1>4. CASE WriteRecord
  BY <1>4, <1>t, <1>w DEF WriteRecord, DiskTyped
<1>5. CASE Publish \/ Park \/ ArchiveCandidate
  <2>1. rec.staged \in Objects /\ rec.prev \in Objects
    BY <1>5, <1>w DEF Publish, Park, ArchiveCandidate, Open
  <2> QED BY <2>1, <1>5, <1>t DEF Publish, Park, ArchiveCandidate, Displaced, DiskTyped
<1>6. CASE Exchange \/ ExchangeBack
  <2>1. file' = swap /\ swap' = file
    BY <1>6 DEF Exchange, ExchangeBack, Exchanged
  <2>2. swap # NONE
    <3>1. CASE pc = "exchange" BY <3>1, <1>w, Numbers DEF StepInv, Open
    <3>2. CASE pc = "exchange-back" BY <3>2 DEF StepInv
    <3> QED BY <3>1, <3>2, <1>6 DEF Exchange, ExchangeBack
  <2> QED BY <2>1, <2>2, <1>6, <1>t DEF Exchange, ExchangeBack, DiskTyped
<1>7. CASE Complete
  <2>1. [staged |-> rec.staged, outcome |-> outcome] \in Marker
    BY <1>7, <1>t, <1>w DEF Complete, Marker, Open
  <2> QED BY <2>1, <1>7, <1>t DEF Complete, DiskTyped
<1>8. CASE DropRecord \/ KeepRecord \/ DropMarker \/ KeepMarker \/ DropArchive
  BY <1>8, <1>t DEF DropRecord, KeepRecord, DropMarker, KeepMarker, DropArchive, Tidies, Unrecorded,
     Unmarked, DiskTyped
<1>9. CASE Load
  BY <1>9, <1>t DEF Load, disk, DiskTyped
<1>10. CASE Gc
  BY <1>10, <1>t DEF Gc, GcRecord, GcMarker, GcArchive, DiskTyped
<1>11. CASE UserReplaces \/ UserRewrites
  <2>1. nextObject \in Objects /\ nextVersion \in Versions
    BY <1>11, Room DEF UserReplaces, UserRewrites, Save
  <2> QED BY <2>1, <1>11, <1>t DEF UserReplaces, UserRewrites, Save, DiskTyped
<1> QED BY <1>s, <1>1, <1>2, <1>3, <1>4, <1>5, <1>6, <1>7, <1>8, <1>9, <1>10, <1>11
        DEF Branching, Straight

(* what the process knows has one,                                         *)
LEMMA LocalTypesStay ==
    ASSUME TypeOK, [Next]_vars
    PROVE  LocalTyped'
<1>t. LocalTyped /\ DiskTyped
  BY TypeIs
<1>s. Branching \/ Straight \/ UNCHANGED vars
  BY Steps
<1>1. CASE Halt
  BY <1>1 DEF Halt, LocalTyped, Outcome
<1>2. CASE Enter \/ Proceed \/ Capture \/ Unpublish \/ Accept \/ Refuse \/ Return \/ Again \/ Ready
           \/ Restored
  BY <1>2, <1>t DEF Enter, Proceed, Capture, Unpublish, Accept, Refuse, Return, Again, Ready,
     Restored, Same, Walk, LocalTyped, Outcome, Making, Open, Closing
<1>3. CASE \E r \in Pending : Resumption(r)
  BY <1>3, <1>t DEF Resumption, Resumed, Walk, LocalTyped, Outcome, Making, Open, Closing
<1>4. CASE Make \/ Publish \/ Park \/ DropRecord \/ KeepRecord \/ DropMarker \/ KeepMarker
           \/ DropArchive
  BY <1>4, <1>t DEF Make, Publish, Park, DropRecord, KeepRecord, DropMarker, KeepMarker,
     DropArchive, Tidies, local, LocalTyped, Making, Open, Closing
<1>5. CASE Load
  <2>1. seen' \in Versions \cup {NONE} BY <1>5, <1>t DEF Load, DiskTyped
  <2> QED BY <2>1, <1>5, <1>t DEF Load, Goto, LocalTyped
<1>6. CASE FillCandidate \/ WriteRecord \/ Exchange \/ ExchangeBack \/ ArchiveCandidate \/ Complete
  BY <1>6, <1>t DEF FillCandidate, WriteRecord, Exchange, ExchangeBack, ArchiveCandidate, Complete,
     Goto, local, LocalTyped, Making, Open, Closing
<1>7. CASE Gc \/ UserReplaces \/ UserRewrites \/ UNCHANGED vars
  BY <1>7, <1>t DEF Gc, UserReplaces, UserRewrites, Save, vars, local, LocalTyped
<1> QED BY <1>s, <1>1, <1>2, <1>3, <1>4, <1>5, <1>6, <1>7 DEF Branching, Straight, Quiet

(* and what is remembered.                                                 *)
LEMMA GhostTypesStay ==
    ASSUME TypeOK, RecInv, CountersInv, StepInv, OneInv, NamesInv, [Next]_vars
    PROVE  GhostTyped'
<1>t. /\ GhostTyped /\ DiskTyped /\ bytes[file] \in Versions
      /\ bytes \in [Objects -> Versions \cup {NONE}] /\ file \in Objects
  BY TypeIs DEF DiskTyped, NamesInv
<1>s. Branching \/ Straight \/ UNCHANGED vars
  BY Steps
<1>w. /\ pc \in Making \cup Open \cup Closing => rec.staged \in Objects
      /\ pc \in Closing => rec.staged \in finished
  BY AtWork DEF StepInv
<1>1. CASE Halt \/ Quiet \/ UNCHANGED vars
  BY <1>1, <1>t, StillIs DEF Still, GhostTyped
<1>2. CASE Make \/ Publish \/ Park \/ DropRecord \/ DropMarker \/ KeepMarker \/ DropArchive
  BY <1>2, <1>t DEF Make, Publish, Park, DropRecord, DropMarker, KeepMarker, DropArchive, Tidies,
     user, ghost, GhostTyped
<1>3. CASE KeepRecord
  BY <1>3, <1>t, <1>w DEF KeepRecord, Tidies, Closing, user, GhostTyped
<1>4. CASE Load
  BY <1>4, <1>t DEF Load, user, GhostTyped
<1>5. CASE FillCandidate \/ WriteRecord \/ ExchangeBack \/ ArchiveCandidate \/ Gc
  BY <1>5, <1>t DEF FillCandidate, WriteRecord, ExchangeBack, ArchiveCandidate, Gc, user, ghost,
     GhostTyped
<1>6. CASE Exchange
  BY <1>6, <1>t DEF Exchange, user, GhostTyped
<1>7. CASE Complete
  BY <1>7, <1>t, <1>w DEF Complete, Open, user, GhostTyped
<1>8. CASE UserReplaces \/ UserRewrites
  <2>1. nextVersion \in Versions
    BY <1>8, Room DEF UserReplaces, UserRewrites, Save
  <2> QED BY <2>1, <1>8, <1>t DEF UserReplaces, UserRewrites, Save, GhostTyped
<1> QED BY <1>s, <1>1, <1>2, <1>3, <1>4, <1>5, <1>6, <1>7, <1>8 DEF Branching, Straight

(* All in all:                                                             *)
LEMMA TypesStay ==
    ASSUME TypeOK, RecInv, CountersInv, FreshInv, StepInv, OneInv, NamesInv, [Next]_vars
    PROVE  TypeOK' /\ RecInv' /\ CountersInv'
<1>1. DiskTyped' /\ LocalTyped' /\ GhostTyped' /\ RecInv' /\ CountersInv'
  BY DiskTypesStay, LocalTypesStay, GhostTypesStay, RecStays, CountersStay
<1>2. (DiskTyped /\ LocalTyped /\ GhostTyped /\ RecInv /\ CountersInv => TypeOK)'
  BY TypeIs, PTL
<1> QED BY <1>1, <1>2

(* A new object or version is newer than what has a name.                  *)
LEMMA FreshStays ==
    ASSUME TypeOK, RecInv, CountersInv, FreshInv, StepInv, [Next]_vars
    PROVE  FreshInv'
<1>n. nextObject \in Nat \ {0} /\ nextVersion \in Nat \ {0} /\ NONE = 0
  BY Numbers DEF CountersInv
<1>o. /\ file \in Objects /\ bytes \in [Objects -> Versions \cup {NONE}]
      /\ cands \subseteq Objects /\ archive \subseteq Objects /\ finished \subseteq Objects
      /\ edits \subseteq Versions /\ settled \subseteq Versions
  BY Typed
<1>i. /\ file \in Nat /\ swap \in Nat /\ (\A o \in Objects : o \in Nat)
      /\ (\A v \in Versions : v \in Nat)
  BY Typed, Numbers
<1>e. /\ \A r \in records : r.staged \in Nat /\ r.prev \in Nat /\ r.data \in Nat
      /\ rec.staged \in Nat /\ rec.prev \in Nat /\ rec.data \in Nat
  <2>1. \A r \in records : r.staged \in Objects /\ r.prev \in Objects /\ r.data \in Versions
    BY Typed
  <2> QED BY <2>1, RecTyped, Numbers
<1>b. \A o \in Objects : bytes[o] \in Nat
  <2>1. \A o \in Objects : bytes[o] \in Versions \cup {NONE} BY <1>o
  <2> QED BY <2>1, Numbers
<1>t. /\ nextObject \in Nat \ {0} /\ nextVersion \in Nat \ {0} /\ NONE = 0
      /\ file \in Nat /\ swap \in Nat /\ (\A o \in Objects : o \in Nat /\ bytes[o] \in Nat)
      /\ \A v \in Versions : v \in Nat
      /\ cands \subseteq Objects /\ archive \subseteq Objects /\ finished \subseteq Objects
      /\ edits \subseteq Versions /\ settled \subseteq Versions
      /\ \A r \in records : r.staged \in Nat /\ r.prev \in Nat /\ r.data \in Nat
      /\ rec.staged \in Nat /\ rec.prev \in Nat /\ rec.data \in Nat
      /\ file \in Objects /\ bytes \in [Objects -> Versions \cup {NONE}]
  BY <1>n, <1>o, <1>i, <1>e, <1>b
<1>r. \A r \in Pending : r \in records
  BY DEF Pending
<1>s. Branching \/ Straight \/ UNCHANGED vars
  BY Steps
<1>1. CASE Halt
  BY <1>1, <1>t DEF Halt, FreshInv, NoRecord, disk, counters, user, ghost
<1>2. CASE Again
  BY <1>2, <1>t DEF Again, Walk, FreshInv, NoRecord, disk, user, ghost
<1>3. CASE Capture
  BY <1>3, <1>t, RecTyped DEF Capture, Walk, FreshInv, disk, user, ghost, RecInv
<1>4. CASE \E r \in Pending : Resumption(r)
  BY <1>4, <1>t, <1>r DEF Resumption, Resumed, Walk, FreshInv, disk, user, ghost
<1>5. CASE Quiet /\ rec' = rec
  BY <1>5, <1>t, StillIs DEF Still, FreshInv
<1>6. CASE Make
  <2>1. nextObject < nextObject' /\ nextObject' \in Nat BY <1>6, <1>t DEF Make
  <2>2. rec' = [rec EXCEPT !.staged = nextObject] BY <1>6 DEF Make
  <2>3. rec'.staged = nextObject /\ rec'.prev = rec.prev /\ rec'.data = rec.data
    BY <2>2 DEF RecInv
  <2>4. \A o \in Nat : o < nextObject => o < nextObject' BY <2>1, <1>t
  <2> QED BY <2>1, <2>3, <2>4, <1>6, <1>t DEF Make, FreshInv, user, ghost
<1>7. CASE Load
  BY <1>7, <1>t DEF Load, FreshInv, disk, counters, user
<1>8. CASE FillCandidate
  <2>1. nextVersion < nextVersion' /\ nextVersion' \in Nat BY <1>8, <1>t DEF FillCandidate
  <2>2. rec' = [rec EXCEPT !.expect = seen, !.data = nextVersion] BY <1>8 DEF FillCandidate
  <2>3. rec'.staged = rec.staged /\ rec'.prev = rec.prev /\ rec'.data = nextVersion
    BY <2>2 DEF RecInv
  <2>4. \A o \in Nat : o < nextVersion => o < nextVersion' BY <2>1, <1>t
  <2>5. \A o \in Objects : bytes'[o] < nextVersion'
    BY <2>1, <2>4, <1>8, <1>t DEF FillCandidate, FreshInv
  <2> QED BY <2>1, <2>3, <2>4, <2>5, <1>8, <1>t DEF FillCandidate, FreshInv, user, ghost
<1>9. CASE WriteRecord
  BY <1>9, <1>t DEF WriteRecord, FreshInv, local, counters, user, ghost
<1>10. CASE Exchange \/ ExchangeBack
  <2>1. file' = swap /\ swap' = file BY <1>10 DEF Exchange, ExchangeBack, Exchanged
  <2> QED BY <2>1, <1>10, <1>t
          DEF Exchange, ExchangeBack, FreshInv, local, counters, user, ghost
<1>11. CASE ArchiveCandidate
  BY <1>11, <1>t DEF ArchiveCandidate, FreshInv, local, counters, user, ghost
<1>12. CASE Complete
  BY <1>12, <1>t DEF Complete, FreshInv, local, counters, user
<1>13. CASE UserReplaces
  <2>1. nextObject < nextObject' /\ nextObject' \in Nat BY <1>13, <1>t DEF UserReplaces
  <2>2. nextVersion < nextVersion' /\ nextVersion' \in Nat BY <1>13, <1>t DEF UserReplaces, Save
  <2>3. \A o \in Nat : (o < nextObject => o < nextObject') /\ (o < nextVersion => o < nextVersion')
    BY <2>1, <2>2, <1>t
  <2>4. \A o \in Objects : bytes'[o] < nextVersion'
    BY <2>2, <2>3, <1>13, <1>t DEF UserReplaces, FreshInv
  <2> QED BY <2>1, <2>2, <2>3, <2>4, <1>13, <1>t DEF UserReplaces, Save, FreshInv, local
<1>14. CASE UserRewrites
  <2>2. nextVersion < nextVersion' /\ nextVersion' \in Nat BY <1>14, <1>t DEF UserRewrites, Save
  <2>3. \A o \in Nat : o < nextVersion => o < nextVersion'
    BY <2>2, <1>t
  <2>4. \A o \in Objects : bytes'[o] < nextVersion'
    BY <2>2, <2>3, <1>14, <1>t DEF UserRewrites, FreshInv
  <2> QED BY <2>2, <2>3, <2>4, <1>14, <1>t DEF UserRewrites, Save, FreshInv, local
<1>15. CASE Publish
  BY <1>15, <1>t DEF Publish, FreshInv, local, counters, user, ghost
<1>16. CASE Park
  BY <1>16, <1>t DEF Park, FreshInv, local, counters, user, ghost
<1>17. CASE DropRecord \/ KeepRecord
  BY <1>17, <1>t DEF DropRecord, KeepRecord, Tidies, Unrecorded, FreshInv, local, counters, user
<1>18. CASE DropMarker \/ KeepMarker \/ DropArchive
  BY <1>18, <1>t DEF DropMarker, KeepMarker, DropArchive, Tidies, FreshInv, local, counters, user
<1>19. CASE Gc
  BY <1>19, <1>t DEF Gc, GcRecord, GcMarker, GcArchive, FreshInv, local, counters, user, ghost
<1>20. CASE UNCHANGED vars
  BY <1>20 DEF FreshInv, vars, disk, local, counters, user, ghost
<1> QED BY <1>s, <1>1, <1>2, <1>3, <1>4, <1>5, <1>6, <1>7, <1>8, <1>9, <1>10, <1>11, <1>12, <1>13,
           <1>14, <1>15, <1>16, <1>17, <1>18, <1>19, <1>20
        DEF Branching, Straight, Quiet, Enter, Proceed, Unpublish, Accept, Refuse, Return, Ready,
            Restored, Same

(* What has a name has one and a content.                                  *)
LEMMA NamesStay ==
    ASSUME TypeOK, RecInv, CountersInv, FreshInv, NamesInv, StepInv, OneInv, [Next]_vars
    PROVE  NamesInv'
<1>t. /\ DiskTyped /\ NONE \notin Objects /\ NONE \notin Versions
      /\ nextObject \notin {file, swap} \cup cands \cup archive
      /\ nextVersion # NONE
      /\ \A r \in records : r.staged # nextObject /\ r.staged \in Objects
  <2>1. \A o \in cands \cup archive : o < nextObject BY DEF FreshInv
  <2> QED BY <2>1, TypeIs, Typed, Numbers DEF FreshInv, CountersInv
<1>s. Branching \/ Straight \/ UNCHANGED vars
  BY Steps
<1>1. CASE Halt \/ Quiet \/ UNCHANGED vars
  BY <1>1, <1>t, StillIs DEF Still, NamesInv
<1>2. CASE Make
  BY <1>2, <1>t DEF Make, NamesInv
<1>3. CASE FillCandidate
  <2>1. rec.staged \in cands /\ (\A r \in records : r.staged # rec.staged) /\ rec.staged \in Objects
    BY <1>3, <1>t DEF FillCandidate, StepInv, Making, DiskTyped
  <2>2. /\ bytes'[file] = bytes[file] /\ (swap # NONE => bytes'[swap] = bytes[swap])
        /\ \A r \in records : bytes'[r.staged] = bytes[r.staged]
    BY <2>1, <1>3, <1>t DEF FillCandidate, NamesInv, DiskTyped
  <2> QED BY <2>2, <1>3 DEF FillCandidate, NamesInv
<1>4. CASE WriteRecord
  <2>1. bytes[rec.staged] # NONE
    BY <1>4, <1>t DEF WriteRecord, StepInv
  <2> QED BY <2>1, <1>4 DEF WriteRecord, NamesInv
<1>5. CASE Publish
  <2>1. rec.staged \in cands /\ rec \in records
    BY <1>5 DEF Publish, StepInv, OneInv, Open, Pending
  <2> QED BY <2>1, <1>5, <1>t DEF Publish, NamesInv, DiskTyped
<1>6. CASE Park
  <2>1. swap # NONE
    BY <1>6, <1>t, AtWork DEF Park, Displaced, Open
  <2> QED BY <2>1, <1>6, <1>t DEF Park, NamesInv, DiskTyped
<1>7. CASE Exchange \/ ExchangeBack
  <2>1. file' = swap /\ swap' = file /\ UNCHANGED <<bytes, cands, archive, records>>
    BY <1>7 DEF Exchange, ExchangeBack, Exchanged
  <2>2. swap # NONE
    <3>1. CASE pc = "exchange" BY <3>1, AtWork, <1>t DEF StepInv, Open
    <3>2. CASE pc = "exchange-back" BY <3>2 DEF StepInv
    <3> QED BY <3>1, <3>2, <1>7 DEF Exchange, ExchangeBack
  <2> QED BY <2>1, <2>2 DEF NamesInv
<1>8. CASE ArchiveCandidate
  <2>1. rec.staged \in cands
    BY <1>8 DEF ArchiveCandidate, StepInv
  <2> QED BY <2>1, <1>8, <1>t DEF ArchiveCandidate, NamesInv, DiskTyped
<1>9. CASE Load \/ Complete
  BY <1>9 DEF Load, Complete, disk, NamesInv
<1>10. CASE DropRecord \/ KeepRecord \/ DropMarker \/ KeepMarker \/ DropArchive
  BY <1>10 DEF DropRecord, KeepRecord, DropMarker, KeepMarker, DropArchive, Tidies, Unrecorded,
     NamesInv
<1>11. CASE Gc
  BY <1>11 DEF Gc, GcRecord, GcMarker, GcArchive, NamesInv
<1>12. CASE UserReplaces
  <2>1. nextObject \in Objects
    BY <1>12, Room DEF UserReplaces, Save
  <2> QED BY <2>1, <1>12, <1>t DEF UserReplaces, Save, NamesInv, DiskTyped
<1>13. CASE UserRewrites
  <2>1. \A o \in Objects : bytes'[o] \in {bytes[o], nextVersion}
    BY <1>13, <1>t DEF UserRewrites, DiskTyped
  <2> QED BY <2>1, <1>13, <1>t DEF UserRewrites, Save, NamesInv, DiskTyped
<1> QED BY <1>s, <1>1, <1>2, <1>3, <1>4, <1>5, <1>6, <1>7, <1>8, <1>9, <1>10, <1>11, <1>12, <1>13
        DEF Branching, Straight

(* What is pending, step by step.                                          *)
LEMMA PendingMoves ==
    ASSUME TypeOK, RecordsInv, OneInv, StepInv, Next
    PROVE  /\ WriteRecord => Pending' = {rec}
           /\ Complete => Pending' = {}
           /\ DropRecord => Pending' = {}
           /\ DropMarker => /\ Pending' \subseteq {rec}
                            /\ \A r \in Pending' : r \in records
           /\ \/ WriteRecord \/ Complete \/ DropRecord \/ DropMarker
              \/ Pending' = Pending
<1>s. Branching \/ Straight
  BY Steps
<1>1. ASSUME WriteRecord PROVE Pending' = {rec}
  <2>1. Pending = {} /\ rec.staged \notin finished /\ records' = records \cup {rec} /\
        markers' = markers
    BY <1>1 DEF WriteRecord, OneInv, StepInv, Making
  <2>2. \A m \in markers : m.staged # rec.staged
    BY <2>1 DEF RecordsInv
  <2> QED BY <2>1, <2>2 DEF Pending
<1>2. ASSUME Complete PROVE Pending' = {}
  <2>1. /\ \A r \in Pending : r = rec
        /\ markers' = markers \cup {[staged |-> rec.staged, outcome |-> outcome]}
        /\ records' = records
    BY <1>2 DEF Complete, OneInv, Open
  <2> QED BY <2>1 DEF Pending
<1>3. ASSUME DropRecord PROVE Pending' = {}
  <2>1. /\ \A r \in Pending : r = rec
        /\ records' = {r \in records : r.staged # rec.staged} /\ markers' = markers
    BY <1>3 DEF DropRecord, Tidies, OneInv, Closing, Unrecorded
  <2>2. Pending' \subseteq Pending /\ rec \notin Pending'
    BY <2>1 DEF Pending
  <2> QED BY <2>1, <2>2
<1>4. ASSUME DropMarker
      PROVE  Pending' \subseteq {rec} /\ \A r \in Pending' : r \in records
  <2>1. /\ \A r \in Pending : r = rec
        /\ \A r \in records : r.staged = rec.staged => r = rec
        /\ records' = records /\ markers' = {m \in markers : m.staged # rec.staged}
    BY <1>4 DEF DropMarker, Tidies, OneInv, StepInv, Closing, Unmarked
  <2> QED BY <2>1 DEF Pending
<1>5. ASSUME Halt \/ Quiet PROVE Pending' = Pending
  BY <1>5, StillIs DEF Still, Pending
<1>6. ASSUME Make \/ Publish \/ Park \/ KeepRecord \/ KeepMarker \/ DropArchive
      PROVE  Pending' = Pending
  BY <1>6 DEF Make, Publish, Park, KeepRecord, KeepMarker, DropArchive, Tidies, Pending
<1>7. ASSUME \/ Load \/ FillCandidate \/ Exchange \/ ExchangeBack \/ ArchiveCandidate
             \/ UserReplaces \/ UserRewrites
      PROVE  Pending' = Pending
  BY <1>7 DEF Load, FillCandidate, Exchange, ExchangeBack, ArchiveCandidate, UserReplaces,
     UserRewrites, Save, disk, Pending
<1>8. ASSUME Gc PROVE Pending' = Pending
  <2>1. CASE GcRecord
    BY <2>1 DEF GcRecord, Pending
  <2>2. CASE GcMarker
    BY <2>2 DEF GcMarker, Pending
  <2>3. CASE GcArchive
    BY <2>3 DEF GcArchive, Pending
  <2> QED BY <1>8, <2>1, <2>2, <2>3 DEF Gc
<1> QED BY <1>s, <1>1, <1>2, <1>3, <1>4, <1>5, <1>6, <1>7, <1>8
        DEF Branching, Straight

(* Records stay sound,                                                     *)
LEMMA RecordsStay ==
    ASSUME TypeOK, RecInv, FreshInv, RecordsInv, StepInv, [Next]_vars
    PROVE  RecordsInv'
<1>t. \A r \in records : r.data \in Versions /\ r.data # nextVersion
  BY Typed, Numbers DEF FreshInv
<1>s. Branching \/ Straight \/ UNCHANGED vars
  BY Steps
<1>1. CASE Halt \/ Quiet \/ UNCHANGED vars
  BY <1>1, StillIs DEF Still, RecordsInv, Sound
<1>2. CASE WriteRecord
  <2>1. /\ rec.staged # rec.prev /\ rec.expect \in settled /\ rec.data \notin edits
        /\ \A r \in records : r.staged # rec.staged
    BY <1>2 DEF WriteRecord, StepInv, Making
  <2>2. records' = records \cup {rec} /\ UNCHANGED <<markers, edits, settled, finished>>
    BY <1>2 DEF WriteRecord, user, ghost
  <2> QED BY <2>1, <2>2 DEF RecordsInv, Sound
<1>3. CASE UserReplaces \/ UserRewrites
  <2>1. /\ edits' = edits \cup {nextVersion} /\ settled \subseteq settled'
        /\ UNCHANGED <<records, markers, finished>>
    BY <1>3 DEF UserReplaces, UserRewrites, Save
  <2> QED BY <2>1, <1>t DEF RecordsInv, Sound
<1>4. CASE \/ Make \/ Publish \/ Park \/ Load \/ FillCandidate \/ Exchange \/ ExchangeBack
           \/ ArchiveCandidate \/ DropRecord \/ KeepRecord \/ DropMarker \/ KeepMarker
           \/ DropArchive \/ Gc
  <2>1. /\ records' \subseteq records /\ markers' \subseteq markers /\ settled \subseteq settled'
        /\ edits' = edits /\ finished' = finished
    BY <1>4 DEF Make, Publish, Park, Load, FillCandidate, Exchange, ExchangeBack, ArchiveCandidate,
       DropRecord, KeepRecord, DropMarker, KeepMarker, DropArchive, Tidies, Unrecorded, Unmarked,
         Gc,
       GcRecord, GcMarker, GcArchive, disk, user, ghost
  <2> QED BY <2>1 DEF RecordsInv, Sound
<1>5. CASE Complete
  <2>1. /\ records' = records /\ settled' = settled /\ edits' = edits
        /\ markers' = markers \cup {[staged |-> rec.staged, outcome |-> outcome]}
        /\ finished' = finished \cup {rec.staged}
    BY <1>5 DEF Complete, user
  <2> QED BY <2>1 DEF RecordsInv, Sound
<1> QED BY <1>s, <1>1, <1>2, <1>3, <1>4, <1>5 DEF Branching, Straight

(* there is one pending exchange,                                          *)
LEMMA OneStays ==
    ASSUME TypeOK, RecordsInv, OneInv, StepInv, [Next]_vars
    PROVE  OneInv'
<1>s. Branching \/ Straight \/ UNCHANGED vars
  BY Steps
<1>m. Next => /\ WriteRecord => Pending' = {rec}
              /\ Complete => Pending' = {}
              /\ DropRecord => Pending' = {}
              /\ DropMarker => Pending' \subseteq {rec}
              /\ WriteRecord \/ Complete \/ DropRecord \/ DropMarker \/ Pending' = Pending
  BY PendingMoves
<1>1. CASE UNCHANGED vars
  BY <1>1 DEF vars, disk, local, OneInv, Pending
<1>2. CASE WriteRecord
  BY <1>2, <1>m DEF WriteRecord, Goto, local, OneInv, Making, Open, Closing, Next
<1>3. CASE Complete
  BY <1>3, <1>m DEF Complete, Goto, local, OneInv, Making, Open, Closing, Next
<1>4. CASE DropRecord \/ DropMarker
  <2>1. Pending' \subseteq {rec} /\ rec' = rec /\ pc' \in {"reclaim-marker", "reclaim-previous"}
    BY <1>4, <1>m DEF DropRecord, DropMarker, Tidies, local, vars
  <2> QED BY <2>1 DEF OneInv, Making, Open, Closing
<1>5. CASE Next /\ ~(WriteRecord \/ Complete \/ DropRecord \/ DropMarker)
  <2>p. Pending' = Pending BY <1>5, <1>m
  <2>1. CASE Halt
    BY <2>1, <2>p DEF Halt, OneInv, Making, Open, Closing
  <2>2. CASE Quiet
    <3>1. CASE \E r \in Pending : Resumption(r)
      BY <3>1, <2>p DEF Resumption, Resumed, Walk, OneInv, Making, Open, Closing
    <3>2. CASE Capture
      BY <3>2, <2>p DEF Capture, Walk, OneInv, Making, Open, Closing
    <3>3. CASE Enter \/ Proceed \/ Unpublish \/ Accept \/ Refuse \/ Return \/ Again \/ Ready \/
          Restored
      BY <3>3, <2>p DEF Enter, Proceed, Unpublish, Accept, Refuse, Return, Again, Ready, Restored,
         Same, Walk, OneInv, Making, Open, Closing
    <3> QED BY <3>1, <3>2, <3>3, <2>2 DEF Quiet
  <2>3. CASE Make \/ FillCandidate
    BY <2>3, <2>p DEF Make, FillCandidate, Goto, OneInv, Making, Open, Closing
  <2>4. CASE Publish \/ Park \/ Exchange \/ ExchangeBack \/ ArchiveCandidate \/ Load
    BY <2>4, <2>p DEF Publish, Park, Exchange, ExchangeBack, ArchiveCandidate, Load, Goto, local,
       OneInv, Making, Open, Closing
  <2>5. CASE KeepRecord \/ KeepMarker \/ DropArchive
    BY <2>5, <2>p DEF KeepRecord, KeepMarker, DropArchive, Tidies, local, OneInv, Making, Open,
       Closing
  <2>6. CASE Gc \/ UserReplaces \/ UserRewrites
    BY <2>6, <2>p DEF Gc, UserReplaces, UserRewrites, Save, local, OneInv
  <2> QED BY <1>s, <1>5, <2>1, <2>2, <2>3, <2>4, <2>5, <2>6, <1>1 DEF Branching, Straight
<1> QED BY <1>1, <1>2, <1>3, <1>4, <1>5

(* and a completed one is not pending, unless its record stayed.           *)
LEMMA MarkedStays ==
    ASSUME TypeOK, RecordsInv, OneInv, StepInv, MarkedInv, [Next]_vars
    PROVE  MarkedInv'
<1>s. Branching \/ Straight \/ UNCHANGED vars
  BY Steps
<1>m. Next => /\ WriteRecord => Pending' = {rec}
              /\ Complete => Pending' = {}
              /\ DropRecord => Pending' = {}
              /\ DropMarker => Pending' \subseteq {rec} /\ \A r \in Pending' : r \in records
              /\ WriteRecord \/ Complete \/ DropRecord \/ DropMarker \/ Pending' = Pending
  BY PendingMoves
<1>n. WriteRecord \/ Complete => Next
  BY DEF Next
<1>1. CASE UNCHANGED vars
  BY <1>1 DEF vars, disk, local, ghost, MarkedInv, ReopenedOnlyIfStuck, Pending
<1>2. CASE WriteRecord
  BY <1>2, <1>m, <1>n
     DEF WriteRecord, Goto, ghost, StepInv, Making, MarkedInv, ReopenedOnlyIfStuck
<1>3. CASE Complete
  BY <1>3, <1>m, <1>n DEF Complete, Goto, MarkedInv, ReopenedOnlyIfStuck
<1>4. CASE Next /\ DropRecord
  BY <1>4, <1>m DEF DropRecord, Tidies, Unrecorded, local, MarkedInv, ReopenedOnlyIfStuck
<1>5. CASE Next /\ KeepRecord
  <2>1. Pending' = Pending
    BY <1>5, <1>m DEF KeepRecord, DropRecord, DropMarker, WriteRecord, Complete, Tidies, Pending
  <2> QED BY <2>1, <1>5 DEF KeepRecord, Tidies, local, MarkedInv, ReopenedOnlyIfStuck
<1>6. CASE Next /\ DropMarker
  BY <1>6, <1>m DEF DropMarker, Tidies, MarkedInv, ReopenedOnlyIfStuck
<1>7. CASE Next /\ ~(WriteRecord \/ Complete \/ DropRecord \/ KeepRecord \/ DropMarker)
  <2>1. Pending' = Pending
    BY <1>7, <1>m
  <2>2. /\ stuck' = stuck /\ finished' = finished
        /\ pc' = "reclaim-marker" => pc = "reclaim-marker" /\ rec' = rec /\ records' = records
    <3>1. CASE Halt \/ Quiet
      BY <3>1, StillIs
         DEF Still, Halt, Quiet, Enter, Proceed, Capture, Unpublish, Accept, Refuse, Return, Again,
             Ready, Restored, Resumption, Resumed, Walk
    <3>2. CASE Make \/ Publish \/ Park \/ KeepMarker \/ DropArchive
      BY <3>2 DEF Make, Publish, Park, KeepMarker, DropArchive, Tidies, ghost
    <3>3. CASE Load \/ FillCandidate \/ Exchange \/ ExchangeBack \/ ArchiveCandidate
      BY <3>3 DEF Load, FillCandidate, Exchange, ExchangeBack, ArchiveCandidate, Goto, ghost
    <3>4. CASE Gc \/ UserReplaces \/ UserRewrites
      BY <3>4 DEF Gc, UserReplaces, UserRewrites, Save, local, ghost
    <3> QED BY Steps, <1>7, <3>1, <3>2, <3>3, <3>4 DEF Branching, Straight
  <2> QED BY <2>1, <2>2 DEF MarkedInv, ReopenedOnlyIfStuck
<1> QED BY <1>1, <1>2, <1>3, <1>4, <1>5, <1>6, <1>7

(* What the process knows stays true when nobody else moves,               *)
LEMMA StepStays ==
    ASSUME TypeOK, RecInv, CountersInv, FreshInv, NamesInv, RecordsInv, OneInv, StepInv, PlacesInv,
           [Next]_vars
    PROVE  StepInv'
<1>s. Branching \/ Straight \/ UNCHANGED vars
  BY Steps
<1>t. /\ DiskTyped /\ LocalTyped /\ NONE \notin Objects /\ NONE \notin Versions
      /\ displaced \in [Objects -> Versions \cup {NONE}]
      /\ bytes \in [Objects -> Versions \cup {NONE}] /\ file \in Objects
      /\ cands \subseteq Objects
      /\ nextObject \notin {file, swap} \cup finished /\ rec.data # nextVersion
      /\ nextVersion \notin edits
  BY TypeIs, RecTyped, Numbers DEF FreshInv, DiskTyped, GhostTyped, RecInv, CountersInv
<1>p. \A r \in Pending : r \in records /\ r \in Record
  BY <1>t DEF Pending, DiskTyped
<1>w. pc \in Open => rec \in Record /\ rec.prev \in Objects /\ rec.staged \in Objects /\
      rec \in Pending
  BY AtWork DEF OneInv
<1>1. CASE Halt
  BY <1>1 DEF Halt, StepInv, Making, Open, Closing
<1>2. CASE Enter \/ Unpublish \/ Refuse \/ Return \/ Restored \/ Ready
  BY <1>2, <1>t DEF Enter, Unpublish, Refuse, Return, Ready, Restored, Same, Walk, disk, user,
     ghost,
     StepInv, Making, Open, Closing
<1>3. CASE Proceed
  BY <1>3, <1>t DEF Proceed, Same, Walk, disk, user, ghost, StepInv, Making, Open, Closing
<1>4. CASE Capture
  <2>1. rec'.prev = file /\ rec'.staged = rec.staged /\ rec'.data = rec.data /\
        rec'.expect = rec.expect
    BY <1>4 DEF Capture, RecInv
  <2>2. file \notin archive \cup {rec.staged}
    BY <1>4 DEF Capture, Walk, NamesInv, StepInv, Making
  <2> QED BY <2>1, <2>2, <1>4, <1>t DEF Capture, Walk, disk, user, ghost, StepInv, Making, Open,
             Closing
<1>5. CASE Accept
  BY <1>5 DEF Accept, AsExpected, Walk, disk, user, ghost, StepInv, Making, Open, Closing
<1>6. CASE Again
  BY <1>6, <1>t DEF Again, Walk, disk, user, ghost, LocalTyped, StepInv, Making, Open, Closing
<1>7. CASE \E r \in Pending : Resumption(r)
  <2> PICK r \in Pending : Resumption(r) BY <1>7
  <2>1. /\ r \in records /\ r.staged # r.prev /\ r.prev \in Objects /\ rec' = r
        /\ pc = "recover" /\ mode = "recover" /\ mode' = mode /\ seen' = seen
        /\ UNCHANGED <<disk, user, ghost>>
    BY <1>p DEF Resumption, Resumed, Walk, Record, RecordsInv, Sound, StepInv
  <2>2. /\ r.staged \in cands => swap = NONE
        /\ file = r.staged /\ swap # NONE => displaced[r.staged] = bytes[swap]
        /\ r.prev \in archive => displaced[r.staged] = r.expect
    BY DEF PlacesInv
  <2>3. CASE Unpublished(r) /\ Resumed(r, "withdrawn", "archive-candidate")
    BY <2>1, <2>3 DEF Unpublished, Resumed, Walk, disk, user, ghost, StepInv, Making, Open, Closing
  <2>4. CASE Active(r) /\ Resumed(r, "withdrawn", "archive-swap")
    BY <2>1, <2>4 DEF Resumed, Walk, disk, user, ghost, StepInv, Making, Open, Closing
  <2>5. CASE Swapped(r) /\ Resumed(r, "installed", "archive-swap")
    BY <2>1, <2>2, <2>5, <1>t DEF Swapped, InstalledNow, Holds, Resumed, Walk, disk, user, ghost,
       StepInv, Making, Open, Closing
  <2>6. CASE SwappedOverEdit(r) /\ Resumed(r, "withdrawn", "restore")
    BY <2>1, <2>6, <1>t DEF SwappedOverEdit, Resumed, Walk, disk, user, ghost, StepInv, Making,
       Open,
       Closing
  <2>7. CASE InstalledArchived(r) /\ Resumed(r, "installed", "complete")
    BY <2>1, <2>2, <2>7 DEF InstalledArchived, Gone, Resumed, Walk, disk, user, ghost, StepInv,
       Making, Open, Closing
  <2>8. CASE WithdrawnArchived(r) /\ Resumed(r, "withdrawn", "complete")
    BY <2>1, <2>8 DEF WithdrawnArchived, Gone, Resumed, Walk, disk, user, ghost, StepInv, Making,
       Open, Closing
  <2> QED BY <2>3, <2>4, <2>5, <2>6, <2>7, <2>8 DEF Resumption
<1>8. CASE Make
  <2>1. rec'.staged = nextObject
    BY <1>8 DEF Make, RecInv
  <2>2. \A r \in records : r.staged # nextObject
    BY Typed, Numbers DEF FreshInv, CountersInv
  <2> QED BY <2>1, <2>2, <1>8, <1>t DEF Make, user, ghost, StepInv, Making, Open, Closing
<1>9. CASE FillCandidate
  <2>1. rec'.staged = rec.staged /\ rec'.data = nextVersion /\ rec'.expect = seen
    BY <1>9 DEF FillCandidate, RecInv
  <2>2. rec.staged \in Objects /\ nextVersion \in Versions
    BY <1>9, <1>t, Room DEF FillCandidate, StepInv, Making
  <2>3. bytes'[rec.staged] = nextVersion
    BY <2>2, <1>9, <1>t DEF FillCandidate
  <2> QED BY <2>1, <2>2, <2>3, <1>9, <1>t DEF FillCandidate, Goto, user, ghost, StepInv, Making,
             Open,
          Closing
<1>10. CASE WriteRecord
  BY <1>10 DEF WriteRecord, Goto, local, user, ghost, StepInv, Making, Open, Closing
<1>11. CASE Publish
  BY <1>11 DEF Publish, local, user, ghost, StepInv, Making, Open, Closing
<1>12. CASE Exchange
  <2>1. /\ swap = rec.staged /\ file' = swap /\ swap' = file /\ rec.staged \in Objects
        /\ displaced' = [displaced EXCEPT ![rec.staged] = bytes[file]]
        /\ bytes' = bytes /\ file # swap
    BY <1>12, <1>w DEF Exchange, Exchanged, StepInv, Open, NamesInv
  <2>2. displaced'[rec.staged] = bytes'[swap']
    BY <2>1, <1>t
  <2> QED BY <2>1, <2>2, <1>12, <1>t DEF Exchange, Goto, local, user, StepInv, Making, Open, Closing
<1>13. CASE ExchangeBack
  BY <1>13 DEF ExchangeBack, Goto, local, user, ghost, StepInv, Making, Open, Closing
<1>14. CASE ArchiveCandidate
  <2>1. rec.staged \in cands /\ swap = NONE /\ outcome = "withdrawn"
    BY <1>14, <1>w DEF ArchiveCandidate, StepInv, PlacesInv, Open
  <2> QED BY <2>1, <1>14 DEF ArchiveCandidate, Goto, local, user, ghost, StepInv, Making, Open,
             Closing
<1>15. CASE Park
  <2>1. swap # NONE /\ rec.staged \notin cands /\ outcome \in {"installed", "withdrawn"}
    BY <1>15, <1>w, <1>t DEF Park, Displaced, PlacesInv, Open, LocalTyped, Outcome
  <2> QED BY <2>1, <1>15 DEF Park, Displaced, local, user, ghost, StepInv, Making, Open, Closing
<1>16. CASE Complete
  <2>1. \A r \in records : r.staged = rec.staged => r = rec
    BY <1>16, <1>w, <1>p DEF Complete, Open, RecordsInv
  <2>2. rec.prev \in archive => displaced[rec.staged] = rec.expect
    BY <1>16, <1>w DEF Complete, Open, PlacesInv
  <2> QED BY <2>1, <2>2, <1>16 DEF Complete, Goto, local, user, StepInv, Making, Open, Closing
<1>17. CASE DropRecord \/ KeepRecord
  BY <1>17 DEF DropRecord, KeepRecord, Tidies, Unrecorded, local, user, StepInv, Making, Open,
     Closing
<1>18. CASE DropMarker \/ KeepMarker \/ DropArchive
  BY <1>18 DEF DropMarker, KeepMarker, DropArchive, Tidies, local, user, StepInv, Making, Open,
     Closing
<1>19. CASE Load
  BY <1>19 DEF Load, Goto, disk, user, StepInv, Making, Open, Closing
<1>20. CASE Gc
  BY <1>20 DEF Gc, local, user, ghost, StepInv, Making, Open, Closing
<1>21. CASE UserReplaces \/ UserRewrites
  <2>1. /\ \A o \in Objects : o \notin {file, nextObject} => bytes'[o] = bytes[o]
        /\ edits' = edits \cup {nextVersion} /\ settled \subseteq settled'
        /\ UNCHANGED <<cands, swap, archive, records, markers, pc, local, displaced, finished,
           stuck>>
    BY <1>21, <1>t DEF UserReplaces, UserRewrites, Save
  <2>2. swap # NONE => bytes'[swap] = bytes[swap]
    BY <2>1, <1>t DEF NamesInv, DiskTyped
  <2>3. rec.staged \in cands => bytes'[rec.staged] = bytes[rec.staged]
    <3>1. \A o \in cands : o # nextObject BY Typed, Numbers DEF FreshInv, CountersInv
    <3> QED BY <3>1, <2>1, <1>t DEF NamesInv
  <2>4. pc' = pc /\ rec' = rec /\ seen' = seen /\ mode' = mode /\ outcome' = outcome
    BY <2>1 DEF local
  <2>5. pc \in {"capture", "record"} => rec.staged \in cands /\ rec.data \in Versions \ edits'
    BY <2>1, <1>t DEF StepInv, Making
  <2>6. CASE pc \in {"capture", "record"}
    BY <2>1, <2>3, <2>4, <2>5, <2>6 DEF StepInv, Making, Open, Closing
  <2>7. CASE pc \in {"judge", "archive-swap"}
    BY <2>1, <2>2, <2>4, <2>7, <1>w, <1>t DEF StepInv, Making, Open, Closing
  <2>8. CASE pc \notin {"capture", "record", "judge", "archive-swap"}
    BY <2>1, <2>4, <2>8 DEF StepInv, Making, Open, Closing
  <2> QED BY <2>6, <2>7, <2>8
<1>22. CASE UNCHANGED vars
  BY <1>22 DEF vars, disk, local, user, ghost, StepInv
<1> QED BY <1>s, <1>1, <1>2, <1>3, <1>4, <1>5, <1>6, <1>7, <1>8, <1>9, <1>10, <1>11, <1>12, <1>13,
           <1>14, <1>15, <1>16, <1>17, <1>18, <1>19, <1>20, <1>21, <1>22
        DEF Branching, Straight, Quiet

(* where its objects are,                                                  *)
LEMMA PlacesStay ==
    ASSUME TypeOK, RecInv, CountersInv, FreshInv, NamesInv, RecordsInv, OneInv, StepInv, PlacesInv,
           [Next]_vars
    PROVE  PlacesInv'
<1>s. Branching \/ Straight \/ UNCHANGED vars
  BY Steps
<1>t. /\ NONE \notin Objects /\ bytes \in [Objects -> Versions \cup {NONE}] /\ file \in Objects
      /\ displaced \in [Objects -> Versions \cup {NONE}]
      /\ cands \subseteq Objects /\ swap \in Objects \cup {NONE}
      /\ \A r \in records : r.staged \in Objects /\ r.prev \in Objects /\ r.staged # nextObject
      /\ swap # nextObject
  BY Typed, Numbers DEF FreshInv, CountersInv
<1>p. \A r \in Pending : r \in records
  BY DEF Pending
<1>w. pc \in Open => rec \in Pending /\ (\A r \in Pending : r = rec) /\ Sound(rec)
  BY <1>p DEF OneInv, RecordsInv
<1>m. Next => /\ WriteRecord => Pending' = {rec}
              /\ Complete => Pending' = {}
              /\ DropRecord => Pending' = {}
              /\ DropMarker => Pending' \subseteq {rec} /\ \A r \in Pending' : r \in records
              /\ WriteRecord \/ Complete \/ DropRecord \/ DropMarker \/ Pending' = Pending
  BY PendingMoves
<1>1. CASE UNCHANGED vars
  BY <1>1 DEF vars, disk, ghost, PlacesInv, Pending
<1>2. CASE WriteRecord
  <2>1. Pending' = {rec}
    BY <1>2, <1>m DEF Next
  <2>2. swap = NONE /\ rec.staged \notin finished /\ rec.prev \notin archive
    BY <1>2 DEF WriteRecord, StepInv, Making
  <2> QED BY <2>1, <2>2, <1>2 DEF WriteRecord, local, ghost, PlacesInv
<1>3. CASE Complete \/ (Next /\ DropRecord)
  BY <1>3, <1>m DEF PlacesInv, Next
<1>4. CASE Next /\ DropMarker
  <2>1. Pending' \subseteq {rec}
    BY <1>4, <1>m
  <2>2. swap = NONE /\ rec.staged \notin cands /\
        (rec.prev \in archive => displaced[rec.staged] = rec.expect)
    BY <1>4 DEF DropMarker, Tidies, StepInv, Closing
  <2> QED BY <2>1, <2>2, <1>4 DEF DropMarker, Tidies, PlacesInv
<1>5. CASE Next /\ ~(WriteRecord \/ Complete \/ DropRecord \/ DropMarker)
  <2>p. Pending' = Pending BY <1>5, <1>m
  <2>1. CASE Halt \/ Quiet
    BY <2>1, <2>p, StillIs DEF Still, PlacesInv
  <2>2. CASE Make
    BY <2>2, <2>p DEF Make, OneInv, PlacesInv
  <2>3. CASE Publish
    <3>1. rec.staged \in cands /\ file # rec.staged /\ rec.staged \notin finished /\
          rec.prev \notin archive
      BY <2>3, <1>w DEF Publish, StepInv, Open, NamesInv, PlacesInv
    <3> QED BY <3>1, <2>3, <2>p, <1>w DEF Publish, Open, ghost, PlacesInv
  <2>4. CASE Exchange
    <3>1. /\ swap = rec.staged /\ file' = swap /\ swap' = file /\ rec.staged \in Objects
          /\ displaced' = [displaced EXCEPT ![rec.staged] = bytes[file]]
          /\ bytes' = bytes /\ cands' = cands /\ archive' = archive /\ finished' = finished
          /\ rec.prev \notin archive /\ rec.staged \notin cands /\ rec.staged \notin finished
      BY <2>4, <1>w, <1>p, <1>t DEF Exchange, Exchanged, StepInv, Open, NamesInv, PlacesInv
    <3>2. displaced'[rec.staged] = bytes'[swap']
      BY <3>1, <1>t
    <3> QED BY <3>1, <3>2, <2>4, <2>p, <1>w DEF Exchange, Open, PlacesInv
  <2>5. CASE ExchangeBack
    <3>1. /\ file' = swap /\ swap' = file /\ swap # NONE /\ swap # rec.staged
          /\ UNCHANGED <<bytes, cands, archive, displaced, finished>>
      BY <2>5 DEF ExchangeBack, Exchanged, StepInv, ghost
    <3>2. pc \in Open
      BY <2>5 DEF ExchangeBack, Open
    <3> QED BY <3>1, <3>2, <2>p, <1>w DEF PlacesInv
  <2>6. CASE ArchiveCandidate
    <3>1. \A r \in Pending : r.prev # rec.staged
      BY <2>6, <1>w DEF ArchiveCandidate, Open, Sound
    <3>2. swap = NONE
      BY <2>6, <1>w DEF ArchiveCandidate, Open, StepInv, PlacesInv
    <3> QED BY <3>1, <3>2, <2>6, <2>p DEF ArchiveCandidate, ghost, PlacesInv
  <2>7. CASE Park
    <3>1. /\ rec \in Pending /\ (\A r \in Pending : r = rec) /\ rec.staged # rec.prev
          /\ swap = (IF outcome = "installed" THEN rec.prev ELSE rec.staged)
      BY <2>7, <1>w DEF Park, Open, Sound, Displaced
    <3>2. outcome = "installed" => displaced[rec.staged] = rec.expect
      BY <2>7 DEF Park, StepInv
    <3>3. swap # NONE /\ rec.staged \notin cands
      BY <3>1, <1>p, <1>t DEF PlacesInv
    <3> QED BY <3>1, <3>2, <3>3, <2>7, <2>p DEF Park, ghost, PlacesInv
  <2>8. CASE Load \/ FillCandidate
    <3>1. CASE Load BY <3>1, <2>p DEF Load, disk, PlacesInv
    <3>2. CASE FillCandidate BY <3>2, <2>p DEF FillCandidate, OneInv, Making, PlacesInv
    <3> QED BY <3>1, <3>2, <2>8
  <2>9. CASE KeepRecord \/ KeepMarker \/ DropArchive
    BY <2>9, <2>p DEF KeepRecord, KeepMarker, DropArchive, Tidies, PlacesInv
  <2>10. CASE Gc
    <3>1. /\ archive' \subseteq archive
          /\ UNCHANGED <<file, bytes, cands, swap, displaced, finished>>
      BY <2>10 DEF Gc, GcRecord, GcMarker, GcArchive, ghost
    <3> QED BY <3>1, <2>p DEF PlacesInv
  <2>11. CASE UserReplaces \/ UserRewrites
    <3>1. /\ \A o \in Objects : o \notin {file, nextObject} => bytes'[o] = bytes[o]
          /\ file' \in {file, nextObject}
          /\ UNCHANGED <<cands, swap, archive, displaced, finished>>
      BY <2>11, <1>t DEF UserReplaces, UserRewrites, Save
    <3>2. swap # NONE => bytes'[swap] = bytes[swap]
      BY <3>1, <1>t DEF NamesInv
    <3> QED BY <3>1, <3>2, <2>p, <1>p, <1>t DEF PlacesInv
  <2> QED BY <1>5, Steps, <2>1, <2>2, <2>3, <2>4, <2>5, <2>6, <2>7, <2>8, <2>9, <2>10, <2>11
          DEF Branching, Straight
<1> QED BY <1>1, <1>2, <1>3, <1>4, <1>5

(* and what a user is owed.                                                *)
LEMMA OwedStays ==
    ASSUME TypeOK, RecInv, CountersInv, FreshInv, NamesInv, RecordsInv, OneInv, StepInv, PlacesInv,
           OwedInv, [Next]_vars
    PROVE  OwedInv'
<1>s. Branching \/ Straight \/ UNCHANGED vars
  BY Steps
<1>t. /\ NONE \notin Objects /\ bytes \in [Objects -> Versions \cup {NONE}] /\ file \in Objects
      /\ cands \subseteq Objects /\ swap \in Objects \cup {NONE} /\ archive \subseteq Objects
      /\ (\A r \in records : r.staged \in Objects /\ r.prev \in Objects /\ r.staged # nextObject)
      /\ swap # nextObject /\ nextObject \notin archive /\ over \subseteq edits
      /\ \A o \in Objects : bytes[o] # nextVersion
  BY Typed, Numbers DEF FreshInv, CountersInv
<1>p. \A r \in Pending : r \in records
  BY DEF Pending
<1>w. pc \in Open => rec \in Pending /\ (\A r \in Pending : r = rec) /\ Sound(rec)
  BY <1>p DEF OneInv, RecordsInv
<1>m. Next => /\ WriteRecord => Pending' = {rec}
              /\ Complete => Pending' = {}
              /\ DropRecord => Pending' = {}
              /\ DropMarker => Pending' \subseteq {rec} /\ \A r \in Pending' : r \in records
              /\ WriteRecord \/ Complete \/ DropRecord \/ DropMarker \/ Pending' = Pending
  BY PendingMoves
<1>1. CASE UNCHANGED vars
  BY <1>1 DEF vars, disk, user, ghost, OwedInv, Owed, Pending
<1>2. CASE WriteRecord
  <2>1. Pending' = {rec} /\ bytes[rec.staged] \notin edits
    BY <1>2, <1>m DEF Next, WriteRecord, StepInv
  <2> QED BY <2>1, <1>2 DEF WriteRecord, local, user, ghost, OwedInv, Owed
<1>3. CASE Complete \/ (Next /\ DropRecord)
  <2>1. Pending' = {} /\ UNCHANGED <<file, bytes, swap, archive, edits, over, settled>>
    BY <1>3, <1>m DEF Next, Complete, DropRecord, Tidies, user
  <2> QED BY <2>1 DEF OwedInv, Owed
<1>4. CASE Next /\ DropMarker
  <2>1. /\ Pending' \subseteq {rec} /\ rec.staged \in finished
        /\ UNCHANGED <<file, bytes, swap, archive, edits, over, settled, finished>>
    BY <1>4, <1>m DEF DropMarker, Tidies, user, StepInv, Closing
  <2> QED BY <2>1 DEF OwedInv, Owed
<1>5. CASE Next /\ ~(WriteRecord \/ Complete \/ DropRecord \/ DropMarker)
  <2>p. Pending' = Pending BY <1>5, <1>m
  <2>1. CASE Halt \/ Quiet
    BY <2>1, <2>p, StillIs DEF Still, OwedInv, Owed
  <2>2. CASE Make
    BY <2>2, <2>p DEF Make, user, ghost, OwedInv, Owed
  <2>3. CASE Publish
    <3>1. swap = NONE
      BY <2>3, <1>w DEF Publish, StepInv, Open, PlacesInv
    <3> QED BY <3>1, <2>3, <2>p DEF Publish, user, ghost, OwedInv, Owed
  <2>4. CASE Exchange \/ ExchangeBack
    <3>1. /\ {file', swap'} = {file, swap}
          /\ UNCHANGED <<bytes, archive, edits, over, settled, finished>>
      BY <2>4 DEF Exchange, ExchangeBack, Exchanged, user, ghost
    <3> QED BY <3>1, <2>p DEF OwedInv, Owed
  <2>5. CASE ArchiveCandidate
    <3>1. bytes[rec.staged] \notin Owed
      BY <2>5, <1>w DEF ArchiveCandidate, Open, StepInv, PlacesInv, OwedInv
    <3> QED BY <3>1, <2>5, <2>p DEF ArchiveCandidate, user, ghost, OwedInv, Owed
  <2>6. CASE Park
    <3>1. /\ rec \in Pending /\ Sound(rec)
          /\ swap = (IF outcome = "installed" THEN rec.prev ELSE rec.staged)
      BY <2>6, <1>w DEF Park, Open, Displaced
    <3>2. swap # NONE
      BY <3>1, <1>p, <1>t
    <3>3. bytes[swap] \notin Owed
      <4>1. CASE outcome = "installed"
        BY <4>1, <3>1, <2>6 DEF Park, StepInv, Sound, Owed
      <4>2. CASE outcome # "installed"
        BY <4>2, <3>1, <3>2 DEF PlacesInv, OwedInv
      <4> QED BY <4>1, <4>2
    <3> QED BY <3>3, <2>6, <2>p DEF Park, user, ghost, OwedInv, Owed
  <2>7. CASE Load
    <3>1. Owed' \subseteq Owed
      BY <2>7 DEF Load, user, Owed
    <3> QED BY <3>1, <2>7, <2>p DEF Load, disk, OwedInv
  <2>8. CASE FillCandidate
    <3>1. rec.staged \in cands /\ Pending = {} /\ rec.staged \notin {file, swap} \cup archive
      BY <2>8 DEF FillCandidate, StepInv, OneInv, Making, NamesInv
    <3>2. \A o \in Objects : o # rec.staged => bytes'[o] = bytes[o]
      BY <2>8, <1>t DEF FillCandidate
    <3>3. UNCHANGED <<file, swap, archive>> /\ Owed' = Owed
      BY <2>8 DEF FillCandidate, user, ghost, Owed
    <3> QED BY <3>1, <3>2, <3>3, <2>p, <1>t DEF OwedInv
  <2>9. CASE KeepRecord \/ KeepMarker \/ DropArchive
    BY <2>9, <2>p DEF KeepRecord, KeepMarker, DropArchive, Tidies, user, OwedInv, Owed
  <2>10. CASE Gc
    <3>1. /\ archive' \subseteq archive
          /\ UNCHANGED <<file, bytes, swap, edits, over, settled, finished>>
      BY <2>10 DEF Gc, GcRecord, GcMarker, GcArchive, user, ghost
    <3> QED BY <3>1, <2>p DEF OwedInv, Owed
  <2>11. CASE UserReplaces
    <3>1. nextObject \in Objects
      BY <2>11, Room DEF UserReplaces, Save
    <3>2. /\ file' = nextObject /\ bytes'[nextObject] = nextVersion
          /\ \A o \in Objects : o # nextObject => bytes'[o] = bytes[o]
          /\ UNCHANGED <<swap, archive, finished>>
      BY <2>11, <3>1, <1>t DEF UserReplaces, Save
    <3>3. Owed' \subseteq (Owed \ {bytes[file]}) \cup {nextVersion}
      BY <2>11 DEF UserReplaces, Save, Owed
    <3> QED BY <3>1, <3>2, <3>3, <2>p, <1>p, <1>t DEF OwedInv
  <2>12. CASE UserRewrites
    <3>1. /\ file' = file /\ bytes'[file] = nextVersion
          /\ \A o \in Objects : o # file => bytes'[o] = bytes[o]
          /\ UNCHANGED <<swap, archive, finished>>
      BY <2>12, <1>t DEF UserRewrites, Save
    <3>2. /\ Owed' \subseteq (Owed \ {bytes[file]}) \cup {nextVersion}
          /\ (\E r \in Pending : r.staged = file) => nextVersion \notin Owed'
      BY <2>12 DEF UserRewrites, Save, Owed
    <3> QED BY <3>1, <3>2, <2>p, <1>p, <1>t DEF OwedInv, NamesInv
  <2> QED BY <1>5, Steps, <2>1, <2>2, <2>3, <2>4, <2>5, <2>6, <2>7, <2>8, <2>9, <2>10, <2>11, <2>12
          DEF Branching, Straight
<1> QED BY <1>1, <1>2, <1>3, <1>4, <1>5

(* What has happened has happened.                                         *)
LEMMA MeddledStays ==
    ASSUME [Next]_vars
    PROVE  (meddled => meddled') /\ stuck \subseteq stuck'
<1>s. Branching \/ Straight \/ UNCHANGED vars
  BY Steps
<1>1. CASE Halt \/ Quiet \/ UNCHANGED vars
  BY <1>1, StillIs DEF Still
<1>2. CASE Make \/ Publish \/ Park \/ DropRecord \/ KeepRecord \/ DropMarker \/ KeepMarker
           \/ DropArchive
  BY <1>2 DEF Make, Publish, Park, Tidies, DropRecord, KeepRecord, DropMarker, KeepMarker,
     DropArchive, user, ghost
<1>3. CASE Load \/ FillCandidate \/ WriteRecord \/ Exchange \/ ExchangeBack \/ ArchiveCandidate
           \/ Complete
  BY <1>3 DEF Load, FillCandidate, WriteRecord, Exchange, ExchangeBack, ArchiveCandidate, Complete,
     user, ghost
<1>4. CASE Gc
  BY <1>4 DEF Gc, user, ghost
<1>5. CASE UserReplaces \/ UserRewrites
  <2>1. meddled' = (meddled \/ Underway) /\ stuck' = stuck
    BY <1>5 DEF UserReplaces, UserRewrites, Save
  <2> QED BY <2>1, Zenon
<1> QED BY <1>s, <1>1, <1>2, <1>3, <1>4, <1>5 DEF Branching, Straight

(* Where recovery looks for it.                                            *)
LEMMA LocatedStays ==
    ASSUME TypeOK, RecInv, CountersInv, FreshInv, NamesInv, RecordsInv, OneInv, StepInv, PlacesInv,
           MarkedInv, LocatedInv, [Next]_vars
    PROVE  LocatedInv'
<1> SUFFICES ASSUME ~meddled', stuck' = {}
             PROVE  /\ \A r \in Pending' : Located(r)'
                    /\ pc' = "record" => file' = rec'.prev
                    /\ pc' \in {"publish", "archive-candidate"} =>
                       (Unpublished(rec) /\ file = rec.prev)'
                    /\ pc' \in {"exchange", "revalidate"} => Active(rec)'
                    /\ pc' \in {"judge", "check-current", "exchange-back", "restore"} => Both(rec)'
                    /\ pc' = "archive-swap" =>
                       (IF outcome = "installed" THEN Both(rec) ELSE Active(rec))'
                    /\ pc' = "complete" =>
                       (IF outcome = "installed" THEN InstalledArchived(rec)
                                                 ELSE WithdrawnArchived(rec))'
  BY DEF LocatedInv
<1> USE DEF Located, Both, InstalledNow, Unpublished, Active, InstalledArchived, WithdrawnArchived,
            Gone, Holds
<1>s. Branching \/ Straight \/ UNCHANGED vars
  BY Steps
<1>t. /\ NONE \notin Objects /\ bytes \in [Objects -> Versions \cup {NONE}] /\ file \in Objects
      /\ cands \subseteq Objects /\ swap \in Objects \cup {NONE} /\
         outcome \in {"installed", "withdrawn"}
      /\ \A r \in records : r.staged \in Objects /\ r.prev \in Objects
  BY Typed, Numbers DEF Outcome
<1>p. \A r \in Pending : r \in records
  BY DEF Pending
<1>w. pc \in Open => rec \in Pending /\ (\A r \in Pending : r = rec) /\ Sound(rec)
  BY <1>p DEF OneInv, RecordsInv
<1>g. ~meddled /\ stuck = {}
  <2>1. (meddled => meddled') /\ stuck \subseteq stuck'
    BY MeddledStays
  <2> QED BY <2>1
<1>l. /\ \A r \in Pending : Located(r)
      /\ pc = "record" => file = rec.prev
      /\ pc \in {"publish", "archive-candidate"} => Unpublished(rec) /\ file = rec.prev
      /\ pc \in {"exchange", "revalidate"} => Active(rec)
      /\ pc \in {"judge", "check-current", "exchange-back", "restore"} => Both(rec)
      /\ pc = "archive-swap" => IF outcome = "installed" THEN Both(rec) ELSE Active(rec)
      /\ pc = "complete" =>
          IF outcome = "installed" THEN InstalledArchived(rec) ELSE WithdrawnArchived(rec)
  BY <1>g, Zenon DEF LocatedInv
<1>c. pc \in Closing => Pending = {}
  BY <1>g DEF OneInv, StepInv, MarkedInv, ReopenedOnlyIfStuck
<1>m. Next => /\ WriteRecord => Pending' = {rec}
              /\ Complete => Pending' = {}
              /\ DropRecord => Pending' = {}
              /\ DropMarker => Pending' \subseteq {rec} /\ \A r \in Pending' : r \in records
              /\ WriteRecord \/ Complete \/ DropRecord \/ DropMarker \/ Pending' = Pending
  BY PendingMoves
<1>1. CASE UNCHANGED vars
  BY <1>1, <1>l DEF vars, disk, local, Pending
<1>2. CASE WriteRecord
  <2>1. Pending' = {rec}
    BY <1>2, <1>m DEF Next
  <2>2. rec.staged \in cands /\ bytes[rec.staged] = rec.data
    BY <1>2 DEF WriteRecord, StepInv, Making
  <2> QED BY <2>1, <2>2, <1>l, <1>2 DEF WriteRecord, Goto, local
<1>3. CASE Complete
  BY <1>3, <1>m DEF Complete, Goto, Next
<1>4. CASE Next /\ DropRecord
  BY <1>4, <1>m DEF DropRecord, Tidies
<1>5. CASE Next /\ DropMarker
  <2>1. Pending' = {}
    BY <1>5, <1>m, <1>g DEF DropMarker, Tidies, MarkedInv
  <2> QED BY <2>1, <1>5 DEF DropMarker, Tidies
<1>6. CASE Next /\ ~(WriteRecord \/ Complete \/ DropRecord \/ DropMarker)
  <2>p. Pending' = Pending BY <1>6, <1>m
  <2>1. CASE Halt
    BY <2>1, <2>p, <1>l DEF Halt, disk
  <2>2. CASE Quiet
    <3>1. UNCHANGED <<file, bytes, cands, swap, archive>>
      BY <2>2, StillIs DEF Still
    <3>2. \A r \in Pending' : Located(r)'
      BY <3>1, <2>p, <1>l
    <3>3. CASE Enter \/ Proceed \/ Again
      BY <3>2, <3>3 DEF Enter, Proceed, Again, Walk
    <3>4. CASE Capture
      <4>1. rec'.prev = file BY <3>4 DEF Capture, RecInv
      <4> QED BY <3>1, <3>2, <3>4, <4>1 DEF Capture, Walk
    <3>5. CASE Unpublish \/ Refuse \/ Return \/ Ready
      BY <3>1, <3>2, <3>5, <1>l DEF Unpublish, Refuse, Return, Ready, Same, Walk
    <3>6. CASE Accept \/ Restored
      BY <3>1, <3>2, <3>6, <1>l DEF Accept, Restored, Same, Walk, StepInv
    <3>7. CASE \E r \in Pending : Resumption(r)
      <4> PICK r \in Pending : Resumption(r) BY <3>7
      <4>1. Located(r) /\ r.staged \in Objects /\ r.prev \in Objects /\ rec' = r
        BY <1>l, <1>p, <1>t, Zenon DEF Resumption, Resumed
      <4>2. r.staged \in cands => swap = NONE
        BY DEF PlacesInv
      <4>3. CASE Unpublished(r) /\ Resumed(r, "withdrawn", "archive-candidate")
        BY <4>1, <4>2, <4>3, <3>1, <3>2, <1>t DEF Resumed, Walk
      <4>4. CASE Active(r) /\ Resumed(r, "withdrawn", "archive-swap")
        BY <4>1, <4>4, <3>1, <3>2 DEF Resumed, Walk
      <4>5. CASE Swapped(r) /\ Resumed(r, "installed", "archive-swap")
        BY <4>1, <4>5, <3>1, <3>2 DEF Swapped, Resumed, Walk
      <4>6. CASE SwappedOverEdit(r) /\ Resumed(r, "withdrawn", "restore")
        BY <4>1, <4>6, <3>1, <3>2 DEF SwappedOverEdit, Resumed, Walk
      <4>7. CASE InstalledArchived(r) /\ Resumed(r, "installed", "complete")
        BY <4>1, <4>7, <3>1, <3>2 DEF Resumed, Walk
      <4>8. CASE WithdrawnArchived(r) /\ Resumed(r, "withdrawn", "complete")
        BY <4>1, <4>8, <3>1, <3>2 DEF Resumed, Walk
      <4> QED BY <4>3, <4>4, <4>5, <4>6, <4>7, <4>8 DEF Resumption
    <3> QED BY <2>2, <3>3, <3>4, <3>5, <3>6, <3>7 DEF Quiet
  <2>3. CASE Make
    BY <2>3, <2>p DEF Make, OneInv
  <2>4. CASE Publish
    <3>1. Unpublished(rec) /\ file = rec.prev
      BY <2>4, <1>l DEF Publish
    <3>2. Active(rec)' /\ rec' = rec
      BY <3>1, <2>4 DEF Publish, local
    <3> QED BY <3>2, <2>4, <2>p, <1>w DEF Publish, Open
  <2>5. CASE Exchange
    <3>1. Active(rec) /\ file' = swap /\ swap' = file /\ rec' = rec /\ bytes' = bytes
      BY <2>5, <1>l DEF Exchange, Exchanged, local
    <3>2. Both(rec)'
      BY <3>1
    <3> QED BY <3>1, <3>2, <2>5, <2>p, <1>w DEF Exchange, Goto, Open
  <2>6. CASE ExchangeBack
    <3>1. Both(rec) /\ file' = swap /\ swap' = file /\ rec' = rec /\ bytes' = bytes
      BY <2>6, <1>l DEF ExchangeBack, Exchanged, local
    <3>2. Active(rec)' /\ outcome' = "withdrawn"
      BY <3>1, <2>6 DEF ExchangeBack, StepInv, local
    <3>3. pc' \in {"revalidate", "archive-swap"} /\ pc = "exchange-back"
      BY <2>6 DEF ExchangeBack, Goto
    <3> QED BY <3>1, <3>2, <3>3, <2>p, <1>w DEF Open
  <2>7. CASE ArchiveCandidate
    <3>1. Unpublished(rec) /\ file = rec.prev /\ swap = NONE /\ outcome = "withdrawn"
      BY <2>7, <1>l, <1>w DEF ArchiveCandidate, StepInv, PlacesInv, Open
    <3>2. WithdrawnArchived(rec)' /\ rec' = rec /\ outcome' = "withdrawn"
      BY <3>1, <2>7 DEF ArchiveCandidate, local
    <3> QED BY <3>2, <2>7, <2>p, <1>w DEF ArchiveCandidate, Goto, Open
  <2>8. CASE Park
    <3>1. /\ swap = (IF outcome = "installed" THEN rec.prev ELSE rec.staged) /\ swap # NONE
          /\ rec.staged \notin cands
      BY <2>8, <1>w, <1>p, <1>t DEF Park, Open, Displaced, PlacesInv
    <3>2. UNCHANGED <<file, bytes, cands, rec, outcome>> /\ swap' = NONE /\ archive' = archive \cup
          {swap}
      BY <2>8 DEF Park, local
    <3>3. CASE outcome = "installed"
      <4>1. Both(rec) /\ bytes[rec.prev] = rec.expect
        BY <3>1, <3>3, <2>8, <1>l DEF Park, StepInv
      <4>2. InstalledArchived(rec)'
        BY <4>1, <3>1, <3>2, <3>3
      <4> QED BY <4>2, <3>2, <3>3, <2>8, <2>p, <1>w DEF Park, Open
    <3>4. CASE outcome # "installed"
      <4>1. Active(rec)
        BY <3>4, <2>8, <1>l DEF Park
      <4>2. WithdrawnArchived(rec)'
        BY <4>1, <3>1, <3>2, <3>4
      <4> QED BY <4>2, <3>2, <3>4, <2>8, <2>p, <1>w DEF Park, Open
    <3> QED BY <3>3, <3>4
  <2>9. CASE Load
    BY <2>9, <2>p, <1>l DEF Load, Goto, disk
  <2>10. CASE FillCandidate
    BY <2>10, <2>p DEF FillCandidate, Goto, OneInv, Making
  <2>11. CASE KeepRecord \/ KeepMarker \/ DropArchive
    BY <2>11, <2>p, <1>c DEF KeepRecord, KeepMarker, DropArchive, Tidies, Closing
  <2>12. CASE Gc
    <3>1. UNCHANGED <<file, bytes, cands, swap, pc>> /\ (archive' = archive \/ Pending = {}) /\
          pc = "idle"
      BY <2>12 DEF Gc, GcRecord, GcMarker, GcArchive, ArchivesCollectable
    <3> QED BY <3>1, <2>p, <1>l
  <2>13. CASE UserReplaces \/ UserRewrites
    <3>1. Pending = {} /\ pc \notin {"record", "publish"} /\ pc' = pc
      BY <2>13 DEF UserReplaces, UserRewrites, Save, Underway
    <3>2. pc \notin Open
      BY <3>1, <1>w
    <3> QED BY <3>1, <3>2, <2>p DEF Open
  <2> QED BY <1>6, Steps, <2>1, <2>2, <2>3, <2>4, <2>5, <2>6, <2>7, <2>8, <2>9, <2>10, <2>11, <2>12,
             <2>13
          DEF Branching, Straight
<1> QED BY <1>1, <1>2, <1>3, <1>4, <1>5, <1>6

(* Recovery stops over an exchange only for a cause.                       *)
LEMMA CauseStays ==
    ASSUME LocatedInv, ConflictHasCause, [Next]_vars
    PROVE  ConflictHasCause'
<1>s. Branching \/ Straight \/ UNCHANGED vars
  BY Steps
<1>1. CASE Halt
  <2>1. meddled' = meddled /\ stuck' = stuck
    BY <1>1 DEF Halt, user, ghost
  <2>2. last' = "conflict" => meddled \/ stuck # {}
    BY <1>1 DEF Halt, LocatedInv
  <2> QED BY <2>1, <2>2 DEF ConflictHasCause
<1>2. CASE ~Halt
  <2>1. last' \in {last, "none"}
    BY <1>s, <1>2 DEF Branching, Straight, Quiet, Enter, Proceed, Capture, Unpublish, Accept,
       Refuse,
       Return, Again, Ready, Restored, Resumption, Resumed, Walk, Make, Publish, Park, Tidies,
       DropRecord, KeepRecord, DropMarker, KeepMarker, DropArchive, Load, FillCandidate,
         WriteRecord,
       Exchange, ExchangeBack, ArchiveCandidate, Complete, Gc, UserReplaces, UserRewrites, Save,
         vars
  <2>2. (meddled => meddled') /\ stuck \subseteq stuck'
    BY MeddledStays
  <2> QED BY <2>1, <2>2 DEF ConflictHasCause
<1> QED BY <1>1, <1>2

--------------------------------------------------------------------------------
(* The first state satisfies the invariant,                                *)
LEMMA InitHolds ==
    ASSUME Init
    PROVE  IInv
<1>1. 1 \in Objects /\ 1 \in Versions /\ NONE = 0 /\ NONE \notin Objects
  BY ExchangeAssumption DEF Objects, Versions, NONE
<1>2. Cardinality(edits) = 0 /\ edits = {}
  BY FS_EmptySet DEF Init
<1>3. bytes = [o \in Objects |-> IF o = 1 THEN 1 ELSE NONE] /\ records = {} /\ Pending = {}
  BY DEF Init, Pending
<1>4. RecInv
  BY <1>1 DEF Init, RecInv, NoRecord
<1>5. CountersInv
  BY <1>1, <1>2, ExchangeAssumption DEF Init, CountersInv, Due
<1>6. DiskTyped /\ LocalTyped /\ GhostTyped
  BY <1>1 DEF Init, DiskTyped, LocalTyped, GhostTyped, Outcome
<1>7. TypeOK
  BY <1>4, <1>5, <1>6, TypeIs
<1>8. FreshInv
  BY <1>1, <1>3 DEF Init, FreshInv, NoRecord
<1>9. NamesInv /\ RecordsInv
  BY <1>1, <1>3 DEF Init, NamesInv, RecordsInv
<1>10. OneInv /\ StepInv /\ PlacesInv
  BY <1>1, <1>3 DEF Init, OneInv, StepInv, PlacesInv, Making, Open, Closing
<1>11. OwedInv /\ MarkedInv
  BY <1>3 DEF Init, OwedInv, Owed, MarkedInv, ReopenedOnlyIfStuck
<1>12. LocatedInv /\ ConflictHasCause
  BY <1>3 DEF Init, LocatedInv, ConflictHasCause
<1> QED BY <1>4, <1>5, <1>7, <1>8, <1>9, <1>10, <1>11, <1>12 DEF IInv

(* every step keeps it,                                                    *)
LEMMA StepHolds ==
    ASSUME IInv, [Next]_vars
    PROVE  IInv'
<1>1. TypeOK' /\ RecInv' /\ CountersInv'
  BY TypesStay DEF IInv
<1>2. FreshInv' /\ NamesInv' /\ RecordsInv' /\ OneInv'
  BY FreshStays, NamesStay, RecordsStay, OneStays DEF IInv
<1>3. StepInv' /\ PlacesInv' /\ OwedInv' /\ MarkedInv'
  BY StepStays, PlacesStay, OwedStays, MarkedStays DEF IInv
<1>4. LocatedInv' /\ ConflictHasCause'
  BY LocatedStays, CauseStays DEF IInv
<1> QED BY <1>1, <1>2, <1>3, <1>4 DEF IInv

(* and so it holds.                                                        *)
LEMMA Invariance == Spec => []IInv
<1>1. Init => IInv
  BY InitHolds
<1>2. IInv /\ [Next]_vars => IInv'
  BY StepHolds
<1> QED BY <1>1, <1>2, PTL DEF Spec

(* What fu.yaml, staging and recovery hold, and what a process knows, is    *)
(* of its type.                                                            *)
THEOREM ExchangeTypes == Spec => []TypeOK
<1>1. IInv => TypeOK
  BY DEF IInv
<1> QED BY <1>1, Invariance, PTL

(* No version a user saved is lost to an exchange, whatever is interrupted *)
(* or saved meanwhile: it is in fu.yaml, parked or archived, was read by   *)
(* fu, or was saved in place over fu's own unfinished file.                *)
THEOREM NothingSavedIsLost == Spec => []LostOnlyOver
<1>1. IInv => LostOnlyOver
  BY DEF IInv, OwedInv, Owed, LostOnlyOver, Held
<1> QED BY <1>1, Invariance, PTL

(* A completed exchange is never taken for an interrupted one, unless its  *)
(* record could not be removed.                                            *)
THEOREM ReopenedOnlyStuck == Spec => []ReopenedOnlyIfStuck
<1>1. IInv => ReopenedOnlyIfStuck
  BY DEF IInv, MarkedInv
<1> QED BY <1>1, Invariance, PTL

(* Crashes and gc alone never leave recovery with an exchange it cannot    *)
(* place.                                                                  *)
THEOREM ConflictsHaveCause == Spec => []ConflictHasCause
<1>1. IInv => ConflictHasCause
  BY DEF IInv
<1> QED BY <1>1, Invariance, PTL

(* Whichever process completes an exchange, it is completed as installed   *)
(* over exactly what was expected, or as withdrawn with another config.    *)
THEOREM CompletedAsItWas == Spec => OutcomeHolds
<1>1. ASSUME IInv, [Next]_vars
      PROVE  [\A m \in markers' \ markers :
                IF m.outcome = "installed"
                THEN \E r \in records : r.staged = m.staged /\ displaced[m.staged] = r.expect
                ELSE file # m.staged]_vars
  <2>s. Branching \/ Straight \/ UNCHANGED vars
    BY <1>1, Steps
  <2>1. CASE Complete
    <3>1. /\ rec \in records /\ outcome \in {"installed", "withdrawn"}
          /\ outcome = "installed" => displaced[rec.staged] = rec.expect
          /\ outcome # "installed" => rec.staged \in archive
      BY <1>1, <2>1, TypeIs DEF Complete, IInv, OneInv, Open, Pending, StepInv, LocalTyped, Outcome
    <3>2. rec.staged \in archive => file # rec.staged
      BY <1>1 DEF IInv, NamesInv
    <3>3. \A m \in markers' \ markers : m = [staged |-> rec.staged, outcome |-> outcome]
      BY <2>1 DEF Complete
    <3> QED BY <3>1, <3>2, <3>3
  <2>2. CASE ~Complete
    <3>1. markers' \subseteq markers
      <4>1. CASE Halt \/ Quiet \/ UNCHANGED vars
        BY <4>1, StillIs DEF Still
      <4>2. CASE ~(Halt \/ Quiet \/ UNCHANGED vars)
        BY <2>s, <2>2, <4>2 DEF Branching, Straight, Make, Publish, Park, Tidies, DropRecord,
           KeepRecord, DropMarker, KeepMarker, Unmarked, DropArchive, Load, FillCandidate,
           WriteRecord, Exchange, ExchangeBack, ArchiveCandidate, Gc, GcRecord, GcMarker, GcArchive,
           UserReplaces, UserRewrites, Save, disk
      <4> QED BY <4>1, <4>2
    <3> QED BY <3>1
  <2> QED BY <2>1, <2>2
<1> QED BY <1>1, Invariance, PTL DEF Spec, OutcomeHolds
================================================================================
