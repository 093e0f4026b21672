------------------------------ MODULE Adopt ------------------------------
(***************************************************************************)
(* What `fu adopt` does to the agents after its commit, and what recovery  *)
(* does again (engine/adopt_switch.go, adopt_switchdir.go, adopt_txn.go,   *)
(* adopt_identity.go, adopt_link_archive.go).  The skill is in the store;  *)
(* each agent that held it must lose its own entry, without anything a     *)
(* user has there being lost, so that the next pass of links can take its  *)
(* place.  An agent's entry is a directory, a symlink, or a name in a      *)
(* skills directory that is itself a symlink, which a real directory of    *)
(* links then replaces as a whole.                                         *)
(*                                                                         *)
(* fu holds fu.lock and writes its plan in the journal before each rename. *)
(* Users own the agents' directories and may act between any two calls;    *)
(* they leave the random names fu uses alone.  The process may die, and    *)
(* journal writes and removals may fail.                                   *)
(***************************************************************************)
EXTENDS Integers, FiniteSets

CONSTANTS
    Dirs,      \* agents whose entry is a real directory
    Links,     \* agents whose entry is a symlink
    Wholes,    \* agents whose skills directory is a symlink
    Nobody,
    Foreign,   \* objects users put where an adopted entry was
    MaxMoves,  \* bound: what users do
    MaxFaults  \* bound: crashes and failing calls

Entries == Dirs \cup Links
Agents == Entries \cup Wholes

ASSUME AdoptAssumption ==
    /\ Dirs \cap Links = {} /\ Entries \cap Wholes = {} /\ Nobody \notin Agents
    /\ Foreign \cap {"none", "original", "hull", "switched"} = {}
    /\ MaxMoves \in Nat /\ MaxFaults \in Nat

(* "hull" is an adopted directory emptied for removal, "switched" the      *)
(* directory of links that replaces a symlinked skills directory.          *)
Object == {"none", "original", "hull", "switched"} \cup Foreign
Content == {"inventoried", "edited", "renamed"}

NoArchive == [of |-> Nobody, stage |-> "planned", base |-> FALSE, exact |-> "inventoried"]
NoSwitch == [of |-> Nobody, stage |-> "building", known |-> FALSE]

(* TxnRecord, as far as the switching reads and writes it.                 *)
Record == [agents : SUBSET Agents,
           arch : [of : Entries \cup {Nobody}, stage : {"planned", "retired", "copied", "cleaned"},
                   base : BOOLEAN, exact : Content],
           sw : [of : Wholes \cup {Nobody}, stage : {"building", "swapped", "done"}, known : BOOLEAN]]

VARIABLES
    slot,     \* what each agent has under the adopted name, or as its skills directory
    aside,    \* what it has under the retired or backup name
    husk,     \* agents with an emptied root under the second name of its removal
    sib,      \* the replacement directory: "none", "part" of its links, or "full"
    content,  \* what the original, or the directory it leads to, holds
    bound,    \* whether the agent's path still leads to the captured parent
    saved,    \* the copy recovery/ holds of a directory: "none", "part" or its content
    noted,    \* agents whose original symlink a link archive records
    wal, txn, \* the journal's last revision, and the record in memory
    pc, todo, cur,
    err,      \* how the present step failed
    touched,  \* agents whose place a user changed
    hit,      \* agents whose switch a crash or a failing call interrupted
    vacated,  \* agents whose entry a user took away last
    astray,   \* agents whose path a user led elsewhere, if only for a time
    theirs,   \* <<agent, object>>: what users own there
    over,     \* what its last conflict was over: a "scene" a user changed, one changed
              \* and changed back in the "past", or "nothing"
    moves, faults

disk == <<slot, aside, husk, sib, bound, content>>
recovery == <<saved, noted>>
control == <<pc, todo, cur, err>>
ghosts == <<touched, hit, vacated, astray, theirs, over>>
bounds == <<moves, faults>>
vars == <<disk, recovery, wal, txn, control, ghosts, bounds>>

(* The commit is made, with the targets its Preflight captured.            *)
Init ==
    /\ slot = [a \in Agents |-> "original"] /\ aside = [a \in Agents |-> "none"]
    /\ husk = {} /\ sib = [a \in Wholes |-> "none"]
    /\ content = [a \in Agents |-> "inventoried"] /\ bound = [a \in Agents |-> TRUE]
    /\ saved = [a \in Dirs |-> "none"] /\ noted = {}
    /\ wal = [agents |-> Agents, arch |-> NoArchive, sw |-> NoSwitch] /\ txn = wal
    /\ pc = "next" /\ todo = Agents /\ cur = Nobody /\ err = "none"
    /\ touched = {} /\ hit = {} /\ vacated = {} /\ astray = {} /\ over = "none"
    /\ theirs = Agents \X {"original"}
    /\ moves = 0 /\ faults = 0

--------------------------------------------------------------------------------
(* Steps of a process                                                      *)

Goto(label) == pc' = label /\ UNCHANGED <<todo, cur, err>>
Fail(class) == pc' = "failed" /\ err' = class /\ UNCHANGED <<todo, cur>>

(* The command ends with its transaction open.                             *)
Stop == pc' = "stopped" /\ todo' = {} /\ cur' = Nobody /\ err' = "none" /\ txn' = wal

Fault ==
    /\ faults < MaxFaults /\ faults' = faults + 1
    /\ hit' = hit \cup {cur}
    /\ UNCHANGED <<moves, touched, vacated, astray, theirs, over>>

Calm == UNCHANGED <<ghosts, bounds>>

(* WriteTxn: a failing write leaves the record in memory ahead of the      *)
(* journal.                                                                *)
Write(record, label) ==
    /\ txn' = record
    /\ \/ wal' = record /\ Goto(label) /\ Calm
       \/ wal' = wal /\ Fail("plain") /\ Fault
    /\ UNCHANGED <<disk, recovery>>

Archive(fields) == [txn EXCEPT !.arch = fields]
Archived(stage) == [txn EXCEPT !.arch.stage = stage]
Switch(fields) == [txn EXCEPT !.sw = fields]
Without(a) == [txn EXCEPT !.agents = @ \ {a},
                          !.arch = IF a \in Entries THEN NoArchive ELSE @,
                          !.sw = IF a \in Wholes THEN NoSwitch ELSE @]

Look == UNCHANGED <<disk, recovery, wal, txn>> /\ Calm
Moved == UNCHANGED <<recovery, wal, txn>> /\ Calm

(* recoveryOwnerFirst, entries before skills directories.                  *)
Mine(group) ==
    LET open == {txn.arch.of, txn.sw.of} \cap todo \cap group IN
    IF open # {} THEN open ELSE todo \cap group

NextAgent ==
    /\ pc = "next" /\ todo # {}
    /\ \E a \in IF todo \cap Entries # {} THEN Mine(Entries) ELSE Mine(Wholes) :
         /\ cur' = a /\ todo' = todo \ {a}
         /\ pc' = (IF a \in Entries THEN "entry" ELSE "whole")
    /\ err' = "none" /\ Look

(* ClearTxn, when every agent is through and nothing is in flight.         *)
Clear ==
    /\ pc = "next" /\ todo = {}
    /\ \/ /\ txn.arch = NoArchive /\ txn.sw = NoSwitch
          /\ pc' = "settled" /\ UNCHANGED <<todo, cur, err, txn>> /\ Calm
       \/ Stop /\ Fault
    /\ UNCHANGED <<disk, recovery, wal>>

(* The next write command reads the journal and resumes.                   *)
Recover ==
    /\ pc = "stopped"
    /\ pc' = "next" /\ todo' = wal.agents /\ UNCHANGED <<cur, err>>
    /\ Look

Crash ==
    /\ pc \notin {"stopped", "settled"}
    /\ Stop /\ Fault
    /\ UNCHANGED <<disk, recovery, wal>>

--------------------------------------------------------------------------------
(* One entry: switchAdoptEntry to completeAdoptArchive                     *)

(* Mutant: an entry whose content changed is passed over as if switched.   *)
EntryChangedSkipped ==
    /\ pc = "entry" /\ Look
    /\ IF ~bound[cur] THEN Fail("target")
       ELSE IF txn.arch.of = cur THEN
            Goto(IF txn.arch.stage = "planned" THEN "retire" ELSE txn.arch.stage)
       ELSE IF slot[cur] = "none" \/ content[cur] # "inventoried" THEN Goto("next")
       ELSE IF slot[cur] # "original" THEN Fail("target")
       ELSE Goto("plan")

(* openBoundAdoptParent, then the entry as it is now.                      *)
Entry ==
    /\ pc = "entry" /\ Look
    /\ IF ~bound[cur] THEN Fail("target")
       ELSE IF txn.arch.of = cur THEN
            Goto(IF txn.arch.stage = "planned" THEN "retire" ELSE txn.arch.stage)
       ELSE IF slot[cur] = "none" THEN Goto("next")
       ELSE IF slot[cur] # "original" THEN Fail("target")
       ELSE IF content[cur] # "inventoried" THEN Fail("plain")
       ELSE Goto("plan")

(* freshArchivePlan: the exact manifest of a directory, or the durable     *)
(* archive of a link, before anything moves.                               *)
Plan ==
    /\ pc = "plan"
    /\ IF cur \in Dirs /\ (slot[cur] # "original" \/ ~bound[cur]) THEN Fail("target") /\ Look
       ELSE /\ Goto("record") /\ Calm
            /\ noted' = noted \cup ({cur} \cap Links)
            /\ txn' = Archive([of |-> cur, stage |-> "planned", base |-> FALSE,
                               exact |-> content[cur]])
            /\ UNCHANGED <<disk, saved, wal>>

RecordPlan == pc = "record" /\ Write(txn, "retire")

(* Mutant: an entry already under the retired name is nobody's.            *)
RetireOnce ==
    /\ pc = "retire" /\ Look
    /\ IF aside[cur] # "none" THEN Fail("conflict")
       ELSE IF slot[cur] = "none" THEN
            IF cur \in Dirs THEN Fail("gone") ELSE Goto("note cleaned")
       ELSE IF slot[cur] # "original" THEN Fail("target")
       ELSE Goto("rename")

(* ensureAdoptOriginalRetired, and resumeAdoptSymlinkRemoval before it:    *)
(* which of the two names is taken, and whether by what was captured.      *)
Retire ==
    /\ pc = "retire" /\ Look
    /\ IF aside[cur] # "none" THEN
            IF slot[cur] = "none" /\ (cur \in Links \/ aside[cur] = "original")
            THEN Goto("note retired") ELSE Fail("conflict")
       ELSE IF slot[cur] = "none" THEN
            IF cur \in Dirs THEN Fail("gone") ELSE Goto("note cleaned")
       ELSE IF slot[cur] # "original" THEN Fail("target")
       ELSE Goto("rename")

(* RenameNoReplaceAt moves whatever has the name by now;                   *)
RenameAside ==
    /\ pc = "rename" /\ Moved
    /\ IF slot[cur] = "none" THEN Fail("plain") /\ UNCHANGED disk
       ELSE /\ aside' = [aside EXCEPT ![cur] = slot[cur]]
            /\ slot' = [slot EXCEPT ![cur] = "none"]
            /\ Goto("observe") /\ UNCHANGED <<husk, sib, bound, content>>

PutBack ==
    /\ slot' = [slot EXCEPT ![cur] = aside[cur]]
    /\ aside' = [aside EXCEPT ![cur] = "none"]
    /\ UNCHANGED <<husk, sib, bound, content>>

(* and puts back, if it still can, what is not the captured entry.         *)
Observe ==
    /\ pc = "observe" /\ Moved
    /\ IF aside[cur] = "original" THEN Goto("note retired") /\ UNCHANGED disk
       ELSE /\ Fail("conflict")
            /\ IF slot[cur] = "none" THEN PutBack ELSE UNCHANGED disk

NoteRetired ==
    /\ pc = "note retired"
    /\ Write(Archived("retired"), IF cur \in Dirs THEN "copy" ELSE "retired")

(* Resumed at "retired"; a symlink comes here in its own run too.          *)
Retired ==
    /\ pc = "retired" /\ Look
    /\ IF cur \in Links THEN
            IF slot[cur] # "none" THEN Fail("conflict")
            ELSE Goto(IF aside[cur] = "none" THEN "note cleaned" ELSE "unlink")
       ELSE IF aside[cur] = "none" THEN
            IF slot[cur] = "none" THEN Fail("gone") ELSE Fail("target")
       ELSE IF slot[cur] # "none" \/ aside[cur] # "original" THEN Fail("conflict")
       ELSE Goto(IF txn.arch.base THEN "fresh name" ELSE "copy")

(* A copy begun before is left where it is, for a fresh name.              *)
FreshName ==
    /\ pc = "fresh name"
    /\ saved' = [saved EXCEPT ![cur] = "none"] /\ txn' = [txn EXCEPT !.arch.base = FALSE]
    /\ \/ wal' = txn' /\ Goto("copy") /\ Calm
       \/ wal' = wal /\ Fail("plain") /\ Fault
    /\ UNCHANGED <<disk, noted>>

(* copyExactAdoptArchive: the retired tree must be the one recorded.  Its  *)
(* root is created, journalled and filled.                                 *)
CopyRoot ==
    /\ pc = "copy" /\ UNCHANGED <<disk, wal, noted>> /\ Calm
    /\ IF content[cur] # txn.arch.exact THEN Fail("plain") /\ UNCHANGED <<txn, saved>>
       ELSE /\ saved' = [saved EXCEPT ![cur] = "part"]
            /\ txn' = [txn EXCEPT !.arch.base = TRUE] /\ Goto("note base")

NoteBase == pc = "note base" /\ Write(txn, "fill")

CopyTree ==
    /\ pc = "fill" /\ saved' = [saved EXCEPT ![cur] = content[cur]]
    /\ Goto("note copied") /\ UNCHANGED <<disk, noted, wal, txn>> /\ Calm

NoteCopied ==
    /\ pc = "note copied"
    /\ Write([txn EXCEPT !.arch.base = FALSE, !.arch.stage = "copied"], "copied")

(* resumeCopiedAdoptArchive: the archive is complete, the original may go. *)
Copied ==
    /\ pc = "copied" /\ Look
    /\ IF saved[cur] # txn.arch.exact THEN Fail("conflict")
       ELSE IF aside[cur] # "none" THEN Goto("empty")
       ELSE IF slot[cur] # "none" THEN Fail("conflict")
       ELSE Goto("note cleaned")

(* RemoveOwnedTreeAt: the entries, the root to a name of its own, rmdir.   *)
EmptyTree ==
    /\ pc = "empty" /\ Moved
    /\ IF aside[cur] \in Foreign \/ content[cur] # txn.arch.exact
       THEN Fail("conflict") /\ UNCHANGED disk
       ELSE /\ aside' = [aside EXCEPT ![cur] = "hull"] /\ Goto("retire root")
            /\ UNCHANGED <<slot, husk, sib, bound, content>>

RetireRoot ==
    /\ pc = "retire root" /\ Moved
    /\ aside' = [aside EXCEPT ![cur] = "none"] /\ husk' = husk \cup {cur} /\ Goto("rmdir")
    /\ UNCHANGED <<slot, sib, bound, content>>

RemoveRoot ==
    /\ pc = "rmdir" /\ husk' = husk \ {cur}
    /\ \/ aside' = aside /\ Goto("note cleaned") /\ Calm
       \/ aside' = [aside EXCEPT ![cur] = "hull"] /\ Fail("plain") /\ Fault
    /\ UNCHANGED <<slot, sib, bound, content, recovery, wal, txn>>

(* Mutant: whatever has the retired name is unlinked.                      *)
UnlinkUnseen ==
    /\ pc = "unlink" /\ UNCHANGED <<recovery, wal, txn>>
    /\ \/ /\ aside' = [aside EXCEPT ![cur] = "none"] /\ Goto("note cleaned") /\ Calm
          /\ UNCHANGED <<slot, husk, sib, bound, content>>
       \/ Fail("plain") /\ Fault /\ UNCHANGED disk

(* RemoveOwnedSymlinkAt, with the link archive still in place.             *)
Unlink ==
    /\ pc = "unlink" /\ UNCHANGED <<recovery, wal, txn>>
    /\ IF aside[cur] # "original" \/ cur \notin noted
       THEN Fail("conflict") /\ Calm /\ UNCHANGED disk
       ELSE \/ /\ aside' = [aside EXCEPT ![cur] = "none"] /\ Goto("note cleaned") /\ Calm
               /\ UNCHANGED <<slot, husk, sib, bound, content>>
            \/ Fail("plain") /\ Fault /\ UNCHANGED disk

NoteCleaned == pc = "note cleaned" /\ Write(Archived("cleaned"), "cleaned")

(* completeAdoptArchive: nothing is left under the retired name; a link's  *)
(* own name must be free too.                                              *)
Cleaned ==
    /\ pc = "cleaned" /\ Look
    /\ IF aside[cur] # "none" \/ (cur \in Links /\ slot[cur] # "none")
       THEN Fail("conflict") ELSE Goto("close")

Close == pc = "close" /\ Write(Archive(NoArchive), "next")

(* Mutant: an agent is isolated although its entry has moved.              *)
IsolatesAnytime ==
    \/ err = "gone" /\ txn.arch.of = cur
    \/ err \in {"plain", "target", "gone"} /\ txn.arch.of \in {cur, Nobody}

(* switchAdoptedEntriesReporting: an agent may be isolated, and dropped    *)
(* from the record, while nothing of its user's has moved.                 *)
Isolates ==
    \/ err = "gone" /\ txn.arch.of = cur
    \/ /\ err \in {"plain", "target", "gone"}
       /\ txn.arch = NoArchive \/ (txn.arch.of = cur /\ txn.arch.stage = "planned")

Drop ==
    /\ txn' = Without(cur)
    /\ \/ wal' = txn' /\ pc' = "next" /\ err' = "none" /\ UNCHANGED <<todo, cur>> /\ Calm
       \/ wal' = wal /\ pc' = "lost" /\ UNCHANGED <<todo, cur, err>> /\ Fault
    /\ UNCHANGED <<disk, recovery>>

(* Whether fu may say that it stopped because of something it did not do.  *)
Changed(a) ==
    \/ ~bound[a] \/ content[a] # "inventoried"
    \/ slot[a] \in Foreign \/ aside[a] \in Foreign \/ a \in vacated

StopOver(class) ==
    /\ Stop /\ UNCHANGED <<disk, recovery, wal>>
    /\ over' = (IF class # "conflict" THEN over ELSE IF Changed(cur) THEN "scene"
                ELSE IF cur \in touched THEN "past" ELSE "nothing")
    /\ UNCHANGED <<touched, hit, vacated, astray, theirs, bounds>>

HandleEntry ==
    /\ pc = "failed" /\ cur \in Entries
    /\ IF Isolates THEN Drop ELSE StopOver(err)

(* A write that records an isolation fails: the command ends.              *)
Lost == pc = "lost" /\ StopOver("plain")

--------------------------------------------------------------------------------
(* One skills directory: switchWholeDirAgent to removeDirSwitchBackup      *)

TargetNamesKept == content[cur] # "renamed"
TargetKept == content[cur] = "inventoried"

(* openDirSwitchParent, then the switch in the record, a directory that    *)
(* already is the replacement, or a fresh switch of the captured symlink.  *)
Whole ==
    /\ pc = "whole" /\ Look
    /\ IF ~bound[cur] THEN Fail("target")
       ELSE IF txn.sw.of = cur THEN
            Goto(IF txn.sw.stage = "building" THEN "rebuild" ELSE "complete")
       ELSE IF slot[cur] = "switched" THEN Goto("next")
       ELSE Goto("start")

(* startDirSwitch, up to the plan.                                         *)
Start ==
    /\ pc = "start"
    /\ IF slot[cur] # "original" \/ ~TargetNamesKept THEN Fail("target") /\ Look
       ELSE Write(Switch([of |-> cur, stage |-> "building", known |-> FALSE]), "mkdir")

(* resumeDirSwitch takes a building switch down and starts again.          *)
Rebuild ==
    /\ pc = "rebuild" /\ Look
    /\ IF slot[cur] # "original" THEN Fail("target")
       ELSE Goto(IF sib[cur] = "none" THEN "restart" ELSE "take down")

Sibling(state) ==
    /\ sib' = [sib EXCEPT ![cur] = state]
    /\ UNCHANGED <<slot, aside, husk, bound, content>>

(* The replacement is made under a private name, its identity recorded,    *)
(* filled with links to the store and to the target's other entries.       *)
Mkdir ==
    /\ pc = "mkdir" /\ Moved
    /\ Sibling("part") /\ Goto("note sibling")

NoteSibling == pc = "note sibling" /\ Write([txn EXCEPT !.sw.known = TRUE], "links")

MakeLinks ==
    /\ pc = "links" /\ Moved
    /\ Sibling("full") /\ Goto("note links")

NoteLinks == pc = "note links" /\ Write(txn, "check")

(* The target again, with the skill's digest; then the link archive.       *)
Check ==
    /\ pc = "check" /\ UNCHANGED <<disk, saved, wal>> /\ Calm
    /\ IF ~TargetKept THEN Fail("target") /\ UNCHANGED <<noted, txn>>
       ELSE /\ noted' = noted \cup {cur} /\ Goto("note swap")
            /\ txn' = [txn EXCEPT !.sw.stage = "swapped"]

NoteSwap == pc = "note swap" /\ Write(txn, "complete")

(* completeDirSwitch, by what has the agent's name.                        *)
Complete ==
    /\ pc = "complete" /\ Look
    /\ IF ~bound[cur] THEN Fail("target")
       ELSE IF txn.sw.stage = "done" THEN
            IF slot[cur] = "switched" THEN Goto("backup")
            ELSE Fail(IF slot[cur] = "none" THEN "target" ELSE "conflict")
       ELSE IF slot[cur] = "original" THEN
            IF aside[cur] # "none" THEN Fail("conflict")
            ELSE IF ~TargetKept \/ sib[cur] = "none" THEN Fail("target")
            ELSE IF sib[cur] = "part" THEN Fail("conflict")
            ELSE Goto("move link")
       ELSE IF slot[cur] = "none" THEN
            IF aside[cur] = "original" THEN Goto("check landing") ELSE Fail("conflict")
       ELSE IF slot[cur] = "switched" THEN
            IF aside[cur] = "original" THEN Goto("note done") ELSE Fail("conflict")
       ELSE Fail(IF aside[cur] = "none" THEN "target" ELSE "conflict")

MoveLink ==
    /\ pc = "move link" /\ Moved
    /\ IF slot[cur] = "none" THEN Fail("conflict") /\ UNCHANGED disk
       ELSE /\ aside' = [aside EXCEPT ![cur] = slot[cur]]
            /\ slot' = [slot EXCEPT ![cur] = "none"]
            /\ Goto("see link") /\ UNCHANGED <<husk, sib, bound, content>>

SeeLink ==
    /\ pc = "see link" /\ Moved
    /\ IF aside[cur] = "original" THEN Goto("check landing") /\ UNCHANGED disk
       ELSE /\ Fail("conflict")
            /\ IF slot[cur] = "none" THEN PutBack ELSE UNCHANGED disk

CheckLanding ==
    /\ pc = "check landing" /\ Look
    /\ IF ~TargetKept \/ sib[cur] = "none" THEN Fail("target")
       ELSE IF sib[cur] = "part" THEN Fail("conflict")
       ELSE Goto("land")

Land ==
    /\ pc = "land" /\ Moved
    /\ IF slot[cur] # "none" THEN Fail("conflict") /\ UNCHANGED disk
       ELSE /\ slot' = [slot EXCEPT ![cur] = "switched"]
            /\ sib' = [sib EXCEPT ![cur] = "none"] /\ Goto("note done")
            /\ UNCHANGED <<aside, husk, bound, content>>

NoteDone == pc = "note done" /\ Write([txn EXCEPT !.sw.stage = "done"], "seen done")

SeenDone ==
    /\ pc = "seen done" /\ Look
    /\ IF slot[cur] = "switched" THEN Goto("backup")
       ELSE Fail(IF slot[cur] = "none" THEN "target" ELSE "conflict")

(* removeDirSwitchBackup: the symlink goes last, and its archive stays.    *)
RemoveBackup(label) ==
    /\ UNCHANGED <<recovery, wal, txn>>
    /\ IF aside[cur] = "none" THEN Goto(label) /\ UNCHANGED disk /\ Calm
       ELSE IF aside[cur] # "original" \/ cur \notin noted
       THEN Fail("conflict") /\ UNCHANGED disk /\ Calm
       ELSE \/ /\ aside' = [aside EXCEPT ![cur] = "none"] /\ Goto(label) /\ Calm
               /\ UNCHANGED <<slot, husk, sib, bound, content>>
            \/ Fail("io") /\ Fault /\ UNCHANGED disk

Backup == pc = "backup" /\ RemoveBackup("close switch")
CloseSwitch == pc = "close switch" /\ Write(Switch(NoSwitch), "next")

(* removeDirSwitchSibling and, for a directory whose identity was never    *)
(* recorded, reclaimUnjournalledDirSwitchSibling: the links, then the      *)
(* root.  Only a switch still building may lack links.                     *)
TakeDown ==
    /\ pc = "take down" /\ Look
    /\ IF sib[cur] = "none" THEN Goto("taken down")
       ELSE IF sib[cur] = "full" THEN Goto("unlink links")
       ELSE IF txn.sw.stage # "building" THEN Fail("conflict")
       ELSE Goto("rmdir sibling")

RemoveSiblingStep(label, state, next) ==
    /\ pc = label /\ UNCHANGED <<recovery, wal, txn>>
    /\ \/ Sibling(state) /\ Goto(next) /\ Calm
       \/ Fail("io") /\ UNCHANGED disk /\ Fault

UnlinkLinks == RemoveSiblingStep("unlink links", "part", "rmdir sibling")
RmdirSibling == RemoveSiblingStep("rmdir sibling", "none", "taken down")

(* In a switch that is taken up again; otherwise its agent is dropped.     *)
TakenDown ==
    /\ pc = "taken down" /\ Look
    /\ Goto(IF err = "none" THEN "restart" ELSE "drop")

Restart == pc = "restart" /\ Write(Switch(NoSwitch), "start")

(* switchWholeDirAgentsReporting: conflicts over fu's own objects stop the *)
(* command, everything else abandons the agent's switch.                   *)
HandleWhole ==
    /\ pc = "failed" /\ cur \in Wholes
    /\ IF err \in {"conflict", "io"} THEN StopOver(err)
       ELSE Goto("abandon") /\ Look

(* Mutant: the symlink is not put back when the switch is given up.        *)
AbandonUnrestored ==
    /\ pc = "abandon" /\ Look
    /\ IF txn.sw = NoSwitch THEN Goto("drop")
       ELSE IF ~bound[cur] THEN Fail("conflict")
       ELSE IF txn.sw.stage = "swapped" /\ slot[cur] = "switched" THEN Goto("abandoned backup")
       ELSE Goto("take down")

(* abandonDirSwitchWithHooks.                                              *)
Abandon ==
    /\ pc = "abandon" /\ Look
    /\ IF txn.sw = NoSwitch THEN Goto("drop")
       ELSE IF ~bound[cur] THEN Fail("conflict")
       ELSE IF txn.sw.stage = "building" THEN Goto("take down")
       ELSE IF slot[cur] = "switched" THEN Goto("abandoned backup")
       ELSE IF txn.sw.stage = "done" THEN Fail("conflict")
       ELSE IF slot[cur] # "none" THEN
            IF aside[cur] = "none" THEN Goto("take down") ELSE Fail("conflict")
       ELSE IF aside[cur] # "original" \/ sib[cur] = "part" THEN Fail("conflict")
       ELSE Goto("restore link")

RestoreLink ==
    /\ pc = "restore link" /\ Moved
    /\ IF slot[cur] # "none" THEN Fail("conflict") /\ UNCHANGED disk
       ELSE Goto("take down") /\ PutBack

(* The replacement had landed: the switch is finished instead.             *)
AbandonedBackup == pc = "abandoned backup" /\ RemoveBackup("completed")

Completed ==
    /\ pc = "completed"
    /\ txn' = Switch(NoSwitch)
    /\ \/ wal' = txn' /\ pc' = "next" /\ err' = "none" /\ UNCHANGED <<todo, cur>> /\ Calm
       \/ wal' = wal /\ pc' = "lost" /\ UNCHANGED <<todo, cur, err>> /\ Fault
    /\ UNCHANGED <<disk, recovery>>

DropWhole == pc = "drop" /\ Drop

--------------------------------------------------------------------------------
(* What users do                                                           *)

Changes(a) ==
    /\ moves < MaxMoves /\ moves' = moves + 1 /\ touched' = touched \cup {a}
    /\ UNCHANGED <<recovery, wal, txn, control, hit, over, faults>>

(* Something takes the place of whatever the agent has there.              *)
UserPut(a) ==
    /\ \E f \in Foreign :
         /\ \A b \in Agents : <<b, f>> \notin theirs
         /\ slot' = [slot EXCEPT ![a] = f]
         /\ theirs' = (theirs \ {<<a, slot[a]>>}) \cup {<<a, f>>}
    /\ vacated' = vacated \ {a}
    /\ UNCHANGED <<aside, husk, sib, bound, content, astray>> /\ Changes(a)

UserTake(a) ==
    /\ slot[a] # "none"
    /\ slot' = [slot EXCEPT ![a] = "none"] /\ theirs' = theirs \ {<<a, slot[a]>>}
    /\ vacated' = vacated \cup {a}
    /\ UNCHANGED <<aside, husk, sib, bound, content, astray>> /\ Changes(a)

(* An adopted directory is edited in its place, the others' targets where  *)
(* they are; a target directory may gain, lose or get back its names.      *)
UserEdit(a) ==
    /\ a \in Dirs => slot[a] = "original"
    /\ \E c \in IF a \in Wholes THEN Content ELSE {"inventoried", "edited"} :
         c # content[a] /\ content' = [content EXCEPT ![a] = c]
    /\ UNCHANGED <<slot, aside, husk, sib, bound, theirs, vacated, astray>> /\ Changes(a)

(* The captured parent is moved out of the way, or back.                   *)
UserMoveParent(a) ==
    /\ bound' = [bound EXCEPT ![a] = ~@] /\ astray' = astray \cup {a}
    /\ UNCHANGED <<slot, aside, husk, sib, content, theirs, vacated>> /\ Changes(a)

EntryStep ==
    \/ Entry \/ Plan \/ RecordPlan \/ Retire \/ RenameAside \/ Observe \/ NoteRetired
    \/ Retired \/ FreshName \/ CopyRoot \/ NoteBase \/ CopyTree \/ NoteCopied \/ Copied
    \/ EmptyTree \/ RetireRoot \/ RemoveRoot \/ Unlink \/ NoteCleaned \/ Cleaned \/ Close
    \/ HandleEntry
WholeStep ==
    \/ Whole \/ Start \/ Rebuild \/ Mkdir \/ NoteSibling \/ MakeLinks \/ NoteLinks \/ Check
    \/ NoteSwap \/ Complete \/ MoveLink \/ SeeLink \/ CheckLanding \/ Land \/ NoteDone
    \/ SeenDone \/ Backup \/ CloseSwitch \/ TakeDown \/ UnlinkLinks \/ RmdirSibling
    \/ TakenDown \/ Restart \/ HandleWhole \/ Abandon \/ RestoreLink \/ AbandonedBackup
    \/ Completed \/ DropWhole
Step == NextAgent \/ EntryStep \/ WholeStep \/ Lost \/ Clear
User == \E a \in Agents : UserPut(a) \/ UserTake(a) \/ UserEdit(a) \/ UserMoveParent(a)

(* With the transaction complete fu is done; users may go on.              *)
Settled == pc = "settled" /\ UNCHANGED vars

Next == Step \/ Recover \/ Crash \/ User \/ Settled

(* A process goes on until it ends, and there is always a next command.    *)
Spec == Init /\ [][Next]_vars /\ WF_vars(Step) /\ WF_vars(Recover)

--------------------------------------------------------------------------------
(* Properties                                                              *)

(* Every variable keeps its type, in the record on disk and in memory.     *)
TypeOK ==
    /\ slot \in [Agents -> Object] /\ aside \in [Agents -> Object] /\ husk \subseteq Dirs
    /\ sib \in [Wholes -> {"none", "part", "full"}] /\ content \in [Agents -> Content]
    /\ bound \in [Agents -> BOOLEAN] /\ saved \in [Dirs -> {"none", "part"} \cup Content]
    /\ noted \subseteq Links \cup Wholes /\ wal \in Record /\ txn \in Record
    /\ \A r \in {wal, txn} :
         /\ {r.arch.of, r.sw.of} \subseteq r.agents \cup {Nobody}
         /\ r.sw.stage # "building" => r.sw.known
    /\ todo \subseteq Agents /\ cur \in Agents \cup {Nobody}
    /\ theirs \subseteq Agents \X Object /\ over \in {"none", "scene", "past", "nothing"}

(* Nothing a user has where an adopted entry was is lost: it is under its  *)
(* name or the one fu moved it to, and the captured entry may be gone only *)
(* when recovery/ holds the whole directory, or the link archive the link. *)
Preserved(a) == IF a \in Dirs THEN saved[a] = content[a] ELSE a \in noted
TheirsKept ==
    \A p \in theirs :
        \/ p[2] \in {slot[p[1]], aside[p[1]]}
        \/ p[2] = "original" /\ Preserved(p[1])

(* An agent is without a skills directory only while the journal names the *)
(* switch that will land the new one or restore the symlink, unless its    *)
(* user took it away.                                                      *)
NeverStripped ==
    \A a \in Wholes : slot[a] = "none" =>
        a \in vacated \/ (wal.sw.of = a /\ wal.sw.stage = "swapped" /\ aside[a] # "none")

(* A finished transaction leaves nothing of fu's or of a user's under a    *)
(* random name, except where a process was stopped in the middle, and the  *)
(* entry of an agent whose path was led elsewhere: it is given up without  *)
(* a look at the retired name (openBoundAdoptParent fails first).          *)
NothingParked ==
    pc = "settled" => \A a \in Agents :
        \/ a \in hit \/ a \in astray \cap Entries
        \/ aside[a] = "none" /\ a \notin husk /\ (a \in Wholes => sib[a] = "none")

(* The agents a finished adopt still names have lost the captured entry,   *)
(* and it gave up the others because of a user or a failure.               *)
NamedAreSwitched ==
    pc = "settled" => \A a \in Agents :
        IF a \in wal.agents THEN slot[a] # "original" ELSE a \in touched \cup hit

(* One crash or failing call never keeps the transaction open over agents  *)
(* that no user touched: recovery goes on until it is settled.             *)
Converges == <>(touched # {} \/ faults > 1 \/ pc = "settled")

(* Fu's own residue never becomes a conflict that fails every later write  *)
(* command (adopt_switchdir.go:596-600, DESIGN.md:369).                    *)
NoConflictOfItsOwn == over # "nothing"

================================================================================
