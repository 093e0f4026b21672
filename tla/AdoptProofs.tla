---------------------------- MODULE AdoptProofs ----------------------------
(***************************************************************************)
(* For every set of agents and every bound: a finished or interrupted      *)
(* adopt loses nothing users had where an adopted entry was, leaves no     *)
(* agent without its skills directory, and, once settled, leaves nothing   *)
(* aside and names exactly the agents it switched.                         *)
(***************************************************************************)
EXTENDS Adopt, TLAPS

(* Where one entry is being switched, and one skills directory.            *)
Copying == {"fresh name", "copy", "note base", "fill", "note copied"}
Emptying == {"empty", "retire root", "rmdir"}
EntryPcs ==
    {"entry", "plan", "record", "retire", "rename", "observe", "note retired", "retired",
     "copied", "unlink", "note cleaned", "cleaned", "close"} \cup Copying \cup Emptying
TakingDown == {"take down", "unlink links", "rmdir sibling", "taken down"}
GivingUp == {"abandon", "restore link", "abandoned backup", "completed", "drop"}
Switching ==
    {"whole", "start", "rebuild", "restart", "mkdir", "note sibling", "links", "note links",
     "check", "note swap", "complete", "move link", "see link", "check landing", "land",
     "note done", "seen done", "backup", "close switch"}
WholePcs == Switching \cup TakingDown \cup GivingUp
Pcs == EntryPcs \cup WholePcs \cup {"next", "failed", "lost", "stopped", "settled"}

(* The agent in hand, and how its last step failed.                        *)
ControlInv ==
    /\ pc \in Pcs
    /\ pc \in EntryPcs \/ (pc \in {"failed", "lost"} /\ cur \notin Wholes) => cur \in Entries
    /\ pc \in Copying \cup Emptying \cup {"copied"} => cur \in Dirs
    /\ pc = "unlink" => cur \in Links
    /\ pc \in WholePcs => cur \in Wholes
    /\ pc \in EntryPcs \cup Switching => err = "none"
    /\ pc \in {"failed"} \cup GivingUp => err # "none"
    /\ todo \subseteq wal.agents /\ cur \notin todo
    /\ (pc = "stopped" => cur = Nobody) /\ (pc = "settled" => todo = {})
    /\ pc \in EntryPcs \cup WholePcs \cup {"failed"} => cur \in wal.agents

(* The record in memory is ahead of the journal only between a change and  *)
(* its write, and after a write that failed.                               *)
MemoryInv ==
    /\ pc # "lost" => txn.agents = wal.agents
    /\ pc \in {"next", "stopped", "settled", "entry", "plan"} => txn = wal
    /\ txn # wal => pc \in {"record", "note base", "note swap"} \/ cur \in hit
    /\ txn # wal =>
        pc \in {"record", "note base", "note swap", "failed", "lost"} \cup TakingDown \cup GivingUp
    /\ txn # wal /\ pc \in TakingDown => err # "none"
    /\ pc \in EntryPcs \/ (pc \in {"failed", "lost"} /\ cur \in Entries) => txn.sw = wal.sw
    /\ pc \in WholePcs \/ (pc \in {"failed", "lost"} /\ cur \in Wholes) => txn.arch = wal.arch

(* What is in flight is in hand, or first in the queue.                    *)
OwnerInv == pc # "stopped" =>
    /\ \/ txn.arch.of \in todo \cup {Nobody}
       \/ txn.arch.of = cur /\ pc \in EntryPcs \cup {"failed"}
    /\ \/ txn.sw.of \in todo \cup {Nobody}
       \/ txn.sw.of = cur /\ pc \in WholePcs \cup {"failed"}
    /\ \/ wal.arch.of \in todo \cup {Nobody}
       \/ wal.arch.of = cur /\ pc \in EntryPcs \cup {"failed", "lost"}
    /\ \/ wal.sw.of \in todo \cup {Nobody}
       \/ wal.sw.of = cur /\ pc \in WholePcs \cup {"failed", "lost"}
    /\ pc \in EntryPcs => txn.arch.of \in {cur, Nobody} /\ wal.arch.of \in {cur, Nobody}
    /\ pc \in WholePcs => txn.sw.of \in {cur, Nobody} /\ wal.sw.of \in {cur, Nobody}
    /\ pc \in {"failed", "lost"} /\ cur \in Entries =>
        txn.arch.of \in {cur, Nobody} /\ wal.arch.of \in {cur, Nobody}
    /\ pc \in {"failed", "lost"} /\ cur \in Wholes =>
        txn.sw.of \in {cur, Nobody} /\ wal.sw.of \in {cur, Nobody}

(* How far the switch of the agent in hand got.                            *)
StageInv ==
    /\ pc \in EntryPcs \ {"entry", "plan"} => txn.arch.of = cur
    /\ pc \in {"record", "retire", "rename", "observe", "note retired"} =>
       txn.arch.stage = "planned"
    /\ pc \in Copying \cup {"retired", "unlink"} => txn.arch.stage = "retired"
    /\ pc \in Emptying \cup {"copied"} => txn.arch.stage = "copied"
    /\ pc \in {"cleaned", "close"} => txn.arch.stage = "cleaned"
    /\ \A r \in {txn, wal} : r.arch.stage = "copied" => r.arch.of \in Dirs
    /\ pc = "plan" => txn.arch.of = Nobody
    /\ pc = "start" => txn.sw.of = Nobody
    /\ pc \in {"mkdir", "note sibling", "links", "note links", "check", "rebuild", "restart"} =>
        txn.sw.stage = "building"
    /\ pc \in {"links", "note links", "check"} => txn.sw.known
    /\ pc \in {"mkdir", "note sibling", "links", "note links", "check", "rebuild", "restart"} =>
        txn.sw.of = cur
    /\ pc \in TakingDown /\ err = "none" => txn.sw.of = cur /\ txn.sw.stage = "building"
    /\ pc \in {"note swap", "move link", "see link", "check landing", "land", "note done",
                "restore link"} =>
        txn.sw.of = cur /\ txn.sw.stage = "swapped"
    /\ pc \in {"seen done", "backup", "close switch"} => txn.sw.stage = "done"
    /\ pc \in {"complete", "abandoned backup"} => txn.sw.of = cur /\ txn.sw.stage # "building"
    /\ pc # "lost" =>
        /\ wal.sw.stage = "swapped" => txn.sw.stage \in {"swapped", "done"}
        /\ wal.sw.stage = "done" => txn.sw.stage = "done" \/ txn.sw = NoSwitch
    /\ \A r \in {txn, wal} : r.sw.of = Nobody => r.sw.stage = "building"

(* What is aside while the agent is in hand.                               *)
AsideInv ==
    /\ pc \in {"rename", "move link", "rmdir"} => aside[cur] = "none"
    /\ pc \in Copying \cup {"restore link"} => aside[cur] = "original"
    /\ pc = "note retired" => aside[cur] = "original" \/ cur \in Links
    /\ pc = "see link" => aside[cur] # "none"
    /\ pc \in {"check landing", "land", "note done"} => aside[cur] = "original"
    /\ pc = "retire root" => aside[cur] = "hull"
    /\ pc = "empty" => saved[cur] = txn.arch.exact
    /\ pc \in {"close", "close switch", "completed"} => aside[cur] = "none"
    /\ pc \in TakingDown \cup {"restart", "drop"} => aside[cur] = "none" \/ cur \in hit

(* Only what was captured, and what users put there since, is theirs.      *)
TheirsInv == theirs \subseteq Agents \X ({"original"} \cup Foreign)

(* The captured entry has one name, and so has the replacement.            *)
OnceInv ==
    /\ \A a \in Agents : ~(slot[a] = "original" /\ aside[a] = "original")
    /\ \A a \in Wholes : slot[a] = "switched" => sib[a] = "none"
    /\ pc \in {"mkdir", "note sibling", "links", "unlink links", "move link"} =>
        slot[cur] # "switched"
    /\ pc = "see link" => aside[cur] # "switched"

(* Somebody's slot is empty only because its user emptied it, or           *)
Present(a) == slot[a] = "none" => a \in vacated
PresentInv ==
    /\ pc \in TakingDown \cup {"rebuild", "restart", "note done", "seen done", "backup",
                              "close switch", "abandoned backup", "completed", "drop"} =>
        Present(cur)

(* Nothing is aside that the journal does not name, but where a process    *)
(* was stopped or the agent's path led elsewhere.                          *)
ParkedInv ==
    /\ \A a \in Agents : bound[a] \/ a \in astray
    /\ \A a \in husk : a \in hit \/ (a = cur /\ pc = "rmdir")
    /\ \A a \in Entries \ (hit \cup astray) : aside[a] # "none" => wal.arch.of = a
    /\ \A a \in Wholes \ hit :
        /\ aside[a] # "none" => wal.sw.of = a /\ wal.sw.stage # "building"
        /\ sib[a] # "none" => wal.sw.of = a
    /\ pc \in {"taken down", "restart", "close switch", "drop", "completed", "note done",
                "abandoned backup"} =>
        sib[cur] = "none" \/ cur \in hit
    /\ pc = "unlink links" => sib[cur] # "none"
    /\ \A r \in {txn, wal} : r.sw.stage = "done" => sib[r.sw.of] = "none" \/ r.sw.of \in hit
    /\ pc = "failed" /\ cur \in Entries =>
        /\ err = "gone" => aside[cur] = "none"
        /\ err \in {"plain", "target"} /\ txn.arch.of = cur /\ txn.arch.stage = "planned" =>
            aside[cur] = "none" \/ cur \in hit \cup astray

(* What was switched has lost the captured entry,                          *)
SwitchedInv ==
    /\ \A a \in wal.agents \ todo : a # cur \/ pc \in {"next", "settled"} =>
        pc = "stopped" \/ slot[a] # "original"
    /\ pc \in Copying \cup Emptying \cup
              {"note retired", "retired", "copied", "unlink", "note cleaned", "cleaned", "close",
               "note done", "seen done", "backup", "close switch", "abandoned backup",
               "completed"} =>
        slot[cur] # "original"
    /\ \A r \in {txn, wal} :
        /\ r.arch.of # Nobody /\ r.arch.stage # "planned" => slot[r.arch.of] # "original"
        /\ r.sw.stage = "done" => slot[r.sw.of] # "original"

(* and what was given up has a reason.                                     *)
GivenUpInv == Agents \ wal.agents \subseteq touched \cup hit

(* What an agent nobody disturbed looks like before it is taken in hand    *)
(* and after,                                                              *)
Before(a) == slot[a] = "original" /\ aside[a] = "none"
Moving(a) == slot[a] = "none" /\ aside[a] = "original"
After(a) == slot[a] = (IF a \in Entries THEN "none" ELSE "switched") /\ aside[a] = "none"
Rest(a) ==
    /\ Before(a) \/ After(a)
    /\ a \in Wholes => sib[a] = "none"
    /\ a \notin {wal.arch.of, wal.sw.of, txn.arch.of, txn.sw.of}

(* and in between.                                                         *)
InHand(a) ==
    /\ pc \in {"entry", "plan", "whole", "start"} => Rest(a)
    /\ pc \in {"plan", "record", "retire", "rename", "start"} => Before(a)
    /\ pc \in EntryPcs \ {"entry", "plan"} =>
        txn.arch.exact = "inventoried" /\ (a \in Links => a \in noted)
    /\ pc \in {"observe", "note retired", "retired", "copied", "empty", "unlink"} \cup Copying =>
        Moving(a)
    /\ pc = "retired" => a \in Links
    /\ pc \in {"note copied", "copied", "empty"} => saved[a] = "inventoried"
    /\ pc = "retire root" => slot[a] = "none"
    /\ pc \in {"rmdir", "note cleaned", "cleaned", "close", "close switch"} => After(a)
    /\ pc \in {"mkdir", "note sibling", "links", "note links", "check", "note swap", "complete",
                "move link"} =>
        Before(a)
    /\ pc = "mkdir" => sib[a] = "none"
    /\ pc \in {"note links", "check", "note swap", "complete", "move link", "see link",
                "check landing", "land"} =>
        sib[a] = "full"
    /\ pc = "complete" => txn.sw.stage = "swapped"
    /\ pc \in {"see link", "check landing", "land"} => Moving(a)
    /\ pc \in {"note done", "seen done", "backup"} => slot[a] = "switched" /\ aside[a] = "original"
    /\ pc \in {"note swap", "complete", "move link", "see link", "check landing", "land",
                "note done", "seen done", "backup"} =>
        a \in noted
    /\ pc \notin {"failed", "lost", "fresh name", "rebuild", "restart"} \cup TakingDown \cup GivingUp

UndisturbedInv == \A a \in Agents \ (touched \cup hit) :
    /\ bound[a] /\ content[a] = "inventoried"
    /\ IF a = cur /\ pc \notin {"next", "settled"} THEN InHand(a) ELSE Rest(a)

IInv ==
    /\ TypeOK /\ ControlInv /\ MemoryInv /\ OwnerInv /\ StageInv /\ AsideInv
    /\ TheirsInv /\ TheirsKept /\ OnceInv /\ PresentInv /\ NeverStripped
    /\ ParkedInv /\ SwitchedInv /\ GivenUpInv /\ UndisturbedInv

(* The two parts of a record.                                              *)
Arch == [of : Entries \cup {Nobody}, stage : {"planned", "retired", "copied", "cleaned"},
         base : BOOLEAN, exact : Content]
Sw == [of : Wholes \cup {Nobody}, stage : {"building", "swapped", "done"}, known : BOOLEAN]

(* One step of a process on an entry, and on a skills directory.           *)
EntryMove ==
    \/ Entry \/ Plan \/ RecordPlan \/ Retire \/ RenameAside \/ Observe \/ NoteRetired
    \/ Retired \/ FreshName \/ CopyRoot \/ NoteBase \/ CopyTree \/ NoteCopied \/ Copied
    \/ EmptyTree \/ RetireRoot \/ RemoveRoot \/ Unlink \/ NoteCleaned \/ Cleaned \/ Close
WholeMove ==
    \/ Whole \/ Start \/ Rebuild \/ Mkdir \/ NoteSibling \/ MakeLinks \/ NoteLinks \/ Check
    \/ NoteSwap \/ Complete \/ MoveLink \/ SeeLink \/ CheckLanding \/ Land \/ NoteDone
    \/ SeenDone \/ Backup \/ CloseSwitch \/ TakeDown \/ UnlinkLinks \/ RmdirSibling
    \/ TakenDown \/ Restart \/ Abandon \/ RestoreLink \/ AbandonedBackup
Giving == Completed \/ DropWhole \/ HandleEntry \/ HandleWhole \/ Lost
Turning == NextAgent \/ Clear \/ Recover \/ Crash \/ Settled
UserStep(a) == UserPut(a) \/ UserTake(a) \/ UserEdit(a) \/ UserMoveParent(a)

--------------------------------------------------------------------------------
(* The steps by what they are about.                                       *)
LEMMA NextIs ==
    Next <=> EntryMove \/ WholeMove \/ Giving \/ Turning \/ \E a \in Agents : UserStep(a)
BY Zenon DEF Next, Step, EntryStep, WholeStep, User, EntryMove, WholeMove, Giving, Turning, UserStep

(* One action starts at each step.                                         *)
LEMMA EntryAt ==
    ASSUME EntryMove
    PROVE  /\ (pc = "entry" => Entry) /\ (pc = "plan" => Plan) /\ (pc = "record" => RecordPlan)
           /\ (pc = "retire" => Retire) /\ (pc = "rename" => RenameAside)
           /\ (pc = "observe" => Observe) /\ (pc = "note retired" => NoteRetired)
           /\ (pc = "retired" => Retired) /\ (pc = "fresh name" => FreshName)
           /\ (pc = "copy" => CopyRoot) /\ (pc = "note base" => NoteBase)
           /\ (pc = "fill" => CopyTree) /\ (pc = "note copied" => NoteCopied)
           /\ (pc = "copied" => Copied) /\ (pc = "empty" => EmptyTree)
           /\ (pc = "retire root" => RetireRoot) /\ (pc = "rmdir" => RemoveRoot)
           /\ (pc = "unlink" => Unlink) /\ (pc = "note cleaned" => NoteCleaned)
           /\ (pc = "cleaned" => Cleaned) /\ (pc = "close" => Close)
BY DEF EntryMove, Entry, Plan, RecordPlan, Retire, RenameAside, Observe, NoteRetired, Retired,
   FreshName, CopyRoot, NoteBase, CopyTree, NoteCopied, Copied, EmptyTree, RetireRoot,
   RemoveRoot, Unlink, NoteCleaned, Cleaned, Close

(* One action starts at each step of a skills directory.                   *)
LEMMA WholeAt ==
    ASSUME WholeMove
    PROVE  /\ (pc = "whole" => Whole) /\ (pc = "start" => Start) /\ (pc = "rebuild" => Rebuild)
           /\ (pc = "mkdir" => Mkdir) /\ (pc = "note sibling" => NoteSibling)
           /\ (pc = "links" => MakeLinks) /\ (pc = "note links" => NoteLinks)
           /\ (pc = "check" => Check) /\ (pc = "note swap" => NoteSwap)
           /\ (pc = "complete" => Complete) /\ (pc = "move link" => MoveLink)
           /\ (pc = "see link" => SeeLink) /\ (pc = "check landing" => CheckLanding)
           /\ (pc = "land" => Land) /\ (pc = "note done" => NoteDone)
           /\ (pc = "seen done" => SeenDone) /\ (pc = "backup" => Backup)
           /\ (pc = "close switch" => CloseSwitch) /\ (pc = "take down" => TakeDown)
           /\ (pc = "unlink links" => UnlinkLinks) /\ (pc = "rmdir sibling" => RmdirSibling)
           /\ (pc = "taken down" => TakenDown) /\ (pc = "restart" => Restart)
           /\ (pc = "abandon" => Abandon) /\ (pc = "restore link" => RestoreLink)
           /\ (pc = "abandoned backup" => AbandonedBackup)
BY DEF WholeMove, Whole, Start, Rebuild, Mkdir, NoteSibling, MakeLinks, NoteLinks, Check,
   NoteSwap, Complete, MoveLink, SeeLink, CheckLanding, Land, NoteDone, SeenDone, Backup,
   CloseSwitch, TakeDown, UnlinkLinks, RmdirSibling, TakenDown, Restart, Abandon, RestoreLink,
   AbandonedBackup, RemoveSiblingStep

(* A record is made of its parts,                                          *)
LEMMA Parts ==
    ASSUME NEW r \in Record
    PROVE  /\ r.agents \subseteq Agents /\ r.arch \in Arch /\ r.sw \in Sw
           /\ r.arch.of \in Entries \cup {Nobody} /\ r.sw.of \in Wholes \cup {Nobody}
           /\ r.arch.exact \in Content
           /\ r.arch.stage \in {"planned", "retired", "copied", "cleaned"}
           /\ r.sw.stage \in {"building", "swapped", "done"} /\ r.sw.known \in BOOLEAN
BY DEF Record, Arch, Sw

(* and changed part by part.                                               *)
LEMMA Changing ==
    ASSUME NEW r \in Record, NEW x \in Arch, NEW y \in Sw, NEW s \in SUBSET Agents
    PROVE  /\ [r EXCEPT !.arch = x] \in Record /\ [r EXCEPT !.sw = y] \in Record
           /\ [r EXCEPT !.agents = s, !.arch = x, !.sw = y] \in Record
BY DEF Record, Arch, Sw

(* No switch in flight is one too.                                         *)
LEMMA Emptied == NoArchive \in Arch /\ NoSwitch \in Sw
BY DEF NoArchive, NoSwitch, Arch, Sw, Content

(* The types, one by one.                                                  *)
LEMMA Typed == TypeOK <=>
    /\ slot \in [Agents -> Object] /\ aside \in [Agents -> Object] /\ husk \subseteq Dirs
    /\ sib \in [Wholes -> {"none", "part", "full"}] /\ content \in [Agents -> Content]
    /\ bound \in [Agents -> BOOLEAN] /\ saved \in [Dirs -> {"none", "part"} \cup Content]
    /\ noted \subseteq Links \cup Wholes /\ wal \in Record /\ txn \in Record
    /\ wal.arch.of \in wal.agents \cup {Nobody} /\ wal.sw.of \in wal.agents \cup {Nobody}
    /\ txn.arch.of \in txn.agents \cup {Nobody} /\ txn.sw.of \in txn.agents \cup {Nobody}
    /\ wal.sw.stage # "building" => wal.sw.known
    /\ txn.sw.stage # "building" => txn.sw.known
    /\ todo \subseteq Agents /\ cur \in Agents \cup {Nobody}
    /\ theirs \subseteq Agents \X Object /\ over \in {"none", "scene", "past", "nothing"}
BY DEF TypeOK

--------------------------------------------------------------------------------
(* What a step on an entry does to the two records.                        *)
LEMMA EntryRecords ==
    ASSUME TypeOK, ControlInv, EntryMove
    PROVE  /\ wal' = wal \/ wal' = txn'
           /\ txn' = txn \/ \E x \in Arch : txn' = [txn EXCEPT !.arch = x] /\
              x.of \in {txn.arch.of, cur, Nobody}
<1>t. cur \in Entries /\ txn \in Record /\ content \in [Agents -> Content]
  BY Typed DEF ControlInv, EntryMove, EntryPcs, Entry, Plan, RecordPlan, Retire, RenameAside,
     Observe, NoteRetired, Retired, FreshName, CopyRoot, NoteBase, CopyTree, NoteCopied, Copied,
     EmptyTree, RetireRoot, RemoveRoot, Unlink, NoteCleaned, Cleaned, Close, Copying, Emptying
<1>1. wal' = wal \/ wal' = txn'
  BY DEF EntryMove, Entry, Plan, RecordPlan, Retire, RenameAside, Observe, NoteRetired, Retired,
     FreshName, CopyRoot, NoteBase, CopyTree, NoteCopied, Copied, EmptyTree, RetireRoot,
     RemoveRoot, Unlink, NoteCleaned, Cleaned, Close, Write, Look, Moved
<1>2. txn.arch \in Arch /\ txn.arch.of \in Entries \cup {Nobody} /\
      txn = [txn EXCEPT !.arch = txn.arch]
  BY <1>t, Parts DEF Record
<1>3. CASE txn' = txn
  BY <1>3, <1>1
<1>4. CASE Plan /\ txn' # txn
  <2>1. txn' = [txn EXCEPT !.arch = [of |-> cur, stage |-> "planned", base |-> FALSE,
        exact |-> content[cur]]]
    BY <1>4 DEF Plan, Archive, Look
  <2>2. [of |-> cur, stage |-> "planned", base |-> FALSE, exact |-> content[cur]] \in Arch
    BY <1>t DEF Arch, Agents
  <2> QED BY <2>1, <2>2, <1>1
<1>5. CASE txn' \in {Archived("retired"), Archived("cleaned")}
  <2>1. PICK s \in {"retired", "cleaned"} : txn' = [txn EXCEPT !.arch.stage = s]
    BY <1>5 DEF Archived
  <2>2. txn' = [txn EXCEPT !.arch = [txn.arch EXCEPT !.stage = s]]
    BY <2>1
  <2>3. [txn.arch EXCEPT !.stage = s] \in Arch /\ [txn.arch EXCEPT !.stage = s].of = txn.arch.of
    BY <1>2 DEF Arch
  <2> QED BY <2>2, <2>3, <1>1
<1>6. CASE txn' = Archive(NoArchive)
  BY <1>6, <1>1, Emptied DEF Archive, NoArchive
<1>7. CASE \E b \in BOOLEAN : txn' = [txn EXCEPT !.arch.base = b]
  <2>1. PICK b \in BOOLEAN : txn' = [txn EXCEPT !.arch.base = b]
    BY <1>7
  <2>2. txn' = [txn EXCEPT !.arch = [txn.arch EXCEPT !.base = b]]
    BY <2>1
  <2>3. [txn.arch EXCEPT !.base = b] \in Arch /\ [txn.arch EXCEPT !.base = b].of = txn.arch.of
    BY <1>2 DEF Arch
  <2> QED BY <2>2, <2>3, <1>1
<1>8. CASE txn' = [txn EXCEPT !.arch.base = FALSE, !.arch.stage = "copied"]
  <2>2. txn' = [txn EXCEPT !.arch = [txn.arch EXCEPT !.base = FALSE, !.stage = "copied"]]
    BY <1>8
  <2>3. [txn.arch EXCEPT !.base = FALSE, !.stage = "copied"] \in Arch
        /\ [txn.arch EXCEPT !.base = FALSE, !.stage = "copied"].of = txn.arch.of
    BY <1>2 DEF Arch
  <2> QED BY <2>2, <2>3, <1>1
<1> QED
  BY <1>3, <1>4, <1>5, <1>6, <1>7, <1>8 DEF EntryMove, Entry, RecordPlan, Retire, RenameAside,
     Observe, NoteRetired, Retired, FreshName, CopyRoot, NoteBase, CopyTree, NoteCopied, Copied,
     EmptyTree, RetireRoot, RemoveRoot, Unlink, NoteCleaned, Cleaned, Close, Write, Look, Moved

(* What a step on a skills directory does to the two records.              *)
LEMMA WholeRecords ==
    ASSUME TypeOK, ControlInv, StageInv, WholeMove
    PROVE  /\ wal' = wal \/ wal' = txn'
           /\ txn' = txn \/ \E y \in Sw : /\ txn' = [txn EXCEPT !.sw = y]
                                          /\ y.of \in {txn.sw.of, cur, Nobody}
                                          /\ y.stage # "building" => y.known
<1>t. cur \in Wholes /\ txn \in Record /\ (txn.sw.stage # "building" => txn.sw.known)
  BY Typed DEF ControlInv, WholePcs, Switching, TakingDown, GivingUp, WholeMove, Whole, Start,
     Rebuild, Mkdir, NoteSibling, MakeLinks, NoteLinks, Check, NoteSwap, Complete, MoveLink,
     SeeLink, CheckLanding, Land, NoteDone, SeenDone, Backup, CloseSwitch, TakeDown, UnlinkLinks,
     RmdirSibling, TakenDown, Restart, Abandon, RestoreLink, AbandonedBackup, Look, Moved, Calm,
     Goto, Fail, Stop, Fault, Write, disk, recovery, control, ghosts, bounds, PutBack, Sibling,
     RemoveBackup, RemoveSiblingStep
<1>1. wal' = wal \/ wal' = txn'
  BY DEF WholeMove, Whole, Start, Rebuild, Mkdir, NoteSibling, MakeLinks, NoteLinks, Check,
     NoteSwap, Complete, MoveLink, SeeLink, CheckLanding, Land, NoteDone, SeenDone, Backup,
     CloseSwitch, TakeDown, UnlinkLinks, RmdirSibling, TakenDown, Restart, Abandon, RestoreLink,
     AbandonedBackup, Look, Moved, Calm, Goto, Fail, Stop, Fault, Write, disk, recovery, control,
     ghosts, bounds, PutBack, Sibling, RemoveBackup, RemoveSiblingStep
<1>2. txn.sw \in Sw /\ txn = [txn EXCEPT !.sw = txn.sw]
  BY <1>t, Parts DEF Record
<1>3. CASE txn' = txn
  BY <1>3, <1>1
<1>4. CASE Start /\ txn' # txn
  <2>1. txn' = [txn EXCEPT !.sw = [of |-> cur, stage |-> "building", known |-> FALSE]]
    BY <1>4 DEF Start, Switch, Look, Write
  <2>2. [of |-> cur, stage |-> "building", known |-> FALSE] \in Sw
    BY <1>t DEF Sw
  <2> QED BY <2>1, <2>2, <1>1
<1>5. CASE txn' = Switch(NoSwitch)
  BY <1>5, <1>1, Emptied DEF Switch, NoSwitch
<1>6. CASE txn' = [txn EXCEPT !.sw.known = TRUE]
  <2>1. txn' = [txn EXCEPT !.sw = [txn.sw EXCEPT !.known = TRUE]]
    BY <1>6
  <2>2. /\ [txn.sw EXCEPT !.known = TRUE] \in Sw /\ [txn.sw EXCEPT !.known = TRUE].of = txn.sw.of
        /\ [txn.sw EXCEPT !.known = TRUE].known
    BY <1>2 DEF Sw
  <2> QED BY <2>1, <2>2, <1>1
<1>7. ASSUME NEW s \in {"swapped", "done"}, txn' = [txn EXCEPT !.sw.stage = s], txn.sw.known
      PROVE  \E y \in Sw : /\ txn' = [txn EXCEPT !.sw = y]
                           /\ y.of \in {txn.sw.of, cur, Nobody}
                           /\ y.stage # "building" => y.known
  <2>1. txn' = [txn EXCEPT !.sw = [txn.sw EXCEPT !.stage = s]]
    BY <1>7
  <2>2. /\ [txn.sw EXCEPT !.stage = s] \in Sw /\ [txn.sw EXCEPT !.stage = s].of = txn.sw.of
        /\ [txn.sw EXCEPT !.stage = s].known
    BY <1>7, <1>2 DEF Sw
  <2> QED BY <2>1, <2>2
<1>8. CASE Check
  <2>1. txn.sw.known
    BY <1>8 DEF Check, StageInv
  <2>2. txn' = txn \/ txn' = [txn EXCEPT !.sw.stage = "swapped"]
    BY <1>8 DEF Check
  <2> QED BY <2>1, <2>2, <1>7, <1>1
<1>9. CASE NoteDone
  <2>1. txn.sw.known /\ txn' = [txn EXCEPT !.sw.stage = "done"]
    BY <1>9, <1>t DEF NoteDone, Write, StageInv
  <2> QED BY <2>1, <1>7, <1>1
<1> QED
  BY <1>3, <1>4, <1>5, <1>6, <1>8, <1>9 DEF WholeMove, Whole, Start, Rebuild, Mkdir, NoteSibling,
     MakeLinks, NoteLinks, Check, NoteSwap, Complete, MoveLink, SeeLink, CheckLanding, Land,
     NoteDone, SeenDone, Backup, CloseSwitch, TakeDown, UnlinkLinks, RmdirSibling, TakenDown,
     Restart, Abandon, RestoreLink, AbandonedBackup, Look, Moved, Calm, Goto, Fail, Stop, Fault,
     Write, disk, recovery, control, ghosts, bounds, PutBack, Sibling, RemoveBackup,
     RemoveSiblingStep

--------------------------------------------------------------------------------
(* Every step keeps the types.                                             *)
LEMMA EntryTypes ==
    ASSUME AdoptAssumption, TypeOK, ControlInv, MemoryInv, EntryMove PROVE TypeOK'
<1>t1. slot \in [Agents -> Object]
  BY Typed
<1>t2. aside \in [Agents -> Object]
  BY Typed
<1>t3. husk \subseteq Dirs
  BY Typed
<1>t4. saved \in [Dirs -> {"none", "part"} \cup Content]
  BY Typed
<1>t5. noted \subseteq Links \cup Wholes
  BY Typed
<1>t6. content \in [Agents -> Content]
  BY Typed
<1>t7. wal \in Record /\ txn \in Record
  BY Typed
<1>c. cur \in Entries /\ cur \in Agents /\ cur # Nobody
  BY AdoptAssumption DEF ControlInv, EntryPcs, Copying, Emptying, EntryMove, Entry, Plan,
     RecordPlan, Retire, RenameAside, Observe, NoteRetired, Retired, FreshName, CopyRoot,
     NoteBase, CopyTree, NoteCopied, Copied, EmptyTree, RetireRoot, RemoveRoot, Unlink,
     NoteCleaned, Cleaned, Close, Look, Moved, Calm, Goto, Fail, Stop, Fault, Write, disk,
     recovery, control, ghosts, bounds, PutBack, Agents
<1>d. pc \in Copying \cup Emptying \cup {"copied"} => cur \in Dirs
  BY DEF ControlInv
<1>0. UNCHANGED <<sib, content, bound, todo, cur, theirs, over>>
  BY DEF EntryMove, Entry, Plan, RecordPlan, Retire, RenameAside, Observe, NoteRetired, Retired,
     FreshName, CopyRoot, NoteBase, CopyTree, NoteCopied, Copied, EmptyTree, RetireRoot,
     RemoveRoot, Unlink, NoteCleaned, Cleaned, Close, Look, Moved, Calm, Goto, Fail, Stop, Fault,
     Write, disk, recovery, control, ghosts, bounds, PutBack
<1>1. slot' \in [Agents -> Object]
  BY <1>t1, <1>t2, <1>c DEF EntryMove, Entry, Plan, RecordPlan, Retire, RenameAside, Observe,
     NoteRetired, Retired, FreshName, CopyRoot, NoteBase, CopyTree, NoteCopied, Copied,
     EmptyTree, RetireRoot, RemoveRoot, Unlink, NoteCleaned, Cleaned, Close, Look, Moved, Calm,
     Goto, Fail, Stop, Fault, Write, disk, recovery, control, ghosts, bounds, PutBack, Object
<1>2. aside' \in [Agents -> Object]
  BY <1>t1, <1>t2, <1>c DEF EntryMove, Entry, Plan, RecordPlan, Retire, RenameAside, Observe,
     NoteRetired, Retired, FreshName, CopyRoot, NoteBase, CopyTree, NoteCopied, Copied,
     EmptyTree, RetireRoot, RemoveRoot, Unlink, NoteCleaned, Cleaned, Close, Look, Moved, Calm,
     Goto, Fail, Stop, Fault, Write, disk, recovery, control, ghosts, bounds, PutBack, Object
<1>3. husk' \subseteq Dirs
  BY <1>t3, <1>d DEF EntryMove, Entry, Plan, RecordPlan, Retire, RenameAside, Observe,
     NoteRetired, Retired, FreshName, CopyRoot, NoteBase, CopyTree, NoteCopied, Copied,
     EmptyTree, RetireRoot, RemoveRoot, Unlink, NoteCleaned, Cleaned, Close, Look, Moved, Calm,
     Goto, Fail, Stop, Fault, Write, disk, recovery, control, ghosts, bounds, PutBack, Emptying
<1>4. saved' \in [Dirs -> {"none", "part"} \cup Content]
  BY <1>t4, <1>t6, <1>c DEF EntryMove, Entry, Plan, RecordPlan, Retire, RenameAside, Observe,
     NoteRetired, Retired, FreshName, CopyRoot, NoteBase, CopyTree, NoteCopied, Copied,
     EmptyTree, RetireRoot, RemoveRoot, Unlink, NoteCleaned, Cleaned, Close, Look, Moved, Calm,
     Goto, Fail, Stop, Fault, Write, disk, recovery, control, ghosts, bounds, PutBack, Copying
<1>5. noted' \subseteq Links \cup Wholes
  BY <1>t5 DEF EntryMove, Entry, Plan, RecordPlan, Retire, RenameAside, Observe, NoteRetired,
     Retired, FreshName, CopyRoot, NoteBase, CopyTree, NoteCopied, Copied, EmptyTree, RetireRoot,
     RemoveRoot, Unlink, NoteCleaned, Cleaned, Close, Look, Moved, Calm, Goto, Fail, Stop, Fault,
     Write, disk, recovery, control, ghosts, bounds, PutBack
<1>6. /\ txn' \in Record /\ wal' \in Record /\ UNCHANGED <<txn.agents, txn.sw>>
      /\ (wal' = wal \/ wal' = txn') /\ txn'.arch.of \in {txn.arch.of, cur, Nobody}
      /\ txn' = txn \/ txn'.arch.of \in {txn.arch.of, cur, Nobody}
  <2>1. CASE txn' = txn
    BY <2>1, EntryRecords, <1>t7
  <2>2. ASSUME NEW x \in Arch, txn' = [txn EXCEPT !.arch = x], x.of \in {txn.arch.of, cur, Nobody}
        PROVE  txn' \in Record /\ UNCHANGED <<txn.agents, txn.sw>> /\
               txn'.arch.of \in {txn.arch.of, cur, Nobody}
    <3>1. txn' \in Record
      BY <2>2, <1>t7, Changing, Emptied
    <3> QED BY <3>1, <2>2, <1>t7 DEF Record
  <2> QED BY <2>1, <2>2, EntryRecords, <1>t7
<1>7. cur \in txn.agents
  <2>1. pc # "lost" /\ pc \in EntryPcs
    BY DEF EntryMove, Entry, Plan, RecordPlan, Retire, RenameAside, Observe, NoteRetired,
       Retired, FreshName, CopyRoot, NoteBase, CopyTree, NoteCopied, Copied, EmptyTree,
       RetireRoot, RemoveRoot, Unlink, NoteCleaned, Cleaned, Close, Look, Moved, Calm, Goto,
       Fail, Stop, Fault, Write, disk, recovery, control, ghosts, bounds, PutBack, EntryPcs,
       Copying, Emptying
  <2> QED BY <2>1 DEF MemoryInv, ControlInv
<1>8. /\ txn'.arch.of \in txn'.agents \cup {Nobody} /\ txn'.sw.of \in txn'.agents \cup {Nobody}
      /\ txn'.sw.stage # "building" => txn'.sw.known
  BY <1>6, <1>7, Typed
<1>9. /\ wal'.arch.of \in wal'.agents \cup {Nobody} /\ wal'.sw.of \in wal'.agents \cup {Nobody}
      /\ wal'.sw.stage # "building" => wal'.sw.known
  BY <1>6, <1>8, Typed
<1> QED BY <1>0, <1>1, <1>2, <1>3, <1>4, <1>5, <1>6, <1>8, <1>9, Typed DEF TypeOK

(* A step on a skills directory keeps the types.                           *)
LEMMA WholeTypes ==
    ASSUME AdoptAssumption, TypeOK, ControlInv, MemoryInv, StageInv, WholeMove PROVE TypeOK'
<1>t1. slot \in [Agents -> Object]
  BY Typed
<1>t2. aside \in [Agents -> Object]
  BY Typed
<1>t3. sib \in [Wholes -> {"none", "part", "full"}]
  BY Typed
<1>t5. noted \subseteq Links \cup Wholes
  BY Typed
<1>t7. wal \in Record /\ txn \in Record
  BY Typed
<1>c. cur \in Wholes /\ cur \in Agents /\ cur # Nobody
  BY AdoptAssumption DEF ControlInv, WholePcs, Switching, TakingDown, GivingUp, WholeMove, Whole,
     Start, Rebuild, Mkdir, NoteSibling, MakeLinks, NoteLinks, Check, NoteSwap, Complete,
     MoveLink, SeeLink, CheckLanding, Land, NoteDone, SeenDone, Backup, CloseSwitch, TakeDown,
     UnlinkLinks, RmdirSibling, TakenDown, Restart, Abandon, RestoreLink, AbandonedBackup, Look,
     Moved, Calm, Goto, Fail, Stop, Fault, Write, disk, recovery, control, ghosts, bounds,
     PutBack, Sibling, RemoveBackup, RemoveSiblingStep, Agents
<1>0. UNCHANGED <<husk, content, bound, saved, todo, cur, theirs, over>>
  BY DEF WholeMove, Whole, Start, Rebuild, Mkdir, NoteSibling, MakeLinks, NoteLinks, Check,
     NoteSwap, Complete, MoveLink, SeeLink, CheckLanding, Land, NoteDone, SeenDone, Backup,
     CloseSwitch, TakeDown, UnlinkLinks, RmdirSibling, TakenDown, Restart, Abandon, RestoreLink,
     AbandonedBackup, Look, Moved, Calm, Goto, Fail, Stop, Fault, Write, disk, recovery, control,
     ghosts, bounds, PutBack, Sibling, RemoveBackup, RemoveSiblingStep
<1>1. slot' \in [Agents -> Object]
  BY <1>t1, <1>t2, <1>c DEF WholeMove, Whole, Start, Rebuild, Mkdir, NoteSibling, MakeLinks,
     NoteLinks, Check, NoteSwap, Complete, MoveLink, SeeLink, CheckLanding, Land, NoteDone,
     SeenDone, Backup, CloseSwitch, TakeDown, UnlinkLinks, RmdirSibling, TakenDown, Restart,
     Abandon, RestoreLink, AbandonedBackup, Look, Moved, Calm, Goto, Fail, Stop, Fault, Write,
     disk, recovery, control, ghosts, bounds, PutBack, Sibling, RemoveBackup, RemoveSiblingStep,
     Object
<1>2. aside' \in [Agents -> Object]
  BY <1>t1, <1>t2, <1>c DEF WholeMove, Whole, Start, Rebuild, Mkdir, NoteSibling, MakeLinks,
     NoteLinks, Check, NoteSwap, Complete, MoveLink, SeeLink, CheckLanding, Land, NoteDone,
     SeenDone, Backup, CloseSwitch, TakeDown, UnlinkLinks, RmdirSibling, TakenDown, Restart,
     Abandon, RestoreLink, AbandonedBackup, Look, Moved, Calm, Goto, Fail, Stop, Fault, Write,
     disk, recovery, control, ghosts, bounds, PutBack, Sibling, RemoveBackup, RemoveSiblingStep,
     Object
<1>3. sib' \in [Wholes -> {"none", "part", "full"}]
  BY <1>t3, <1>c DEF WholeMove, Whole, Start, Rebuild, Mkdir, NoteSibling, MakeLinks, NoteLinks,
     Check, NoteSwap, Complete, MoveLink, SeeLink, CheckLanding, Land, NoteDone, SeenDone,
     Backup, CloseSwitch, TakeDown, UnlinkLinks, RmdirSibling, TakenDown, Restart, Abandon,
     RestoreLink, AbandonedBackup, Look, Moved, Calm, Goto, Fail, Stop, Fault, Write, disk,
     recovery, control, ghosts, bounds, PutBack, Sibling, RemoveBackup, RemoveSiblingStep
<1>5. noted' \subseteq Links \cup Wholes
  BY <1>t5, <1>c DEF WholeMove, Whole, Start, Rebuild, Mkdir, NoteSibling, MakeLinks, NoteLinks,
     Check, NoteSwap, Complete, MoveLink, SeeLink, CheckLanding, Land, NoteDone, SeenDone,
     Backup, CloseSwitch, TakeDown, UnlinkLinks, RmdirSibling, TakenDown, Restart, Abandon,
     RestoreLink, AbandonedBackup, Look, Moved, Calm, Goto, Fail, Stop, Fault, Write, disk,
     recovery, control, ghosts, bounds, PutBack, Sibling, RemoveBackup, RemoveSiblingStep
<1>6. /\ txn' \in Record /\ wal' \in Record /\ UNCHANGED <<txn.agents, txn.arch>>
      /\ wal' = wal \/ wal' = txn'
      /\ txn' = txn \/ /\ txn'.sw.of \in {txn.sw.of, cur, Nobody}
                       /\ txn'.sw.stage # "building" => txn'.sw.known
  <2>1. CASE txn' = txn
    BY <2>1, WholeRecords, <1>t7
  <2>2. ASSUME NEW y \in Sw, txn' = [txn EXCEPT !.sw = y], y.of \in {txn.sw.of, cur, Nobody},
               y.stage # "building" => y.known
        PROVE  /\ txn' \in Record /\ UNCHANGED <<txn.agents, txn.arch>> /\
                  txn'.sw.of \in {txn.sw.of, cur, Nobody}
               /\ txn'.sw.stage # "building" => txn'.sw.known
    <3>1. txn' \in Record
      BY <2>2, <1>t7, Changing, Emptied
    <3> QED BY <3>1, <2>2, <1>t7 DEF Record
  <2> QED BY <2>1, <2>2, WholeRecords, <1>t7
<1>7. cur \in txn.agents
  <2>1. pc # "lost" /\ pc \in WholePcs
    BY DEF WholeMove, Whole, Start, Rebuild, Mkdir, NoteSibling, MakeLinks, NoteLinks, Check,
       NoteSwap, Complete, MoveLink, SeeLink, CheckLanding, Land, NoteDone, SeenDone, Backup,
       CloseSwitch, TakeDown, UnlinkLinks, RmdirSibling, TakenDown, Restart, Abandon,
       RestoreLink, AbandonedBackup, Look, Moved, Calm, Goto, Fail, Stop, Fault, Write, disk,
       recovery, control, ghosts, bounds, PutBack, Sibling, RemoveBackup, RemoveSiblingStep,
       WholePcs, Switching, TakingDown, GivingUp
  <2> QED BY <2>1 DEF MemoryInv, ControlInv
<1>8. /\ txn'.arch.of \in txn'.agents \cup {Nobody} /\ txn'.sw.of \in txn'.agents \cup {Nobody}
      /\ txn'.sw.stage # "building" => txn'.sw.known
  BY <1>6, <1>7, Typed
<1>9. /\ wal'.arch.of \in wal'.agents \cup {Nobody} /\ wal'.sw.of \in wal'.agents \cup {Nobody}
      /\ wal'.sw.stage # "building" => wal'.sw.known
  BY <1>6, <1>8, Typed
<1> QED BY <1>0, <1>1, <1>2, <1>3, <1>5, <1>6, <1>8, <1>9, Typed DEF TypeOK

(* What giving an agent up does to the two records.                        *)
LEMMA GivingRecords ==
    ASSUME AdoptAssumption, TypeOK, ControlInv, Giving
    PROVE  /\ cur \in Agents
           /\ wal' = wal \/ wal' = txn'
           /\ \/ txn' = txn \/ txn' = wal
              \/ txn' = Without(cur) \/ (txn' = Switch(NoSwitch) /\ cur \in Wholes)
           /\ \/ UNCHANGED <<todo, cur>>
              \/ todo' = {} /\ cur' = Nobody
<1>1. cur \in Agents
  BY DEF ControlInv, WholePcs, GivingUp, Giving, Completed, DropWhole, HandleEntry, HandleWhole,
     Lost, Look, Moved, Calm, Goto, Fail, Stop, Fault, Write, disk, recovery, control, ghosts,
     bounds, Drop, StopOver, Agents
<1> QED BY <1>1 DEF Giving, Completed, DropWhole, HandleEntry, HandleWhole, Lost, Look, Moved,
           Calm, Goto, Fail, Stop, Fault, Write, disk, recovery, control, ghosts, bounds, Drop,
           StopOver, ControlInv, WholePcs, GivingUp

(* An agent dropped from a record leaves nothing in flight there.          *)
LEMMA Dropped ==
    ASSUME AdoptAssumption, TypeOK, NEW a \in Agents
    PROVE  /\ Without(a) \in Record /\ Without(a).agents = txn.agents \ {a}
           /\ Without(a).arch = IF a \in Entries THEN NoArchive ELSE txn.arch
           /\ Without(a).sw = IF a \in Wholes THEN NoSwitch ELSE txn.sw
           /\ Switch(NoSwitch) \in Record /\ Switch(NoSwitch).agents = txn.agents
           /\ Switch(NoSwitch).arch = txn.arch /\ Switch(NoSwitch).sw = NoSwitch
<1>1. txn \in Record /\ txn.arch \in Arch /\ txn.sw \in Sw /\ txn.agents \subseteq Agents
  BY Typed, Parts
<1>2. Switch(NoSwitch) \in Record
  BY <1>1, Changing, Emptied DEF Switch
<1>3. Without(a) \in Record
  <2>1. (IF a \in Entries THEN NoArchive ELSE txn.arch) \in Arch
    BY <1>1, Emptied
  <2>2. (IF a \in Wholes THEN NoSwitch ELSE txn.sw) \in Sw
    BY <1>1, Emptied
  <2>3. txn.agents \ {a} \in SUBSET Agents
    BY <1>1
  <2> QED BY <1>1, <2>1, <2>2, <2>3, Changing DEF Without
<1> QED BY <1>1, <1>2, <1>3 DEF Without, Switch, Record

(* Giving an agent up, or ending over it, keeps the types.                 *)
LEMMA GivingTypes ==
    ASSUME AdoptAssumption, TypeOK, ControlInv, Giving PROVE TypeOK'
<1>0. UNCHANGED <<disk, recovery, theirs>> /\ over' \in {"none", "scene", "past", "nothing"}
  BY Typed DEF Giving, Completed, DropWhole, HandleEntry, HandleWhole, Lost, Look, Moved, Calm,
     Goto, Fail, Stop, Fault, Write, disk, recovery, control, ghosts, bounds, Drop, StopOver
<1>1. /\ cur' \in Agents \cup {Nobody} /\ todo' \subseteq Agents
  BY GivingRecords, Typed
<1>2. /\ txn' \in Record
      /\ txn'.arch.of \in txn'.agents \cup {Nobody} /\ txn'.sw.of \in txn'.agents \cup {Nobody}
      /\ txn'.sw.stage # "building" => txn'.sw.known
  <2>1. CASE txn' = Without(cur)
    <3>1. cur \in Agents /\ txn.arch.of \in Entries \cup {Nobody} /\ txn.sw.of \in Wholes \cup
          {Nobody}
      BY GivingRecords, Typed, Parts
    <3>2. cur \in Entries => cur # txn.sw.of
      BY <3>1, AdoptAssumption DEF Agents
    <3>3. cur \in Wholes => cur # txn.arch.of
      BY <3>1, AdoptAssumption DEF Agents
    <3> QED BY <2>1, <3>1, <3>2, <3>3, Dropped, Typed DEF NoArchive, NoSwitch, Agents
  <2>2. CASE txn' = Switch(NoSwitch) /\ cur \in Wholes
    <3>1. txn' \in Record /\ txn'.agents = txn.agents /\ txn'.arch = txn.arch /\ txn'.sw = NoSwitch
      BY <2>2, Dropped, GivingRecords
    <3>2. txn.arch.of \in txn.agents \cup {Nobody}
      BY Typed
    <3> QED BY <3>1, <3>2 DEF NoSwitch
  <2> QED BY <2>1, <2>2, GivingRecords, Typed
<1>3. /\ wal' \in Record
      /\ wal'.arch.of \in wal'.agents \cup {Nobody} /\ wal'.sw.of \in wal'.agents \cup {Nobody}
      /\ wal'.sw.stage # "building" => wal'.sw.known
  BY <1>2, GivingRecords, Typed
<1> QED BY <1>0, <1>1, <1>2, <1>3, Typed DEF TypeOK, disk, recovery

(* Turning to an agent, and a crash, keep the types.                       *)
LEMMA TurningTypes ==
    ASSUME AdoptAssumption, TypeOK, ControlInv, Turning PROVE TypeOK'
<1>0. UNCHANGED <<disk, recovery, wal, theirs, over>> /\ (txn' = txn \/ txn' = wal)
  BY DEF Turning, NextAgent, Clear, Recover, Crash, Settled, Look, Moved, Calm, Goto, Fail, Stop,
     Fault, Write, disk, recovery, control, ghosts, bounds, vars
<1>1. cur' \in Agents \cup {Nobody} /\ todo' \subseteq Agents
  <2>1. wal.agents \subseteq Agents
    BY Typed, Parts
  <2> QED BY <2>1, Typed DEF Turning, NextAgent, Clear, Recover, Crash, Settled, Look, Moved,
             Calm, Goto, Fail, Stop, Fault, Write, disk, recovery, control, ghosts, bounds, vars,
             Mine
<1> QED BY <1>0, <1>1, Typed DEF TypeOK, disk, recovery

(* What users do keeps the types.                                          *)
LEMMA UserTypes ==
    ASSUME AdoptAssumption, TypeOK, NEW a \in Agents, UserStep(a) PROVE TypeOK'
<1>0. UNCHANGED <<aside, husk, sib, recovery, wal, txn, todo, cur, over>>
  BY DEF UserStep, UserPut, UserTake, UserEdit, UserMoveParent, Changes, recovery, control
<1>1. slot' \in [Agents -> Object]
  BY Typed DEF UserStep, UserPut, UserTake, UserEdit, UserMoveParent, Changes, recovery, control,
     Object
<1>2. content' \in [Agents -> Content]
  BY Typed DEF UserStep, UserPut, UserTake, UserEdit, UserMoveParent, Changes, recovery, control,
     Content
<1>3. bound' \in [Agents -> BOOLEAN]
  BY Typed DEF UserStep, UserPut, UserTake, UserEdit, UserMoveParent, Changes, recovery, control
<1>4. theirs' \subseteq Agents \X Object
  BY Typed DEF UserStep, UserPut, UserTake, UserEdit, UserMoveParent, Changes, recovery, control,
     Object
<1> QED BY <1>0, <1>1, <1>2, <1>3, <1>4, Typed DEF TypeOK, recovery

--------------------------------------------------------------------------------
(* Where control is after each step.                                       *)
LEMMA EntryControl ==
    ASSUME AdoptAssumption, TypeOK, ControlInv, MemoryInv, StageInv, EntryMove PROVE ControlInv'
<1>t. /\ txn.arch.stage \in {"planned", "retired", "copied", "cleaned"}
      /\ txn.arch.stage = "copied" => txn.arch.of \in Dirs
  BY Typed, Parts DEF StageInv
<1>c. cur \in Entries /\ cur \notin Wholes /\ pc \in EntryPcs /\ pc # "lost"
  BY AdoptAssumption DEF ControlInv, EntryPcs, Copying, Emptying, EntryMove, Entry, Plan,
     RecordPlan, Retire, RenameAside, Observe, NoteRetired, Retired, FreshName, CopyRoot,
     NoteBase, CopyTree, NoteCopied, Copied, EmptyTree, RetireRoot, RemoveRoot, Unlink,
     NoteCleaned, Cleaned, Close, Look, Moved, Calm, Goto, Fail, Stop, Fault, Write, disk,
     recovery, control, ghosts, bounds, PutBack
<1>e. Entries = Dirs \cup Links
  BY DEF Entries
<1>0. UNCHANGED <<todo, cur>>
  BY DEF EntryMove, Entry, Plan, RecordPlan, Retire, RenameAside, Observe, NoteRetired, Retired,
     FreshName, CopyRoot, NoteBase, CopyTree, NoteCopied, Copied, EmptyTree, RetireRoot,
     RemoveRoot, Unlink, NoteCleaned, Cleaned, Close, Look, Moved, Calm, Goto, Fail, Stop, Fault,
     Write, disk, recovery, control, ghosts, bounds, PutBack
<1>1. pc' \in Pcs
  BY <1>t DEF Pcs, EntryPcs, Copying, Emptying, EntryMove, Entry, Plan, RecordPlan, Retire,
     RenameAside, Observe, NoteRetired, Retired, FreshName, CopyRoot, NoteBase, CopyTree,
     NoteCopied, Copied, EmptyTree, RetireRoot, RemoveRoot, Unlink, NoteCleaned, Cleaned, Close,
     Look, Moved, Calm, Goto, Fail, Stop, Fault, Write, disk, recovery, control, ghosts, bounds,
     PutBack
<1>2. pc' \in EntryPcs \cup {"next", "failed"} /\ (pc' = "failed" <=> err' # "none")
  BY <1>t, <1>c DEF EntryPcs, Copying, Emptying, EntryMove, Entry, Plan, RecordPlan, Retire,
     RenameAside, Observe, NoteRetired, Retired, FreshName, CopyRoot, NoteBase, CopyTree,
     NoteCopied, Copied, EmptyTree, RetireRoot, RemoveRoot, Unlink, NoteCleaned, Cleaned, Close,
     Look, Moved, Calm, Goto, Fail, Stop, Fault, Write, disk, recovery, control, ghosts, bounds,
     PutBack, ControlInv
<1>3. pc' \in Copying \cup Emptying \cup {"copied"} => cur \in Dirs
  BY <1>t, <1>c, <1>e DEF Copying, Emptying, EntryMove, Entry, Plan, RecordPlan, Retire,
     RenameAside, Observe, NoteRetired, Retired, FreshName, CopyRoot, NoteBase, CopyTree,
     NoteCopied, Copied, EmptyTree, RetireRoot, RemoveRoot, Unlink, NoteCleaned, Cleaned, Close,
     Look, Moved, Calm, Goto, Fail, Stop, Fault, Write, disk, recovery, control, ghosts, bounds,
     PutBack, ControlInv
<1>4. pc' = "unlink" => cur \in Links
  BY <1>t, <1>c, <1>e DEF Copying, Emptying, EntryMove, Entry, Plan, RecordPlan, Retire,
     RenameAside, Observe, NoteRetired, Retired, FreshName, CopyRoot, NoteBase, CopyTree,
     NoteCopied, Copied, EmptyTree, RetireRoot, RemoveRoot, Unlink, NoteCleaned, Cleaned, Close,
     Look, Moved, Calm, Goto, Fail, Stop, Fault, Write, disk, recovery, control, ghosts, bounds,
     PutBack, ControlInv
<1>5. wal'.agents = wal.agents
  <2>1. \A x \in Arch : [txn EXCEPT !.arch = x].agents = txn.agents
    BY Typed DEF Record
  <2> QED BY <2>1, EntryRecords, <1>c DEF MemoryInv
<1> QED
  BY <1>0, <1>1, <1>2, <1>3, <1>4, <1>5, <1>c DEF ControlInv, EntryPcs, Copying, Emptying,
     WholePcs, Switching, TakingDown, GivingUp

(* A step on a skills directory leads to a step it may be at.              *)
LEMMA WholeControl ==
    ASSUME AdoptAssumption, TypeOK, ControlInv, MemoryInv, StageInv, WholeMove PROVE ControlInv'
<1>c. cur \in Wholes /\ cur \notin Entries /\ pc \in WholePcs /\ pc # "lost"
  BY AdoptAssumption DEF ControlInv, WholePcs, Switching, TakingDown, GivingUp, WholeMove, Whole,
     Start, Rebuild, Mkdir, NoteSibling, MakeLinks, NoteLinks, Check, NoteSwap, Complete,
     MoveLink, SeeLink, CheckLanding, Land, NoteDone, SeenDone, Backup, CloseSwitch, TakeDown,
     UnlinkLinks, RmdirSibling, TakenDown, Restart, Abandon, RestoreLink, AbandonedBackup, Look,
     Moved, Calm, Goto, Fail, Stop, Fault, Write, disk, recovery, control, ghosts, bounds,
     PutBack, Sibling, RemoveBackup, RemoveSiblingStep
<1>0. UNCHANGED <<todo, cur>>
  BY DEF WholeMove, Whole, Start, Rebuild, Mkdir, NoteSibling, MakeLinks, NoteLinks, Check,
     NoteSwap, Complete, MoveLink, SeeLink, CheckLanding, Land, NoteDone, SeenDone, Backup,
     CloseSwitch, TakeDown, UnlinkLinks, RmdirSibling, TakenDown, Restart, Abandon, RestoreLink,
     AbandonedBackup, Look, Moved, Calm, Goto, Fail, Stop, Fault, Write, disk, recovery, control,
     ghosts, bounds, PutBack, Sibling, RemoveBackup, RemoveSiblingStep
<1>2. pc' \in WholePcs \cup {"next", "failed"}
  BY <1>c DEF WholePcs, Switching, TakingDown, GivingUp, WholeMove, Whole, Start, Rebuild, Mkdir,
     NoteSibling, MakeLinks, NoteLinks, Check, NoteSwap, Complete, MoveLink, SeeLink,
     CheckLanding, Land, NoteDone, SeenDone, Backup, CloseSwitch, TakeDown, UnlinkLinks,
     RmdirSibling, TakenDown, Restart, Abandon, RestoreLink, AbandonedBackup, Look, Moved, Calm,
     Goto, Fail, Stop, Fault, Write, disk, recovery, control, ghosts, bounds, PutBack, Sibling,
     RemoveBackup, RemoveSiblingStep, ControlInv
<1>3. pc' \in {"failed"} \cup GivingUp => err' # "none"
  BY <1>c DEF Switching, TakingDown, GivingUp, WholeMove, Whole, Start, Rebuild, Mkdir,
     NoteSibling, MakeLinks, NoteLinks, Check, NoteSwap, Complete, MoveLink, SeeLink,
     CheckLanding, Land, NoteDone, SeenDone, Backup, CloseSwitch, TakeDown, UnlinkLinks,
     RmdirSibling, TakenDown, Restart, Abandon, RestoreLink, AbandonedBackup, Look, Moved, Calm,
     Goto, Fail, Stop, Fault, Write, disk, recovery, control, ghosts, bounds, PutBack, Sibling,
     RemoveBackup, RemoveSiblingStep, ControlInv
<1>4. pc' \in Switching => err' = "none"
  <2>1. pc' # "failed" => err' = err
    BY DEF WholeMove, Whole, Start, Rebuild, Mkdir, NoteSibling, MakeLinks, NoteLinks, Check,
       NoteSwap, Complete, MoveLink, SeeLink, CheckLanding, Land, NoteDone, SeenDone, Backup,
       CloseSwitch, TakeDown, UnlinkLinks, RmdirSibling, TakenDown, Restart, Abandon,
       RestoreLink, AbandonedBackup, Look, Moved, Calm, Goto, Fail, Stop, Fault, Write, disk,
       recovery, control, ghosts, bounds, PutBack, Sibling, RemoveBackup, RemoveSiblingStep
  <2>2. pc' \in Switching => pc \in Switching \/ err = "none"
    BY DEF Switching, WholeMove, Whole, Start, Rebuild, Mkdir, NoteSibling, MakeLinks, NoteLinks,
       Check, NoteSwap, Complete, MoveLink, SeeLink, CheckLanding, Land, NoteDone, SeenDone,
       Backup, CloseSwitch, TakeDown, UnlinkLinks, RmdirSibling, TakenDown, Restart, Abandon,
       RestoreLink, AbandonedBackup, Look, Moved, Calm, Goto, Fail, Stop, Fault, Write, disk,
       recovery, control, ghosts, bounds, PutBack, Sibling, RemoveBackup, RemoveSiblingStep
  <2>3. pc' \in Switching => pc' # "failed"
    BY DEF Switching
  <2> QED BY <2>1, <2>2, <2>3 DEF ControlInv
<1>5. wal'.agents = wal.agents
  <2>1. \A x \in Sw : [txn EXCEPT !.sw = x].agents = txn.agents
    BY Typed DEF Record
  <2> QED BY <2>1, WholeRecords, <1>c DEF MemoryInv
<1> QED
  BY <1>0, <1>2, <1>3, <1>4, <1>5, <1>c DEF ControlInv, Pcs, EntryPcs, Copying, Emptying,
     WholePcs, Switching, TakingDown, GivingUp

(* Giving an agent up leads on, or ends the command.                       *)
LEMMA GivingControl ==
    ASSUME AdoptAssumption, TypeOK, ControlInv, MemoryInv, Giving PROVE ControlInv'
<1>c. cur \in Agents /\ cur \notin todo
  BY GivingRecords DEF ControlInv
<1>1. pc' \in {"next", "lost", "abandon", "stopped"}
  BY DEF Giving, Completed, DropWhole, HandleEntry, HandleWhole, Lost, Look, Moved, Calm, Goto,
     Fail, Stop, Fault, Write, disk, recovery, control, ghosts, bounds, Drop, StopOver
<1>2. pc' = "abandon" => cur \in Wholes /\ err' # "none" /\ cur \in wal'.agents
  BY DEF Giving, Completed, DropWhole, HandleEntry, HandleWhole, Lost, Look, Moved, Calm, Goto,
     Fail, Stop, Fault, Write, disk, recovery, control, ghosts, bounds, Drop, StopOver,
     ControlInv
<1>3. pc' = "lost" => cur' = cur
  BY DEF Giving, Completed, DropWhole, HandleEntry, HandleWhole, Lost, Look, Moved, Calm, Goto,
     Fail, Stop, Fault, Write, disk, recovery, control, ghosts, bounds, Drop, StopOver
<1>4. IF pc' = "stopped" THEN todo' = {} /\ cur' = Nobody ELSE UNCHANGED <<todo, cur>>
  BY DEF Giving, Completed, DropWhole, HandleEntry, HandleWhole, Lost, Look, Moved, Calm, Goto,
     Fail, Stop, Fault, Write, disk, recovery, control, ghosts, bounds, Drop, StopOver
<1>5. wal' = wal \/ wal'.agents \in {wal.agents, wal.agents \ {cur}}
  <2>1. pc # "lost" => txn.agents = wal.agents
    BY DEF MemoryInv
  <2>2. CASE txn' = wal
    BY <2>2, GivingRecords
  <2>3. CASE pc = "lost"
    BY <2>3 DEF Giving, Completed, DropWhole, HandleEntry, HandleWhole, Lost, Look, Moved, Calm,
       Goto, Fail, Stop, Fault, Write, disk, recovery, control, ghosts, bounds, Drop, StopOver
  <2> QED BY <2>1, <2>2, <2>3, GivingRecords, Dropped
<1>6. todo' \subseteq wal'.agents /\ cur' \notin todo'
  BY <1>4, <1>5, <1>c DEF ControlInv
<1>7. cur \notin Wholes => cur \in Entries
  BY <1>c DEF Agents
<1> QED
  BY <1>1, <1>2, <1>3, <1>4, <1>6, <1>7 DEF ControlInv, Pcs, EntryPcs, Copying, Emptying,
     WholePcs, Switching, TakingDown, GivingUp

(* The next agent in hand is none of those still to do.                    *)
LEMMA TurningControl ==
    ASSUME AdoptAssumption, TypeOK, ControlInv, MemoryInv, Turning PROVE ControlInv'
<1>0. wal' = wal
  BY DEF Turning, NextAgent, Clear, Recover, Crash, Settled, Look, Moved, Calm, Goto, Fail, Stop,
     Fault, Write, disk, recovery, control, ghosts, bounds, vars
<1>1. CASE NextAgent
  <2>1. PICK a \in IF todo \cap Entries # {} THEN Mine(Entries) ELSE Mine(Wholes) :
          /\ cur' = a /\ todo' = todo \ {a}
          /\ pc' = (IF a \in Entries THEN "entry" ELSE "whole")
    BY <1>1 DEF NextAgent
  <2>2. a \in todo /\ (a \notin Entries => a \in Wholes)
    BY <2>1 DEF Mine
  <2>3. err' = "none"
    BY <1>1 DEF NextAgent
  <2> QED BY <1>0, <2>1, <2>2, <2>3 DEF ControlInv, Pcs, EntryPcs, Copying, Emptying, WholePcs,
             Switching, TakingDown, GivingUp
<1>2. CASE Clear \/ Crash
  BY <1>2, <1>0 DEF Clear, Crash, Stop, ControlInv, Pcs, EntryPcs, Copying, Emptying, WholePcs,
     Switching, TakingDown, GivingUp
<1>3. CASE Recover
  <2>1. Nobody \notin wal.agents
    BY AdoptAssumption, Typed, Parts
  <2>2. pc' = "next" /\ todo' = wal.agents /\ cur' = cur /\ pc = "stopped"
    BY <1>3 DEF Recover
  <2>3. cur = Nobody
    BY <2>2 DEF ControlInv
  <2> QED BY <1>0, <2>1, <2>2, <2>3 DEF ControlInv, Pcs, EntryPcs, Copying, Emptying, WholePcs,
             Switching, TakingDown, GivingUp
<1>4. CASE Settled
  BY <1>4 DEF Settled, vars, control, ControlInv
<1> QED BY <1>1, <1>2, <1>3, <1>4 DEF Turning

(* Users leave fu's control and its records alone.                         *)
LEMMA UserLeaves ==
    ASSUME NEW a \in Agents, UserStep(a)
    PROVE  UNCHANGED <<aside, husk, sib, saved, noted, wal, txn, pc, todo, cur, err, hit, over>>
BY DEF UserStep, UserPut, UserTake, UserEdit, UserMoveParent, Changes, recovery, control

--------------------------------------------------------------------------------
(* What a step on an entry leaves alone,                                   *)
LEMMA EntryFrame ==
    ASSUME AdoptAssumption, TypeOK, ControlInv, MemoryInv, StageInv, EntryMove
    PROVE  /\ cur \in Entries /\ cur \notin Wholes /\ cur \in Agents /\ cur # Nobody
           /\ pc \in EntryPcs /\ pc' \in EntryPcs \cup {"next", "failed"}
           /\ UNCHANGED <<sib, content, bound, theirs, vacated, astray, touched, todo, cur>>
           /\ wal' = wal \/ wal' = txn'
           /\ txn'.agents = txn.agents /\ txn'.sw = txn.sw
           /\ wal'.agents = wal.agents /\ wal'.sw = wal.sw
           /\ txn'.arch.of \in {txn.arch.of, cur, Nobody}
           /\ hit \subseteq hit' /\ hit' \subseteq hit \cup {cur}
           /\ noted \subseteq noted' /\ noted' \subseteq noted \cup {cur}
           /\ \A a \in Agents \ {cur} :
                /\ slot'[a] = slot[a] /\ aside'[a] = aside[a] /\
                   (a \in Dirs => saved'[a] = saved[a])
                /\ a \in husk' <=> a \in husk
<1>t. /\ slot \in [Agents -> Object] /\ aside \in [Agents -> Object] /\
         saved \in [Dirs -> {"none", "part"} \cup Content]
      /\ wal \in Record /\ txn \in Record
  BY Typed
<1>1. cur \in Entries /\ cur \notin Wholes /\ cur \in Agents /\ cur # Nobody /\ pc \in EntryPcs /\
      pc # "lost"
  BY AdoptAssumption DEF ControlInv, EntryPcs, Copying, Emptying, EntryMove, Entry, Plan,
     RecordPlan, Retire, RenameAside, Observe, NoteRetired, Retired, FreshName, CopyRoot,
     NoteBase, CopyTree, NoteCopied, Copied, EmptyTree, RetireRoot, RemoveRoot, Unlink,
     NoteCleaned, Cleaned, Close, Look, Moved, Calm, Goto, Fail, Stop, Fault, Write, disk,
     recovery, control, ghosts, bounds, PutBack, Agents
<1>2. UNCHANGED <<sib, content, bound, theirs, vacated, astray, touched, todo, cur>>
  BY DEF EntryMove, Entry, Plan, RecordPlan, Retire, RenameAside, Observe, NoteRetired, Retired,
     FreshName, CopyRoot, NoteBase, CopyTree, NoteCopied, Copied, EmptyTree, RetireRoot,
     RemoveRoot, Unlink, NoteCleaned, Cleaned, Close, Look, Moved, Calm, Goto, Fail, Stop, Fault,
     Write, disk, recovery, control, ghosts, bounds, PutBack
<1>3. pc' \in EntryPcs \cup {"next", "failed"}
  <2>1. txn.arch.stage \in {"planned", "retired", "copied", "cleaned"}
    BY Typed, Parts
  <2> QED BY <2>1, <1>1 DEF EntryPcs, Copying, Emptying, EntryMove, Entry, Plan, RecordPlan,
             Retire, RenameAside, Observe, NoteRetired, Retired, FreshName, CopyRoot, NoteBase,
             CopyTree, NoteCopied, Copied, EmptyTree, RetireRoot, RemoveRoot, Unlink,
             NoteCleaned, Cleaned, Close, Look, Moved, Calm, Goto, Fail, Stop, Fault, Write,
             disk, recovery, control, ghosts, bounds, PutBack
<1>4. hit \subseteq hit' /\ hit' \subseteq hit \cup {cur} /\ noted \subseteq noted' /\
      noted' \subseteq noted \cup {cur}
  BY DEF EntryMove, Entry, Plan, RecordPlan, Retire, RenameAside, Observe, NoteRetired, Retired,
     FreshName, CopyRoot, NoteBase, CopyTree, NoteCopied, Copied, EmptyTree, RetireRoot,
     RemoveRoot, Unlink, NoteCleaned, Cleaned, Close, Look, Moved, Calm, Goto, Fail, Stop, Fault,
     Write, disk, recovery, control, ghosts, bounds, PutBack
<1>5. ASSUME NEW a \in Agents \ {cur}
      PROVE  /\ slot'[a] = slot[a] /\ aside'[a] = aside[a] /\ (a \in Dirs => saved'[a] = saved[a])
             /\ a \in husk' <=> a \in husk
  <2>1. slot'[a] = slot[a]
    BY <1>t, <1>1 DEF EntryMove, Entry, Plan, RecordPlan, Retire, RenameAside, Observe,
       NoteRetired, Retired, FreshName, CopyRoot, NoteBase, CopyTree, NoteCopied, Copied,
       EmptyTree, RetireRoot, RemoveRoot, Unlink, NoteCleaned, Cleaned, Close, Look, Moved, Calm,
       Goto, Fail, Stop, Fault, Write, disk, recovery, control, ghosts, bounds, PutBack
  <2>2. aside'[a] = aside[a]
    BY <1>t, <1>1 DEF EntryMove, Entry, Plan, RecordPlan, Retire, RenameAside, Observe,
       NoteRetired, Retired, FreshName, CopyRoot, NoteBase, CopyTree, NoteCopied, Copied,
       EmptyTree, RetireRoot, RemoveRoot, Unlink, NoteCleaned, Cleaned, Close, Look, Moved, Calm,
       Goto, Fail, Stop, Fault, Write, disk, recovery, control, ghosts, bounds, PutBack
  <2>3. a \in Dirs => saved'[a] = saved[a]
    BY <1>t, <1>1 DEF EntryMove, Entry, Plan, RecordPlan, Retire, RenameAside, Observe,
       NoteRetired, Retired, FreshName, CopyRoot, NoteBase, CopyTree, NoteCopied, Copied,
       EmptyTree, RetireRoot, RemoveRoot, Unlink, NoteCleaned, Cleaned, Close, Look, Moved, Calm,
       Goto, Fail, Stop, Fault, Write, disk, recovery, control, ghosts, bounds, PutBack
  <2>4. a \in husk' <=> a \in husk
    BY DEF EntryMove, Entry, Plan, RecordPlan, Retire, RenameAside, Observe, NoteRetired,
       Retired, FreshName, CopyRoot, NoteBase, CopyTree, NoteCopied, Copied, EmptyTree,
       RetireRoot, RemoveRoot, Unlink, NoteCleaned, Cleaned, Close, Look, Moved, Calm, Goto,
       Fail, Stop, Fault, Write, disk, recovery, control, ghosts, bounds, PutBack
  <2> QED BY <2>1, <2>2, <2>3, <2>4
<1>6. /\ wal' = wal \/ wal' = txn'
      /\ txn'.agents = txn.agents /\ txn'.sw = txn.sw /\ txn'.arch.of \in {txn.arch.of, cur, Nobody}
  <2>1. \A x \in Arch : LET r == [txn EXCEPT !.arch = x] IN
          r.agents = txn.agents /\ r.sw = txn.sw /\ r.arch = x
    BY <1>t DEF Record
  <2> QED BY <2>1, EntryRecords
<1>7. txn.agents = wal.agents /\ txn.sw = wal.sw
  BY <1>1 DEF MemoryInv
<1> QED BY <1>1, <1>2, <1>3, <1>4, <1>5, <1>6, <1>7

(* and a step on a skills directory.                                       *)
LEMMA WholeFrame ==
    ASSUME AdoptAssumption, TypeOK, ControlInv, MemoryInv, StageInv, WholeMove
    PROVE  /\ cur \in Wholes /\ cur \notin Entries /\ cur \in Agents /\ cur # Nobody
           /\ pc \in WholePcs /\ pc' \in WholePcs \cup {"next", "failed"}
           /\ UNCHANGED <<husk, content, bound, saved, theirs, vacated, astray, touched, todo, cur>>
           /\ wal' = wal \/ wal' = txn'
           /\ txn'.agents = txn.agents /\ txn'.arch = txn.arch
           /\ wal'.agents = wal.agents /\ wal'.arch = wal.arch
           /\ txn'.sw.of \in {txn.sw.of, cur, Nobody}
           /\ hit \subseteq hit' /\ hit' \subseteq hit \cup {cur}
           /\ noted \subseteq noted' /\ noted' \subseteq noted \cup {cur}
           /\ \A a \in Agents \ {cur} :
                slot'[a] = slot[a] /\ aside'[a] = aside[a] /\ (a \in Wholes => sib'[a] = sib[a])
<1>t. /\ slot \in [Agents -> Object] /\ aside \in [Agents -> Object] /\
         sib \in [Wholes -> {"none", "part", "full"}]
      /\ wal \in Record /\ txn \in Record
  BY Typed
<1>1. cur \in Wholes /\ cur \notin Entries /\ cur \in Agents /\ cur # Nobody /\ pc \in WholePcs /\
      pc # "lost"
  BY AdoptAssumption DEF ControlInv, WholePcs, Switching, TakingDown, GivingUp, WholeMove, Whole,
     Start, Rebuild, Mkdir, NoteSibling, MakeLinks, NoteLinks, Check, NoteSwap, Complete,
     MoveLink, SeeLink, CheckLanding, Land, NoteDone, SeenDone, Backup, CloseSwitch, TakeDown,
     UnlinkLinks, RmdirSibling, TakenDown, Restart, Abandon, RestoreLink, AbandonedBackup, Look,
     Moved, Calm, Goto, Fail, Stop, Fault, Write, disk, recovery, control, ghosts, bounds,
     PutBack, Sibling, RemoveBackup, RemoveSiblingStep, Agents
<1>2. UNCHANGED <<husk, content, bound, saved, theirs, vacated, astray, touched, todo, cur>>
  BY DEF WholeMove, Whole, Start, Rebuild, Mkdir, NoteSibling, MakeLinks, NoteLinks, Check,
     NoteSwap, Complete, MoveLink, SeeLink, CheckLanding, Land, NoteDone, SeenDone, Backup,
     CloseSwitch, TakeDown, UnlinkLinks, RmdirSibling, TakenDown, Restart, Abandon, RestoreLink,
     AbandonedBackup, Look, Moved, Calm, Goto, Fail, Stop, Fault, Write, disk, recovery, control,
     ghosts, bounds, PutBack, Sibling, RemoveBackup, RemoveSiblingStep
<1>3. pc' \in WholePcs \cup {"next", "failed"}
  BY <1>1 DEF WholePcs, Switching, TakingDown, GivingUp, WholeMove, Whole, Start, Rebuild, Mkdir,
     NoteSibling, MakeLinks, NoteLinks, Check, NoteSwap, Complete, MoveLink, SeeLink,
     CheckLanding, Land, NoteDone, SeenDone, Backup, CloseSwitch, TakeDown, UnlinkLinks,
     RmdirSibling, TakenDown, Restart, Abandon, RestoreLink, AbandonedBackup, Look, Moved, Calm,
     Goto, Fail, Stop, Fault, Write, disk, recovery, control, ghosts, bounds, PutBack, Sibling,
     RemoveBackup, RemoveSiblingStep
<1>4. hit \subseteq hit' /\ hit' \subseteq hit \cup {cur} /\ noted \subseteq noted' /\
      noted' \subseteq noted \cup {cur}
  BY DEF WholeMove, Whole, Start, Rebuild, Mkdir, NoteSibling, MakeLinks, NoteLinks, Check,
     NoteSwap, Complete, MoveLink, SeeLink, CheckLanding, Land, NoteDone, SeenDone, Backup,
     CloseSwitch, TakeDown, UnlinkLinks, RmdirSibling, TakenDown, Restart, Abandon, RestoreLink,
     AbandonedBackup, Look, Moved, Calm, Goto, Fail, Stop, Fault, Write, disk, recovery, control,
     ghosts, bounds, PutBack, Sibling, RemoveBackup, RemoveSiblingStep
<1>5. ASSUME NEW a \in Agents \ {cur}
      PROVE  slot'[a] = slot[a] /\ aside'[a] = aside[a] /\ (a \in Wholes => sib'[a] = sib[a])
  <2>1. slot'[a] = slot[a]
    BY <1>t, <1>1 DEF WholeMove, Whole, Start, Rebuild, Mkdir, NoteSibling, MakeLinks, NoteLinks,
       Check, NoteSwap, Complete, MoveLink, SeeLink, CheckLanding, Land, NoteDone, SeenDone,
       Backup, CloseSwitch, TakeDown, UnlinkLinks, RmdirSibling, TakenDown, Restart, Abandon,
       RestoreLink, AbandonedBackup, Look, Moved, Calm, Goto, Fail, Stop, Fault, Write, disk,
       recovery, control, ghosts, bounds, PutBack, Sibling, RemoveBackup, RemoveSiblingStep
  <2>2. aside'[a] = aside[a]
    BY <1>t, <1>1 DEF WholeMove, Whole, Start, Rebuild, Mkdir, NoteSibling, MakeLinks, NoteLinks,
       Check, NoteSwap, Complete, MoveLink, SeeLink, CheckLanding, Land, NoteDone, SeenDone,
       Backup, CloseSwitch, TakeDown, UnlinkLinks, RmdirSibling, TakenDown, Restart, Abandon,
       RestoreLink, AbandonedBackup, Look, Moved, Calm, Goto, Fail, Stop, Fault, Write, disk,
       recovery, control, ghosts, bounds, PutBack, Sibling, RemoveBackup, RemoveSiblingStep
  <2>3. a \in Wholes => sib'[a] = sib[a]
    BY <1>t, <1>1 DEF WholeMove, Whole, Start, Rebuild, Mkdir, NoteSibling, MakeLinks, NoteLinks,
       Check, NoteSwap, Complete, MoveLink, SeeLink, CheckLanding, Land, NoteDone, SeenDone,
       Backup, CloseSwitch, TakeDown, UnlinkLinks, RmdirSibling, TakenDown, Restart, Abandon,
       RestoreLink, AbandonedBackup, Look, Moved, Calm, Goto, Fail, Stop, Fault, Write, disk,
       recovery, control, ghosts, bounds, PutBack, Sibling, RemoveBackup, RemoveSiblingStep
  <2> QED BY <2>1, <2>2, <2>3
<1>6. /\ wal' = wal \/ wal' = txn'
      /\ txn'.agents = txn.agents /\ txn'.arch = txn.arch /\ txn'.sw.of \in {txn.sw.of, cur, Nobody}
  <2>1. \A x \in Sw : LET r == [txn EXCEPT !.sw = x] IN
          r.agents = txn.agents /\ r.arch = txn.arch /\ r.sw = x
    BY <1>t DEF Record
  <2> QED BY <2>1, WholeRecords
<1>7. txn.agents = wal.agents /\ txn.arch = wal.arch
  BY <1>1 DEF MemoryInv
<1> QED BY <1>1, <1>2, <1>3, <1>4, <1>5, <1>6, <1>7

(* Giving an agent up, and turning to another, touches no disk.            *)
LEMMA GivingFrame ==
    ASSUME AdoptAssumption, TypeOK, ControlInv, MemoryInv, Giving
    PROVE  /\ cur \in Agents /\ pc' \in {"next", "lost", "abandon", "stopped"}
           /\ UNCHANGED <<disk, recovery, theirs, vacated, astray, touched>>
           /\ hit \subseteq hit' /\ hit' \subseteq hit \cup {cur}
           /\ IF pc' = "stopped" THEN todo' = {} /\ cur' = Nobody ELSE UNCHANGED <<todo, cur>>
<1>1. cur \in Agents
  BY GivingRecords
<1> QED BY <1>1 DEF Giving, Completed, DropWhole, HandleEntry, HandleWhole, Lost, Look, Moved,
           Calm, Goto, Fail, Stop, Fault, Write, disk, recovery, control, ghosts, bounds, Drop,
           StopOver

(* and what turning to another agent, or a crash, leaves alone.            *)
LEMMA TurningFrame ==
    ASSUME Turning
    PROVE  /\ UNCHANGED <<disk, recovery, wal, theirs, vacated, astray, touched>>
           /\ txn' = txn \/ txn' = wal
           /\ hit \subseteq hit' /\ hit' \subseteq hit \cup {cur}
BY DEF Turning, NextAgent, Clear, Recover, Crash, Settled, Look, Moved, Calm, Goto, Fail, Stop,
   Fault, Write, disk, recovery, control, ghosts, bounds, vars

--------------------------------------------------------------------------------
(* The record in memory and the journal.                                   *)
LEMMA EntryMemory ==
    ASSUME AdoptAssumption, TypeOK, ControlInv, MemoryInv, StageInv, EntryMove PROVE MemoryInv'
<1>1. txn' # wal' => pc' \in {"record", "note base"} \/ (pc' = "failed" /\ cur \in hit')
  <2>1. txn # wal => pc \in {"record", "note base"}
    BY EntryFrame DEF MemoryInv, EntryPcs, Copying, Emptying, TakingDown, GivingUp
  <2>2. \/ wal' = txn' \/ (txn' = txn /\ wal' = wal)
        \/ pc' \in {"record", "note base"} \/ (pc' = "failed" /\ cur \in hit')
    BY DEF EntryMove, Entry, Plan, RecordPlan, Retire, RenameAside, Observe, NoteRetired,
       Retired, FreshName, CopyRoot, NoteBase, CopyTree, NoteCopied, Copied, EmptyTree,
       RetireRoot, RemoveRoot, Unlink, NoteCleaned, Cleaned, Close, Look, Moved, Calm, Goto,
       Fail, Stop, Fault, Write, disk, recovery, control, ghosts, bounds, PutBack
  <2>3. pc \in {"record", "note base"} => wal' = txn' \/ (pc' = "failed" /\ cur \in hit')
    BY DEF EntryMove, Entry, Plan, RecordPlan, Retire, RenameAside, Observe, NoteRetired,
       Retired, FreshName, CopyRoot, NoteBase, CopyTree, NoteCopied, Copied, EmptyTree,
       RetireRoot, RemoveRoot, Unlink, NoteCleaned, Cleaned, Close, Look, Moved, Calm, Goto,
       Fail, Stop, Fault, Write, disk, recovery, control, ghosts, bounds, PutBack
  <2> QED BY <2>1, <2>2, <2>3
<1> QED BY <1>1, EntryFrame DEF MemoryInv, EntryPcs, WholePcs, Copying, Emptying, Switching,
           TakingDown, GivingUp

(* A switch is ahead of the journal only until its swap is noted.          *)
LEMMA WholeMemory ==
    ASSUME AdoptAssumption, TypeOK, ControlInv, MemoryInv, StageInv, WholeMove PROVE MemoryInv'
<1>1. txn' # wal' => pc' = "note swap" \/
      (cur \in hit' /\ pc' \in {"failed"} \cup TakingDown \cup GivingUp)
  <2>1. txn # wal => pc = "note swap" \/ (cur \in hit /\ pc \in TakingDown \cup GivingUp)
    BY WholeFrame DEF MemoryInv, WholePcs, Switching, TakingDown, GivingUp
  <2>2. \/ wal' = txn' \/ (txn' = txn /\ wal' = wal)
        \/ pc' = "note swap" \/ (pc' = "failed" /\ cur \in hit')
    BY DEF WholeMove, Whole, Start, Rebuild, Mkdir, NoteSibling, MakeLinks, NoteLinks, Check,
       NoteSwap, Complete, MoveLink, SeeLink, CheckLanding, Land, NoteDone, SeenDone, Backup,
       CloseSwitch, TakeDown, UnlinkLinks, RmdirSibling, TakenDown, Restart, Abandon,
       RestoreLink, AbandonedBackup, Look, Moved, Calm, Goto, Fail, Stop, Fault, Write, disk,
       recovery, control, ghosts, bounds, PutBack, Sibling, RemoveBackup, RemoveSiblingStep
  <2>3. pc = "note swap" => wal' = txn' \/ (pc' = "failed" /\ cur \in hit')
    BY DEF WholeMove, Whole, Start, Rebuild, Mkdir, NoteSibling, MakeLinks, NoteLinks, Check,
       NoteSwap, Complete, MoveLink, SeeLink, CheckLanding, Land, NoteDone, SeenDone, Backup,
       CloseSwitch, TakeDown, UnlinkLinks, RmdirSibling, TakenDown, Restart, Abandon,
       RestoreLink, AbandonedBackup, Look, Moved, Calm, Goto, Fail, Stop, Fault, Write, disk,
       recovery, control, ghosts, bounds, PutBack, Sibling, RemoveBackup, RemoveSiblingStep
  <2>4. ASSUME pc \in TakingDown \cup GivingUp, txn # wal
        PROVE  pc' \in {"failed"} \cup TakingDown \cup GivingUp
    <3>1. pc = "taken down" => err # "none"
      BY <2>4 DEF MemoryInv, TakingDown
    <3> QED BY <2>4, <3>1 DEF TakingDown, GivingUp, WholeMove, Whole, Start, Rebuild, Mkdir,
               NoteSibling, MakeLinks, NoteLinks, Check, NoteSwap, Complete, MoveLink, SeeLink,
               CheckLanding, Land, NoteDone, SeenDone, Backup, CloseSwitch, TakeDown,
               UnlinkLinks, RmdirSibling, TakenDown, Restart, Abandon, RestoreLink,
               AbandonedBackup, Look, Moved, Calm, Goto, Fail, Stop, Fault, Write, disk,
               recovery, control, ghosts, bounds, PutBack, Sibling, RemoveBackup,
               RemoveSiblingStep
  <2> QED BY <2>1, <2>2, <2>3, <2>4, WholeFrame
<1>2. txn' # wal' /\ pc' \in TakingDown => err' # "none"
  <2>1. pc' \in TakingDown => UNCHANGED <<txn, wal>> /\ err' = err /\ pc \in TakingDown \cup
        GivingUp \cup {"rebuild"}
    BY DEF TakingDown, GivingUp, WholeMove, Whole, Start, Rebuild, Mkdir, NoteSibling, MakeLinks,
       NoteLinks, Check, NoteSwap, Complete, MoveLink, SeeLink, CheckLanding, Land, NoteDone,
       SeenDone, Backup, CloseSwitch, TakeDown, UnlinkLinks, RmdirSibling, TakenDown, Restart,
       Abandon, RestoreLink, AbandonedBackup, Look, Moved, Calm, Goto, Fail, Stop, Fault, Write,
       disk, recovery, control, ghosts, bounds, PutBack, Sibling, RemoveBackup, RemoveSiblingStep
  <2>2. txn # wal /\ pc \in TakingDown \cup GivingUp \cup {"rebuild"} => err # "none"
    BY DEF MemoryInv, ControlInv, TakingDown, GivingUp
  <2> QED BY <2>1, <2>2
<1> QED BY <1>1, <1>2, WholeFrame DEF MemoryInv, EntryPcs, WholePcs, Copying, Emptying,
           Switching, TakingDown, GivingUp

(* A record given up is written, or its command ends.                      *)
LEMMA GivingMemory ==
    ASSUME AdoptAssumption, TypeOK, ControlInv, MemoryInv, Giving PROVE MemoryInv'
<1>c. cur \in Agents /\ (cur \in Entries \/ cur \in Wholes) /\ ~(cur \in Entries /\ cur \in Wholes)
  BY GivingRecords, AdoptAssumption DEF Agents
<1>1. CASE Lost
  BY <1>1 DEF Lost, StopOver, Stop, MemoryInv, EntryPcs, WholePcs, Copying, Emptying, Switching,
     TakingDown, GivingUp
<1>2. CASE HandleWhole
  <2>1. CASE pc' = "stopped"
    <3>1. txn' = wal'
      BY <1>2, <2>1 DEF HandleWhole, StopOver, Stop, Goto
    <3> QED BY <2>1, <3>1 DEF MemoryInv, EntryPcs, WholePcs, Copying, Emptying, Switching,
               TakingDown, GivingUp
  <2>2. CASE pc' # "stopped"
    <3>1. pc = "failed" /\ pc' = "abandon" /\ cur \in Wholes /\ UNCHANGED <<txn, wal, cur, hit>>
      BY <1>2, <2>2 DEF HandleWhole, StopOver, Stop, Goto, Look, Calm, ghosts
    <3> QED BY <3>1, <1>c DEF MemoryInv, EntryPcs, WholePcs, Copying, Emptying, Switching,
               TakingDown, GivingUp
  <2> QED BY <2>1, <2>2
<1>3. CASE HandleEntry /\ ~Drop
  BY <1>3, <1>c DEF HandleEntry, StopOver, Stop, MemoryInv, EntryPcs, WholePcs, Copying,
     Emptying, Switching, TakingDown, GivingUp
<1>4. CASE Drop /\ (DropWhole \/ HandleEntry)
  <2>1. pc # "lost" /\ (cur \in Entries => txn.sw = wal.sw) /\
        (cur \in Wholes => txn.arch = wal.arch)
    BY <1>4, <1>c DEF DropWhole, HandleEntry, MemoryInv, ControlInv, WholePcs, GivingUp
  <2>2. /\ cur \in Entries => txn'.sw = txn.sw
        /\ cur \in Wholes => txn'.arch = txn.arch
    BY <1>4, <1>c, Dropped DEF Drop
  <2>3. \/ wal' = txn' /\ pc' = "next" /\ cur' = cur
        \/ wal' = wal /\ pc' = "lost" /\ cur' = cur /\ cur \in hit'
    BY <1>4 DEF Drop, Fault
  <2> QED BY <2>1, <2>2, <2>3, <1>c DEF MemoryInv, EntryPcs, WholePcs, Copying, Emptying,
             Switching, TakingDown, GivingUp
<1>5. CASE Completed
  <2>1. cur \in Wholes /\ txn.arch = wal.arch /\ txn'.arch = txn.arch
    BY <1>5, <1>c, Dropped DEF Completed, MemoryInv, WholePcs, GivingUp, ControlInv
  <2>3. \/ wal' = txn' /\ pc' = "next" /\ cur' = cur
        \/ wal' = wal /\ pc' = "lost" /\ cur' = cur /\ cur \in hit'
    BY <1>5 DEF Completed, Fault
  <2> QED BY <2>1, <2>3, <1>c DEF MemoryInv, EntryPcs, WholePcs, Copying, Emptying, Switching,
             TakingDown, GivingUp
<1> QED BY <1>1, <1>2, <1>3, <1>4, <1>5 DEF Giving, DropWhole

(* A command that ends goes by the journal.                                *)
LEMMA TurningMemory ==
    ASSUME AdoptAssumption, TypeOK, ControlInv, MemoryInv, Turning PROVE MemoryInv'
<1>1. pc \in {"next", "stopped", "settled"} => txn = wal
  BY DEF MemoryInv
<1>2. UNCHANGED vars \/ txn' = wal'
  BY <1>1 DEF Turning, NextAgent, Clear, Recover, Crash, Settled, Look, Moved, Calm, Goto, Fail,
     Stop, Fault, Write, disk, recovery, control, ghosts, bounds
<1>3. UNCHANGED vars \/ pc' \in {"next", "stopped", "settled", "entry", "whole"}
  BY DEF Turning, NextAgent, Clear, Recover, Crash, Settled, Look, Moved, Calm, Goto, Fail, Stop,
     Fault, Write, disk, recovery, control, ghosts, bounds
<1>4. txn' = wal' /\ pc' \in {"next", "stopped", "settled", "entry", "whole"} => MemoryInv'
  BY DEF MemoryInv, EntryPcs, WholePcs, Copying, Emptying, Switching, TakingDown, GivingUp
<1> QED BY <1>2, <1>3, <1>4 DEF MemoryInv, vars, control, ghosts

--------------------------------------------------------------------------------
(* What an empty archive and an empty switch say.                          *)
LEMMA Blank ==
    /\ NoArchive.of = Nobody /\ NoArchive.stage = "planned"
    /\ NoSwitch.of = Nobody /\ NoSwitch.stage = "building"
BY DEF NoArchive, NoSwitch

(* How the archive in the record changes,                                  *)
LEMMA ArchStep ==
    ASSUME AdoptAssumption, TypeOK, ControlInv, EntryMove
    PROVE  /\ pc \notin {"plan", "note retired", "note cleaned", "close", "fresh name", "copy",
              "note copied"} =>
                txn'.arch = txn.arch
           /\ pc = "plan" =>
                \/ txn'.arch = txn.arch /\ pc' = "failed"
                \/ /\ txn'.arch.of = cur /\ txn'.arch.stage = "planned" /\
                      txn'.arch.exact = content[cur]
                   /\ pc' = "record"
           /\ pc \in {"note retired", "note cleaned", "fresh name", "copy", "note copied"} =>
                txn'.arch.of = txn.arch.of /\ txn'.arch.exact = txn.arch.exact
           /\ pc = "note retired" => txn'.arch.stage = "retired"
           /\ pc = "note cleaned" => txn'.arch.stage = "cleaned"
           /\ pc = "note copied" => txn'.arch.stage = "copied"
           /\ pc \in {"fresh name", "copy"} => txn'.arch.stage = txn.arch.stage
           /\ pc = "close" => txn'.arch = NoArchive
<1>t. txn \in Record /\ txn.arch \in Arch
  BY Typed, Parts
<1>1. pc \notin {"plan", "note retired", "note cleaned", "close", "fresh name", "copy",
      "note copied"} => txn' = txn
  BY DEF EntryMove, Entry, Plan, RecordPlan, Retire, RenameAside, Observe, NoteRetired, Retired,
     FreshName, CopyRoot, NoteBase, CopyTree, NoteCopied, Copied, EmptyTree, RetireRoot,
     RemoveRoot, Unlink, NoteCleaned, Cleaned, Close, Look, Moved, Calm, Goto, Fail, Stop, Fault,
     Write, disk, recovery, control, ghosts, bounds, PutBack
<1>2. pc = "plan" =>
        \/ txn' = txn /\ pc' = "failed"
        \/ txn' = Archive([of |-> cur, stage |-> "planned", base |-> FALSE,
           exact |-> content[cur]]) /\ pc' = "record"
  BY DEF EntryMove, Entry, Plan, RecordPlan, Retire, RenameAside, Observe, NoteRetired, Retired,
     FreshName, CopyRoot, NoteBase, CopyTree, NoteCopied, Copied, EmptyTree, RetireRoot,
     RemoveRoot, Unlink, NoteCleaned, Cleaned, Close, Look, Moved, Calm, Goto, Fail, Stop, Fault,
     Write, disk, recovery, control, ghosts, bounds, PutBack
<1>3. pc = "note retired" => txn' = Archived("retired")
  BY DEF EntryMove, Entry, Plan, RecordPlan, Retire, RenameAside, Observe, NoteRetired, Retired,
     FreshName, CopyRoot, NoteBase, CopyTree, NoteCopied, Copied, EmptyTree, RetireRoot,
     RemoveRoot, Unlink, NoteCleaned, Cleaned, Close, Look, Moved, Calm, Goto, Fail, Stop, Fault,
     Write, disk, recovery, control, ghosts, bounds, PutBack
<1>4. pc = "note cleaned" => txn' = Archived("cleaned")
  BY DEF EntryMove, Entry, Plan, RecordPlan, Retire, RenameAside, Observe, NoteRetired, Retired,
     FreshName, CopyRoot, NoteBase, CopyTree, NoteCopied, Copied, EmptyTree, RetireRoot,
     RemoveRoot, Unlink, NoteCleaned, Cleaned, Close, Look, Moved, Calm, Goto, Fail, Stop, Fault,
     Write, disk, recovery, control, ghosts, bounds, PutBack
<1>5. pc = "close" => txn' = Archive(NoArchive)
  BY DEF EntryMove, Entry, Plan, RecordPlan, Retire, RenameAside, Observe, NoteRetired, Retired,
     FreshName, CopyRoot, NoteBase, CopyTree, NoteCopied, Copied, EmptyTree, RetireRoot,
     RemoveRoot, Unlink, NoteCleaned, Cleaned, Close, Look, Moved, Calm, Goto, Fail, Stop, Fault,
     Write, disk, recovery, control, ghosts, bounds, PutBack
<1>6. pc \in {"fresh name", "copy"} => txn' = txn \/ \E b \in BOOLEAN :
      txn' = [txn EXCEPT !.arch.base = b]
  BY DEF EntryMove, Entry, Plan, RecordPlan, Retire, RenameAside, Observe, NoteRetired, Retired,
     FreshName, CopyRoot, NoteBase, CopyTree, NoteCopied, Copied, EmptyTree, RetireRoot,
     RemoveRoot, Unlink, NoteCleaned, Cleaned, Close, Look, Moved, Calm, Goto, Fail, Stop, Fault,
     Write, disk, recovery, control, ghosts, bounds, PutBack
<1>7. pc = "note copied" => txn' = [txn EXCEPT !.arch.base = FALSE, !.arch.stage = "copied"]
  BY DEF EntryMove, Entry, Plan, RecordPlan, Retire, RenameAside, Observe, NoteRetired, Retired,
     FreshName, CopyRoot, NoteBase, CopyTree, NoteCopied, Copied, EmptyTree, RetireRoot,
     RemoveRoot, Unlink, NoteCleaned, Cleaned, Close, Look, Moved, Calm, Goto, Fail, Stop, Fault,
     Write, disk, recovery, control, ghosts, bounds, PutBack
<1>8. \A s \in {"retired", "cleaned"} : LET r == Archived(s) IN
        r.arch.of = txn.arch.of /\ r.arch.exact = txn.arch.exact /\ r.arch.stage = s
  BY <1>t DEF Archived, Record, Arch
<1>9. \A b \in BOOLEAN : LET r == [txn EXCEPT !.arch.base = b] IN
        r.arch.of = txn.arch.of /\ r.arch.exact = txn.arch.exact /\ r.arch.stage = txn.arch.stage
  BY <1>t DEF Record, Arch
<1>10. LET r == [txn EXCEPT !.arch.base = FALSE, !.arch.stage = "copied"] IN
        r.arch.of = txn.arch.of /\ r.arch.exact = txn.arch.exact /\ r.arch.stage = "copied"
  BY <1>t DEF Record, Arch
<1>11. \A x : Archive(x).arch = x
  BY <1>t DEF Archive, Record
<1>12. pc = "plan" =>
        \/ txn'.arch = txn.arch /\ pc' = "failed"
        \/ /\ txn'.arch.of = cur /\ txn'.arch.stage = "planned" /\ txn'.arch.exact = content[cur]
           /\ pc' = "record"
  BY <1>2, <1>11
<1>13. pc = "note retired" =>
        txn'.arch.of = txn.arch.of /\ txn'.arch.exact = txn.arch.exact /\
          txn'.arch.stage = "retired"
  BY <1>3, <1>8
<1>14. pc = "note cleaned" =>
        txn'.arch.of = txn.arch.of /\ txn'.arch.exact = txn.arch.exact /\
          txn'.arch.stage = "cleaned"
  BY <1>4, <1>8
<1>15. pc \in {"fresh name", "copy"} =>
        /\ txn'.arch.of = txn.arch.of /\ txn'.arch.exact = txn.arch.exact
        /\ txn'.arch.stage = txn.arch.stage
  BY <1>6, <1>9
<1>16. pc = "note copied" =>
        txn'.arch.of = txn.arch.of /\ txn'.arch.exact = txn.arch.exact /\ txn'.arch.stage = "copied"
  BY <1>7, <1>10
<1>17. pc = "close" => txn'.arch = NoArchive
  BY <1>5, <1>11
<1> QED BY <1>1, <1>12, <1>13, <1>14, <1>15, <1>16, <1>17

(* and the switch.                                                         *)
LEMMA SwitchStep ==
    ASSUME AdoptAssumption, TypeOK, ControlInv, WholeMove
    PROVE  /\ pc \notin {"start", "note sibling", "check", "note done", "close switch",
              "restart"} =>
                txn' = txn
           /\ pc = "start" =>
                \/ txn' = txn /\ pc' = "failed"
                \/ txn'.sw.of = cur /\ txn'.sw.stage = "building" /\ pc' \in {"mkdir", "failed"}
           /\ pc = "note sibling" =>
                txn'.sw.of = txn.sw.of /\ txn'.sw.stage = txn.sw.stage /\ txn'.sw.known
           /\ pc = "check" =>
                \/ txn' = txn /\ pc' = "failed"
                \/ txn'.sw.of = txn.sw.of /\ txn'.sw.stage = "swapped" /\ pc' = "note swap"
           /\ pc = "note done" => txn'.sw.of = txn.sw.of /\ txn'.sw.stage = "done"
           /\ pc \in {"close switch", "restart"} => txn'.sw = NoSwitch
<1>t. txn \in Record /\ txn.sw \in Sw
  BY Typed, Parts
<1>1. pc \notin {"start", "note sibling", "check", "note done", "close switch", "restart"} =>
      txn' = txn
  BY DEF WholeMove, Whole, Start, Rebuild, Mkdir, NoteSibling, MakeLinks, NoteLinks, Check,
     NoteSwap, Complete, MoveLink, SeeLink, CheckLanding, Land, NoteDone, SeenDone, Backup,
     CloseSwitch, TakeDown, UnlinkLinks, RmdirSibling, TakenDown, Restart, Abandon, RestoreLink,
     AbandonedBackup, Look, Moved, Calm, Goto, Fail, Stop, Fault, Write, disk, recovery, control,
     ghosts, bounds, PutBack, Sibling, RemoveBackup, RemoveSiblingStep
<1>2. pc = "start" =>
        \/ txn' = txn /\ pc' = "failed"
        \/ txn' = Switch([of |-> cur, stage |-> "building", known |-> FALSE]) /\
           pc' \in {"mkdir", "failed"}
  BY DEF WholeMove, Whole, Start, Rebuild, Mkdir, NoteSibling, MakeLinks, NoteLinks, Check,
     NoteSwap, Complete, MoveLink, SeeLink, CheckLanding, Land, NoteDone, SeenDone, Backup,
     CloseSwitch, TakeDown, UnlinkLinks, RmdirSibling, TakenDown, Restart, Abandon, RestoreLink,
     AbandonedBackup, Look, Moved, Calm, Goto, Fail, Stop, Fault, Write, disk, recovery, control,
     ghosts, bounds, PutBack, Sibling, RemoveBackup, RemoveSiblingStep
<1>3. pc = "note sibling" => txn' = [txn EXCEPT !.sw.known = TRUE]
  BY DEF WholeMove, Whole, Start, Rebuild, Mkdir, NoteSibling, MakeLinks, NoteLinks, Check,
     NoteSwap, Complete, MoveLink, SeeLink, CheckLanding, Land, NoteDone, SeenDone, Backup,
     CloseSwitch, TakeDown, UnlinkLinks, RmdirSibling, TakenDown, Restart, Abandon, RestoreLink,
     AbandonedBackup, Look, Moved, Calm, Goto, Fail, Stop, Fault, Write, disk, recovery, control,
     ghosts, bounds, PutBack, Sibling, RemoveBackup, RemoveSiblingStep
<1>4. pc = "check" => \/ txn' = txn /\ pc' = "failed"
                      \/ txn' = [txn EXCEPT !.sw.stage = "swapped"] /\ pc' = "note swap"
  BY DEF WholeMove, Whole, Start, Rebuild, Mkdir, NoteSibling, MakeLinks, NoteLinks, Check,
     NoteSwap, Complete, MoveLink, SeeLink, CheckLanding, Land, NoteDone, SeenDone, Backup,
     CloseSwitch, TakeDown, UnlinkLinks, RmdirSibling, TakenDown, Restart, Abandon, RestoreLink,
     AbandonedBackup, Look, Moved, Calm, Goto, Fail, Stop, Fault, Write, disk, recovery, control,
     ghosts, bounds, PutBack, Sibling, RemoveBackup, RemoveSiblingStep
<1>5. pc = "note done" => txn' = [txn EXCEPT !.sw.stage = "done"]
  BY DEF WholeMove, Whole, Start, Rebuild, Mkdir, NoteSibling, MakeLinks, NoteLinks, Check,
     NoteSwap, Complete, MoveLink, SeeLink, CheckLanding, Land, NoteDone, SeenDone, Backup,
     CloseSwitch, TakeDown, UnlinkLinks, RmdirSibling, TakenDown, Restart, Abandon, RestoreLink,
     AbandonedBackup, Look, Moved, Calm, Goto, Fail, Stop, Fault, Write, disk, recovery, control,
     ghosts, bounds, PutBack, Sibling, RemoveBackup, RemoveSiblingStep
<1>6. pc \in {"close switch", "restart"} => txn' = Switch(NoSwitch)
  BY DEF WholeMove, Whole, Start, Rebuild, Mkdir, NoteSibling, MakeLinks, NoteLinks, Check,
     NoteSwap, Complete, MoveLink, SeeLink, CheckLanding, Land, NoteDone, SeenDone, Backup,
     CloseSwitch, TakeDown, UnlinkLinks, RmdirSibling, TakenDown, Restart, Abandon, RestoreLink,
     AbandonedBackup, Look, Moved, Calm, Goto, Fail, Stop, Fault, Write, disk, recovery, control,
     ghosts, bounds, PutBack, Sibling, RemoveBackup, RemoveSiblingStep
<1>8. \A s \in {"swapped", "done"} : LET r == [txn EXCEPT !.sw.stage = s] IN
        r.sw.of = txn.sw.of /\ r.sw.stage = s
  BY <1>t DEF Record, Sw
<1>9. LET r == [txn EXCEPT !.sw.known = TRUE] IN
        r.sw.of = txn.sw.of /\ r.sw.stage = txn.sw.stage /\ r.sw.known
  BY <1>t DEF Record, Sw
<1>11. \A x : Switch(x).sw = x
  BY <1>t DEF Switch, Record
<1>12. pc = "start" =>
        \/ txn' = txn /\ pc' = "failed"
        \/ txn'.sw.of = cur /\ txn'.sw.stage = "building" /\ pc' \in {"mkdir", "failed"}
  BY <1>2, <1>11
<1>13. pc = "note sibling" => txn'.sw.of = txn.sw.of /\ txn'.sw.stage = txn.sw.stage /\
       txn'.sw.known
  BY <1>3, <1>9
<1>14. pc = "check" =>
        \/ txn' = txn /\ pc' = "failed"
        \/ txn'.sw.of = txn.sw.of /\ txn'.sw.stage = "swapped" /\ pc' = "note swap"
  BY <1>4, <1>8
<1>15. pc = "note done" => txn'.sw.of = txn.sw.of /\ txn'.sw.stage = "done"
  BY <1>5, <1>8
<1>16. pc \in {"close switch", "restart"} => txn'.sw = NoSwitch
  BY <1>6, <1>11
<1> QED BY <1>1, <1>12, <1>13, <1>14, <1>15, <1>16

--------------------------------------------------------------------------------
(* What is in flight has an owner.                                         *)
LEMMA EntryOwner ==
    ASSUME AdoptAssumption, TypeOK, ControlInv, MemoryInv, OwnerInv, StageInv,
           EntryMove PROVE OwnerInv'
<1>1. pc' = "next" => txn'.arch.of = Nobody /\ wal'.arch.of = Nobody
  <2>1. pc' = "next" =>
          \/ pc = "close" /\ wal' = txn'
          \/ pc = "entry" /\ txn.arch.of # cur /\ txn' = txn /\ wal' = wal
    <3>1. txn.arch.stage \in {"planned", "retired", "copied", "cleaned"}
      BY Typed, Parts
    <3>2. pc' = "next" => pc \in {"close", "entry"}
      BY <3>1 DEF EntryMove, Entry, Plan, RecordPlan, Retire, RenameAside, Observe, NoteRetired,
         Retired, FreshName, CopyRoot, NoteBase, CopyTree, NoteCopied, Copied, EmptyTree,
         RetireRoot, RemoveRoot, Unlink, NoteCleaned, Cleaned, Close, Look, Moved, Calm, Goto,
         Fail, Stop, Fault, Write, disk, recovery, control, ghosts, bounds, PutBack
    <3>3. (pc = "close" => Close) /\ (pc = "entry" => Entry)
      BY EntryAt
    <3>4. Close /\ pc' = "next" => wal' = txn'
      BY DEF Close, Write, Fail
    <3>5. Entry /\ pc' = "next" => txn.arch.of # cur /\ txn' = txn /\ wal' = wal
      BY <3>1 DEF Entry, Goto, Fail, Look
    <3> QED BY <3>2, <3>3, <3>4, <3>5
  <2>2. pc = "close" => txn'.arch.of = Nobody
    BY ArchStep DEF NoArchive
  <2>3. pc = "entry" /\ txn.arch.of # cur => txn.arch.of = Nobody
    BY DEF OwnerInv, EntryPcs
  <2>4. pc = "entry" => txn = wal
    BY DEF MemoryInv
  <2> QED BY <2>1, <2>2, <2>3, <2>4
<1>2. /\ pc \notin WholePcs \cup {"stopped", "failed", "lost"} /\ pc' # "stopped"
      /\ pc' = "next" \/ pc' \in EntryPcs \cup {"failed"}
      /\ pc' \notin WholePcs \cup {"lost"}
  BY EntryFrame DEF EntryPcs, WholePcs, Copying, Emptying, Switching, TakingDown, GivingUp
<1>3. txn.arch.of \in {cur, Nobody} /\ wal.arch.of \in {cur, Nobody} /\ txn.sw.of \in todo \cup
      {Nobody} /\ wal.sw.of \in todo \cup {Nobody}
  BY <1>2, EntryFrame DEF OwnerInv
<1> QED BY <1>1, <1>2, <1>3, EntryFrame DEF OwnerInv

(* A switch in flight is of the skills directory in hand.                  *)
LEMMA WholeOwner ==
    ASSUME AdoptAssumption, TypeOK, ControlInv, MemoryInv, OwnerInv, StageInv,
           WholeMove PROVE OwnerInv'
<1>1. pc' = "next" => txn'.sw.of = Nobody /\ wal'.sw.of = Nobody
  <2>1. pc' = "next" => (pc = "close switch" /\ wal' = txn') \/
        (pc = "whole" /\ txn.sw.of # cur /\ UNCHANGED <<txn, wal>>)
    BY DEF WholeMove, Whole, Start, Rebuild, Mkdir, NoteSibling, MakeLinks, NoteLinks, Check,
       NoteSwap, Complete, MoveLink, SeeLink, CheckLanding, Land, NoteDone, SeenDone, Backup,
       CloseSwitch, TakeDown, UnlinkLinks, RmdirSibling, TakenDown, Restart, Abandon,
       RestoreLink, AbandonedBackup, Look, Moved, Calm, Goto, Fail, Stop, Fault, Write, disk,
       recovery, control, ghosts, bounds, PutBack, Sibling, RemoveBackup, RemoveSiblingStep
  <2>2. pc = "close switch" => txn'.sw.of = Nobody
    <3>1. pc = "close switch" => txn'.sw = NoSwitch
      BY SwitchStep
    <3> QED BY <3>1, Blank
  <2>3. pc = "whole" /\ txn.sw.of # cur => txn.sw.of = Nobody /\ txn = wal
    BY WholeFrame DEF OwnerInv, MemoryInv, TakingDown, GivingUp
  <2> QED BY <2>1, <2>2, <2>3
<1>2. /\ pc \notin EntryPcs \cup {"stopped", "failed", "lost"} /\ pc' # "stopped"
      /\ pc' = "next" \/ pc' \in WholePcs \cup {"failed"}
      /\ pc' \notin EntryPcs \cup {"lost"}
  BY WholeFrame DEF EntryPcs, WholePcs, Copying, Emptying, Switching, TakingDown, GivingUp
<1>3. /\ txn.sw.of \in {cur, Nobody} /\ wal.sw.of \in {cur, Nobody}
      /\ txn.arch.of \in todo \cup {Nobody} /\ wal.arch.of \in todo \cup {Nobody}
  BY <1>2, WholeFrame DEF OwnerInv
<1> QED BY <1>1, <1>2, <1>3, WholeFrame DEF OwnerInv

(* An agent that is given up is in no record.                              *)
LEMMA GivingOwner ==
    ASSUME AdoptAssumption, TypeOK, ControlInv, MemoryInv, OwnerInv, StageInv,
           Giving PROVE OwnerInv'
<1>c. cur \in Agents /\ (cur \in Entries \/ cur \in Wholes) /\
      ~(cur \in Entries /\ cur \in Wholes) /\ cur # Nobody
  BY GivingRecords, AdoptAssumption DEF Agents
<1>t. /\ txn.arch.of \in Entries \cup {Nobody} /\ txn.sw.of \in Wholes \cup {Nobody} /\
         wal.sw.of \in Wholes \cup {Nobody}
      /\ wal.arch.of \in Entries \cup {Nobody}
      /\ Nobody \notin Entries /\ Nobody \notin Wholes
  BY Typed, Parts, AdoptAssumption DEF Agents
<1>1. CASE pc' = "stopped"
  BY <1>1 DEF OwnerInv, EntryPcs, WholePcs, Copying, Emptying, Switching, TakingDown, GivingUp
<1>2. CASE HandleWhole /\ pc' # "stopped"
  <2>1. pc = "failed" /\ pc' = "abandon" /\ cur \in Wholes /\ UNCHANGED <<txn, wal, cur, todo>>
    BY <1>2 DEF HandleWhole, StopOver, Stop, Goto, Look
  <2> QED BY <2>1, <1>c, <1>t DEF OwnerInv, EntryPcs, WholePcs, Copying, Emptying, Switching,
             TakingDown, GivingUp
<1>3. CASE pc' # "stopped" /\ ~HandleWhole
  <2>1. /\ UNCHANGED <<cur, todo>>
        /\ \/ wal' = txn' /\ pc' = "next"
           \/ wal' = wal /\ pc' = "lost"
        /\ txn' = Without(cur) \/ (txn' = Switch(NoSwitch) /\ cur \in Wholes)
        /\ pc \in {"failed"} \cup WholePcs /\ (pc \in WholePcs => cur \in Wholes)
    BY <1>3 DEF Giving, Completed, DropWhole, HandleEntry, HandleWhole, Lost, Look, Moved, Calm,
       Goto, Fail, Stop, Fault, Write, disk, recovery, control, ghosts, bounds, Drop, StopOver,
       ControlInv, WholePcs, GivingUp
  <2>2. /\ txn'.arch = IF cur \in Entries THEN NoArchive ELSE txn.arch
        /\ txn'.sw = IF cur \in Wholes THEN NoSwitch ELSE txn.sw
    BY <2>1, <1>c, Dropped
  <2>3. /\ txn.arch.of \in todo \cup {cur, Nobody} /\ txn.sw.of \in todo \cup {cur, Nobody}
        /\ wal.sw.of \in todo \cup {cur, Nobody}
        /\ cur \in Wholes => wal.sw.of \in {cur, Nobody} /\ wal.arch.of \in todo \cup {Nobody}
        /\ cur \in Entries => wal.arch.of \in {cur, Nobody}
    BY <2>1, <1>c, <1>t DEF OwnerInv, WholePcs, Switching, TakingDown, GivingUp
  <2>4. txn'.arch.of \in todo \cup {Nobody} /\ txn'.sw.of \in todo \cup {Nobody}
    BY <2>2, <2>3, <1>t, <1>c DEF NoArchive, NoSwitch
  <2>5. (cur \in Entries => txn'.arch.of = Nobody) /\ (cur \in Wholes => txn'.sw.of = Nobody)
    BY <2>2 DEF NoArchive, NoSwitch
  <2> QED BY <2>1, <2>3, <2>4, <2>5, <1>c DEF OwnerInv, EntryPcs, WholePcs, Copying, Emptying,
             Switching, TakingDown, GivingUp
<1> QED BY <1>1, <1>2, <1>3

(* What is in flight is taken in hand before anything else.                *)
LEMMA TurningOwner ==
    ASSUME AdoptAssumption, TypeOK, ControlInv, MemoryInv, OwnerInv, StageInv,
           Turning PROVE OwnerInv'
<1>t. /\ txn.arch.of \in Entries \cup {Nobody} /\ txn.sw.of \in Wholes \cup {Nobody} /\
         wal.sw.of \in Wholes \cup {Nobody}
      /\ wal.arch.of \in Entries \cup {Nobody}
      /\ Nobody \notin Entries /\ Nobody \notin Wholes /\ Entries \cap Wholes = {}
  BY Typed, Parts, AdoptAssumption DEF Agents
<1>1. CASE NextAgent
  <2>1. PICK a \in IF todo \cap Entries # {} THEN Mine(Entries) ELSE Mine(Wholes) :
          /\ cur' = a /\ todo' = todo \ {a}
          /\ pc' = (IF a \in Entries THEN "entry" ELSE "whole")
    BY <1>1 DEF NextAgent
  <2>2. txn = wal /\ UNCHANGED <<txn, wal>> /\ pc = "next"
    BY <1>1 DEF NextAgent, Look, MemoryInv
  <2>3. txn.arch.of \in todo \cup {Nobody} /\ txn.sw.of \in todo \cup {Nobody}
    BY <2>2 DEF OwnerInv, EntryPcs, WholePcs, Copying, Emptying, Switching, TakingDown, GivingUp
  <2>4. a \in Entries => txn.arch.of \in {a, Nobody}
    BY <2>1, <2>3, <1>t DEF Mine
  <2>5. a \notin Entries => txn.sw.of \in {a, Nobody} /\ txn.arch.of = Nobody
    BY <2>1, <2>3, <1>t DEF Mine
  <2>6. a \in Entries => txn.sw.of # a
    BY <1>t
  <2> QED BY <2>1, <2>2, <2>3, <2>4, <2>5, <2>6 DEF OwnerInv, EntryPcs, WholePcs, Copying,
             Emptying, Switching, TakingDown, GivingUp
<1>2. CASE pc' = "stopped"
  BY <1>2 DEF OwnerInv, EntryPcs, WholePcs, Copying, Emptying, Switching, TakingDown, GivingUp
<1>3. CASE Clear /\ pc' # "stopped"
  BY <1>3 DEF Clear, Stop, OwnerInv, EntryPcs, WholePcs, Copying, Emptying, Switching,
     TakingDown, GivingUp
<1>4. CASE Recover
  <2>1. pc' = "next" /\ todo' = wal.agents /\ UNCHANGED <<cur, wal, txn>> /\ txn = wal
    BY <1>4 DEF Recover, Look, MemoryInv
  <2>2. wal.arch.of \in wal.agents \cup {Nobody} /\ wal.sw.of \in wal.agents \cup {Nobody}
    BY Typed
  <2> QED BY <2>1, <2>2 DEF OwnerInv, EntryPcs, WholePcs, Copying, Emptying, Switching,
             TakingDown, GivingUp
<1>5. CASE Settled
  BY <1>5 DEF Settled, vars, control, OwnerInv
<1>6. Crash => pc' = "stopped"
  BY DEF Crash, Stop
<1> QED BY <1>1, <1>2, <1>3, <1>4, <1>5, <1>6 DEF Turning

--------------------------------------------------------------------------------
(* Where a step on an entry leads when it does not fail,                   *)
LEMMA EntryFlow ==
    ASSUME TypeOK, EntryMove, pc' # "failed"
    PROVE  /\ pc = "entry" =>
                \/ txn.arch.of = cur /\ pc' = "retire" /\ txn.arch.stage = "planned"
                \/ txn.arch.of = cur /\ pc' = txn.arch.stage /\
                   pc' \in {"retired", "copied", "cleaned"}
                \/ txn.arch.of # cur /\ pc' = "next" /\ slot[cur] = "none"
                \/ txn.arch.of # cur /\ pc' = "plan" /\ slot[cur] = "original" /\
                   content[cur] = "inventoried"
           /\ pc = "plan" => pc' = "record"
           /\ pc = "record" => pc' = "retire"
           /\ pc = "retire" => pc' \in {"note retired", "note cleaned", "rename"}
           /\ pc = "rename" => pc' = "observe"
           /\ pc = "observe" => pc' = "note retired"
           /\ pc = "note retired" => pc' \in {"copy", "retired"}
           /\ pc = "retired" => pc' \in {"note cleaned", "unlink", "fresh name", "copy"}
           /\ pc = "fresh name" => pc' = "copy"
           /\ pc = "copy" => pc' = "note base"
           /\ pc = "note base" => pc' = "fill"
           /\ pc = "fill" => pc' = "note copied"
           /\ pc = "note copied" => pc' = "copied"
           /\ pc = "copied" => pc' \in {"empty", "note cleaned"}
           /\ pc = "empty" => pc' = "retire root"
           /\ pc = "retire root" => pc' = "rmdir"
           /\ pc = "rmdir" => pc' = "note cleaned"
           /\ pc = "unlink" => pc' = "note cleaned"
           /\ pc = "note cleaned" => pc' = "cleaned"
           /\ pc = "cleaned" => pc' = "close"
           /\ pc = "close" => pc' = "next"
           /\ err' = err
<1>1. pc = "entry" =>
        \/ txn.arch.of = cur /\ pc' = "retire" /\ txn.arch.stage = "planned"
        \/ txn.arch.of = cur /\ pc' = txn.arch.stage /\ pc' \in {"retired", "copied", "cleaned"}
        \/ txn.arch.of # cur /\ pc' = "next" /\ slot[cur] = "none"
        \/ txn.arch.of # cur /\ pc' = "plan" /\ slot[cur] = "original" /\
           content[cur] = "inventoried"
  <2>1. txn.arch.stage \in {"planned", "retired", "copied", "cleaned"}
    BY Typed, Parts
  <2> QED BY <2>1 DEF EntryMove, Entry, Plan, RecordPlan, Retire, RenameAside, Observe,
             NoteRetired, Retired, FreshName, CopyRoot, NoteBase, CopyTree, NoteCopied, Copied,
             EmptyTree, RetireRoot, RemoveRoot, Unlink, NoteCleaned, Cleaned, Close, Look, Moved,
             Calm, Goto, Fail, Stop, Fault, Write, disk, recovery, control, ghosts, bounds,
             PutBack
<1>2. err' = err
  BY DEF EntryMove, Entry, Plan, RecordPlan, Retire, RenameAside, Observe, NoteRetired, Retired,
     FreshName, CopyRoot, NoteBase, CopyTree, NoteCopied, Copied, EmptyTree, RetireRoot,
     RemoveRoot, Unlink, NoteCleaned, Cleaned, Close, Look, Moved, Calm, Goto, Fail, Stop, Fault,
     Write, disk, recovery, control, ghosts, bounds, PutBack
<1>10.
      /\ pc = "plan" => pc' = "record"
      /\ pc = "record" => pc' = "retire"
      /\ pc = "retire" => pc' \in {"note retired", "note cleaned", "rename"}
      /\ pc = "rename" => pc' = "observe"
      /\ pc = "observe" => pc' = "note retired"
      /\ pc = "note retired" => pc' \in {"copy", "retired"}
  BY DEF EntryMove, Entry, Plan, RecordPlan, Retire, RenameAside, Observe, NoteRetired, Retired,
     FreshName, CopyRoot, NoteBase, CopyTree, NoteCopied, Copied, EmptyTree, RetireRoot,
     RemoveRoot, Unlink, NoteCleaned, Cleaned, Close, Look, Moved, Calm, Goto, Fail, Stop, Fault,
     Write, disk, recovery, control, ghosts, bounds, PutBack
<1>11.
      /\ pc = "retired" => pc' \in {"note cleaned", "unlink", "fresh name", "copy"}
      /\ pc = "fresh name" => pc' = "copy"
      /\ pc = "copy" => pc' = "note base"
      /\ pc = "note base" => pc' = "fill"
      /\ pc = "fill" => pc' = "note copied"
      /\ pc = "note copied" => pc' = "copied"
  BY DEF EntryMove, Entry, Plan, RecordPlan, Retire, RenameAside, Observe, NoteRetired, Retired,
     FreshName, CopyRoot, NoteBase, CopyTree, NoteCopied, Copied, EmptyTree, RetireRoot,
     RemoveRoot, Unlink, NoteCleaned, Cleaned, Close, Look, Moved, Calm, Goto, Fail, Stop, Fault,
     Write, disk, recovery, control, ghosts, bounds, PutBack
<1>12.
      /\ pc = "copied" => pc' \in {"empty", "note cleaned"}
      /\ pc = "empty" => pc' = "retire root"
      /\ pc = "retire root" => pc' = "rmdir"
      /\ pc = "rmdir" => pc' = "note cleaned"
      /\ pc = "unlink" => pc' = "note cleaned"
      /\ pc = "note cleaned" => pc' = "cleaned"
  BY DEF EntryMove, Entry, Plan, RecordPlan, Retire, RenameAside, Observe, NoteRetired, Retired,
     FreshName, CopyRoot, NoteBase, CopyTree, NoteCopied, Copied, EmptyTree, RetireRoot,
     RemoveRoot, Unlink, NoteCleaned, Cleaned, Close, Look, Moved, Calm, Goto, Fail, Stop, Fault,
     Write, disk, recovery, control, ghosts, bounds, PutBack
<1>13.
      /\ pc = "cleaned" => pc' = "close"
      /\ pc = "close" => pc' = "next"
  BY DEF EntryMove, Entry, Plan, RecordPlan, Retire, RenameAside, Observe, NoteRetired, Retired,
     FreshName, CopyRoot, NoteBase, CopyTree, NoteCopied, Copied, EmptyTree, RetireRoot,
     RemoveRoot, Unlink, NoteCleaned, Cleaned, Close, Look, Moved, Calm, Goto, Fail, Stop, Fault,
     Write, disk, recovery, control, ghosts, bounds, PutBack
<1> QED BY <1>1, <1>2, <1>10, <1>11, <1>12, <1>13

(* and a step on a skills directory.                                       *)
LEMMA WholeFlow ==
    ASSUME TypeOK, ControlInv, WholeMove, pc' # "failed"
    PROVE  /\ pc = "whole" =>
                \/ txn.sw.of = cur /\ pc' = "rebuild" /\ txn.sw.stage = "building"
                \/ txn.sw.of = cur /\ pc' = "complete" /\ txn.sw.stage # "building"
                \/ txn.sw.of # cur /\ pc' = "next" /\ slot[cur] = "switched"
                \/ txn.sw.of # cur /\ pc' = "start" /\ slot[cur] # "switched"
           /\ pc = "complete" =>
                \/ txn.sw.stage = "done" /\ pc' = "backup" /\ slot[cur] = "switched"
                \/ txn.sw.stage # "done" /\ pc' = "move link" /\ slot[cur] = "original"
                     /\ aside[cur] = "none" /\ sib[cur] = "full"
                \/ txn.sw.stage # "done" /\ pc' = "check landing" /\ slot[cur] = "none" /\
                   aside[cur] = "original"
                \/ txn.sw.stage # "done" /\ pc' = "note done" /\ slot[cur] = "switched" /\
                   aside[cur] = "original"
           /\ pc = "taken down" => IF err = "none" THEN pc' = "restart" ELSE pc' = "drop"
           /\ pc = "abandon" =>
                \/ txn.sw = NoSwitch /\ pc' = "drop"
                \/ txn.sw.stage = "building" /\ pc' = "take down"
                \/ txn.sw.stage # "building" /\ pc' = "abandoned backup" /\ slot[cur] = "switched"
                \/ txn.sw.stage \notin {"building", "done"} /\ pc' = "take down"
                     /\ slot[cur] # "none" /\ aside[cur] = "none"
                \/ txn.sw.stage \notin {"building", "done"} /\ pc' = "restore link" /\
                   slot[cur] = "none"
                     /\ aside[cur] = "original" /\ sib[cur] # "part"
           /\ pc = "rebuild" => pc' \in {"restart", "take down"}
           /\ pc = "start" => pc' = "mkdir"
           /\ pc = "mkdir" => pc' = "note sibling"
           /\ pc = "note sibling" => pc' = "links"
           /\ pc = "links" => pc' = "note links"
           /\ pc = "note links" => pc' = "check"
           /\ pc = "check" => pc' = "note swap"
           /\ pc = "note swap" => pc' = "complete"
           /\ pc = "move link" => pc' = "see link"
           /\ pc = "see link" => pc' = "check landing"
           /\ pc = "check landing" => pc' = "land"
           /\ pc = "land" => pc' = "note done"
           /\ pc = "note done" => pc' = "seen done"
           /\ pc = "seen done" => pc' = "backup"
           /\ pc = "backup" => pc' = "close switch"
           /\ pc = "close switch" => pc' = "next"
           /\ pc = "take down" => pc' \in {"taken down", "unlink links", "rmdir sibling"}
           /\ pc = "unlink links" => pc' = "rmdir sibling"
           /\ pc = "rmdir sibling" => pc' = "taken down"
           /\ pc = "restart" => pc' = "start"
           /\ pc = "restore link" => pc' = "take down"
           /\ pc = "abandoned backup" => pc' = "completed"
           /\ err' = err /\ pc \notin {"completed", "drop"}
<1>1. pc = "whole" =>
        \/ txn.sw.of = cur /\ pc' = "rebuild" /\ txn.sw.stage = "building"
        \/ txn.sw.of = cur /\ pc' = "complete" /\ txn.sw.stage # "building"
        \/ txn.sw.of # cur /\ pc' = "next" /\ slot[cur] = "switched"
        \/ txn.sw.of # cur /\ pc' = "start" /\ slot[cur] # "switched"
  BY DEF WholeMove, Whole, Start, Rebuild, Mkdir, NoteSibling, MakeLinks, NoteLinks, Check,
     NoteSwap, Complete, MoveLink, SeeLink, CheckLanding, Land, NoteDone, SeenDone, Backup,
     CloseSwitch, TakeDown, UnlinkLinks, RmdirSibling, TakenDown, Restart, Abandon, RestoreLink,
     AbandonedBackup, Look, Moved, Calm, Goto, Fail, Stop, Fault, Write, disk, recovery, control,
     ghosts, bounds, PutBack, Sibling, RemoveBackup, RemoveSiblingStep
<1>2. err' = err /\ pc \notin {"completed", "drop"}
  BY DEF WholeMove, Whole, Start, Rebuild, Mkdir, NoteSibling, MakeLinks, NoteLinks, Check,
     NoteSwap, Complete, MoveLink, SeeLink, CheckLanding, Land, NoteDone, SeenDone, Backup,
     CloseSwitch, TakeDown, UnlinkLinks, RmdirSibling, TakenDown, Restart, Abandon, RestoreLink,
     AbandonedBackup, Look, Moved, Calm, Goto, Fail, Stop, Fault, Write, disk, recovery, control,
     ghosts, bounds, PutBack, Sibling, RemoveBackup, RemoveSiblingStep
<1>3. pc = "complete" =>
        \/ txn.sw.stage = "done" /\ pc' = "backup" /\ slot[cur] = "switched"
        \/ txn.sw.stage # "done" /\ pc' = "move link" /\ slot[cur] = "original"
             /\ aside[cur] = "none" /\ sib[cur] = "full"
        \/ txn.sw.stage # "done" /\ pc' = "check landing" /\ slot[cur] = "none" /\
           aside[cur] = "original"
        \/ txn.sw.stage # "done" /\ pc' = "note done" /\ slot[cur] = "switched" /\
           aside[cur] = "original"
  <2>1. pc = "complete" => Complete
    BY WholeAt
  <2>2. Complete =>
        \/ txn.sw.stage = "done" /\ pc' = "backup" /\ slot[cur] = "switched"
        \/ txn.sw.stage # "done" /\ pc' = "move link" /\ slot[cur] = "original"
             /\ aside[cur] = "none" /\ sib[cur] # "none" /\ sib[cur] # "part"
        \/ txn.sw.stage # "done" /\ pc' = "check landing" /\ slot[cur] = "none" /\
           aside[cur] = "original"
        \/ txn.sw.stage # "done" /\ pc' = "note done" /\ slot[cur] = "switched" /\
           aside[cur] = "original"
    BY DEF Complete, Goto, Fail
  <2>3. pc = "complete" => cur \in Wholes
    <3> QED BY DEF ControlInv, WholePcs, Switching
  <2>4. sib \in [Wholes -> {"none", "part", "full"}]
    BY Typed
  <2> QED BY <2>1, <2>2, <2>3, <2>4
<1>4. pc = "taken down" => IF err = "none" THEN pc' = "restart" ELSE pc' = "drop"
  BY DEF WholeMove, Whole, Start, Rebuild, Mkdir, NoteSibling, MakeLinks, NoteLinks, Check,
     NoteSwap, Complete, MoveLink, SeeLink, CheckLanding, Land, NoteDone, SeenDone, Backup,
     CloseSwitch, TakeDown, UnlinkLinks, RmdirSibling, TakenDown, Restart, Abandon, RestoreLink,
     AbandonedBackup, Look, Moved, Calm, Goto, Fail, Stop, Fault, Write, disk, recovery, control,
     ghosts, bounds, PutBack, Sibling, RemoveBackup, RemoveSiblingStep
<1>5. pc = "abandon" =>
        \/ txn.sw = NoSwitch /\ pc' = "drop"
        \/ txn.sw.stage = "building" /\ pc' = "take down"
        \/ txn.sw.stage # "building" /\ pc' = "abandoned backup" /\ slot[cur] = "switched"
        \/ txn.sw.stage \notin {"building", "done"} /\ pc' = "take down"
             /\ slot[cur] # "none" /\ aside[cur] = "none"
        \/ txn.sw.stage \notin {"building", "done"} /\ pc' = "restore link" /\ slot[cur] = "none"
             /\ aside[cur] = "original" /\ sib[cur] # "part"
  <2>1. pc = "abandon" => Abandon
    BY WholeAt
  <2> QED BY <2>1 DEF Abandon, Goto, Fail
<1>10.
      /\ pc = "rebuild" => pc' \in {"restart", "take down"}
      /\ pc = "start" => pc' = "mkdir"
      /\ pc = "mkdir" => pc' = "note sibling"
      /\ pc = "note sibling" => pc' = "links"
      /\ pc = "links" => pc' = "note links"
      /\ pc = "note links" => pc' = "check"
  BY DEF WholeMove, Whole, Start, Rebuild, Mkdir, NoteSibling, MakeLinks, NoteLinks, Check,
     NoteSwap, Complete, MoveLink, SeeLink, CheckLanding, Land, NoteDone, SeenDone, Backup,
     CloseSwitch, TakeDown, UnlinkLinks, RmdirSibling, TakenDown, Restart, Abandon, RestoreLink,
     AbandonedBackup, Look, Moved, Calm, Goto, Fail, Stop, Fault, Write, disk, recovery, control,
     ghosts, bounds, PutBack, Sibling, RemoveBackup, RemoveSiblingStep
<1>11.
      /\ pc = "check" => pc' = "note swap"
      /\ pc = "note swap" => pc' = "complete"
      /\ pc = "move link" => pc' = "see link"
      /\ pc = "see link" => pc' = "check landing"
      /\ pc = "check landing" => pc' = "land"
      /\ pc = "land" => pc' = "note done"
  BY DEF WholeMove, Whole, Start, Rebuild, Mkdir, NoteSibling, MakeLinks, NoteLinks, Check,
     NoteSwap, Complete, MoveLink, SeeLink, CheckLanding, Land, NoteDone, SeenDone, Backup,
     CloseSwitch, TakeDown, UnlinkLinks, RmdirSibling, TakenDown, Restart, Abandon, RestoreLink,
     AbandonedBackup, Look, Moved, Calm, Goto, Fail, Stop, Fault, Write, disk, recovery, control,
     ghosts, bounds, PutBack, Sibling, RemoveBackup, RemoveSiblingStep
<1>12.
      /\ pc = "note done" => pc' = "seen done"
      /\ pc = "seen done" => pc' = "backup"
      /\ pc = "backup" => pc' = "close switch"
      /\ pc = "close switch" => pc' = "next"
      /\ pc = "take down" => pc' \in {"taken down", "unlink links", "rmdir sibling"}
      /\ pc = "unlink links" => pc' = "rmdir sibling"
  BY DEF WholeMove, Whole, Start, Rebuild, Mkdir, NoteSibling, MakeLinks, NoteLinks, Check,
     NoteSwap, Complete, MoveLink, SeeLink, CheckLanding, Land, NoteDone, SeenDone, Backup,
     CloseSwitch, TakeDown, UnlinkLinks, RmdirSibling, TakenDown, Restart, Abandon, RestoreLink,
     AbandonedBackup, Look, Moved, Calm, Goto, Fail, Stop, Fault, Write, disk, recovery, control,
     ghosts, bounds, PutBack, Sibling, RemoveBackup, RemoveSiblingStep
<1>13.
      /\ pc = "rmdir sibling" => pc' = "taken down"
      /\ pc = "restart" => pc' = "start"
      /\ pc = "restore link" => pc' = "take down"
      /\ pc = "abandoned backup" => pc' = "completed"
  BY DEF WholeMove, Whole, Start, Rebuild, Mkdir, NoteSibling, MakeLinks, NoteLinks, Check,
     NoteSwap, Complete, MoveLink, SeeLink, CheckLanding, Land, NoteDone, SeenDone, Backup,
     CloseSwitch, TakeDown, UnlinkLinks, RmdirSibling, TakenDown, Restart, Abandon, RestoreLink,
     AbandonedBackup, Look, Moved, Calm, Goto, Fail, Stop, Fault, Write, disk, recovery, control,
     ghosts, bounds, PutBack, Sibling, RemoveBackup, RemoveSiblingStep
<1> QED BY <1>1, <1>2, <1>3, <1>4, <1>5, <1>10, <1>11, <1>12, <1>13

--------------------------------------------------------------------------------
(* How far each step gets.                                                 *)
LEMMA EntryStage ==
    ASSUME AdoptAssumption, TypeOK, ControlInv, MemoryInv, OwnerInv, StageInv,
           EntryMove PROVE StageInv'
<1>t. txn.arch.stage \in {"planned", "retired", "copied", "cleaned"}
  BY Typed, Parts
<1>0. pc' = "plan" => txn'.arch.of = Nobody
  <2>1. pc' = "plan" => pc = "entry" /\ txn.arch.of # cur
    BY EntryFlow, EntryFrame DEF EntryPcs, Copying, Emptying
  <2>2. pc = "entry" => txn'.arch = txn.arch /\ txn.arch.of \in {cur, Nobody}
    BY ArchStep DEF OwnerInv, EntryPcs
  <2> QED BY <2>1, <2>2
<1>1. pc' \in EntryPcs \ {"entry", "plan"} => txn'.arch.of = cur
  <2>1. pc' \in EntryPcs \ {"entry", "plan"} =>
          \/ pc \in EntryPcs \ {"entry", "plan", "close"}
          \/ pc = "entry" /\ txn.arch.of = cur
          \/ pc = "plan" /\ pc' = "record"
    BY <1>t DEF EntryPcs, Copying, Emptying, EntryMove, Entry, Plan, RecordPlan, Retire,
       RenameAside, Observe, NoteRetired, Retired, FreshName, CopyRoot, NoteBase, CopyTree,
       NoteCopied, Copied, EmptyTree, RetireRoot, RemoveRoot, Unlink, NoteCleaned, Cleaned,
       Close, Look, Moved, Calm, Goto, Fail, Stop, Fault, Write, disk, recovery, control, ghosts,
       bounds, PutBack
  <2>2. pc \in EntryPcs \ {"entry", "plan", "close"} => txn'.arch.of = txn.arch.of
    BY ArchStep DEF EntryPcs, Copying, Emptying
  <2>3. pc = "entry" => txn'.arch.of = txn.arch.of
    BY ArchStep
  <2>4. pc = "plan" /\ pc' = "record" => txn'.arch.of = cur
    BY ArchStep
  <2> QED BY <2>1, <2>2, <2>3, <2>4 DEF StageInv
<1>2. pc' \in {"record", "retire", "rename", "observe", "note retired"} =>
      txn'.arch.stage = "planned"
  <2>1. pc' \in {"record", "retire", "rename", "observe", "note retired"} =>
          \/ pc \in {"record", "retire", "rename", "observe"}
          \/ pc = "entry" /\ txn.arch.stage = "planned"
          \/ pc = "plan" /\ pc' = "record"
    BY <1>t DEF EntryMove, Entry, Plan, RecordPlan, Retire, RenameAside, Observe, NoteRetired,
       Retired, FreshName, CopyRoot, NoteBase, CopyTree, NoteCopied, Copied, EmptyTree,
       RetireRoot, RemoveRoot, Unlink, NoteCleaned, Cleaned, Close, Look, Moved, Calm, Goto,
       Fail, Stop, Fault, Write, disk, recovery, control, ghosts, bounds, PutBack
  <2>2. pc \in {"record", "retire", "rename", "observe", "entry"} =>
        txn'.arch.stage = txn.arch.stage
    BY ArchStep
  <2>3. pc = "plan" /\ pc' = "record" => txn'.arch.stage = "planned"
    BY ArchStep
  <2> QED BY <2>1, <2>2, <2>3 DEF StageInv
<1>3. pc' \in Copying \cup {"retired", "unlink"} => txn'.arch.stage = "retired"
  <2>1. pc' \in Copying \cup {"retired", "unlink"} =>
          \/ pc \in (Copying \ {"note copied"}) \cup {"retired"}
          \/ pc = "entry" /\ txn.arch.stage = "retired"
          \/ pc = "note retired"
    BY <1>t DEF Copying, EntryMove, Entry, Plan, RecordPlan, Retire, RenameAside, Observe,
       NoteRetired, Retired, FreshName, CopyRoot, NoteBase, CopyTree, NoteCopied, Copied,
       EmptyTree, RetireRoot, RemoveRoot, Unlink, NoteCleaned, Cleaned, Close, Look, Moved, Calm,
       Goto, Fail, Stop, Fault, Write, disk, recovery, control, ghosts, bounds, PutBack
  <2>2. pc \in (Copying \ {"note copied"}) \cup {"retired", "entry"} =>
        txn'.arch.stage = txn.arch.stage
    BY ArchStep DEF Copying
  <2>3. pc = "note retired" => txn'.arch.stage = "retired"
    BY ArchStep
  <2> QED BY <2>1, <2>2, <2>3 DEF StageInv
<1>4. pc' \in Emptying \cup {"copied"} => txn'.arch.stage = "copied"
  <2>1. pc' \in Emptying \cup {"copied"} =>
          \/ pc \in Emptying \cup {"copied"}
          \/ pc = "entry" /\ txn.arch.stage = "copied"
          \/ pc = "note copied"
    BY <1>t DEF Emptying, EntryMove, Entry, Plan, RecordPlan, Retire, RenameAside, Observe,
       NoteRetired, Retired, FreshName, CopyRoot, NoteBase, CopyTree, NoteCopied, Copied,
       EmptyTree, RetireRoot, RemoveRoot, Unlink, NoteCleaned, Cleaned, Close, Look, Moved, Calm,
       Goto, Fail, Stop, Fault, Write, disk, recovery, control, ghosts, bounds, PutBack
  <2>2. pc \in Emptying \cup {"copied", "entry"} => txn'.arch.stage = txn.arch.stage
    BY ArchStep DEF Emptying
  <2>3. pc = "note copied" => txn'.arch.stage = "copied"
    BY ArchStep
  <2> QED BY <2>1, <2>2, <2>3 DEF StageInv
<1>5. pc' \in {"cleaned", "close"} => txn'.arch.stage = "cleaned"
  <2>1. pc' \in {"cleaned", "close"} =>
          \/ pc = "cleaned" \/ pc = "note cleaned"
          \/ pc = "entry" /\ txn.arch.stage = "cleaned"
    BY <1>t DEF EntryMove, Entry, Plan, RecordPlan, Retire, RenameAside, Observe, NoteRetired,
       Retired, FreshName, CopyRoot, NoteBase, CopyTree, NoteCopied, Copied, EmptyTree,
       RetireRoot, RemoveRoot, Unlink, NoteCleaned, Cleaned, Close, Look, Moved, Calm, Goto,
       Fail, Stop, Fault, Write, disk, recovery, control, ghosts, bounds, PutBack
  <2>2. pc \in {"cleaned", "entry"} => txn'.arch.stage = txn.arch.stage
    BY ArchStep
  <2>3. pc = "note cleaned" => txn'.arch.stage = "cleaned"
    BY ArchStep
  <2> QED BY <2>1, <2>2, <2>3 DEF StageInv
<1>6. txn'.arch.stage = "copied" => txn'.arch.of \in Dirs
  <2>1. CASE pc = "note copied"
    <3>1. txn'.arch.of = txn.arch.of /\ txn.arch.of = cur /\ cur \in Dirs
      BY <2>1, ArchStep DEF StageInv, ControlInv, EntryPcs, Copying
    <3> QED BY <3>1
  <2>2. CASE pc # "note copied"
    <3>1. txn'.arch.stage = "copied" => txn'.arch = txn.arch \/
          (txn'.arch.of = txn.arch.of /\ txn'.arch.stage = txn.arch.stage)
      BY <2>2, ArchStep, Blank
    <3> QED BY <3>1 DEF StageInv
  <2> QED BY <2>1, <2>2
<1>7. \A r \in {txn', wal'} : r.arch.stage = "copied" => r.arch.of \in Dirs
  BY <1>6, EntryFrame DEF StageInv
<1>8. pc' \in EntryPcs \cup {"next", "failed"} /\ pc # "lost"
  BY EntryFrame DEF EntryPcs, Copying, Emptying
<1>9. \A r \in {txn', wal'} : r.sw \in {txn.sw, wal.sw}
  BY EntryFrame
<1>s. /\ wal'.sw.stage = "swapped" => txn'.sw.stage \in {"swapped", "done"}
      /\ wal'.sw.stage = "done" => txn'.sw.stage = "done" \/ txn'.sw = NoSwitch
  BY <1>8, EntryFrame DEF StageInv
<1>r. \A r \in {txn', wal'} : r.sw.of = Nobody => r.sw.stage = "building"
  BY <1>9 DEF StageInv
<1>p. /\ pc' \notin WholePcs
      /\ pc' \notin TakingDown \cup
         {"start", "mkdir", "note sibling", "links", "note links", "check", "rebuild", "restart",
            "note swap", "move link", "see link", "check landing", "land", "note done",
              "restore link",
            "seen done", "backup", "close switch", "complete", "abandoned backup"}
  BY <1>8 DEF EntryPcs, WholePcs, Copying, Emptying, Switching, TakingDown, GivingUp
<1> QED BY <1>0, <1>1, <1>2, <1>3, <1>4, <1>5, <1>7, <1>s, <1>r, <1>p, EntryFrame DEF StageInv

(* A step on a skills directory keeps its stage.                           *)
LEMMA WholeStage ==
    ASSUME AdoptAssumption, TypeOK, ControlInv, MemoryInv, OwnerInv, StageInv,
           WholeMove PROVE StageInv'
<1>t. txn.sw.stage \in {"building", "swapped", "done"} /\ txn.sw.of \in {cur, Nobody} /\
      cur # Nobody
  <2>1. txn.sw.stage \in {"building", "swapped", "done"}
    BY Typed, Parts
  <2>2. cur # Nobody /\ pc \in WholePcs
    BY WholeFrame
  <2>3. txn.sw.of \in {cur, Nobody}
    BY <2>2 DEF OwnerInv, ControlInv, Pcs
  <2> QED BY <2>1, <2>2, <2>3
<1>f. pc \in WholePcs
  BY WholeFrame
<1>n. txn.sw.of = Nobody => txn.sw.stage = "building"
  BY DEF StageInv
<1>1. pc' = "start" => txn'.sw.of = Nobody
  <2>1. pc' = "start" => (pc = "whole" /\ txn.sw.of # cur) \/ pc = "restart"
    BY <1>f, <1>t, WholeFlow DEF EntryPcs, WholePcs, Copying, Emptying, Switching, TakingDown,
       GivingUp
  <2>2. pc = "whole" => txn' = txn
    BY SwitchStep
  <2>3. pc = "restart" => txn'.sw.of = Nobody
    BY SwitchStep, Blank
  <2> QED BY <2>1, <2>2, <2>3, <1>t
<1>2. pc' \in {"mkdir", "note sibling", "links", "note links", "check", "rebuild", "restart"} =>
        txn'.sw.stage = "building"
  <2>1. pc' \in {"mkdir", "note sibling", "links", "note links", "check", "rebuild", "restart"} =>
          \/ pc \in {"mkdir", "links", "note links", "rebuild"}
          \/ pc = "note sibling"
          \/ pc = "start" /\ pc' = "mkdir"
          \/ pc = "whole" /\ txn.sw.stage = "building"
          \/ pc = "taken down" /\ err = "none"
    BY <1>f, <1>t, WholeFlow DEF EntryPcs, WholePcs, Copying, Emptying, Switching, TakingDown,
       GivingUp
  <2>2. pc \in {"mkdir", "links", "note links", "rebuild", "whole", "taken down"} => txn' = txn
    BY SwitchStep
  <2>3. pc = "note sibling" => txn'.sw.stage = txn.sw.stage
    BY SwitchStep
  <2>4. pc = "start" /\ pc' = "mkdir" => txn'.sw.stage = "building"
    BY SwitchStep
  <2> QED BY <2>1, <2>2, <2>3, <2>4 DEF StageInv, TakingDown
<1>3. pc' \in {"links", "note links", "check"} => txn'.sw.known
  <2>1. pc' \in {"links", "note links", "check"} => pc \in {"links", "note links", "note sibling"}
    BY <1>f, <1>t, WholeFlow DEF EntryPcs, WholePcs, Copying, Emptying, Switching, TakingDown,
       GivingUp
  <2>2. pc = "note sibling" => txn'.sw.known
    BY SwitchStep
  <2>3. pc \in {"links", "note links"} => txn' = txn
    BY SwitchStep
  <2> QED BY <2>1, <2>2, <2>3 DEF StageInv
<1>4. pc' \in TakingDown /\ err' = "none" => txn'.sw.of = cur /\ txn'.sw.stage = "building"
  <2>1. pc' \in TakingDown => pc \in TakingDown \cup GivingUp \cup {"rebuild"} /\ err' = err
    BY <1>f, <1>t, WholeFlow DEF EntryPcs, WholePcs, Copying, Emptying, Switching, TakingDown,
       GivingUp
  <2>2. pc \in TakingDown \cup GivingUp \cup {"rebuild"} => txn' = txn
    BY SwitchStep DEF TakingDown, GivingUp
  <2> QED BY <2>1, <2>2 DEF StageInv, ControlInv
<1>5. pc' \in {"note swap", "move link", "see link", "check landing", "land", "note done",
      "restore link"} =>
        txn'.sw.of = cur /\ txn'.sw.stage = "swapped"
  <2>1. pc' \in {"note swap", "move link", "see link", "check landing", "land", "note done",
        "restore link"} =>
          \/ pc = "check" /\ pc' = "note swap"
          \/ pc = "complete" /\ txn.sw.stage # "done"
          \/ pc \in {"move link", "see link", "check landing", "land"}
          \/ pc = "abandon" /\ txn.sw.stage \notin {"building", "done"}
    BY <1>f, <1>t, WholeFlow DEF EntryPcs, WholePcs, Copying, Emptying, Switching, TakingDown,
       GivingUp
  <2>2. pc \in {"complete", "move link", "see link", "check landing", "land", "abandon"} =>
        txn' = txn
    BY SwitchStep
  <2>3. pc = "check" /\ pc' = "note swap" => txn'.sw.of = txn.sw.of /\ txn'.sw.stage = "swapped" /\
        txn.sw.of = cur
    <3>1. pc = "check" /\ pc' = "note swap" => txn'.sw.of = txn.sw.of /\ txn'.sw.stage = "swapped"
      BY SwitchStep
    <3>2. pc = "check" => txn.sw.of = cur
      BY DEF StageInv
    <3> QED BY <3>1, <3>2
  <2> QED BY <2>1, <2>2, <2>3, <1>t, <1>n DEF StageInv
<1>6. pc' \in {"seen done", "backup", "close switch"} => txn'.sw.stage = "done"
  <2>1. pc' \in {"seen done", "backup", "close switch"} =>
          \/ pc \in {"seen done", "backup", "note done"}
          \/ pc = "complete" /\ txn.sw.stage = "done"
    BY <1>f, <1>t, WholeFlow DEF EntryPcs, WholePcs, Copying, Emptying, Switching, TakingDown,
       GivingUp
  <2>2. pc \in {"seen done", "backup", "complete"} => txn' = txn
    BY SwitchStep
  <2>3. pc = "note done" => txn'.sw.stage = "done"
    BY SwitchStep
  <2> QED BY <2>1, <2>2, <2>3 DEF StageInv
<1>7. pc' \in {"complete", "abandoned backup"} => txn'.sw.of = cur /\ txn'.sw.stage # "building"
  <2>1. pc' \in {"complete", "abandoned backup"} =>
          \/ pc = "note swap"
          \/ pc = "whole" /\ txn.sw.of = cur /\ txn.sw.stage # "building"
          \/ pc = "abandon" /\ txn.sw.stage # "building"
    BY <1>f, <1>t, WholeFlow DEF EntryPcs, WholePcs, Copying, Emptying, Switching, TakingDown,
       GivingUp
  <2>2. pc \in {"note swap", "whole", "abandon"} => txn' = txn
    BY SwitchStep
  <2> QED BY <2>1, <2>2, <1>t, <1>n DEF StageInv
<1>8. /\ wal'.sw.stage = "swapped" => txn'.sw.stage \in {"swapped", "done"}
      /\ wal'.sw.stage = "done" => txn'.sw.stage = "done" \/ txn'.sw = NoSwitch
  <2>1. CASE wal' = txn'
    BY <2>1
  <2>2. CASE wal' = wal /\ txn' = txn
    BY <2>2, WholeFrame DEF StageInv, WholePcs, EntryPcs, WholePcs, Copying, Emptying, Switching,
       TakingDown, GivingUp
  <2>3. CASE wal' = wal /\ pc \in {"start", "note sibling", "restart"}
    <3>1. txn.sw.stage = "building"
      BY <2>3, <1>t, <1>n DEF StageInv
    <3>2. wal.sw.stage \notin {"swapped", "done"}
      <4>1. pc \in {"start", "note sibling", "restart"} => txn = wal
        BY DEF MemoryInv, TakingDown, GivingUp
      <4> QED BY <4>1, <2>3, <3>1
    <3> QED BY <3>2, <2>3
  <2>4. CASE wal' = wal /\ pc = "check"
    <3>1. txn = wal /\ txn.sw.stage = "building"
      BY <2>4 DEF MemoryInv, TakingDown, GivingUp, StageInv
    <3> QED BY <3>1, <2>4
  <2>5. CASE wal' = wal /\ pc = "note done"
    BY <2>5, SwitchStep
  <2>6. CASE wal' = wal /\ pc = "close switch"
    <3>1. txn = wal /\ txn.sw.stage = "done" /\ txn'.sw = NoSwitch
      BY <2>6, SwitchStep DEF MemoryInv, TakingDown, GivingUp, StageInv
    <3> QED BY <3>1, <2>6
  <2> QED BY <2>1, <2>2, <2>3, <2>4, <2>5, <2>6, WholeFrame, SwitchStep
<1>9. \A r \in {txn', wal'} : r.sw.of = Nobody => r.sw.stage = "building"
  <2>1. txn'.sw.of = Nobody => txn'.sw.stage = "building"
    <3>1. txn' = txn \/ txn'.sw.of = cur \/ txn'.sw.stage = "building" \/
          (txn'.sw.of = txn.sw.of /\ pc \in {"note sibling", "check", "note done"})
      BY SwitchStep, Blank
    <3>2. pc \in {"note sibling", "check", "note done"} => txn.sw.of = cur \/
          txn'.sw.stage = "building"
      BY DEF StageInv
    <3> QED BY <3>1, <3>2, <1>t, <1>n
  <2> QED BY <2>1, WholeFrame DEF StageInv
<1>10. \A r \in {txn', wal'} : r.arch \in {txn.arch, wal.arch}
  BY WholeFrame
<1>11. pc' \in WholePcs \cup {"next", "failed"}
  BY WholeFrame
<1>12. \A r \in {txn', wal'} : r.arch.stage = "copied" => r.arch.of \in Dirs
  BY <1>10 DEF StageInv
<1>13. pc' \notin EntryPcs
  BY <1>11 DEF EntryPcs, WholePcs, Copying, Emptying, Switching, TakingDown, GivingUp
<1>14. pc' \notin Copying \cup Emptying \cup
       {"record", "retire", "rename", "observe", "note retired",
                                        "retired", "unlink", "copied", "cleaned", "close", "plan"}
  BY <1>13 DEF EntryPcs
<1>15. pc' \in {"mkdir", "note sibling", "links", "note links", "check", "rebuild", "restart"} =>
        txn'.sw.of = cur
  <2>1. pc' \in {"mkdir", "note sibling", "links", "note links", "check", "rebuild", "restart"} =>
          \/ pc \in {"mkdir", "links", "note links", "rebuild"}
          \/ pc = "note sibling"
          \/ pc = "start" /\ pc' = "mkdir"
          \/ pc = "whole" /\ txn.sw.of = cur
          \/ pc = "taken down" /\ err = "none"
    BY <1>f, <1>t, WholeFlow DEF EntryPcs, WholePcs, Copying, Emptying, Switching, TakingDown,
       GivingUp
  <2>2. pc \in {"mkdir", "links", "note links", "rebuild", "whole", "taken down"} => txn' = txn
    BY SwitchStep
  <2>3. pc = "note sibling" => txn'.sw.of = txn.sw.of
    BY SwitchStep
  <2>4. pc = "start" /\ pc' = "mkdir" => txn'.sw.of = cur
    BY SwitchStep
  <2> QED BY <2>1, <2>2, <2>3, <2>4 DEF StageInv, TakingDown
<1>16. pc' # "lost"
  BY <1>11 DEF EntryPcs, WholePcs, Copying, Emptying, Switching, TakingDown, GivingUp
<1>17. cur' = cur
  BY WholeFrame
<1>18. /\ pc' # "plan"
       /\ pc' \in EntryPcs \ {"entry", "plan"} => txn'.arch.of = cur'
       /\ pc' \in {"record", "retire", "rename", "observe", "note retired"} =>
          txn'.arch.stage = "planned"
       /\ pc' \in Copying \cup {"retired", "unlink"} => txn'.arch.stage = "retired"
       /\ pc' \in Emptying \cup {"copied"} => txn'.arch.stage = "copied"
       /\ pc' \in {"cleaned", "close"} => txn'.arch.stage = "cleaned"
  BY <1>13, <1>14
<1> QED BY <1>1, <1>2, <1>3, <1>4, <1>5, <1>6, <1>7, <1>8, <1>9, <1>12, <1>15, <1>17, <1>18
           DEF StageInv

(* An agent that is given up has no stage.                                 *)
LEMMA GivingStage ==
    ASSUME AdoptAssumption, TypeOK, ControlInv, MemoryInv, OwnerInv, StageInv,
           Giving PROVE StageInv'
<1>1. pc' \in {"next", "lost", "stopped", "abandon"}
  BY DEF Giving, Completed, DropWhole, HandleEntry, HandleWhole, Lost, Look, Moved, Calm, Goto,
     Fail, Stop, Fault, Write, disk, recovery, control, ghosts, bounds, Drop, StopOver
<1>2. /\ pc' \notin EntryPcs /\ pc' \notin Copying \cup Emptying \cup TakingDown
      /\ pc' \notin {"record", "retire", "rename", "observe", "note retired", "retired", "unlink",
         "copied",
            "cleaned", "close", "plan", "start", "mkdir", "note sibling", "links", "note links",
              "check", "rebuild",
            "restart", "note swap", "move link", "see link", "check landing", "land", "note done",
            "restore link", "seen done", "backup", "close switch", "complete", "abandoned backup"}
  BY <1>1 DEF EntryPcs, WholePcs, Copying, Emptying, Switching, TakingDown, GivingUp
<1>3. \A r \in {txn', wal'} :
        /\ r.arch \in {txn.arch, wal.arch, NoArchive}
        /\ r.sw \in {txn.sw, wal.sw, NoSwitch}
  <2>1. \A a \in Agents :
          /\ Without(a).arch \in {txn.arch, NoArchive} /\ Without(a).sw \in {txn.sw, NoSwitch}
          /\ Switch(NoSwitch).arch = txn.arch /\ Switch(NoSwitch).sw = NoSwitch
    BY Dropped
  <2>2. /\ cur \in Agents
        /\ txn' = txn \/ txn' = wal \/ txn' = Without(cur) \/ txn' = Switch(NoSwitch)
    BY GivingRecords
  <2>3. txn'.arch \in {txn.arch, wal.arch, NoArchive} /\ txn'.sw \in {txn.sw, wal.sw, NoSwitch}
    BY <2>1, <2>2
  <2> QED BY <2>3, GivingRecords
<1>4. \A r \in {txn', wal'} :
        /\ r.arch.stage = "copied" => r.arch.of \in Dirs
        /\ r.sw.of = Nobody => r.sw.stage = "building"
  BY <1>3, Blank DEF StageInv
<1>5. pc' = "abandon" => txn' = txn /\ wal' = wal /\ pc # "lost"
  BY DEF Giving, Completed, DropWhole, HandleEntry, HandleWhole, Lost, Look, Moved, Calm, Goto,
     Fail, Stop, Fault, Write, disk, recovery, control, ghosts, bounds, Drop, StopOver
<1>6. pc' \in {"next", "stopped"} => txn' = wal'
  BY DEF Giving, Completed, DropWhole, HandleEntry, HandleWhole, Lost, Look, Moved, Calm, Goto,
     Fail, Stop, Fault, Write, disk, recovery, control, ghosts, bounds, Drop, StopOver
<1>7. pc' # "lost" =>
        /\ wal'.sw.stage = "swapped" => txn'.sw.stage \in {"swapped", "done"}
        /\ wal'.sw.stage = "done" => txn'.sw.stage = "done" \/ txn'.sw = NoSwitch
  BY <1>1, <1>5, <1>6 DEF StageInv
<1> QED BY <1>2, <1>4, <1>7 DEF StageInv

(* An agent taken in hand has the stage the journal says.                  *)
LEMMA TurningStage ==
    ASSUME AdoptAssumption, TypeOK, ControlInv, MemoryInv, OwnerInv, StageInv,
           Turning PROVE StageInv'
<1>1. pc' \in {"next", "entry", "whole", "stopped", "settled"}
  BY DEF Turning, NextAgent, Clear, Recover, Crash, Settled, vars, Look, Moved, Calm, Goto, Fail,
     Stop, Fault, Write, disk, recovery, control, ghosts, bounds
<1>2. /\ pc' \notin EntryPcs \ {"entry", "plan"} /\ pc' \notin Copying \cup Emptying \cup TakingDown
      /\ pc' \notin {"record", "retire", "rename", "observe", "note retired", "retired", "unlink",
         "copied",
            "cleaned", "close", "plan", "start", "mkdir", "note sibling", "links", "note links",
              "check", "rebuild",
            "restart", "note swap", "move link", "see link", "check landing", "land", "note done",
            "restore link", "seen done", "backup", "close switch", "complete", "abandoned backup"}
  BY <1>1 DEF EntryPcs, WholePcs, Copying, Emptying, Switching, TakingDown, GivingUp
<1>3. wal' = wal /\ txn' \in {txn, wal}
  BY TurningFrame
<1>4. \A r \in {txn', wal'} :
        /\ r.arch.stage = "copied" => r.arch.of \in Dirs
        /\ r.sw.of = Nobody => r.sw.stage = "building"
  BY <1>3 DEF StageInv
<1>5. txn' = wal'
  <2>1. pc \in {"next", "stopped", "settled"} => txn = wal
    BY DEF MemoryInv
  <2>2. txn' = wal \/ (txn' = txn /\ pc \in {"next", "stopped", "settled"})
    BY DEF Turning, NextAgent, Clear, Recover, Crash, Settled, vars, Look, Moved, Calm, Goto,
       Fail, Stop, Fault, Write, disk, recovery, control, ghosts, bounds
  <2> QED BY <2>1, <2>2, <1>3
<1> QED BY <1>2, <1>4, <1>5 DEF StageInv

--------------------------------------------------------------------------------
(* What a step on an entry does to the disk,                               *)
LEMMA EntryDisk ==
    ASSUME AdoptAssumption, TypeOK, ControlInv, EntryMove
    PROVE  /\ pc \notin {"rename", "observe", "empty", "retire root", "rmdir", "unlink"} =>
                slot' = slot /\ aside' = aside
           /\ pc = "rename" =>
                \/ pc' = "failed" /\ err' = "plain" /\ slot[cur] = "none" /\ slot' = slot /\
                   aside' = aside
                \/ pc' = "observe" /\ slot[cur] # "none" /\ slot'[cur] = "none" /\
                   aside'[cur] = slot[cur]
           /\ pc = "observe" =>
                \/ pc' = "note retired" /\ aside[cur] = "original" /\ slot' = slot /\ aside' = aside
                \/ /\ pc' = "failed" /\ err' = "conflict" /\ aside[cur] # "original"
                   /\ IF slot[cur] = "none" THEN slot'[cur] = aside[cur] /\ aside'[cur] = "none"
                                            ELSE slot' = slot /\ aside' = aside
           /\ pc = "empty" =>
                /\ slot' = slot
                /\ \/ pc' = "failed" /\ err' = "conflict" /\ aside' = aside
                      /\ (aside[cur] \in Foreign \/ content[cur] # txn.arch.exact)
                   \/ /\ pc' = "retire root" /\ aside'[cur] = "hull"
                      /\ aside[cur] \notin Foreign /\ content[cur] = txn.arch.exact
           /\ pc = "retire root" => slot' = slot /\ aside'[cur] = "none" /\ husk' = husk \cup {cur}
           /\ pc = "rmdir" =>
                /\ slot' = slot /\ husk' = husk \ {cur}
                /\ \/ pc' = "note cleaned" /\ aside' = aside
                   \/ pc' = "failed" /\ aside'[cur] = "hull" /\ cur \in hit'
           /\ pc = "unlink" =>
                /\ slot' = slot
                /\ \/ pc' = "failed" /\ aside' = aside
                   \/ pc' = "note cleaned" /\ aside[cur] = "original" /\ cur \in noted /\
                      aside'[cur] = "none"
           /\ pc \notin {"retire root", "rmdir"} => husk' = husk
           /\ pc \notin {"fresh name", "copy", "fill"} => saved' = saved
           /\ pc = "fill" => saved'[cur] = content[cur]
           /\ pc # "plan" => noted' = noted
<1>t. /\ slot \in [Agents -> Object] /\ aside \in [Agents -> Object] /\
         saved \in [Dirs -> {"none", "part"} \cup Content]
  BY Typed
<1>c. cur \in Agents /\ (pc \in Copying => cur \in Dirs)
  BY DEF ControlInv, Agents, EntryPcs, WholePcs, Copying, Emptying, Switching, TakingDown,
     GivingUp, EntryMove, Entry, Plan, RecordPlan, Retire, RenameAside, Observe, NoteRetired,
     Retired, FreshName, CopyRoot, NoteBase, CopyTree, NoteCopied, Copied, EmptyTree, RetireRoot,
     RemoveRoot, Unlink, NoteCleaned, Cleaned, Close, Look, Moved, Calm, Goto, Fail, Stop, Fault,
     Write, disk, recovery, control, ghosts, bounds, PutBack
<1>1. pc \notin {"rename", "observe", "empty", "retire root", "rmdir", "unlink"} => slot' = slot /\
      aside' = aside
  BY DEF EntryMove, Entry, Plan, RecordPlan, Retire, RenameAside, Observe, NoteRetired, Retired,
     FreshName, CopyRoot, NoteBase, CopyTree, NoteCopied, Copied, EmptyTree, RetireRoot,
     RemoveRoot, Unlink, NoteCleaned, Cleaned, Close, Look, Moved, Calm, Goto, Fail, Stop, Fault,
     Write, disk, recovery, control, ghosts, bounds, PutBack
<1>2. pc \notin {"retire root", "rmdir"} => husk' = husk
  BY DEF EntryMove, Entry, Plan, RecordPlan, Retire, RenameAside, Observe, NoteRetired, Retired,
     FreshName, CopyRoot, NoteBase, CopyTree, NoteCopied, Copied, EmptyTree, RetireRoot,
     RemoveRoot, Unlink, NoteCleaned, Cleaned, Close, Look, Moved, Calm, Goto, Fail, Stop, Fault,
     Write, disk, recovery, control, ghosts, bounds, PutBack
<1>3. /\ pc \notin {"fresh name", "copy", "fill"} => saved' = saved
      /\ pc # "plan" => noted' = noted
  BY DEF EntryMove, Entry, Plan, RecordPlan, Retire, RenameAside, Observe, NoteRetired, Retired,
     FreshName, CopyRoot, NoteBase, CopyTree, NoteCopied, Copied, EmptyTree, RetireRoot,
     RemoveRoot, Unlink, NoteCleaned, Cleaned, Close, Look, Moved, Calm, Goto, Fail, Stop, Fault,
     Write, disk, recovery, control, ghosts, bounds, PutBack
<1>4. /\ pc = "rename" => RenameAside
      /\ pc = "observe" => Observe
      /\ pc = "empty" => EmptyTree
      /\ pc = "retire root" => RetireRoot
      /\ pc = "rmdir" => RemoveRoot
      /\ pc = "unlink" => Unlink
      /\ pc = "fill" => CopyTree
  BY EntryAt
<1>5. pc = "rename" =>
        \/ pc' = "failed" /\ err' = "plain" /\ slot[cur] = "none" /\ slot' = slot /\ aside' = aside
        \/ pc' = "observe" /\ slot[cur] # "none" /\ slot'[cur] = "none" /\ aside'[cur] = slot[cur]
  BY <1>4, <1>t, <1>c DEF RenameAside, Fail, Goto, disk
<1>6. pc = "observe" =>
        \/ pc' = "note retired" /\ aside[cur] = "original" /\ slot' = slot /\ aside' = aside
        \/ /\ pc' = "failed" /\ err' = "conflict" /\ aside[cur] # "original"
           /\ IF slot[cur] = "none" THEN slot'[cur] = aside[cur] /\ aside'[cur] = "none"
                                    ELSE slot' = slot /\ aside' = aside
  BY <1>4, <1>t, <1>c DEF Observe, PutBack, Fail, Goto, disk
<1>7. pc = "empty" =>
        /\ slot' = slot
        /\ \/ /\ pc' = "failed" /\ err' = "conflict" /\ aside' = aside
              /\ (aside[cur] \in Foreign \/ content[cur] # txn.arch.exact)
           \/ /\ pc' = "retire root" /\ aside'[cur] = "hull"
              /\ aside[cur] \notin Foreign /\ content[cur] = txn.arch.exact
  BY <1>4, <1>t, <1>c DEF EmptyTree, Fail, Goto, disk
<1>8. pc = "retire root" => slot' = slot /\ aside'[cur] = "none" /\ husk' = husk \cup {cur}
  BY <1>4, <1>t, <1>c DEF RetireRoot
<1>9. pc = "rmdir" =>
        /\ slot' = slot /\ husk' = husk \ {cur}
        /\ \/ pc' = "note cleaned" /\ aside' = aside
           \/ pc' = "failed" /\ aside'[cur] = "hull" /\ cur \in hit'
  BY <1>4, <1>t, <1>c DEF RemoveRoot, Fail, Goto, Fault
<1>10. pc = "unlink" =>
        /\ slot' = slot
        /\ \/ pc' = "failed" /\ aside' = aside
           \/ pc' = "note cleaned" /\ aside[cur] = "original" /\ cur \in noted /\
              aside'[cur] = "none"
  BY <1>4, <1>t, <1>c DEF Unlink, Fail, Goto, disk
<1>11. pc = "fill" => saved'[cur] = content[cur]
  BY <1>4, <1>t, <1>c DEF CopyTree, Copying
<1> QED BY <1>1, <1>2, <1>3, <1>5, <1>6, <1>7, <1>8, <1>9, <1>10, <1>11

(* and a step on a skills directory.                                       *)
LEMMA WholeDisk ==
    ASSUME AdoptAssumption, TypeOK, ControlInv, WholeMove
    PROVE  /\ pc \notin {"mkdir", "links", "move link", "see link", "land", "backup",
              "unlink links",
                         "rmdir sibling", "restore link", "abandoned backup"} =>
                slot' = slot /\ aside' = aside /\ sib' = sib
           /\ pc = "mkdir" => slot' = slot /\ aside' = aside /\ sib'[cur] = "part"
           /\ pc = "links" => slot' = slot /\ aside' = aside /\ sib'[cur] = "full"
           /\ pc = "move link" =>
                /\ sib' = sib
                /\ \/ pc' = "failed" /\ err' = "conflict" /\ slot[cur] = "none" /\ slot' = slot /\
                      aside' = aside
                   \/ pc' = "see link" /\ slot[cur] # "none" /\ slot'[cur] = "none" /\
                      aside'[cur] = slot[cur]
           /\ pc = "see link" =>
                /\ sib' = sib
                /\ \/ pc' = "check landing" /\ aside[cur] = "original" /\ slot' = slot /\
                      aside' = aside
                   \/ /\ pc' = "failed" /\ err' = "conflict" /\ aside[cur] # "original"
                      /\ IF slot[cur] = "none" THEN slot'[cur] = aside[cur] /\ aside'[cur] = "none"
                                               ELSE slot' = slot /\ aside' = aside
           /\ pc = "land" =>
                /\ aside' = aside
                /\ \/ pc' = "failed" /\ err' = "conflict" /\ slot[cur] # "none" /\ slot' = slot /\
                      sib' = sib
                   \/ /\ pc' = "note done" /\ slot[cur] = "none"
                      /\ slot'[cur] = "switched" /\ sib'[cur] = "none"
           /\ pc \in {"backup", "abandoned backup"} =>
                /\ slot' = slot /\ sib' = sib
                /\ \/ pc' = "failed" /\ aside' = aside
                   \/ pc' # "failed" /\ aside[cur] = "none" /\ aside' = aside
                   \/ pc' # "failed" /\ aside[cur] = "original" /\ cur \in noted /\
                      aside'[cur] = "none"
           /\ pc = "unlink links" =>
                /\ slot' = slot /\ aside' = aside
                /\ \/ pc' = "failed" /\ err' = "io" /\ sib' = sib
                   \/ pc' # "failed" /\ sib'[cur] = "part"
           /\ pc = "rmdir sibling" =>
                /\ slot' = slot /\ aside' = aside
                /\ \/ pc' = "failed" /\ err' = "io" /\ sib' = sib
                   \/ pc' # "failed" /\ sib'[cur] = "none"
           /\ pc = "restore link" =>
                /\ sib' = sib
                /\ \/ pc' = "failed" /\ err' = "conflict" /\ slot[cur] # "none" /\ slot' = slot /\
                      aside' = aside
                   \/ /\ pc' = "take down" /\ slot[cur] = "none"
                      /\ slot'[cur] = aside[cur] /\ aside'[cur] = "none"
           /\ pc # "check" => noted' = noted
<1>t. /\ slot \in [Agents -> Object] /\ aside \in [Agents -> Object]
      /\ sib \in [Wholes -> {"none", "part", "full"}]
  BY Typed
<1>c. cur \in Agents /\ cur \in Wholes
  BY DEF ControlInv, Agents, EntryPcs, WholePcs, Copying, Emptying, Switching, TakingDown,
     GivingUp, WholeMove, Whole, Start, Rebuild, Mkdir, NoteSibling, MakeLinks, NoteLinks, Check,
     NoteSwap, Complete, MoveLink, SeeLink, CheckLanding, Land, NoteDone, SeenDone, Backup,
     CloseSwitch, TakeDown, UnlinkLinks, RmdirSibling, TakenDown, Restart, Abandon, RestoreLink,
     AbandonedBackup, Look, Moved, Calm, Goto, Fail, Stop, Fault, Write, disk, recovery, control,
     ghosts, bounds, PutBack, Sibling, RemoveBackup, RemoveSiblingStep
<1>1. pc \notin {"mkdir", "links", "move link", "see link", "land", "backup", "unlink links",
                 "rmdir sibling", "restore link", "abandoned backup"} =>
        slot' = slot /\ aside' = aside /\ sib' = sib
  BY DEF WholeMove, Whole, Start, Rebuild, Mkdir, NoteSibling, MakeLinks, NoteLinks, Check,
     NoteSwap, Complete, MoveLink, SeeLink, CheckLanding, Land, NoteDone, SeenDone, Backup,
     CloseSwitch, TakeDown, UnlinkLinks, RmdirSibling, TakenDown, Restart, Abandon, RestoreLink,
     AbandonedBackup, Look, Moved, Calm, Goto, Fail, Stop, Fault, Write, disk, recovery, control,
     ghosts, bounds, PutBack, Sibling, RemoveBackup, RemoveSiblingStep
<1>2. pc # "check" => noted' = noted
  BY DEF WholeMove, Whole, Start, Rebuild, Mkdir, NoteSibling, MakeLinks, NoteLinks, Check,
     NoteSwap, Complete, MoveLink, SeeLink, CheckLanding, Land, NoteDone, SeenDone, Backup,
     CloseSwitch, TakeDown, UnlinkLinks, RmdirSibling, TakenDown, Restart, Abandon, RestoreLink,
     AbandonedBackup, Look, Moved, Calm, Goto, Fail, Stop, Fault, Write, disk, recovery, control,
     ghosts, bounds, PutBack, Sibling, RemoveBackup, RemoveSiblingStep
<1>3. /\ pc = "mkdir" => Mkdir
      /\ pc = "links" => MakeLinks
      /\ pc = "move link" => MoveLink
      /\ pc = "see link" => SeeLink
      /\ pc = "land" => Land
  BY WholeAt
<1>4. /\ pc = "backup" => Backup
      /\ pc = "abandoned backup" => AbandonedBackup
      /\ pc = "unlink links" => UnlinkLinks
      /\ pc = "rmdir sibling" => RmdirSibling
      /\ pc = "restore link" => RestoreLink
  BY WholeAt
<1>5. /\ pc = "mkdir" => slot' = slot /\ aside' = aside /\ sib'[cur] = "part"
      /\ pc = "links" => slot' = slot /\ aside' = aside /\ sib'[cur] = "full"
  BY <1>3, <1>t, <1>c DEF Mkdir, MakeLinks, Sibling
<1>6. pc = "move link" =>
        /\ sib' = sib
        /\ \/ pc' = "failed" /\ err' = "conflict" /\ slot[cur] = "none" /\ slot' = slot /\
              aside' = aside
           \/ pc' = "see link" /\ slot[cur] # "none" /\ slot'[cur] = "none" /\
              aside'[cur] = slot[cur]
  BY <1>3, <1>t, <1>c DEF MoveLink, Fail, Goto, disk
<1>7. pc = "see link" =>
        /\ sib' = sib
        /\ \/ pc' = "check landing" /\ aside[cur] = "original" /\ slot' = slot /\ aside' = aside
           \/ /\ pc' = "failed" /\ err' = "conflict" /\ aside[cur] # "original"
              /\ IF slot[cur] = "none" THEN slot'[cur] = aside[cur] /\ aside'[cur] = "none"
                                       ELSE slot' = slot /\ aside' = aside
  BY <1>3, <1>t, <1>c DEF SeeLink, PutBack, Fail, Goto, disk
<1>8. pc = "land" =>
        /\ aside' = aside
        /\ \/ pc' = "failed" /\ err' = "conflict" /\ slot[cur] # "none" /\ slot' = slot /\
              sib' = sib
           \/ /\ pc' = "note done" /\ slot[cur] = "none"
              /\ slot'[cur] = "switched" /\ sib'[cur] = "none"
  BY <1>3, <1>t, <1>c DEF Land, Fail, Goto, disk
<1>9. pc \in {"backup", "abandoned backup"} =>
        /\ slot' = slot /\ sib' = sib
        /\ \/ pc' = "failed" /\ aside' = aside
           \/ pc' # "failed" /\ aside[cur] = "none" /\ aside' = aside
           \/ pc' # "failed" /\ aside[cur] = "original" /\ cur \in noted /\ aside'[cur] = "none"
  BY <1>4, <1>t, <1>c DEF Backup, AbandonedBackup, RemoveBackup, Fail, Goto, disk
<1>10. pc = "unlink links" =>
        /\ slot' = slot /\ aside' = aside
        /\ \/ pc' = "failed" /\ err' = "io" /\ sib' = sib
           \/ pc' # "failed" /\ sib'[cur] = "part"
  BY <1>4, <1>t, <1>c DEF UnlinkLinks, RemoveSiblingStep, Sibling, Fail, Goto, disk
<1>11. pc = "rmdir sibling" =>
        /\ slot' = slot /\ aside' = aside
        /\ \/ pc' = "failed" /\ err' = "io" /\ sib' = sib
           \/ pc' # "failed" /\ sib'[cur] = "none"
  BY <1>4, <1>t, <1>c DEF RmdirSibling, RemoveSiblingStep, Sibling, Fail, Goto, disk
<1>12. pc = "restore link" =>
        /\ sib' = sib
        /\ \/ pc' = "failed" /\ err' = "conflict" /\ slot[cur] # "none" /\ slot' = slot /\
              aside' = aside
           \/ /\ pc' = "take down" /\ slot[cur] = "none"
              /\ slot'[cur] = aside[cur] /\ aside'[cur] = "none"
  BY <1>4, <1>t, <1>c DEF RestoreLink, PutBack, Fail, Goto, disk
<1> QED BY <1>1, <1>2, <1>5, <1>6, <1>7, <1>8, <1>9, <1>10, <1>11, <1>12

--------------------------------------------------------------------------------
(* What is aside while an entry is in hand,                                *)
LEMMA EntryAside ==
    ASSUME AdoptAssumption, TypeOK, ControlInv, MemoryInv, OwnerInv, StageInv, AsideInv, EntryMove
    PROVE  AsideInv'
<1>f. cur' = cur /\ pc \in EntryPcs /\ pc' \in EntryPcs \cup {"next", "failed"}
  BY EntryFrame
<1>1. pc' = "rename" => aside'[cur] = "none"
  <2>1. pc' = "rename" => pc = "retire"
    BY <1>f, EntryFlow DEF EntryPcs, WholePcs, Copying, Emptying, Switching, TakingDown, GivingUp
  <2>2. pc' = "rename" /\ pc = "retire" => aside[cur] = "none"
    BY DEF EntryMove, Entry, Plan, RecordPlan, Retire, RenameAside, Observe, NoteRetired,
       Retired, FreshName, CopyRoot, NoteBase, CopyTree, NoteCopied, Copied, EmptyTree,
       RetireRoot, RemoveRoot, Unlink, NoteCleaned, Cleaned, Close, Look, Goto, Fail
  <2> QED BY <2>1, <2>2, EntryDisk
<1>2. pc' = "rmdir" => aside'[cur] = "none"
  <2>1. pc' = "rmdir" => pc = "retire root"
    BY <1>f, EntryFlow DEF EntryPcs, WholePcs, Copying, Emptying, Switching, TakingDown, GivingUp
  <2> QED BY <2>1, EntryDisk
<1>3. pc' \in Copying => aside'[cur] = "original"
  <2>1. pc' \in Copying => pc \in Copying \cup {"retired", "note retired"}
    BY <1>f, EntryFlow DEF EntryPcs, WholePcs, Copying, Emptying, Switching, TakingDown, GivingUp
  <2>2. pc \in Copying => aside[cur] = "original" /\ aside' = aside
    BY EntryDisk DEF AsideInv, Copying
  <2>3. pc' \in Copying /\ pc = "retired" => aside[cur] = "original" /\ aside' = aside
    <3>1. pc = "retired" => Retired
      BY EntryAt
    <3>2. Retired /\ pc' \in Copying => aside[cur] = "original"
      BY DEF Retired, Goto, Fail, Copying
    <3> QED BY <3>1, <3>2, EntryDisk
  <2>4. pc' \in Copying /\ pc = "note retired" => aside[cur] = "original" /\ aside' = aside
    <3>1. pc = "note retired" => NoteRetired
      BY EntryAt
    <3>2. NoteRetired /\ pc' \in Copying => cur \in Dirs
      BY DEF NoteRetired, Write, Goto, Fail, Copying
    <3>3. cur \in Dirs => cur \notin Links
      BY AdoptAssumption DEF AdoptAssumption
    <3> QED BY <3>1, <3>2, <3>3, EntryDisk DEF AsideInv
  <2> QED BY <2>1, <2>2, <2>3, <2>4
<1>4. pc' = "retire root" => aside'[cur] = "hull"
  <2>1. pc' = "retire root" => pc = "empty"
    BY <1>f, EntryFlow DEF EntryPcs, WholePcs, Copying, Emptying, Switching, TakingDown, GivingUp
  <2> QED BY <2>1, EntryDisk
<1>5. pc' = "empty" => saved'[cur] = txn'.arch.exact
  <2>1. pc' = "empty" => pc = "copied"
    BY <1>f, EntryFlow DEF EntryPcs, WholePcs, Copying, Emptying, Switching, TakingDown, GivingUp
  <2>2. pc = "copied" => Copied
    BY EntryAt
  <2>3. Copied /\ pc' = "empty" => saved[cur] = txn.arch.exact /\ saved' = saved /\ txn' = txn
    BY DEF Copied, Goto, Fail, Look, recovery
  <2> QED BY <2>1, <2>2, <2>3
<1>6. pc' = "close" => aside'[cur] = "none"
  <2>1. pc' = "close" => pc = "cleaned"
    BY <1>f, EntryFlow DEF EntryPcs, WholePcs, Copying, Emptying, Switching, TakingDown, GivingUp
  <2>2. pc = "cleaned" => Cleaned
    BY EntryAt
  <2>3. Cleaned /\ pc' = "close" => aside[cur] = "none" /\ aside' = aside
    BY DEF Cleaned, Goto, Fail, Look, disk
  <2> QED BY <2>1, <2>2, <2>3
<1>8. pc' = "note retired" => aside'[cur] = "original" \/ cur \in Links
  <2>1. pc' = "note retired" => pc \in {"retire", "observe"}
    BY <1>f, EntryFlow DEF EntryPcs, WholePcs, Copying, Emptying, Switching, TakingDown, GivingUp
  <2>2. pc = "retire" => Retire
    BY EntryAt
  <2>3. Retire /\ pc' = "note retired" => aside' = aside /\
        (aside[cur] = "original" \/ cur \in Links)
    BY DEF Retire, Goto, Fail, Look, disk
  <2>4. pc = "observe" /\ pc' = "note retired" => aside'[cur] = "original"
    BY EntryDisk
  <2> QED BY <2>1, <2>2, <2>3, <2>4
<1>7. pc' \notin TakingDown \cup
      {"restore link", "move link", "see link", "check landing", "land", "note done",
        "close switch", "completed", "restart", "drop"}
  BY <1>f DEF EntryPcs, WholePcs, Copying, Emptying, Switching, TakingDown, GivingUp
<1> QED BY <1>f, <1>1, <1>2, <1>3, <1>4, <1>5, <1>6, <1>7, <1>8 DEF AsideInv

(* while a skills directory is,                                            *)
LEMMA WholeAside ==
    ASSUME AdoptAssumption, TypeOK, ControlInv, MemoryInv, OwnerInv, StageInv, AsideInv,
           ParkedInv, WholeMove
    PROVE  AsideInv'
<1>f. cur' = cur /\ pc \in WholePcs /\ pc' \in WholePcs \cup {"next", "failed"} /\
      hit \subseteq hit' /\ cur \in Wholes
  BY WholeFrame
<1>t. txn.sw.stage \in {"building", "swapped", "done"}
  BY Typed, Parts
<1>b. ASSUME txn.sw.of \in {cur, Nobody}, txn.sw.stage = "building" PROVE aside[cur] = "none" \/
             cur \in hit
  <2>1. cur \in hit \/ txn = wal \/ pc \in {"record", "note base", "note swap"}
    BY DEF MemoryInv
  <2>2. pc \notin {"record", "note base", "note swap"}
    BY <1>f, <1>b DEF StageInv, EntryPcs, WholePcs, Copying, Emptying, Switching, TakingDown,
       GivingUp
  <2>3. txn = wal /\ cur \notin hit => aside[cur] = "none"
    BY <1>b, <1>f DEF ParkedInv
  <2> QED BY <2>1, <2>2, <2>3
<1>n. txn.sw = NoSwitch => txn.sw.of = Nobody /\ txn.sw.stage = "building"
  BY Blank
<1>o. txn.sw.of \in {cur, Nobody}
  BY <1>f DEF OwnerInv, ControlInv, EntryPcs, WholePcs, Copying, Emptying, Switching, TakingDown,
     GivingUp
<1>1. pc' = "move link" => aside'[cur] = "none"
  <2>1. pc' = "move link" => pc = "complete" /\ aside[cur] = "none"
    BY <1>f, WholeFlow DEF EntryPcs, WholePcs, Copying, Emptying, Switching, TakingDown, GivingUp
  <2> QED BY <2>1, WholeDisk
<1>2. pc' = "restore link" => aside'[cur] = "original"
  <2>1. pc' = "restore link" => pc = "abandon" /\ aside[cur] = "original"
    BY <1>f, WholeFlow DEF EntryPcs, WholePcs, Copying, Emptying, Switching, TakingDown, GivingUp
  <2> QED BY <2>1, WholeDisk
<1>3. pc' = "see link" => aside'[cur] # "none"
  <2>1. pc' = "see link" => pc = "move link"
    BY <1>f, WholeFlow DEF EntryPcs, WholePcs, Copying, Emptying, Switching, TakingDown, GivingUp
  <2> QED BY <2>1, WholeDisk
<1>4. pc' \in {"check landing", "land", "note done"} => aside'[cur] = "original"
  <2>1. pc' \in {"check landing", "land", "note done"} =>
          \/ pc = "complete" /\ aside[cur] = "original"
          \/ pc \in {"see link", "check landing", "land"}
    BY <1>f, WholeFlow DEF EntryPcs, WholePcs, Copying, Emptying, Switching, TakingDown, GivingUp
  <2>2. pc \in {"complete", "check landing", "land"} => aside' = aside
    BY WholeDisk
  <2>3. pc = "see link" /\ pc' = "check landing" => aside'[cur] = "original"
    BY WholeDisk
  <2>4. pc = "see link" => pc' \in {"failed", "check landing"}
    BY WholeFlow
  <2> QED BY <2>1, <2>2, <2>3, <2>4 DEF AsideInv
<1>5. pc' \in {"close switch", "completed"} => aside'[cur] = "none"
  <2>1. pc' \in {"close switch", "completed"} => pc \in {"backup", "abandoned backup"}
    BY <1>f, WholeFlow DEF EntryPcs, WholePcs, Copying, Emptying, Switching, TakingDown, GivingUp
  <2> QED BY <2>1, WholeDisk
<1>6. pc' \in TakingDown \cup {"restart", "drop"} => aside'[cur] = "none" \/ cur \in hit'
  <2>1. pc' \in TakingDown \cup {"restart", "drop"} =>
          \/ pc \in TakingDown
          \/ pc = "rebuild"
          \/ pc = "abandon" /\ txn.sw.stage = "building"
          \/ pc = "abandon" /\ aside[cur] = "none"
          \/ pc = "restore link" /\ pc' # "failed"
    BY <1>f, <1>n, WholeFlow DEF EntryPcs, WholePcs, Copying, Emptying, Switching, TakingDown,
       GivingUp
  <2>2. pc \in TakingDown \cup {"rebuild", "abandon"} => aside' = aside
    BY WholeDisk DEF TakingDown
  <2>3. pc = "restore link" /\ pc' # "failed" => aside'[cur] = "none"
    BY WholeDisk
  <2>4. pc = "rebuild" => txn.sw.stage = "building"
    BY DEF StageInv
  <2>5. pc \in TakingDown => aside[cur] = "none" \/ cur \in hit
    BY DEF AsideInv
  <2> QED BY <2>1, <2>2, <2>3, <2>4, <2>5, <1>b, <1>o, <1>f
<1>7. pc' \notin Copying \cup {"note retired", "rename", "rmdir", "retire root", "empty", "close"}
  BY <1>f DEF EntryPcs, WholePcs, Copying, Emptying, Switching, TakingDown, GivingUp
<1> QED BY <1>f, <1>1, <1>2, <1>3, <1>4, <1>5, <1>6, <1>7 DEF AsideInv

(* and at every other step.                                                *)
LEMMA OtherAside ==
    ASSUME AdoptAssumption, TypeOK, ControlInv, MemoryInv, StageInv, AsideInv,
           Giving \/ Turning \/ \E a \in Agents : UserStep(a)
    PROVE  AsideInv'
<1>1. CASE Giving
  <2>1. pc' \in {"next", "lost", "abandon", "stopped"}
    BY <1>1, GivingFrame
  <2>2. pc' \notin Copying \cup TakingDown \cup
        {"note retired", "rename", "rmdir", "retire root", "empty", "close", "restore link",
          "move link", "see link", "check landing", "land", "note done", "close switch",
            "completed", "restart", "drop"}
    BY <2>1 DEF EntryPcs, WholePcs, Copying, Emptying, Switching, TakingDown, GivingUp
  <2> QED BY <2>2 DEF AsideInv
<1>2. CASE Turning
  <2>1. pc' \in {"next", "entry", "whole", "stopped", "settled"}
    BY <1>2 DEF Turning, NextAgent, Clear, Recover, Crash, Settled, vars, Look, Moved, Calm,
       Goto, Fail, Stop, Fault, Write, disk, recovery, control, ghosts, bounds
  <2>2. pc' \notin Copying \cup TakingDown \cup
        {"note retired", "rename", "rmdir", "retire root", "empty", "close", "restore link",
          "move link", "see link", "check landing", "land", "note done", "close switch",
            "completed", "restart", "drop"}
    BY <2>1 DEF EntryPcs, WholePcs, Copying, Emptying, Switching, TakingDown, GivingUp
  <2> QED BY <2>2 DEF AsideInv
<1>3. CASE \E a \in Agents : UserStep(a)
  <2>1. PICK a \in Agents : UserStep(a)
    BY <1>3
  <2>2. UNCHANGED <<aside, husk, sib, saved, noted, wal, txn, pc, todo, cur, err, hit, over>>
    BY <2>1, UserLeaves
  <2> QED BY <2>2 DEF AsideInv
<1> QED BY <1>1, <1>2, <1>3

--------------------------------------------------------------------------------
(* Nothing of theirs is lost.                                              *)
LEMMA UserDisk ==
    ASSUME AdoptAssumption, TypeOK, NEW a \in Agents, UserStep(a)
    PROVE  /\ \A b \in Agents \ {a} : slot'[b] = slot[b] /\ content'[b] = content[b] /\
              bound'[b] = bound[b]
           /\ \/ slot' = slot /\ vacated' = vacated
              \/ slot'[a] \in Foreign /\ vacated' = vacated \ {a}
              \/ slot'[a] = "none" /\ vacated' = vacated \cup {a}
           /\ touched' = touched \cup {a}
           /\ astray \subseteq astray'
<1>t. /\ slot \in [Agents -> Object] /\ content \in [Agents -> Content] /\
         bound \in [Agents -> BOOLEAN]
  BY Typed
<1>1. \A b \in Agents \ {a} : slot'[b] = slot[b] /\ content'[b] = content[b] /\ bound'[b] = bound[b]
  BY <1>t DEF UserStep, UserPut, UserTake, UserEdit, UserMoveParent, Changes, recovery, control
<1>2. \/ slot' = slot /\ vacated' = vacated
      \/ slot'[a] \in Foreign /\ vacated' = vacated \ {a}
      \/ slot'[a] = "none" /\ vacated' = vacated \cup {a}
  BY <1>t DEF UserStep, UserPut, UserTake, UserEdit, UserMoveParent, Changes, recovery, control
<1>3. touched' = touched \cup {a} /\ astray \subseteq astray'
  BY DEF UserStep, UserPut, UserTake, UserEdit, UserMoveParent, Changes, recovery, control
<1> QED BY <1>1, <1>2, <1>3

(* Users own what was captured and what they put there, nothing of fu's.   *)
LEMMA TheirsKnown ==
    ASSUME AdoptAssumption, TypeOK, ControlInv, MemoryInv, StageInv, TheirsInv,
           Next PROVE TheirsInv'
<1>1. CASE theirs' = theirs
  BY <1>1 DEF TheirsInv
<1>2. CASE \E a \in Agents : UserStep(a)
  BY <1>2 DEF TheirsInv, UserStep, UserPut, UserTake, UserEdit, UserMoveParent, Changes,
     recovery, control
<1>3. CASE EntryMove
  BY <1>1, <1>3, EntryFrame
<1>4. CASE WholeMove
  BY <1>1, <1>4, WholeFrame
<1>5. CASE Giving
  BY <1>1, <1>5, GivingFrame
<1>6. CASE Turning
  BY <1>1, <1>6, TurningFrame
<1> QED BY <1>2, <1>3, <1>4, <1>5, <1>6, NextIs

(* A step on an entry loses nothing of theirs: it moves, is put back, or   *)
(* is removed once recovery/ has it.                                       *)
LEMMA EntryKeeps ==
    ASSUME AdoptAssumption, TypeOK, ControlInv, MemoryInv, OwnerInv, StageInv, AsideInv,
           TheirsInv, TheirsKept, EntryMove
    PROVE  TheirsKept'
<1> SUFFICES ASSUME NEW p \in theirs
             PROVE  p[2] \in {slot'[p[1]], aside'[p[1]]} \/ (p[2] = "original" /\ Preserved(p[1])')
  BY EntryFrame DEF TheirsKept
<1>f. /\ cur \in Entries /\ cur \in Agents /\ pc \in EntryPcs /\ content' = content /\ cur' = cur
      /\ noted \subseteq noted'
      /\ \A a \in Agents \ {cur} : slot'[a] = slot[a] /\ aside'[a] = aside[a] /\
         (a \in Dirs => saved'[a] = saved[a])
  BY EntryFrame
<1>p. p[1] \in Agents /\ p[2] \in {"original"} \cup Foreign /\ p[2] \notin {"none", "hull"}
  BY AdoptAssumption DEF TheirsInv, AdoptAssumption
<1>k. p[2] \in {slot[p[1]], aside[p[1]]} \/ (p[2] = "original" /\ Preserved(p[1]))
  BY DEF TheirsKept
<1>1. CASE p[1] # cur
  BY <1>1, <1>f, <1>p, <1>k DEF Preserved
<1>2. CASE p[1] = cur
  <2>1. CASE pc \notin {"rename", "observe", "empty", "retire root", "rmdir", "unlink"} \cup Copying
    <3>1. slot' = slot /\ aside' = aside /\ saved' = saved
      BY <2>1, EntryDisk DEF Copying
    <3> QED BY <3>1, <1>k, <1>f DEF Preserved
  <2>2. CASE pc \in Copying
    <3>1. slot' = slot /\ aside' = aside /\ aside[cur] = "original"
      BY <2>2, EntryDisk DEF Copying, AsideInv
    <3> QED BY <3>1, <1>k, <1>2
  <2>3. CASE pc \in {"rename", "observe", "retire root", "rmdir"}
    <3>1. saved' = saved
      BY <2>3, EntryDisk
    <3>2. Preserved(p[1]) => Preserved(p[1])'
      BY <3>1, <1>f DEF Preserved
    <3>3. p[2] \in {slot[cur], aside[cur]} => p[2] \in {slot'[cur], aside'[cur]}
      <4>1. CASE pc = "rename"
        BY <4>1, <1>p, EntryDisk DEF AsideInv
      <4>2. CASE pc = "observe"
        BY <4>2, <1>p, EntryDisk
      <4>3. CASE pc = "retire root"
        BY <4>3, <1>p, EntryDisk DEF AsideInv
      <4>4. CASE pc = "rmdir"
        BY <4>4, <1>p, EntryDisk DEF AsideInv
      <4> QED BY <2>3, <4>1, <4>2, <4>3, <4>4
    <3> QED BY <3>2, <3>3, <1>k, <1>2
  <2>4. CASE pc = "empty"
    <3>1. saved' = saved /\ saved[cur] = txn.arch.exact /\ cur \in Dirs
      BY <2>4, EntryDisk DEF AsideInv, ControlInv, Emptying
    <3>2. Preserved(p[1]) => Preserved(p[1])'
      BY <3>1, <1>f DEF Preserved
    <3>3. CASE aside' = aside
      BY <3>2, <3>3, <2>4, <1>k, <1>2, EntryDisk
    <3>4. CASE aside[cur] \notin Foreign /\ content[cur] = txn.arch.exact /\ slot' = slot
      <4>1. Preserved(p[1])'
        BY <3>1, <3>4, <1>2, <1>f DEF Preserved
      <4>2. p[2] = aside[cur] => p[2] = "original"
        BY <3>4, <1>p
      <4> QED BY <4>1, <4>2, <3>4, <1>k, <1>2
    <3> QED BY <3>3, <3>4, <2>4, EntryDisk
  <2>5. CASE pc = "unlink"
    <3>1. saved' = saved /\ cur \in Links /\ cur \notin Dirs /\ slot' = slot
      BY <2>5, EntryDisk, AdoptAssumption DEF ControlInv, AdoptAssumption
    <3>2. Preserved(p[1]) => Preserved(p[1])'
      BY <3>1, <1>f DEF Preserved
    <3>3. CASE aside' = aside
      BY <3>1, <3>2, <3>3, <1>k, <1>2
    <3>4. CASE aside[cur] = "original" /\ cur \in noted
      <4>1. Preserved(p[1])'
        BY <3>1, <3>4, <1>2, <1>f DEF Preserved
      <4> QED BY <4>1, <3>1, <3>4, <1>k, <1>2
    <3> QED BY <3>3, <3>4, <2>5, EntryDisk
  <2> QED BY <2>1, <2>2, <2>3, <2>4, <2>5
<1> QED BY <1>1, <1>2

(* A step on a skills directory loses nothing of theirs.                   *)
LEMMA WholeKeeps ==
    ASSUME AdoptAssumption, TypeOK, ControlInv, MemoryInv, OwnerInv, StageInv, AsideInv,
           TheirsInv, TheirsKept, WholeMove
    PROVE  TheirsKept'
<1> SUFFICES ASSUME NEW p \in theirs
             PROVE  p[2] \in {slot'[p[1]], aside'[p[1]]} \/ (p[2] = "original" /\ Preserved(p[1])')
  BY WholeFrame DEF TheirsKept
<1>f. /\ cur \in Wholes /\ cur \in Agents /\ cur \notin Entries /\ pc \in WholePcs /\
         content' = content /\ saved' = saved
      /\ noted \subseteq noted'
      /\ \A a \in Agents \ {cur} : slot'[a] = slot[a] /\ aside'[a] = aside[a]
  BY WholeFrame
<1>p. p[1] \in Agents /\ p[2] \in {"original"} \cup Foreign /\
      p[2] \notin {"none", "hull", "switched"}
  BY AdoptAssumption DEF TheirsInv, AdoptAssumption
<1>k. p[2] \in {slot[p[1]], aside[p[1]]} \/ (p[2] = "original" /\ Preserved(p[1]))
  BY DEF TheirsKept
<1>3. Preserved(p[1]) => Preserved(p[1])'
  BY <1>f DEF Preserved
<1>1. CASE p[1] # cur
  BY <1>1, <1>f, <1>p, <1>k, <1>3
<1>2. CASE p[1] = cur
  <2>1. CASE pc \notin {"move link", "see link", "land", "backup", "restore link",
        "abandoned backup"}
    <3>1. slot' = slot /\ aside' = aside
      BY <2>1, WholeDisk
    <3> QED BY <3>1, <1>k, <1>3
  <2>2. CASE pc \in {"move link", "see link", "land", "restore link"}
    <3>1. p[2] \in {slot[cur], aside[cur]} => p[2] \in {slot'[cur], aside'[cur]}
      BY <2>2, <1>p, WholeDisk DEF AsideInv
    <3> QED BY <3>1, <1>3, <1>k, <1>2
  <2>3. CASE pc \in {"backup", "abandoned backup"}
    <3>1. slot' = slot
      BY <2>3, WholeDisk
    <3>2. CASE aside' = aside
      BY <3>1, <3>2, <1>k, <1>3
    <3>3. CASE aside[cur] = "original" /\ cur \in noted
      <4>1. Preserved(p[1])'
        BY <3>3, <1>2, <1>f DEF Preserved, Entries
      <4> QED BY <4>1, <3>1, <3>3, <1>k, <1>2
    <3> QED BY <3>2, <3>3, <2>3, WholeDisk
  <2> QED BY <2>1, <2>2, <2>3
<1> QED BY <1>1, <1>2

(* No other step touches what is theirs, but for its owner.                *)
LEMMA OthersKeep ==
    ASSUME AdoptAssumption, TypeOK, ControlInv, MemoryInv, TheirsInv, TheirsKept,
           Giving \/ Turning \/ \E a \in Agents : UserStep(a)
    PROVE  TheirsKept'
<1>1. CASE Giving \/ Turning
  <2>1. UNCHANGED <<slot, aside, content, saved, noted, theirs>>
    BY <1>1, GivingFrame, TurningFrame DEF disk, recovery
  <2> QED BY <2>1 DEF TheirsKept, Preserved
<1>2. ASSUME NEW a \in Agents, UserStep(a) PROVE TheirsKept'
  <2>t. /\ slot \in [Agents -> Object] /\ content \in [Agents -> Content]
    BY Typed
  <2>u. UNCHANGED <<aside, saved, noted>>
    BY <1>2, UserLeaves
  <2>1. CASE UserPut(a) \/ UserTake(a)
    <3>1. content' = content
      BY <2>1 DEF UserPut, UserTake
    <3>2. ASSUME NEW p \in theirs'
          PROVE  p[2] \in {slot'[p[1]], aside'[p[1]]} \/ (p[2] = "original" /\ Preserved(p[1])')
      <4>1. \/ p \in theirs /\ p # <<a, slot[a]>>
            \/ p = <<a, slot'[a]>>
        BY <2>1, <3>2, <2>t DEF UserPut, UserTake
      <4>2. CASE p = <<a, slot'[a]>>
        BY <4>2
      <4>3. CASE p \in theirs /\ p # <<a, slot[a]>>
        <5>1. p[2] \in {slot[p[1]], aside[p[1]]} \/ (p[2] = "original" /\ Preserved(p[1]))
          BY <4>3 DEF TheirsKept
        <5>2. p[1] \in Agents /\ p = <<p[1], p[2]>>
          BY <4>3 DEF TheirsInv
        <5>3. p[2] = slot[p[1]] => p[1] # a
          BY <4>3, <5>2
        <5>4. p[1] # a => slot'[p[1]] = slot[p[1]]
          BY <5>2, <1>2, UserDisk
        <5>5. Preserved(p[1]) => Preserved(p[1])'
          BY <3>1, <2>u DEF Preserved
        <5> QED BY <5>1, <5>3, <5>4, <5>5, <2>u
      <4> QED BY <4>1, <4>2, <4>3
    <3> QED BY <3>2 DEF TheirsKept
  <2>2. CASE UserEdit(a)
    <3>1. slot' = slot /\ theirs' = theirs /\ (a \in Dirs => slot[a] = "original")
      BY <2>2 DEF UserEdit
    <3>2. ASSUME NEW p \in theirs
          PROVE  p[2] \in {slot[p[1]], aside[p[1]]} \/ (p[2] = "original" /\ Preserved(p[1])')
      <4>1. p[2] \in {slot[p[1]], aside[p[1]]} \/ (p[2] = "original" /\ Preserved(p[1]))
        BY DEF TheirsKept
      <4>2. p[1] \in Agents
        BY DEF TheirsInv
      <4>3. p[1] # a => content'[p[1]] = content[p[1]]
        BY <4>2, <1>2, UserDisk
      <4>4. p[1] # a \/ p[1] \notin Dirs => (Preserved(p[1]) => Preserved(p[1])')
        BY <4>3, <2>u DEF Preserved
      <4>5. p[1] = a /\ p[1] \in Dirs /\ p[2] = "original" => p[2] = slot[p[1]]
        BY <3>1
      <4> QED BY <4>1, <4>4, <4>5
    <3> QED BY <3>1, <3>2, <2>u DEF TheirsKept
  <2>3. CASE UserMoveParent(a)
    <3>1. slot' = slot /\ theirs' = theirs /\ content' = content
      BY <2>3 DEF UserMoveParent
    <3> QED BY <3>1, <2>u DEF TheirsKept, Preserved
  <2> QED BY <1>2, <2>1, <2>2, <2>3 DEF UserStep
<1> QED BY <1>1, <1>2

--------------------------------------------------------------------------------
(* What is there is there once.                                            *)
LEMMA EntryOnce ==
    ASSUME AdoptAssumption, TypeOK, ControlInv, MemoryInv, StageInv, AsideInv, OnceInv,
           EntryMove PROVE OnceInv'
<1>f. /\ cur \in Agents /\ pc' \in EntryPcs \cup {"next", "failed"} /\ cur \notin Wholes /\
         sib' = sib
      /\ \A a \in Agents \ {cur} : slot'[a] = slot[a] /\ aside'[a] = aside[a]
  BY EntryFrame
<1>1. ~(slot'[cur] = "original" /\ aside'[cur] = "original")
  <2>1. CASE pc \notin {"rename", "observe", "empty", "retire root", "rmdir", "unlink"}
    BY <2>1, <1>f, EntryDisk DEF OnceInv
  <2>2. CASE pc \in {"rename", "observe"}
    BY <2>2, <1>f, EntryDisk DEF OnceInv
  <2>3. CASE pc \in {"empty", "retire root", "rmdir", "unlink"}
    BY <2>3, <1>f, EntryDisk DEF OnceInv
  <2> QED BY <2>1, <2>2, <2>3
<1>2. \A a \in Wholes : slot'[a] = slot[a]
  BY <1>f DEF Agents
<1>3. pc' \notin {"mkdir", "note sibling", "links", "unlink links", "move link", "see link"}
  BY <1>f DEF EntryPcs, WholePcs, Copying, Emptying, Switching, TakingDown, GivingUp
<1> QED BY <1>f, <1>1, <1>2, <1>3 DEF OnceInv

(* A step on a skills directory leaves each object one name.               *)
LEMMA WholeOnce ==
    ASSUME AdoptAssumption, TypeOK, ControlInv, MemoryInv, StageInv, AsideInv, OnceInv,
           WholeMove PROVE OnceInv'
<1>f. /\ cur \in Agents /\ cur \in Wholes /\ pc \in WholePcs /\ cur' = cur
      /\ \A a \in Agents \ {cur} : slot'[a] = slot[a] /\ aside'[a] = aside[a] /\
         (a \in Wholes => sib'[a] = sib[a])
  BY WholeFrame
<1>1. ~(slot'[cur] = "original" /\ aside'[cur] = "original")
  <2>1. CASE pc \notin {"move link", "see link", "land", "backup", "restore link",
        "abandoned backup"}
    BY <2>1, <1>f, WholeDisk DEF OnceInv
  <2>2. CASE pc \in {"move link", "see link", "land"}
    BY <2>2, <1>f, WholeDisk DEF OnceInv
  <2>3. CASE pc \in {"backup", "restore link", "abandoned backup"}
    BY <2>3, <1>f, WholeDisk DEF OnceInv
  <2> QED BY <2>1, <2>2, <2>3
<1>2. slot'[cur] = "switched" => sib'[cur] = "none"
  <2>1. CASE pc \notin {"mkdir", "links", "see link", "land", "unlink links", "rmdir sibling",
        "restore link", "move link"}
    BY <2>1, <1>f, WholeDisk DEF OnceInv
  <2>2. CASE pc \in {"mkdir", "links", "unlink links"}
    BY <2>2, <1>f, WholeDisk DEF OnceInv
  <2>3. CASE pc \in {"land", "rmdir sibling", "move link"}
    BY <2>3, <1>f, WholeDisk DEF OnceInv
  <2>4. CASE pc \in {"see link", "restore link"}
    <3>1. sib' = sib /\ slot'[cur] \in {slot[cur], aside[cur]}
      BY <2>4, WholeDisk
    <3>2. aside[cur] # "switched"
      BY <2>4 DEF OnceInv, AsideInv
    <3> QED BY <3>1, <3>2, <1>f DEF OnceInv
  <2> QED BY <2>1, <2>2, <2>3, <2>4
<1>3. pc' \in {"mkdir", "note sibling", "links", "unlink links", "move link"} =>
      slot'[cur] # "switched"
  <2>1. pc' \in {"mkdir", "note sibling", "links", "unlink links", "move link"} =>
          \/ pc = "start" /\ pc' = "mkdir"
          \/ pc \in {"mkdir", "note sibling"}
          \/ pc = "take down" /\ pc' = "unlink links"
          \/ pc = "complete" /\ slot[cur] = "original"
    BY <1>f, WholeFlow DEF EntryPcs, WholePcs, Copying, Emptying, Switching, TakingDown, GivingUp
  <2>2. pc \in {"start", "mkdir", "note sibling", "take down", "complete"} => slot' = slot
    BY WholeDisk
  <2>3. pc = "start" /\ pc' = "mkdir" => slot[cur] = "original"
    BY DEF WholeMove, Whole, Start, Rebuild, Mkdir, NoteSibling, MakeLinks, NoteLinks, Check,
       NoteSwap, Complete, MoveLink, SeeLink, CheckLanding, Land, NoteDone, SeenDone, Backup,
       CloseSwitch, TakeDown, UnlinkLinks, RmdirSibling, TakenDown, Restart, Abandon,
       RestoreLink, AbandonedBackup, Look, Moved, Calm, Goto, Fail, Stop, Fault, Write, disk,
       recovery, control, ghosts, bounds, PutBack, Sibling, RemoveBackup, RemoveSiblingStep
  <2>4. pc = "take down" /\ pc' = "unlink links" => sib[cur] = "full"
    BY DEF WholeMove, Whole, Start, Rebuild, Mkdir, NoteSibling, MakeLinks, NoteLinks, Check,
       NoteSwap, Complete, MoveLink, SeeLink, CheckLanding, Land, NoteDone, SeenDone, Backup,
       CloseSwitch, TakeDown, UnlinkLinks, RmdirSibling, TakenDown, Restart, Abandon,
       RestoreLink, AbandonedBackup, Look, Moved, Calm, Goto, Fail, Stop, Fault, Write, disk,
       recovery, control, ghosts, bounds, PutBack, Sibling, RemoveBackup, RemoveSiblingStep
  <2>5. sib[cur] = "full" => slot[cur] # "switched"
    BY <1>f DEF OnceInv
  <2> QED BY <2>1, <2>2, <2>3, <2>4, <2>5 DEF OnceInv
<1>4. pc' = "see link" => aside'[cur] # "switched"
  <2>1. pc' = "see link" => pc = "move link"
    BY <1>f, WholeFlow DEF EntryPcs, WholePcs, Copying, Emptying, Switching, TakingDown, GivingUp
  <2> QED BY <2>1, WholeDisk DEF OnceInv
<1> QED BY <1>f, <1>1, <1>2, <1>3, <1>4 DEF OnceInv, Agents

(* No other step gives an object a second name.                            *)
LEMMA OtherOnce ==
    ASSUME AdoptAssumption, TypeOK, ControlInv, MemoryInv, OnceInv,
           Giving \/ Turning \/ \E a \in Agents : UserStep(a)
    PROVE  OnceInv'
<1>1. CASE Giving \/ Turning
  <2>1. UNCHANGED <<slot, aside, sib>>
    BY <1>1, GivingFrame, TurningFrame DEF disk
  <2>2. pc' \notin {"mkdir", "note sibling", "links", "unlink links", "move link", "see link"}
    <3>1. CASE Giving
      BY <3>1, GivingFrame
    <3>2. CASE Turning
      BY <3>2 DEF Turning, NextAgent, Clear, Recover, Crash, Settled, vars, Look, Moved, Calm,
         Goto, Fail, Stop, Fault, Write, disk, recovery, control, ghosts, bounds
    <3> QED BY <3>1, <3>2, <1>1
  <2> QED BY <2>1, <2>2 DEF OnceInv
<1>2. ASSUME NEW a \in Agents, UserStep(a) PROVE OnceInv'
  <2>1. UNCHANGED <<aside, sib, pc, cur>>
    BY <1>2, UserLeaves
  <2>2. \A b \in Agents : slot'[b] = slot[b] \/ slot'[b] \in Foreign \cup {"none"}
    BY <1>2, UserDisk
  <2>3. \A f \in Foreign \cup {"none"} : f \notin {"original", "switched"}
    BY AdoptAssumption DEF AdoptAssumption
  <2>4. pc \in {"mkdir", "note sibling", "links", "unlink links", "move link"} => cur \in Agents
    BY DEF ControlInv, Agents, EntryPcs, WholePcs, Copying, Emptying, Switching, TakingDown,
       GivingUp
  <2>5. \A b \in Wholes : b \in Agents
    BY DEF Agents
  <2> QED BY <2>1, <2>2, <2>3, <2>4, <2>5 DEF OnceInv
<1> QED BY <1>1, <1>2

--------------------------------------------------------------------------------
(* No user is without a skills directory.                                  *)
LEMMA WholePresent ==
    ASSUME AdoptAssumption, TypeOK, ControlInv, MemoryInv, OwnerInv, StageInv, AsideInv,
           PresentInv, NeverStripped,
           WholeMove
    PROVE  PresentInv'
<1>f. /\ cur \in Agents /\ cur \in Wholes /\ pc \in WholePcs /\ cur' = cur /\ vacated' = vacated
      /\ pc' \in WholePcs \cup {"next", "failed"}
  BY WholeFrame
<1>n. txn.sw = NoSwitch => txn.sw.stage = "building"
  BY Blank
<1>1. txn.sw.stage = "building" => Present(cur)
  BY <1>f DEF StageInv, NeverStripped, Present, EntryPcs, WholePcs, Copying, Emptying, Switching,
     TakingDown, GivingUp
<1>2. CASE pc' \in TakingDown \cup {"rebuild", "restart", "drop"}
  <2>1. \/ pc \in {"whole", "abandon"} /\ txn.sw.stage = "building"
        \/ pc \in TakingDown \cup {"rebuild"}
        \/ pc = "abandon" /\ slot[cur] # "none"
        \/ pc = "restore link" /\ pc' = "take down"
    BY <1>2, <1>f, <1>n, WholeFlow DEF EntryPcs, WholePcs, Copying, Emptying, Switching,
       TakingDown, GivingUp
  <2>2. pc \in TakingDown \cup {"rebuild", "whole", "abandon"} => slot' = slot
    BY WholeDisk DEF TakingDown
  <2>3. pc = "restore link" /\ pc' = "take down" => slot'[cur] = "original"
    BY WholeDisk DEF AsideInv
  <2>4. pc \in TakingDown \cup {"rebuild"} => Present(cur)
    BY DEF PresentInv
  <2> QED BY <1>2, <2>1, <2>2, <2>3, <2>4, <1>1, <1>f DEF PresentInv, Present
<1>3. CASE pc' \in {"note done", "seen done", "backup", "close switch", "abandoned backup",
      "completed"}
  <2>1. \/ pc \in {"complete", "abandon"} /\ slot[cur] = "switched"
        \/ pc = "land" /\ pc' = "note done"
        \/ pc \in {"note done", "seen done", "backup", "abandoned backup"}
    BY <1>3, <1>f, WholeFlow DEF EntryPcs, WholePcs, Copying, Emptying, Switching, TakingDown,
       GivingUp
  <2>2. pc \in {"complete", "abandon", "note done", "seen done", "backup", "abandoned backup"} =>
        slot' = slot
    BY WholeDisk
  <2>3. pc = "land" /\ pc' = "note done" => slot'[cur] = "switched"
    BY WholeDisk
  <2>4. pc \in {"note done", "seen done", "backup", "abandoned backup"} => Present(cur)
    BY DEF PresentInv
  <2> QED BY <1>3, <2>1, <2>2, <2>3, <2>4, <1>f DEF PresentInv, Present
<1>4. CASE pc' \notin TakingDown \cup
      {"rebuild", "restart", "note done", "seen done", "backup", "close switch",
              "abandoned backup", "completed", "drop"}
  BY <1>4 DEF PresentInv
<1> QED BY <1>2, <1>3, <1>4

(* No other step makes a skills directory of no one's doing vanish.        *)
LEMMA OtherPresent ==
    ASSUME AdoptAssumption, TypeOK, ControlInv, MemoryInv, StageInv, PresentInv,
           EntryMove \/ Giving \/ Turning \/ \E a \in Agents : UserStep(a)
    PROVE  PresentInv'
<1> DEFINE Late == TakingDown \cup
  {"rebuild", "restart", "note done", "seen done", "backup", "close switch",
                                    "abandoned backup", "completed", "drop"}
<1>1. CASE EntryMove
  <2>1. pc' \in EntryPcs \cup {"next", "failed"}
    BY <1>1, EntryFrame
  <2>2. pc' \notin Late
    BY <2>1 DEF EntryPcs, WholePcs, Copying, Emptying, Switching, TakingDown, GivingUp
  <2> QED BY <2>2 DEF PresentInv
<1>2. CASE Giving
  <2>1. pc' \in {"next", "lost", "abandon", "stopped"}
    BY <1>2, GivingFrame
  <2>2. pc' \notin Late
    BY <2>1 DEF TakingDown
  <2> QED BY <2>2 DEF PresentInv
<1>3. CASE Turning
  <2>1. pc' \in {"next", "entry", "whole", "stopped", "settled"}
    BY <1>3 DEF Turning, NextAgent, Clear, Recover, Crash, Settled, vars, Look, Moved, Calm,
       Goto, Fail, Stop, Fault, Write, disk, recovery, control, ghosts, bounds
  <2>2. pc' \notin Late
    BY <2>1 DEF TakingDown
  <2> QED BY <2>2 DEF PresentInv
<1>4. ASSUME NEW a \in Agents, UserStep(a) PROVE PresentInv'
  <2>1. pc' = pc /\ cur' = cur
    BY <1>4, UserLeaves
  <2>2. \A b \in Agents : Present(b) => (slot'[b] = "none" => b \in vacated')
    <3>1. \A f \in Foreign : f # "none"
      BY AdoptAssumption DEF AdoptAssumption
    <3> QED BY <3>1, <1>4, UserDisk DEF Present
  <2>3. pc \in Late => cur \in Agents
    BY DEF ControlInv, Agents, EntryPcs, WholePcs, Copying, Emptying, Switching, TakingDown,
       GivingUp
  <2> QED BY <2>1, <2>2, <2>3 DEF PresentInv, Present
<1> QED BY <1>1, <1>2, <1>3, <1>4

(* A step on a skills directory leaves it empty only in a swap the journal *)
(* names.                                                                  *)
LEMMA WholeStrips ==
    ASSUME AdoptAssumption, TypeOK, ControlInv, MemoryInv, OwnerInv, StageInv, AsideInv,
           PresentInv, NeverStripped,
           WholeMove
    PROVE  NeverStripped'
<1>f. /\ cur \in Agents /\ cur \in Wholes /\ cur # Nobody /\ pc \in WholePcs /\ vacated' = vacated
      /\ wal' = wal \/ wal' = txn'
      /\ \A a \in Agents \ {cur} : slot'[a] = slot[a] /\ aside'[a] = aside[a]
  BY WholeFrame
<1>o. txn.sw.of \in {cur, Nobody} /\ wal.sw.of \in {cur, Nobody}
  BY <1>f DEF OwnerInv, ControlInv, EntryPcs, WholePcs, Copying, Emptying, Switching, TakingDown,
     GivingUp
<1>1. ASSUME NEW a \in Wholes, a # cur, slot'[a] = "none" PROVE a \in vacated'
  <2>1. a \in Agents /\ a # Nobody
    BY AdoptAssumption DEF AdoptAssumption, Agents
  <2> QED BY <2>1, <1>1, <1>f, <1>o DEF NeverStripped
<1>2. ASSUME slot'[cur] = "none", cur \notin vacated
      PROVE  wal'.sw.of = cur /\ wal'.sw.stage = "swapped" /\ aside'[cur] # "none"
  <2>1. pc \notin TakingDown \cup
        {"rebuild", "restart", "note done", "seen done", "backup", "close switch",
              "abandoned backup", "completed", "drop"}
    <3>1. pc \in TakingDown \cup
          {"rebuild", "restart", "note done", "seen done", "backup", "close switch",
              "abandoned backup", "completed", "drop"} => slot' = slot /\ Present(cur)
      BY WholeFlow, WholeDisk DEF PresentInv, TakingDown
    <3> QED BY <3>1, <1>2 DEF Present
  <2>2. CASE pc = "move link"
    <3>1. txn = wal /\ txn.sw.of = cur /\ txn.sw.stage = "swapped" /\ txn' = txn
      BY <2>2, SwitchStep DEF MemoryInv, StageInv, TakingDown, GivingUp
    <3>2. aside'[cur] # "none"
      <4>1. slot[cur] # "none" => aside'[cur] # "none"
        BY <2>2, <1>2, WholeDisk
      <4>2. slot[cur] = "none" => aside[cur] # "none"
        BY <1>2, <1>f DEF NeverStripped
      <4> QED BY <4>1, <4>2, <2>2, WholeDisk
    <3> QED BY <3>1, <3>2, <1>f
  <2>3. CASE pc # "move link"
    <3>1. slot[cur] = "none" /\ aside' = aside
      <4>1. pc \in {"see link", "land", "restore link"} => aside[cur] # "none"
        BY DEF AsideInv
      <4>2. CASE pc \in {"see link", "land", "restore link"}
        BY <4>1, <4>2, <1>2, WholeDisk
      <4>3. CASE pc \notin {"see link", "land", "restore link"}
        <5>1. slot' = slot /\ aside' = aside
          BY <4>3, <2>1, <2>3, WholeDisk DEF TakingDown
        <5> QED BY <5>1, <1>2
      <4> QED BY <4>2, <4>3
    <3>2. wal.sw.of = cur /\ wal.sw.stage = "swapped" /\ aside[cur] # "none"
      BY <3>1, <1>2, <1>f DEF NeverStripped
    <3>3. CASE wal' = wal
      BY <3>1, <3>2, <3>3
    <3>4. CASE wal' = txn'
      <4>1. txn.sw.stage \in {"swapped", "done"}
        BY <3>2, <1>f DEF StageInv, EntryPcs, WholePcs, Copying, Emptying, Switching, TakingDown,
           GivingUp
      <4>2. pc \notin {"start", "note sibling", "check"}
        BY <4>1 DEF StageInv
      <4>3. txn' = txn
        BY <4>2, <2>1, SwitchStep
      <4>4. txn.sw.stage = "swapped"
        <5>1. txn = wal \/ pc = "note swap" \/ pc \in GivingUp
          BY <1>f, <2>1 DEF MemoryInv, StageInv, EntryPcs, WholePcs, Copying, Emptying,
             Switching, TakingDown, GivingUp
        <5>2. pc = "note swap" => txn.sw.stage = "swapped"
          BY DEF StageInv
        <5>3. pc \in GivingUp => wal' = wal
          BY DEF GivingUp, WholeMove, Whole, Start, Rebuild, Mkdir, NoteSibling, MakeLinks,
             NoteLinks, Check, NoteSwap, Complete, MoveLink, SeeLink, CheckLanding, Land,
             NoteDone, SeenDone, Backup, CloseSwitch, TakeDown, UnlinkLinks, RmdirSibling,
             TakenDown, Restart, Abandon, RestoreLink, AbandonedBackup, Look, Moved, Calm, Goto,
             Fail, Stop, Fault, Write, disk, recovery, control, ghosts, bounds, PutBack, Sibling,
             RemoveBackup, RemoveSiblingStep
        <5> QED BY <5>1, <5>2, <5>3, <3>2, <3>4, <4>3
      <4>5. txn.sw.of = cur
        BY <1>o, <4>4 DEF StageInv
      <4> QED BY <3>4, <4>3, <4>4, <4>5, <3>1, <3>2
    <3> QED BY <3>3, <3>4, <1>f
  <2> QED BY <2>2, <2>3
<1> QED BY <1>1, <1>2, <1>f DEF NeverStripped

(* No other step leaves one empty.                                         *)
LEMMA OthersStrip ==
    ASSUME AdoptAssumption, TypeOK, ControlInv, MemoryInv, OwnerInv, StageInv, PresentInv,
           NeverStripped,
           EntryMove \/ Giving \/ Turning \/ \E a \in Agents : UserStep(a)
    PROVE  NeverStripped'
<1>w. \A a \in Wholes : a \in Agents /\ a # Nobody /\ a \notin Entries
  BY AdoptAssumption DEF AdoptAssumption, Agents
<1>1. CASE EntryMove
  <2>1. /\ vacated' = vacated /\ wal'.sw = wal.sw /\ cur \notin Wholes
        /\ \A a \in Agents \ {cur} : slot'[a] = slot[a] /\ aside'[a] = aside[a]
    BY <1>1, EntryFrame
  <2> QED BY <2>1, <1>w DEF NeverStripped
<1>2. CASE Turning
  <2>1. UNCHANGED <<slot, aside, vacated, wal>>
    BY <1>2, TurningFrame DEF disk
  <2> QED BY <2>1 DEF NeverStripped
<1>3. CASE Giving
  <2>1. UNCHANGED <<slot, aside, vacated>>
    BY <1>3, GivingFrame DEF disk
  <2>2. CASE wal'.sw = wal.sw
    BY <2>1, <2>2 DEF NeverStripped
  <2>3. CASE wal'.sw # wal.sw
    <3>1. pc \in {"completed", "drop"}
      <4>1. Completed \/ DropWhole \/ HandleEntry \/ wal' = wal
        BY <1>3 DEF Giving, Completed, DropWhole, HandleEntry, HandleWhole, Lost, Look, Moved,
           Calm, Goto, Fail, Stop, Fault, Write, disk, recovery, control, ghosts, bounds, Drop,
           StopOver
      <4>2. HandleEntry => wal'.sw = wal.sw
        <5>1. HandleEntry => pc = "failed" /\ cur \in Entries /\ (wal' = wal \/ wal' = Without(cur))
          BY DEF Giving, Completed, DropWhole, HandleEntry, HandleWhole, Lost, Look, Moved, Calm,
             Goto, Fail, Stop, Fault, Write, disk, recovery, control, ghosts, bounds, Drop,
             StopOver
        <5>2. pc = "failed" /\ cur \in Entries => txn.sw = wal.sw
          BY DEF MemoryInv
        <5>3. cur \in Entries => Without(cur).sw = txn.sw
          <6>1. cur \in Entries => cur \in Agents /\ cur \notin Wholes
            BY AdoptAssumption DEF AdoptAssumption, Agents
          <6> QED BY <6>1, Dropped
        <5> QED BY <5>1, <5>2, <5>3
      <4>3. Completed => pc = "completed"
        BY DEF Completed
      <4>4. DropWhole => pc = "drop"
        BY DEF DropWhole
      <4> QED BY <4>1, <4>2, <4>3, <4>4, <2>3
    <3>2. Present(cur) /\ wal.sw.of \in {cur, Nobody}
      BY <3>1 DEF PresentInv, OwnerInv, WholePcs, GivingUp
    <3>3. \A a \in Wholes : slot[a] = "none" => a \in vacated
      BY <3>2, <1>w DEF NeverStripped, Present
    <3> QED BY <3>3, <2>1 DEF NeverStripped
  <2> QED BY <2>2, <2>3
<1>4. ASSUME NEW b \in Agents, UserStep(b) PROVE NeverStripped'
  <2>1. UNCHANGED <<aside, wal>>
    BY <1>4, UserLeaves
  <2>2. \A f \in Foreign : f # "none"
    BY AdoptAssumption DEF AdoptAssumption
  <2>3. \A a \in Agents : slot'[a] = "none" => a \in vacated' \/
        (slot[a] = "none" /\ a \notin vacated)
    BY <1>4, <2>2, UserDisk
  <2> QED BY <2>1, <2>3, <1>w DEF NeverStripped
<1> QED BY <1>1, <1>2, <1>3, <1>4

--------------------------------------------------------------------------------
(* Nothing is left aside that no record names.                             *)
LEMMA EntryFails ==
    ASSUME AdoptAssumption, TypeOK, ControlInv, MemoryInv, OwnerInv, StageInv, AsideInv,
           ParkedInv, EntryMove,
           pc' = "failed"
    PROVE  /\ err' = "gone" => aside'[cur] = "none"
           /\ err' \in {"plain", "target"} /\ txn'.arch.of = cur /\ txn'.arch.stage = "planned" =>
                aside'[cur] = "none" \/ cur \in hit' \cup astray'
<1>f. cur \in Agents /\ cur # Nobody /\ astray' = astray /\ pc \in EntryPcs
  BY EntryFrame
<1>1. CASE pc = "entry"
  <2>1. Entry
    BY <1>1, EntryAt
  <2>3. txn.arch.stage \in {"planned", "retired", "copied", "cleaned"}
    BY Typed, Parts
  <2>2. err' # "gone" /\ txn' = txn /\ (~bound[cur] \/ txn.arch.of # cur)
    BY <2>1, <2>3 DEF Entry, Fail, Goto, Look
  <2> QED BY <2>2, <1>f DEF ParkedInv
<1>2. CASE pc = "plan"
  <2>1. err' # "gone"
    BY <1>2 DEF EntryMove, Entry, Plan, RecordPlan, Retire, RenameAside, Observe, NoteRetired,
       Retired, FreshName, CopyRoot, NoteBase, CopyTree, NoteCopied, Copied, EmptyTree,
       RetireRoot, RemoveRoot, Unlink, NoteCleaned, Cleaned, Close, Look, Moved, Calm, Goto,
       Fail, Stop, Fault, Write, disk, recovery, control, ghosts, bounds, PutBack
  <2>2. txn'.arch.of = Nobody
    BY <1>2, ArchStep DEF StageInv
  <2> QED BY <2>1, <2>2, <1>f
<1>3. CASE pc \in {"record", "note retired", "fresh name", "note base", "note copied",
      "note cleaned", "close", "rmdir"}
  <2>1. err' = "plain" /\ cur \in hit'
    BY <1>3 DEF EntryMove, Entry, Plan, RecordPlan, Retire, RenameAside, Observe, NoteRetired,
       Retired, FreshName, CopyRoot, NoteBase, CopyTree, NoteCopied, Copied, EmptyTree,
       RetireRoot, RemoveRoot, Unlink, NoteCleaned, Cleaned, Close, Look, Moved, Calm, Goto,
       Fail, Stop, Fault, Write, disk, recovery, control, ghosts, bounds, PutBack
  <2> QED BY <2>1
<1>4. CASE pc = "retire"
  <2>1. Retire
    BY <1>4, EntryAt
  <2>2. aside' = aside /\ (err' = "conflict" \/ aside[cur] = "none")
    BY <2>1 DEF Retire, Fail, Goto, Look, disk
  <2> QED BY <2>2
<1>5. CASE pc = "retired"
  <2>1. Retired
    BY <1>5, EntryAt
  <2>2. aside' = aside /\ (err' = "conflict" \/ aside[cur] = "none")
    BY <2>1 DEF Retired, Fail, Goto, Look, disk
  <2> QED BY <2>2
<1>6. CASE pc \in {"rename", "copied", "observe", "empty", "cleaned"}
  <2>1. err' = "conflict" \/ (pc = "rename" /\ err' = "plain" /\ aside' = aside)
    BY <1>6 DEF EntryMove, Entry, Plan, RecordPlan, Retire, RenameAside, Observe, NoteRetired,
       Retired, FreshName, CopyRoot, NoteBase, CopyTree, NoteCopied, Copied, EmptyTree,
       RetireRoot, RemoveRoot, Unlink, NoteCleaned, Cleaned, Close, Look, Moved, Calm, Goto,
       Fail, Stop, Fault, Write, disk, recovery, control, ghosts, bounds, PutBack
  <2> QED BY <2>1 DEF AsideInv
<1>7. CASE pc = "copy"
  <2>1. err' = "plain"
    BY <1>7 DEF EntryMove, Entry, Plan, RecordPlan, Retire, RenameAside, Observe, NoteRetired,
       Retired, FreshName, CopyRoot, NoteBase, CopyTree, NoteCopied, Copied, EmptyTree,
       RetireRoot, RemoveRoot, Unlink, NoteCleaned, Cleaned, Close, Look, Moved, Calm, Goto,
       Fail, Stop, Fault, Write, disk, recovery, control, ghosts, bounds, PutBack
  <2>2. txn'.arch.stage = "retired"
    BY <1>7, ArchStep DEF StageInv, Copying
  <2> QED BY <2>1, <2>2
<1>8. CASE pc = "unlink"
  <2>1. err' = "conflict" \/ (err' = "plain" /\ cur \in hit')
    BY <1>8 DEF EntryMove, Entry, Plan, RecordPlan, Retire, RenameAside, Observe, NoteRetired,
       Retired, FreshName, CopyRoot, NoteBase, CopyTree, NoteCopied, Copied, EmptyTree,
       RetireRoot, RemoveRoot, Unlink, NoteCleaned, Cleaned, Close, Look, Moved, Calm, Goto,
       Fail, Stop, Fault, Write, disk, recovery, control, ghosts, bounds, PutBack
  <2> QED BY <2>1
<1>9. pc \notin {"retire root", "fill"}
  BY DEF EntryMove, Entry, Plan, RecordPlan, Retire, RenameAside, Observe, NoteRetired, Retired,
     FreshName, CopyRoot, NoteBase, CopyTree, NoteCopied, Copied, EmptyTree, RetireRoot,
     RemoveRoot, Unlink, NoteCleaned, Cleaned, Close, Look, Moved, Calm, Goto, Fail, Stop, Fault,
     Write, disk, recovery, control, ghosts, bounds, PutBack
<1> QED BY <1>f, <1>1, <1>2, <1>3, <1>4, <1>5, <1>6, <1>7, <1>8, <1>9 DEF EntryPcs, Copying,
           Emptying

(* A step on an entry leaves nothing aside that the journal does not name. *)
LEMMA EntryParks ==
    ASSUME AdoptAssumption, TypeOK, ControlInv, MemoryInv, OwnerInv, StageInv, AsideInv,
           ParkedInv, EntryMove
    PROVE  ParkedInv'
<1>f. /\ cur \in Entries /\ cur \notin Wholes /\ cur \in Agents /\ cur # Nobody
      /\ pc \in EntryPcs /\ pc' \in EntryPcs \cup {"next", "failed"}
      /\ UNCHANGED <<sib, bound, astray, cur>>
      /\ wal' = wal \/ wal' = txn'
      /\ wal'.sw = wal.sw /\ txn'.sw = txn.sw
      /\ hit \subseteq hit'
      /\ \A a \in Agents \ {cur} : aside'[a] = aside[a] /\ (a \in husk' <=> a \in husk)
  BY EntryFrame
<1>1. \A a \in husk' : a \in hit' \/ (a = cur /\ pc' = "rmdir")
  <2>1. ASSUME NEW a \in husk', a # cur PROVE a \in hit'
    <3>1. husk' \subseteq Agents
      BY EntryDisk, Typed, <1>f DEF Agents, Entries
    <3> QED BY <3>1, <2>1, <1>f DEF ParkedInv
  <2>2. cur \in husk' => cur \in hit' \/ pc' = "rmdir"
    <3>1. CASE pc = "retire root"
      <4>1. pc' = "rmdir"
        BY <3>1 DEF EntryMove, Entry, Plan, RecordPlan, Retire, RenameAside, Observe,
           NoteRetired, Retired, FreshName, CopyRoot, NoteBase, CopyTree, NoteCopied, Copied,
           EmptyTree, RetireRoot, RemoveRoot, Unlink, NoteCleaned, Cleaned, Close, Look, Moved,
           Calm, Goto, Fail, Stop, Fault, Write, disk, recovery, control, ghosts, bounds, PutBack
      <4> QED BY <4>1
    <3>2. CASE pc = "rmdir"
      BY <3>2, EntryDisk
    <3>3. CASE pc \notin {"retire root", "rmdir"}
      BY <3>3, EntryDisk, <1>f DEF ParkedInv
    <3> QED BY <3>1, <3>2, <3>3
  <2> QED BY <2>1, <2>2
<1>2. ASSUME NEW a \in Entries, a \notin hit' \cup astray, aside'[a] # "none" PROVE wal'.arch.of = a
  <2>1. CASE a # cur
    <3>1. wal.arch.of = a /\ a # Nobody
      BY <2>1, <1>2, <1>f, AdoptAssumption DEF ParkedInv, Agents, AdoptAssumption
    <3>2. wal.arch.of \in {cur, Nobody}
      BY <1>f DEF OwnerInv, ControlInv, EntryPcs, WholePcs, Copying, Emptying, Switching,
         TakingDown, GivingUp
    <3> QED BY <3>1, <3>2, <2>1
  <2>2. CASE a = cur
    <3>1. cur \notin hit /\ (txn = wal \/ pc \in {"record", "note base"})
      BY <2>2, <1>2, <1>f DEF MemoryInv, EntryPcs, WholePcs, Copying, Emptying, Switching,
         TakingDown, GivingUp
    <3>2. CASE pc \in {"entry", "plan"}
      <4>1. wal' = wal /\ aside' = aside
        BY <3>2, EntryDisk DEF EntryMove, Entry, Plan, RecordPlan, Retire, RenameAside, Observe,
           NoteRetired, Retired, FreshName, CopyRoot, NoteBase, CopyTree, NoteCopied, Copied,
           EmptyTree, RetireRoot, RemoveRoot, Unlink, NoteCleaned, Cleaned, Close, Look, Moved,
           Calm, Goto, Fail, Stop, Fault, Write, disk, recovery, control, ghosts, bounds, PutBack
      <4> QED BY <4>1, <2>2, <1>2, <1>f DEF ParkedInv
    <3>3. CASE pc \notin {"entry", "plan", "close"}
      <4>1. txn.arch.of = cur /\ txn'.arch.of = cur
        BY <3>3, <1>f, ArchStep DEF StageInv
      <4>2. pc \in {"record", "note base"} => wal' = txn' \/ cur \in hit'
        BY DEF EntryMove, Entry, Plan, RecordPlan, Retire, RenameAside, Observe, NoteRetired,
           Retired, FreshName, CopyRoot, NoteBase, CopyTree, NoteCopied, Copied, EmptyTree,
           RetireRoot, RemoveRoot, Unlink, NoteCleaned, Cleaned, Close, Look, Moved, Calm, Goto,
           Fail, Stop, Fault, Write, disk, recovery, control, ghosts, bounds, PutBack
      <4> QED BY <4>1, <4>2, <3>1, <2>2, <1>2, <1>f
    <3>4. CASE pc = "close"
      BY <3>4, <2>2, <1>2, EntryDisk DEF AsideInv
    <3> QED BY <3>2, <3>3, <3>4
  <2> QED BY <2>1, <2>2
<1>3. \A a \in Wholes \ hit' :
        /\ aside'[a] # "none" => wal'.sw.of = a /\ wal'.sw.stage # "building"
        /\ sib'[a] # "none" => wal'.sw.of = a
  BY <1>f DEF ParkedInv, Agents
<1>4. pc' \notin {"taken down", "restart", "close switch", "drop", "completed", "note done",
      "abandoned backup",
                  "unlink links"}
  BY <1>f DEF EntryPcs, WholePcs, Copying, Emptying, Switching, TakingDown, GivingUp
<1>5. \A r \in {txn', wal'} : r.sw.stage = "done" => sib'[r.sw.of] = "none" \/ r.sw.of \in hit'
  BY <1>f DEF ParkedInv
<1>6. pc' = "failed" =>
        /\ err' = "gone" => aside'[cur] = "none"
        /\ err' \in {"plain", "target"} /\ txn'.arch.of = cur /\ txn'.arch.stage = "planned" =>
             aside'[cur] = "none" \/ cur \in hit' \cup astray'
  BY EntryFails
<1> QED BY <1>f, <1>1, <1>2, <1>3, <1>4, <1>5, <1>6 DEF ParkedInv

(* A step on a skills directory leaves nothing aside that it does not      *)
(* name.                                                                   *)
LEMMA WholeParks ==
    ASSUME AdoptAssumption, TypeOK, ControlInv, MemoryInv, OwnerInv, StageInv, AsideInv, OnceInv,
           ParkedInv, WholeMove
    PROVE  ParkedInv'
<1>f. /\ cur \in Wholes /\ cur \notin Entries /\ cur \in Agents /\ cur # Nobody
      /\ pc \in WholePcs /\ pc' \in WholePcs \cup {"next", "failed"}
      /\ UNCHANGED <<husk, bound, astray, cur>>
      /\ wal' = wal \/ wal' = txn'
      /\ wal'.arch = wal.arch
      /\ hit \subseteq hit'
      /\ \A a \in Agents \ {cur} : aside'[a] = aside[a] /\ (a \in Wholes => sib'[a] = sib[a])
  BY WholeFrame
<1>w. \A a \in Wholes : a \in Agents /\ a # Nobody /\ a \notin Entries
  BY AdoptAssumption DEF AdoptAssumption, Agents
<1>t. txn.sw.of \in Wholes \cup {Nobody} /\ wal.sw.of \in Wholes \cup {Nobody} /\
      txn.sw.stage \in {"building", "swapped", "done"}
  BY Typed, Parts
<1>o. txn.sw.of \in {cur, Nobody} /\ wal.sw.of \in {cur, Nobody}
  BY <1>f DEF OwnerInv, ControlInv, EntryPcs, WholePcs, Copying, Emptying, Switching, TakingDown,
     GivingUp
<1>n. txn.sw.of = Nobody => txn.sw.stage = "building"
  BY DEF StageInv
<1>k. txn.sw = NoSwitch => txn.sw.of = Nobody
  BY Blank
<1>1. \A a \in husk : a \in hit'
  <2>1. pc # "rmdir"
    BY <1>f DEF EntryPcs, WholePcs, Copying, Emptying, Switching, TakingDown, GivingUp
  <2> QED BY <2>1, <1>f DEF ParkedInv
<1>2. \A a \in Entries \ (hit' \cup astray) : aside'[a] # "none" => wal'.arch.of = a
  BY <1>f DEF ParkedInv, Agents
<1>3. ASSUME NEW a \in Wholes \ hit', a # cur PROVE aside'[a] = "none" /\ sib'[a] = "none"
  BY <1>3, <1>f, <1>o, <1>w DEF ParkedInv
<1>m. cur \notin hit => txn = wal \/ pc = "note swap"
  BY <1>f DEF MemoryInv, EntryPcs, WholePcs, Copying, Emptying, Switching, TakingDown, GivingUp
<1>4. pc' \in {"taken down", "restart", "close switch", "drop", "completed", "note done",
      "abandoned backup"} =>
        sib'[cur] = "none" \/ cur \in hit'
  <2>1. pc' \in {"taken down", "restart", "close switch", "drop", "completed", "note done",
        "abandoned backup"} =>
          \/ pc = "rebuild" /\ pc' = "restart"
          \/ pc = "take down" /\ pc' = "taken down"
          \/ pc = "rmdir sibling" /\ pc' # "failed"
          \/ pc \in {"taken down", "abandoned backup"}
          \/ pc = "backup" /\ pc' # "failed"
          \/ pc \in {"complete", "abandon"} /\ slot[cur] = "switched"
          \/ pc = "land" /\ pc' = "note done"
          \/ pc = "abandon" /\ txn.sw = NoSwitch
    BY <1>f, WholeFlow DEF EntryPcs, WholePcs, Copying, Emptying, Switching, TakingDown, GivingUp
  <2>2. pc \in {"rebuild", "take down", "taken down", "abandoned backup", "backup", "complete",
        "abandon"} => sib' = sib
    BY WholeDisk
  <2>3. /\ pc = "rebuild" /\ pc' = "restart" => sib[cur] = "none"
        /\ pc = "take down" /\ pc' = "taken down" => sib[cur] = "none"
    BY DEF WholeMove, Whole, Start, Rebuild, Mkdir, NoteSibling, MakeLinks, NoteLinks, Check,
       NoteSwap, Complete, MoveLink, SeeLink, CheckLanding, Land, NoteDone, SeenDone, Backup,
       CloseSwitch, TakeDown, UnlinkLinks, RmdirSibling, TakenDown, Restart, Abandon,
       RestoreLink, AbandonedBackup, Look, Moved, Calm, Goto, Fail, Stop, Fault, Write, disk,
       recovery, control, ghosts, bounds, PutBack, Sibling, RemoveBackup, RemoveSiblingStep
  <2>4. pc = "rmdir sibling" /\ pc' # "failed" => sib'[cur] = "none"
    BY WholeDisk
  <2>5. pc \in {"taken down", "abandoned backup"} => sib[cur] = "none" \/ cur \in hit
    BY DEF ParkedInv
  <2>6. pc = "backup" => sib[cur] = "none" \/ cur \in hit
    <3>1. pc = "backup" => txn.sw.stage = "done" /\ txn.sw.of = cur
      BY <1>o, <1>n DEF StageInv
    <3> QED BY <3>1 DEF ParkedInv
  <2>7. slot[cur] = "switched" => sib[cur] = "none"
    BY <1>f DEF OnceInv
  <2>8. pc = "land" /\ pc' = "note done" => sib'[cur] = "none"
    BY WholeDisk
  <2>9. pc = "abandon" /\ txn.sw = NoSwitch => sib[cur] = "none" \/ cur \in hit
    BY <1>k, <1>m, <1>f DEF ParkedInv
  <2> QED BY <2>1, <2>2, <2>3, <2>4, <2>5, <2>6, <2>7, <2>8, <2>9, <1>f
<1>5. pc' = "unlink links" => sib'[cur] # "none"
  <2>1. pc' = "unlink links" => pc = "take down"
    BY <1>f, WholeFlow DEF EntryPcs, WholePcs, Copying, Emptying, Switching, TakingDown, GivingUp
  <2>2. pc = "take down" /\ pc' = "unlink links" => sib[cur] = "full"
    BY DEF WholeMove, Whole, Start, Rebuild, Mkdir, NoteSibling, MakeLinks, NoteLinks, Check,
       NoteSwap, Complete, MoveLink, SeeLink, CheckLanding, Land, NoteDone, SeenDone, Backup,
       CloseSwitch, TakeDown, UnlinkLinks, RmdirSibling, TakenDown, Restart, Abandon,
       RestoreLink, AbandonedBackup, Look, Moved, Calm, Goto, Fail, Stop, Fault, Write, disk,
       recovery, control, ghosts, bounds, PutBack, Sibling, RemoveBackup, RemoveSiblingStep
  <2> QED BY <2>1, <2>2, WholeDisk
<1>6. ASSUME cur \notin hit', wal' = wal
      PROVE  /\ aside'[cur] # "none" => wal.sw.of = cur /\ wal.sw.stage # "building"
             /\ sib'[cur] # "none" => wal.sw.of = cur
  <2>1. /\ aside[cur] # "none" => wal.sw.of = cur /\ wal.sw.stage # "building"
        /\ sib[cur] # "none" => wal.sw.of = cur
    BY <1>6, <1>f DEF ParkedInv
  <2>2. aside'[cur] # "none" => aside[cur] # "none" \/ pc = "move link"
    BY WholeDisk
  <2>3. sib'[cur] # "none" => sib[cur] # "none" \/ pc \in {"mkdir", "links"}
    BY WholeDisk DEF ParkedInv
  <2>4. pc \in {"move link", "mkdir", "links"} => txn = wal /\ txn.sw.of = cur
    BY <1>6, <1>m, <1>f DEF StageInv
  <2>5. pc = "move link" => txn.sw.stage # "building"
    BY DEF StageInv
  <2> QED BY <2>1, <2>2, <2>3, <2>4, <2>5
<1>7. ASSUME cur \notin hit', wal' = txn', txn' # txn
      PROVE  /\ aside'[cur] # "none" => txn'.sw.of = cur /\ txn'.sw.stage # "building"
             /\ sib'[cur] # "none" => txn'.sw.of = cur
  <2>1. /\ aside[cur] # "none" => wal.sw.of = cur /\ wal.sw.stage # "building"
        /\ sib[cur] # "none" => wal.sw.of = cur
    BY <1>7, <1>f DEF ParkedInv
  <2>2. pc \in {"start", "note sibling", "note done", "close switch", "restart"}
    <3>1. pc = "check" => wal' = wal
      BY DEF WholeMove, Whole, Start, Rebuild, Mkdir, NoteSibling, MakeLinks, NoteLinks, Check,
         NoteSwap, Complete, MoveLink, SeeLink, CheckLanding, Land, NoteDone, SeenDone, Backup,
         CloseSwitch, TakeDown, UnlinkLinks, RmdirSibling, TakenDown, Restart, Abandon,
         RestoreLink, AbandonedBackup, Look, Moved, Calm, Goto, Fail, Stop, Fault, Write, disk,
         recovery, control, ghosts, bounds, PutBack, Sibling, RemoveBackup, RemoveSiblingStep
    <3>2. pc = "check" => txn = wal
      BY <1>m, <1>7, <1>f
    <3> QED BY <3>1, <3>2, <1>7, SwitchStep
  <2>3. txn = wal /\ aside' = aside /\ sib' = sib
    BY <2>2, <1>m, <1>7, <1>f, WholeDisk
  <2>4. CASE pc = "start"
    BY <2>1, <2>3, <2>4, <1>f DEF StageInv
  <2>5. CASE pc = "note sibling"
    <3>1. txn.sw.of = cur /\ txn.sw.stage = "building" /\ txn'.sw.of = txn.sw.of
      BY <2>5, SwitchStep DEF StageInv
    <3> QED BY <2>1, <2>3, <3>1
  <2>6. CASE pc = "note done"
    <3>1. txn.sw.of = cur /\ txn'.sw.of = txn.sw.of /\ txn'.sw.stage = "done"
      BY <2>6, SwitchStep DEF StageInv
    <3> QED BY <3>1
  <2>7. CASE pc \in {"close switch", "restart"}
    BY <2>7, <2>3, <1>7, <1>f DEF AsideInv, ParkedInv
  <2> QED BY <2>2, <2>4, <2>5, <2>6, <2>7
<1>8. ASSUME cur \notin hit', wal' = txn', txn' = txn
      PROVE  /\ aside'[cur] # "none" => txn'.sw.of = cur /\ txn'.sw.stage # "building"
             /\ sib'[cur] # "none" => txn'.sw.of = cur
  <2>1. CASE txn = wal
    BY <2>1, <1>6, <1>8
  <2>2. CASE pc = "note swap"
    BY <2>2, <1>8 DEF StageInv
  <2> QED BY <2>1, <2>2, <1>m, <1>8, <1>f
<1>9. \A a \in Wholes \ hit' :
        /\ aside'[a] # "none" => wal'.sw.of = a /\ wal'.sw.stage # "building"
        /\ sib'[a] # "none" => wal'.sw.of = a
  BY <1>3, <1>6, <1>7, <1>8, <1>f
<1>10. \A r \in {txn', wal'} : r.sw.stage = "done" => sib'[r.sw.of] = "none" \/ r.sw.of \in hit'
  <2>1. ASSUME txn'.sw.stage = "done" PROVE txn'.sw.of = cur /\ (sib'[cur] = "none" \/ cur \in hit')
    <3>1. CASE pc = "note done"
      <4>1. txn'.sw.of = cur
        BY <3>1, SwitchStep DEF StageInv
      <4>2. sib' = sib /\ (sib[cur] = "none" \/ cur \in hit)
        BY <3>1, WholeDisk DEF ParkedInv
      <4> QED BY <4>1, <4>2, <1>f
    <3>2. CASE pc # "note done"
      <4>1. txn.sw.stage = "done" /\ txn' = txn
        <5>1. pc = "note sibling" => txn'.sw.stage = "building"
          BY SwitchStep DEF StageInv
        <5> QED BY <5>1, <3>2, <2>1, SwitchStep, Blank
      <4>2. txn.sw.of = cur
        BY <4>1, <1>o, <1>n
      <4>3. sib[cur] = "none" \/ cur \in hit
        BY <4>1, <4>2 DEF ParkedInv
      <4>4. pc \notin {"mkdir", "links"}
        BY <4>1 DEF StageInv
      <4>5. sib[cur] = "none" => sib'[cur] = "none"
        BY <4>4, WholeDisk DEF ParkedInv
      <4> QED BY <4>1, <4>2, <4>3, <4>5, <1>f
    <3> QED BY <3>1, <3>2
  <2>2. ASSUME wal.sw.stage = "done" PROVE wal.sw.of = cur /\ (sib'[cur] = "none" \/ cur \in hit')
    <3>1. wal.sw.of = cur
      BY <2>2, <1>o DEF StageInv
    <3>2. sib[cur] = "none" \/ cur \in hit
      BY <2>2, <3>1 DEF ParkedInv
    <3>3. pc \notin {"mkdir", "links"}
      <4>1. pc \in {"mkdir", "links"} => txn.sw.stage = "building" /\ txn.sw.of = cur /\ pc # "lost"
        BY DEF StageInv
      <4>2. txn.sw.stage = "done" \/ txn.sw = NoSwitch \/ pc = "lost"
        BY <2>2 DEF StageInv
      <4> QED BY <4>1, <4>2, <1>k, <1>f
    <3>4. sib[cur] = "none" => sib'[cur] = "none"
      BY <3>3, WholeDisk DEF ParkedInv
    <3> QED BY <3>1, <3>2, <3>4, <1>f
  <2> QED BY <2>1, <2>2, <1>f
<1> QED BY <1>f, <1>1, <1>2, <1>4, <1>5, <1>9, <1>10 DEF ParkedInv

(* An agent is given up with nothing aside, unless its path led elsewhere. *)
LEMMA GivingParks ==
    ASSUME AdoptAssumption, TypeOK, ControlInv, MemoryInv, OwnerInv, StageInv, AsideInv,
           ParkedInv, Giving
    PROVE  ParkedInv'
<1>f. /\ cur \in Agents /\ pc' \in {"next", "lost", "abandon", "stopped"}
      /\ UNCHANGED <<aside, husk, sib, bound, astray>>
      /\ hit \subseteq hit'
  BY GivingFrame DEF disk
<1>w. \A a \in Wholes : a \in Agents /\ a # Nobody /\ a \notin Entries
  BY AdoptAssumption DEF AdoptAssumption, Agents
<1>e. \A a \in Entries : a \in Agents /\ a # Nobody /\ a \notin Wholes
  BY AdoptAssumption DEF AdoptAssumption, Agents
<1>1. \A a \in husk : a \in hit'
  <2>1. pc # "rmdir"
    BY DEF Giving, Completed, DropWhole, HandleEntry, HandleWhole, Lost, Look, Moved, Calm, Goto,
       Fail, Stop, Fault, Write, disk, recovery, control, ghosts, bounds, Drop, StopOver
  <2> QED BY <2>1, <1>f DEF ParkedInv
<1>2. pc' \notin {"taken down", "restart", "close switch", "drop", "completed", "note done",
      "abandoned backup",
                  "unlink links", "failed", "rmdir"}
  BY <1>f
<1>3. \A r \in {txn', wal'} : r.sw \in {txn.sw, wal.sw, NoSwitch}
  <2>1. \A a \in Agents : Without(a).sw \in {txn.sw, NoSwitch} /\ Switch(NoSwitch).sw = NoSwitch
    BY Dropped
  <2> QED BY <2>1, GivingRecords
<1>4. \A r \in {txn', wal'} : r.sw.stage = "done" => sib'[r.sw.of] = "none" \/ r.sw.of \in hit'
  BY <1>3, <1>f, Blank DEF ParkedInv
<1>a. \A a \in Entries \ (hit' \cup astray) : aside[a] # "none" => wal.arch.of = a
  BY <1>f DEF ParkedInv
<1>b. \A a \in Wholes \ hit' :
        /\ aside[a] # "none" => wal.sw.of = a /\ wal.sw.stage # "building"
        /\ sib[a] # "none" => wal.sw.of = a
  BY <1>f DEF ParkedInv
<1>5. CASE wal' = wal
  BY <1>f, <1>1, <1>2, <1>4, <1>5, <1>a, <1>b DEF ParkedInv
<1>6. CASE wal' # wal
  <2>1. \/ HandleEntry /\ pc = "failed" /\ cur \in Entries /\ Isolates
        \/ pc \in {"completed", "drop"} /\ cur \in Wholes
    <3>1. HandleEntry /\ wal' # wal => Isolates
      BY DEF HandleEntry, StopOver
    <3>2. (HandleEntry => pc = "failed" /\ cur \in Entries) /\ (Completed => pc = "completed") /\
          (DropWhole => pc = "drop")
      BY DEF HandleEntry, Completed, DropWhole
    <3>3. pc \in {"completed", "drop"} => cur \in Wholes
      BY DEF ControlInv, WholePcs, GivingUp
    <3>4. HandleWhole \/ Lost => wal' = wal
      BY DEF HandleWhole, Lost, StopOver, Goto, Look
    <3> QED BY <3>1, <3>2, <3>3, <3>4, <1>6 DEF Giving
  <2>2. /\ cur \in Entries => wal'.arch = NoArchive /\ wal'.sw = txn.sw
        /\ cur \in Wholes => wal'.arch = txn.arch /\ wal'.sw = NoSwitch
    <3>1. wal' = txn' /\ txn' # wal
      BY <1>6, GivingRecords
    <3>2. txn' = Without(cur) \/ (txn' = Switch(NoSwitch) /\ cur \in Wholes)
      <4>1. Completed => txn' = Switch(NoSwitch) /\ cur \in Wholes
        BY DEF Completed, ControlInv, WholePcs, GivingUp
      <4>2. DropWhole => txn' = Without(cur)
        BY DEF DropWhole, Drop
      <4>3. HandleEntry => txn' = Without(cur) \/ wal' = wal
        BY DEF HandleEntry, Drop, StopOver
      <4>4. HandleWhole \/ Lost => wal' = wal
        BY DEF HandleWhole, Lost, StopOver, Goto, Look
      <4> QED BY <1>6, <4>1, <4>2, <4>3, <4>4 DEF Giving
    <3> QED BY <3>1, <3>2, <1>f, <1>e, <1>w, Dropped
  <2>3. CASE HandleEntry /\ pc = "failed" /\ cur \in Entries /\ Isolates
    <3>1. txn.sw = wal.sw /\ txn.arch.of \in {cur, Nobody} /\ wal.arch.of \in {cur, Nobody}
      BY <2>3 DEF MemoryInv, OwnerInv
    <3>2. ASSUME NEW a \in Entries \ (hit' \cup astray) PROVE aside[a] = "none"
      <4>1. CASE a # cur
        BY <3>1, <3>2, <4>1, <1>a, <1>e
      <4>2. CASE a = cur
        <5>1. txn = wal
          BY <2>3, <3>2, <4>2, <1>f DEF MemoryInv, EntryPcs, WholePcs, Copying, Emptying,
             Switching, TakingDown, GivingUp
        <5>2. CASE txn.arch = NoArchive
          BY <5>1, <5>2, <3>2, <1>a, <1>e, Blank
        <5>3. CASE err = "gone"
          BY <5>3, <2>3, <4>2 DEF ParkedInv
        <5>4. CASE err \in {"plain", "target"} /\ txn.arch.of = cur /\ txn.arch.stage = "planned"
          BY <5>4, <2>3, <4>2, <3>2, <1>f DEF ParkedInv
        <5> QED BY <5>2, <5>3, <5>4, <2>3 DEF Isolates
      <4> QED BY <4>1, <4>2
    <3>3. \A a \in Wholes \ hit' :
            /\ aside[a] # "none" => wal'.sw.of = a /\ wal'.sw.stage # "building"
            /\ sib[a] # "none" => wal'.sw.of = a
      BY <2>2, <2>3, <3>1, <1>b
    <3> QED BY <1>f, <1>1, <1>2, <1>4, <3>2, <3>3 DEF ParkedInv
  <2>4. CASE pc \in {"completed", "drop"} /\ cur \in Wholes
    <3>1. txn.arch = wal.arch /\ wal.sw.of \in {cur, Nobody}
      BY <2>4 DEF MemoryInv, OwnerInv, WholePcs, GivingUp
    <3>2. \A a \in Entries \ (hit' \cup astray) : aside[a] # "none" => wal'.arch.of = a
      BY <2>2, <2>4, <3>1, <1>a
    <3>3. ASSUME NEW a \in Wholes \ hit' PROVE aside[a] = "none" /\ sib[a] = "none"
      <4>1. CASE a # cur
        BY <3>1, <3>3, <4>1, <1>b, <1>w
      <4>2. CASE a = cur
        BY <2>4, <3>3, <4>2, <1>f DEF ParkedInv, AsideInv
      <4> QED BY <4>1, <4>2
    <3> QED BY <1>f, <1>1, <1>2, <1>4, <3>2, <3>3 DEF ParkedInv
  <2> QED BY <2>1, <2>3, <2>4
<1> QED BY <1>5, <1>6

(* Turning to another agent leaves what is aside as it was.                *)
LEMMA TurningParks ==
    ASSUME AdoptAssumption, TypeOK, ControlInv, MemoryInv, StageInv, ParkedInv, Turning
    PROVE  ParkedInv'
<1>1. /\ UNCHANGED <<aside, husk, sib, bound, astray, wal>>
      /\ hit \subseteq hit' /\ (txn' = txn \/ txn' = wal)
  BY TurningFrame DEF disk
<1>2. pc' \notin {"taken down", "restart", "close switch", "drop", "completed", "note done",
      "abandoned backup",
                  "unlink links", "failed", "rmdir"}
  BY DEF Turning, NextAgent, Clear, Recover, Crash, Settled, vars, Look, Moved, Calm, Goto, Fail,
     Stop, Fault, Write, disk, recovery, control, ghosts, bounds
<1>3. \A a \in husk : a \in hit'
  <2>1. pc = "rmdir" => cur \in hit'
    BY DEF Turning, NextAgent, Clear, Recover, Crash, Settled, vars, Look, Moved, Calm, Goto,
       Fail, Stop, Fault, Write, disk, recovery, control, ghosts, bounds
  <2> QED BY <2>1, <1>1 DEF ParkedInv
<1>4. \A r \in {txn', wal} : r.sw.stage = "done" => sib[r.sw.of] = "none" \/ r.sw.of \in hit'
  BY <1>1 DEF ParkedInv
<1>5. /\ \A a \in Entries \ (hit' \cup astray) : aside[a] # "none" => wal.arch.of = a
      /\ \A a \in Wholes \ hit' :
          /\ aside[a] # "none" => wal.sw.of = a /\ wal.sw.stage # "building"
          /\ sib[a] # "none" => wal.sw.of = a
  BY <1>1 DEF ParkedInv
<1> QED BY <1>1, <1>2, <1>3, <1>4, <1>5 DEF ParkedInv

(* Users put nothing under a random name.                                  *)
LEMMA UserParks ==
    ASSUME AdoptAssumption, TypeOK, ControlInv, MemoryInv, StageInv, ParkedInv, NEW a \in Agents,
           UserStep(a)
    PROVE  ParkedInv'
<1>1. UNCHANGED <<aside, husk, sib, wal, txn, pc, cur, err, hit>>
  BY UserLeaves
<1>2. astray \subseteq astray'
  BY UserDisk
<1>3. \A b \in Agents : bound'[b] \/ b \in astray'
  <2>1. bound' = bound \/ a \in astray'
    BY DEF UserStep, UserPut, UserTake, UserEdit, UserMoveParent, Changes, recovery, control
  <2>2. \A b \in Agents \ {a} : bound'[b] = bound[b]
    BY UserDisk
  <2> QED BY <2>1, <2>2, <1>2 DEF ParkedInv
<1> QED BY <1>1, <1>2, <1>3 DEF ParkedInv

(* Only the agent in hand is given up.                                     *)
LEMMA GivingAgents ==
    ASSUME AdoptAssumption, TypeOK, ControlInv, MemoryInv, Giving
    PROVE  wal'.agents \subseteq wal.agents /\ wal.agents \ {cur} \subseteq wal'.agents
<1>c. cur \in Agents
  BY GivingRecords
<1>1. \/ wal' = wal
      \/ txn' = Without(cur) /\ pc # "lost"
      \/ txn' = Switch(NoSwitch) /\ pc # "lost"
  BY DEF Giving, Completed, DropWhole, HandleEntry, HandleWhole, Lost, Look, Moved, Calm, Goto,
     Fail, Stop, Fault, Write, disk, recovery, control, ghosts, bounds, Drop, StopOver
<1>2. pc # "lost" => txn.agents = wal.agents
  BY DEF MemoryInv
<1> QED BY <1>1, <1>2, <1>c, Dropped, GivingRecords

--------------------------------------------------------------------------------
(* What is switched has lost the captured entry.                           *)
LEMMA EntrySwitches ==
    ASSUME AdoptAssumption, TypeOK, ControlInv, MemoryInv, OwnerInv, StageInv, OnceInv,
           SwitchedInv, EntryMove
    PROVE  SwitchedInv'
<1>f. /\ cur \in Entries /\ cur \notin Wholes /\ cur \in Agents /\ cur # Nobody
      /\ pc \in EntryPcs /\ pc' \in EntryPcs \cup {"next", "failed"}
      /\ UNCHANGED <<cur, todo>>
      /\ wal' = wal \/ wal' = txn'
      /\ wal'.agents = wal.agents /\ wal'.sw = wal.sw /\ txn'.sw = txn.sw
      /\ \A a \in Agents \ {cur} : slot'[a] = slot[a]
  BY EntryFrame
<1>p. pc \notin {"next", "settled", "stopped"}
  BY <1>f DEF EntryPcs, WholePcs, Copying, Emptying, Switching, TakingDown, GivingUp
<1>1. slot[cur] # "original" => slot'[cur] # "original"
  <2>1. CASE pc \in {"rename", "observe"}
    BY <2>1, EntryDisk
  <2>2. CASE pc \notin {"rename", "observe"}
    BY <2>2, EntryDisk
  <2> QED BY <2>1, <2>2
<1>a. \A a \in Agents : slot[a] # "original" => slot'[a] # "original"
  BY <1>1, <1>f
<1>2. pc' \in Copying \cup Emptying \cup
      {"note retired", "retired", "copied", "unlink", "note cleaned", "cleaned", "close"} =>
        slot'[cur] # "original"
  <2>1. pc' \in Copying \cup Emptying \cup
        {"note retired", "retired", "copied", "unlink", "note cleaned", "cleaned", "close"} =>
          \/ pc \in Copying \cup Emptying \cup
             {"note retired", "retired", "copied", "unlink", "note cleaned", "cleaned"}
          \/ pc = "entry" /\ txn.arch.of = cur /\
             txn.arch.stage \in {"retired", "copied", "cleaned"}
          \/ pc = "retire" /\ pc' \in {"note retired", "note cleaned"}
          \/ pc = "observe" /\ pc' = "note retired"
    BY <1>f, EntryFlow DEF EntryPcs, WholePcs, Copying, Emptying, Switching, TakingDown, GivingUp
  <2>2. pc \in Copying \cup Emptying \cup
        {"note retired", "retired", "copied", "unlink", "note cleaned", "cleaned"} =>
          slot[cur] # "original"
    BY DEF SwitchedInv
  <2>3. txn.arch.of = cur /\ txn.arch.stage \in {"retired", "copied", "cleaned"} =>
        slot[cur] # "original"
    BY <1>f DEF SwitchedInv
  <2>4. pc = "retire" /\ pc' \in {"note retired", "note cleaned"} => slot[cur] = "none"
    <3>1. pc = "retire" => Retire
      BY EntryAt
    <3> QED BY <3>1 DEF Retire, Goto, Fail
  <2>5. pc = "observe" /\ pc' = "note retired" => slot[cur] # "original"
    BY <1>f, EntryDisk DEF OnceInv
  <2> QED BY <2>1, <2>2, <2>3, <2>4, <2>5, <1>1
<1>3. pc' \notin {"note done", "seen done", "backup", "close switch", "abandoned backup",
      "completed"}
  BY <1>f DEF EntryPcs, WholePcs, Copying, Emptying, Switching, TakingDown, GivingUp
<1>4. ASSUME NEW a \in wal'.agents \ todo', a # cur' \/ pc' \in {"next", "settled"}
             PROVE slot'[a] # "original"
  <2>1. a \in Agents
    BY <1>4, <1>f, Typed, Parts
  <2>2. CASE a # cur
    BY <2>1, <2>2, <1>4, <1>f, <1>p DEF SwitchedInv
  <2>3. CASE a = cur
    <3>1. pc' = "next"
      BY <2>3, <1>4, <1>f DEF EntryPcs, WholePcs, Copying, Emptying, Switching, TakingDown, GivingUp
    <3>2. pc = "close" \/ (pc = "entry" /\ slot[cur] = "none")
      BY <3>1, <1>f, EntryFlow DEF EntryPcs, WholePcs, Copying, Emptying, Switching, TakingDown,
         GivingUp
    <3>3. pc = "close" => slot[cur] # "original"
      BY DEF SwitchedInv
    <3> QED BY <3>2, <3>3, <2>3, <1>1
  <2> QED BY <2>2, <2>3
<1>5. txn'.arch.of # Nobody /\ txn'.arch.stage # "planned" => slot'[txn'.arch.of] # "original"
  <2>1. txn.arch.of # Nobody /\ txn.arch.stage # "planned" =>
          txn.arch.of \in Agents /\ slot[txn.arch.of] # "original"
    BY Typed, Parts DEF SwitchedInv, Agents
  <2>2. CASE pc \in {"note retired", "note cleaned", "note copied"}
    <3>1. txn'.arch.of = cur /\ slot[cur] # "original"
      BY <2>2, ArchStep DEF StageInv, SwitchedInv, EntryPcs, Copying
    <3> QED BY <3>1, <1>1
  <2>3. CASE pc \notin {"note retired", "note cleaned", "note copied"}
    <3>1. \/ txn'.arch = txn.arch
          \/ txn'.arch.of = txn.arch.of /\ txn'.arch.stage = txn.arch.stage
          \/ txn'.arch.stage = "planned"
      BY <2>3, ArchStep, Blank
    <3> QED BY <3>1, <2>1, <1>a
  <2> QED BY <2>2, <2>3
<1>6. wal.arch.of # Nobody /\ wal.arch.stage # "planned" => slot'[wal.arch.of] # "original"
  <2>1. wal.arch.of # Nobody /\ wal.arch.stage # "planned" =>
          wal.arch.of \in Agents /\ slot[wal.arch.of] # "original"
    BY Typed, Parts DEF SwitchedInv, Agents
  <2> QED BY <2>1, <1>a
<1>7. \A r \in {txn', wal'} : r.sw.stage = "done" => slot'[r.sw.of] # "original"
  <2>1. \A r \in {txn, wal} : r.sw.stage = "done" => r.sw.of \in Agents /\
        slot[r.sw.of] # "original"
    BY Typed, Parts DEF SwitchedInv, StageInv, Agents
  <2> QED BY <2>1, <1>a, <1>f
<1> QED BY <1>f, <1>2, <1>3, <1>4, <1>5, <1>6, <1>7 DEF SwitchedInv

(* A skills directory that was switched is not the captured one.           *)
LEMMA WholeSwitches ==
    ASSUME AdoptAssumption, TypeOK, ControlInv, MemoryInv, OwnerInv, StageInv, AsideInv,
           SwitchedInv, WholeMove
    PROVE  SwitchedInv'
<1>f. /\ cur \in Wholes /\ cur \notin Entries /\ cur \in Agents /\ cur # Nobody
      /\ pc \in WholePcs /\ pc' \in WholePcs \cup {"next", "failed"}
      /\ UNCHANGED <<cur, todo>>
      /\ wal' = wal \/ wal' = txn'
      /\ wal'.agents = wal.agents /\ wal'.arch = wal.arch /\ txn'.arch = txn.arch
      /\ \A a \in Agents \ {cur} : slot'[a] = slot[a]
  BY WholeFrame
<1>p. pc \notin {"next", "settled", "stopped", "lost"}
  BY <1>f DEF EntryPcs, WholePcs, Copying, Emptying, Switching, TakingDown, GivingUp
<1>o. txn.sw.of \in {cur, Nobody} /\ wal.sw.of \in {cur, Nobody}
  BY <1>f DEF OwnerInv, ControlInv, EntryPcs, WholePcs, Copying, Emptying, Switching, TakingDown,
     GivingUp
<1>1. slot[cur] # "original" => slot'[cur] # "original" \/ pc = "restore link"
  <2>1. CASE pc \in {"move link", "see link", "land"}
    BY <2>1, WholeDisk
  <2>2. CASE pc \notin {"move link", "see link", "land", "restore link"}
    <3>1. slot' = slot
      BY <2>2, WholeDisk
    <3> QED BY <3>1
  <2> QED BY <2>1, <2>2
<1>2. pc' \in {"note done", "seen done", "backup", "close switch", "abandoned backup",
      "completed"} =>
        slot'[cur] # "original"
  <2>1. pc' \in {"note done", "seen done", "backup", "close switch", "abandoned backup",
        "completed"} =>
          \/ pc \in {"note done", "seen done", "backup", "abandoned backup"}
          \/ pc \in {"complete", "abandon"} /\ slot[cur] = "switched"
          \/ pc = "land" /\ pc' = "note done"
    BY <1>f, WholeFlow DEF EntryPcs, WholePcs, Copying, Emptying, Switching, TakingDown, GivingUp
  <2>2. pc \in {"note done", "seen done", "backup", "abandoned backup", "complete", "abandon"} =>
        slot' = slot
    BY WholeDisk
  <2>3. pc \in {"note done", "seen done", "backup", "abandoned backup"} => slot[cur] # "original"
    BY DEF SwitchedInv
  <2>4. pc = "land" /\ pc' = "note done" => slot'[cur] = "switched"
    BY WholeDisk
  <2> QED BY <2>1, <2>2, <2>3, <2>4
<1>3. pc' \notin Copying \cup Emptying \cup
      {"note retired", "retired", "copied", "unlink", "note cleaned", "cleaned", "close"}
  BY <1>f DEF EntryPcs, WholePcs, Copying, Emptying, Switching, TakingDown, GivingUp
<1>4. ASSUME NEW a \in wal'.agents \ todo', a # cur' \/ pc' \in {"next", "settled"}
             PROVE slot'[a] # "original"
  <2>1. a \in Agents
    BY <1>4, <1>f, Typed, Parts
  <2>2. CASE a # cur
    BY <2>1, <2>2, <1>4, <1>f, <1>p DEF SwitchedInv
  <2>3. CASE a = cur
    <3>1. pc' = "next"
      BY <2>3, <1>4, <1>f DEF EntryPcs, WholePcs, Copying, Emptying, Switching, TakingDown, GivingUp
    <3>2. pc = "close switch" \/ (pc = "whole" /\ slot[cur] = "switched")
      BY <3>1, <1>f, WholeFlow DEF EntryPcs, WholePcs, Copying, Emptying, Switching, TakingDown,
         GivingUp
    <3>3. pc = "close switch" => slot[cur] # "original"
      BY DEF SwitchedInv
    <3> QED BY <3>2, <3>3, <2>3, <1>1
  <2> QED BY <2>2, <2>3
<1>5. \A r \in {txn', wal'} : r.arch.of # Nobody /\ r.arch.stage # "planned" =>
      slot'[r.arch.of] # "original"
  <2>1. \A r \in {txn, wal} : r.arch.of # Nobody /\ r.arch.stage # "planned" =>
          r.arch.of \in Agents \ {cur} /\ slot[r.arch.of] # "original"
    <3>1. \A r \in {txn, wal} : r.arch.of \in Entries \cup {Nobody}
      BY Typed, Parts
    <3>2. \A a \in Entries : a \in Agents \ {cur}
      BY <1>f DEF Agents
    <3>3. \A r \in {txn, wal} : r.arch.of # Nobody /\ r.arch.stage # "planned" =>
          slot[r.arch.of] # "original"
      BY DEF SwitchedInv
    <3> QED BY <3>1, <3>2, <3>3
  <2> QED BY <2>1, <1>f
<1>6. txn'.sw.stage = "done" => txn'.sw.of = cur /\ slot'[cur] # "original"
  <2>1. CASE pc = "note done"
    <3>1. txn'.sw.of = cur /\ slot[cur] # "original"
      BY <2>1, SwitchStep DEF StageInv, SwitchedInv
    <3> QED BY <3>1, <2>1, <1>1
  <2>2. CASE pc # "note done" /\ txn'.sw.stage = "done"
    <3>1. txn.sw.stage = "done" /\ txn' = txn
      <4>1. pc = "note sibling" => txn'.sw.stage = "building"
        BY SwitchStep DEF StageInv
      <4> QED BY <4>1, <2>2, SwitchStep, Blank
    <3>2. txn.sw.of = cur /\ slot[cur] # "original"
      BY <3>1, <1>o DEF StageInv, SwitchedInv
    <3>3. pc # "restore link"
      BY <3>1 DEF StageInv
    <3> QED BY <3>1, <3>2, <3>3, <1>1
  <2> QED BY <2>1, <2>2
<1>7. wal.sw.stage = "done" => wal.sw.of = cur /\ slot'[cur] # "original"
  <2>1. wal.sw.stage = "done" => wal.sw.of = cur /\ slot[cur] # "original"
    BY <1>o DEF StageInv, SwitchedInv
  <2>2. wal.sw.stage = "done" => pc # "restore link"
    BY <1>p, <1>f, Blank DEF StageInv
  <2> QED BY <2>1, <2>2, <1>1
<1> QED BY <1>f, <1>2, <1>3, <1>4, <1>5, <1>6, <1>7 DEF SwitchedInv

(* No other step brings a captured entry back.                             *)
LEMMA OtherSwitches ==
    ASSUME AdoptAssumption, TypeOK, ControlInv, MemoryInv, OwnerInv, StageInv, SwitchedInv,
           Giving \/ Turning \/ \E a \in Agents : UserStep(a)
    PROVE  SwitchedInv'
<1> DEFINE Late == Copying \cup Emptying \cup {"note retired", "retired", "copied", "unlink",
              "note cleaned", "cleaned", "close", "note done", "seen done", "backup",
                "close switch",
              "abandoned backup", "completed"}
<1>1. CASE Giving
  <2>1. cur \in Agents /\ pc' \in {"next", "lost", "abandon", "stopped"} /\ slot' = slot
    BY <1>1, GivingFrame DEF disk
  <2>2. pc' \notin Late
    BY <2>1 DEF Copying, Emptying
  <2>3. \A r \in {txn', wal'} : r.arch \in {txn.arch, wal.arch, NoArchive} /\
        r.sw \in {txn.sw, wal.sw, NoSwitch}
    <3>1. \A a \in Agents :
            /\ Without(a).arch \in {txn.arch, NoArchive} /\ Without(a).sw \in {txn.sw, NoSwitch}
            /\ Switch(NoSwitch).arch = txn.arch /\ Switch(NoSwitch).sw = NoSwitch
      BY Dropped
    <3> QED BY <3>1, <1>1, GivingRecords
  <2>4. \A r \in {txn', wal'} :
          /\ r.arch.of # Nobody /\ r.arch.stage # "planned" => slot[r.arch.of] # "original"
          /\ r.sw.stage = "done" => slot[r.sw.of] # "original"
    BY <2>3, Blank DEF SwitchedInv
  <2>5. ASSUME NEW a \in wal'.agents \ todo', a # cur' \/ pc' \in {"next", "settled"},
               pc' # "stopped"
        PROVE  slot[a] # "original"
    <3>1. cur' = cur /\ todo' = todo
      BY <2>5, <1>1, GivingFrame
    <3>2. a \in wal.agents
      BY <1>1, <2>5, GivingAgents
    <3>3. pc \notin {"next", "settled", "stopped"}
      BY <1>1 DEF Giving, Completed, DropWhole, HandleEntry, HandleWhole, Lost, Look, Moved,
         Calm, Goto, Fail, Stop, Fault, Write, disk, recovery, control, ghosts, bounds, Drop,
         StopOver
    <3>4. CASE a # cur
      BY <3>1, <3>2, <3>3, <3>4, <2>5 DEF SwitchedInv
    <3>5. CASE a = cur
      <4>1. pc' = "next"
        BY <3>1, <3>5, <2>1, <2>5
      <4>2. Completed \/ wal' = Without(cur)
        BY <4>1, <1>1 DEF Giving, Completed, DropWhole, HandleEntry, HandleWhole, Lost, Look,
           Moved, Calm, Goto, Fail, Stop, Fault, Write, disk, recovery, control, ghosts, bounds,
           Drop, StopOver
      <4>3. Without(cur).agents = txn.agents \ {cur}
        BY <2>1, Dropped
      <4>4. Completed => pc = "completed"
        BY DEF Completed
      <4> QED BY <4>2, <4>3, <4>4, <2>5, <3>5 DEF SwitchedInv
    <3> QED BY <3>4, <3>5
  <2> QED BY <2>1, <2>2, <2>4, <2>5 DEF SwitchedInv
<1>2. CASE Turning
  <2>1. slot' = slot /\ wal' = wal /\ (txn' = txn \/ txn' = wal)
    BY <1>2, TurningFrame DEF disk
  <2>2. pc' \notin Late
    BY <1>2 DEF Turning, NextAgent, Clear, Recover, Crash, Settled, vars, Look, Moved, Calm,
       Goto, Fail, Stop, Fault, Write, disk, recovery, control, ghosts, bounds, Copying, Emptying
  <2>3. \A r \in {txn', wal} :
          /\ r.arch.of # Nobody /\ r.arch.stage # "planned" => slot[r.arch.of] # "original"
          /\ r.sw.stage = "done" => slot[r.sw.of] # "original"
    BY <2>1 DEF SwitchedInv
  <2>4. ASSUME NEW a \in wal.agents \ todo', a # cur' \/ pc' \in {"next", "settled"},
               pc' # "stopped"
        PROVE  slot[a] # "original"
    <3>1. CASE NextAgent
      BY <2>4, <3>1 DEF NextAgent, SwitchedInv
    <3>2. CASE Clear
      BY <2>4, <3>2 DEF Clear, Stop, SwitchedInv
    <3>3. CASE Recover
      BY <2>4, <3>3 DEF Recover
    <3>4. CASE Crash
      BY <2>4, <3>4 DEF Crash, Stop
    <3>5. CASE Settled
      BY <2>4, <3>5 DEF Settled, vars, control, SwitchedInv
    <3> QED BY <1>2, <3>1, <3>2, <3>3, <3>4, <3>5 DEF Turning
  <2> QED BY <2>1, <2>2, <2>3, <2>4 DEF SwitchedInv
<1>3. ASSUME NEW b \in Agents, UserStep(b) PROVE SwitchedInv'
  <2>1. UNCHANGED <<wal, txn, pc, cur, todo>>
    BY <1>3, UserLeaves
  <2>2. \A f \in Foreign \cup {"none"} : f # "original"
    BY AdoptAssumption DEF AdoptAssumption
  <2>3. \A a \in Agents : slot[a] # "original" => slot'[a] # "original"
    BY <1>3, <2>2, UserDisk
  <2>4. /\ wal.agents \subseteq Agents
        /\ \A r \in {txn, wal} :
             /\ r.arch.of \in Agents \cup {Nobody} /\ r.sw.of \in Agents \cup {Nobody}
             /\ r.sw.of = Nobody => r.sw.stage = "building"
    BY Typed, Parts DEF Agents, StageInv
  <2>5. pc \in Late => cur \in Agents
    BY DEF ControlInv, Agents, EntryPcs, WholePcs, Copying, Emptying, Switching, TakingDown,
       GivingUp
  <2> QED BY <2>1, <2>3, <2>4, <2>5 DEF SwitchedInv
<1> QED BY <1>1, <1>2, <1>3

(* What is given up has a reason.                                          *)
LEMMA Reasons ==
    ASSUME AdoptAssumption, TypeOK, ControlInv, MemoryInv, StageInv, GivenUpInv, UndisturbedInv,
           Next
    PROVE  GivenUpInv'
<1>1. CASE EntryMove \/ WholeMove
  <2>1. wal'.agents = wal.agents /\ touched' = touched /\ hit \subseteq hit'
    BY <1>1, EntryFrame, WholeFrame
  <2> QED BY <2>1 DEF GivenUpInv
<1>2. CASE Giving
  <2>1. touched' = touched /\ hit \subseteq hit' /\ cur \in Agents
    BY <1>2, GivingFrame
  <2>2. wal.agents \ {cur} \subseteq wal'.agents
    BY <1>2, GivingAgents
  <2>3. cur \in touched \cup hit
    <3>1. pc \in {"failed", "lost", "completed", "drop"}
      BY <1>2 DEF Giving, Completed, DropWhole, HandleEntry, HandleWhole, Lost, Look, Moved,
         Calm, Goto, Fail, Stop, Fault, Write, disk, recovery, control, ghosts, bounds, Drop,
         StopOver
    <3> QED BY <2>1, <3>1 DEF UndisturbedInv, InHand, GivingUp
  <2> QED BY <2>1, <2>2, <2>3 DEF GivenUpInv
<1>3. CASE Turning
  <2>1. wal' = wal /\ touched' = touched /\ hit \subseteq hit'
    BY <1>3, TurningFrame
  <2> QED BY <2>1 DEF GivenUpInv
<1>4. CASE \E a \in Agents : UserStep(a)
  <2>1. PICK a \in Agents : UserStep(a)
    BY <1>4
  <2>2. wal' = wal /\ hit' = hit /\ touched \subseteq touched'
    BY <2>1, UserLeaves, UserDisk
  <2> QED BY <2>2 DEF GivenUpInv
<1> QED BY <1>1, <1>2, <1>3, <1>4, NextIs

--------------------------------------------------------------------------------
(* An agent nobody disturbs is switched.                                   *)
LEMMA EntryUndisturbed ==
    ASSUME AdoptAssumption, TypeOK, ControlInv, MemoryInv, OwnerInv, StageInv, AsideInv,
           UndisturbedInv, EntryMove,
           cur \notin touched \cup hit'
    PROVE  /\ pc' # "next" => InHand(cur)'
           /\ pc' = "next" => After(cur)'
<1>f. /\ cur \in Entries /\ cur \notin Wholes /\ cur \in Agents /\ cur # Nobody
      /\ pc \in EntryPcs /\ pc' \in EntryPcs \cup {"next", "failed"}
      /\ UNCHANGED <<cur, content, bound, sib>> /\ noted \subseteq noted'
      /\ wal'.sw = wal.sw /\ txn'.sw = txn.sw
      /\ cur \notin hit
  BY EntryFrame
<1>p. pc \notin {"next", "settled"}
  BY <1>f DEF EntryPcs, WholePcs, Copying, Emptying, Switching, TakingDown, GivingUp
<1>h. InHand(cur) /\ bound[cur] /\ content[cur] = "inventoried"
  BY <1>f, <1>p DEF UndisturbedInv
<1>o. "original" \notin Foreign
  BY AdoptAssumption DEF AdoptAssumption
<1>l. cur \in Dirs \/ cur \in Links
  BY <1>f DEF Entries
<1>d. cur \in Dirs => cur \notin Links
  BY AdoptAssumption DEF AdoptAssumption
<1>1. CASE pc = "entry"
  <2>1. Entry
    BY <1>1, EntryAt
  <2>2. Rest(cur)
    BY <1>1, <1>h DEF InHand
  <2>3. txn.arch.of # cur /\ (Before(cur) \/ After(cur))
    BY <2>2 DEF Rest
  <2>4. slot' = slot /\ aside' = aside /\ wal' = wal /\ txn' = txn
    BY <2>1 DEF Entry, Look, disk
  <2>5. \/ pc' = "next" /\ slot[cur] = "none"
        \/ pc' = "plan" /\ slot[cur] = "original"
    BY <2>1, <2>3, <1>h, <1>f DEF Entry, Goto, Fail, Before, After
  <2>6. pc' = "next" => After(cur)'
    BY <2>3, <2>4, <2>5, <1>f DEF Before, After
  <2>7. pc' = "plan" => Before(cur)' /\ Rest(cur)'
    BY <2>2, <2>3, <2>4, <2>5, <1>f DEF Before, After, Rest
  <2> QED BY <2>5, <2>6, <2>7 DEF InHand, EntryPcs, WholePcs, Copying, Emptying, Switching,
             TakingDown, GivingUp
<1>2. CASE pc = "plan"
  <2>1. Plan
    BY <1>2, EntryAt
  <2>2. Before(cur)
    BY <1>2, <1>h DEF InHand
  <2>3. pc' = "record" /\ slot' = slot /\ aside' = aside /\ (cur \in Links => cur \in noted')
    BY <2>1, <2>2, <1>h DEF Plan, Goto, Fail, Before, disk
  <2>4. txn'.arch.exact = "inventoried"
    BY <1>2, <2>3, <1>h, ArchStep
  <2>5. Before(cur)'
    BY <2>2, <2>3, <1>f DEF Before
  <2> QED BY <2>3, <2>4, <2>5, <1>f DEF InHand, EntryPcs, WholePcs, Copying, Emptying, Switching,
             TakingDown, GivingUp
<1>e. pc \notin {"entry", "plan"} => txn.arch.exact = "inventoried" /\
      (cur \in Links => cur \in noted)
  BY <1>f, <1>h DEF InHand
<1>x. pc \notin {"entry", "plan"} =>
        (pc' \in EntryPcs => txn'.arch.exact = "inventoried") /\ (cur \in Links => cur \in noted')
  <2>1. pc \notin {"entry", "plan", "close"} => txn'.arch.exact = txn.arch.exact
    BY ArchStep
  <2>2. pc = "close" => pc' \notin EntryPcs
    <3>1. pc = "close" => pc' \in {"next", "failed"}
      BY EntryFlow
    <3> QED BY <3>1 DEF EntryPcs, WholePcs, Copying, Emptying, Switching, TakingDown, GivingUp
  <2> QED BY <2>1, <2>2, <1>e, <1>f
<1>3. CASE pc \in {"record", "retire"}
  <2>1. Before(cur)
    BY <1>3, <1>h DEF InHand
  <2>2. slot' = slot /\ aside' = aside
    BY <1>3, EntryDisk
  <2>3. pc = "record" => pc' = "retire"
    BY <1>f DEF EntryMove, Entry, Plan, RecordPlan, Retire, RenameAside, Observe, NoteRetired,
       Retired, FreshName, CopyRoot, NoteBase, CopyTree, NoteCopied, Copied, EmptyTree,
       RetireRoot, RemoveRoot, Unlink, NoteCleaned, Cleaned, Close, Look, Moved, Calm, Goto,
       Fail, Stop, Fault, Write, disk, recovery, control, ghosts, bounds, PutBack
  <2>4. pc = "retire" => pc' = "rename"
    <3>1. pc = "retire" => Retire
      BY EntryAt
    <3> QED BY <3>1, <2>1 DEF Retire, Goto, Before
  <2>5. Before(cur)'
    BY <2>1, <2>2, <1>f DEF Before
  <2> QED BY <1>3, <2>3, <2>4, <2>5, <1>x, <1>f DEF InHand, EntryPcs, WholePcs, Copying,
             Emptying, Switching, TakingDown, GivingUp
<1>4. CASE pc = "rename"
  <2>1. Before(cur)
    BY <1>4, <1>h DEF InHand
  <2>2. pc' = "observe" /\ slot'[cur] = "none" /\ aside'[cur] = "original"
    BY <1>4, <2>1, EntryDisk DEF Before
  <2>3. Moving(cur)'
    BY <2>2, <1>f DEF Moving
  <2> QED BY <1>4, <2>2, <2>3, <1>x, <1>f DEF InHand, EntryPcs, WholePcs, Copying, Emptying,
             Switching, TakingDown, GivingUp
<1>5. CASE pc \in {"observe", "note retired", "retired", "copied"} \cup Copying
  <2>1. Moving(cur)
    BY <1>5, <1>h DEF InHand
  <2>2. slot' = slot /\ aside' = aside
    BY <1>5, <2>1, EntryDisk DEF Moving, Copying
  <2>3. Moving(cur)'
    BY <2>1, <2>2, <1>f DEF Moving
  <2>4. pc # "fresh name"
    BY <1>h DEF InHand
  <2>5. CASE pc = "observe"
    <3>1. pc' = "note retired"
      BY <2>5, <2>1, EntryDisk DEF Moving
    <3> QED BY <3>1, <2>3, <2>5, <1>x, <1>f DEF InHand, EntryPcs, WholePcs, Copying, Emptying,
               Switching, TakingDown, GivingUp
  <2>6. CASE pc = "note retired"
    <3>1. pc' = IF cur \in Dirs THEN "copy" ELSE "retired"
      <4>1. NoteRetired
        BY <2>6, EntryAt
      <4> QED BY <4>1, <1>f DEF NoteRetired, Write, Goto, Fail, Fault
    <3> QED BY <3>1, <2>3, <2>6, <1>x, <1>f, <1>l DEF InHand, EntryPcs, WholePcs, Copying,
               Emptying, Switching, TakingDown, GivingUp
  <2>7. CASE pc = "retired"
    <3>1. cur \in Links
      BY <2>7, <1>h DEF InHand
    <3>2. pc' = "unlink"
      <4>1. Retired
        BY <2>7, EntryAt
      <4> QED BY <4>1, <3>1, <2>1 DEF Retired, Goto, Moving
    <3> QED BY <3>2, <2>3, <2>7, <1>x, <1>f DEF InHand, EntryPcs, WholePcs, Copying, Emptying,
               Switching, TakingDown, GivingUp
  <2>8. CASE pc \in {"copy", "note base"}
    <3>1. pc' \in {"note base", "fill"}
      <4>1. pc = "copy" => CopyRoot
        BY EntryAt
      <4>2. pc = "note base" => NoteBase
        BY EntryAt
      <4>3. CopyRoot => pc' = "note base"
        BY <2>8, <1>h, <1>e DEF CopyRoot, Goto
      <4>4. NoteBase => pc' = "fill"
        BY <1>f DEF NoteBase, Write, Goto, Fault
      <4> QED BY <2>8, <4>1, <4>2, <4>3, <4>4
    <3> QED BY <3>1, <2>3, <2>8, <1>x, <1>f DEF InHand, EntryPcs, WholePcs, Copying, Emptying,
               Switching, TakingDown, GivingUp
  <2>9. CASE pc = "fill"
    <3>1. pc' = "note copied" /\ saved'[cur] = "inventoried"
      BY <2>9, <1>h, EntryDisk DEF EntryMove, Entry, Plan, RecordPlan, Retire, RenameAside,
         Observe, NoteRetired, Retired, FreshName, CopyRoot, NoteBase, CopyTree, NoteCopied,
         Copied, EmptyTree, RetireRoot, RemoveRoot, Unlink, NoteCleaned, Cleaned, Close, Look,
         Moved, Calm, Goto, Fail, Stop, Fault, Write, disk, recovery, control, ghosts, bounds,
         PutBack
    <3> QED BY <3>1, <2>3, <2>9, <1>x, <1>f DEF InHand, EntryPcs, WholePcs, Copying, Emptying,
               Switching, TakingDown, GivingUp
  <2>10. CASE pc = "note copied"
    <3>1. pc' = "copied" /\ saved' = saved
      BY <2>10, <1>f DEF EntryMove, Entry, Plan, RecordPlan, Retire, RenameAside, Observe,
         NoteRetired, Retired, FreshName, CopyRoot, NoteBase, CopyTree, NoteCopied, Copied,
         EmptyTree, RetireRoot, RemoveRoot, Unlink, NoteCleaned, Cleaned, Close, Look, Moved,
         Calm, Goto, Fail, Stop, Fault, Write, disk, recovery, control, ghosts, bounds, PutBack
    <3>2. saved[cur] = "inventoried"
      BY <2>10, <1>h DEF InHand
    <3> QED BY <3>1, <3>2, <2>3, <2>10, <1>x, <1>f DEF InHand, EntryPcs, WholePcs, Copying,
               Emptying, Switching, TakingDown, GivingUp
  <2>11. CASE pc = "copied"
    <3>1. saved[cur] = "inventoried"
      BY <2>11, <1>h DEF InHand
    <3>2. pc' = "empty" /\ saved' = saved
      <4>1. Copied
        BY <2>11, EntryAt
      <4> QED BY <4>1, <3>1, <2>1, <2>11, <1>e DEF Copied, Goto, Look, recovery, Moving
    <3> QED BY <3>1, <3>2, <2>3, <2>11, <1>x, <1>f DEF InHand, EntryPcs, WholePcs, Copying,
               Emptying, Switching, TakingDown, GivingUp
  <2> QED BY <1>5, <2>4, <2>5, <2>6, <2>7, <2>8, <2>9, <2>10, <2>11 DEF Copying
<1>6. CASE pc = "empty"
  <2>1. Moving(cur) /\ saved[cur] = "inventoried"
    BY <1>6, <1>h DEF InHand
  <2>2. pc' = "retire root" /\ slot'[cur] = "none"
    BY <1>6, <2>1, <1>h, <1>e, <1>o, EntryDisk DEF Moving
  <2> QED BY <1>6, <2>2, <1>x, <1>f DEF InHand, EntryPcs, WholePcs, Copying, Emptying, Switching,
             TakingDown, GivingUp
<1>7. CASE pc = "retire root"
  <2>1. slot[cur] = "none"
    BY <1>7, <1>h DEF InHand
  <2>2. slot'[cur] = "none" /\ aside'[cur] = "none"
    BY <1>7, <2>1, EntryDisk
  <2>3. pc' = "rmdir"
    BY <1>7 DEF EntryMove, Entry, Plan, RecordPlan, Retire, RenameAside, Observe, NoteRetired,
       Retired, FreshName, CopyRoot, NoteBase, CopyTree, NoteCopied, Copied, EmptyTree,
       RetireRoot, RemoveRoot, Unlink, NoteCleaned, Cleaned, Close, Look, Moved, Calm, Goto,
       Fail, Stop, Fault, Write, disk, recovery, control, ghosts, bounds, PutBack
  <2>4. After(cur)'
    BY <2>2, <1>f DEF After
  <2> QED BY <1>7, <2>3, <2>4, <1>x, <1>f DEF InHand, EntryPcs, WholePcs, Copying, Emptying,
             Switching, TakingDown, GivingUp
<1>8. CASE pc \in {"rmdir", "note cleaned", "cleaned", "close"}
  <2>1. After(cur)
    BY <1>8, <1>h DEF InHand
  <2>2. slot' = slot /\ aside' = aside
    BY <1>8, EntryDisk, <1>f
  <2>3. After(cur)'
    BY <2>1, <2>2, <1>f DEF After
  <2>4. pc = "rmdir" => pc' = "note cleaned"
    BY <1>f, EntryDisk
  <2>5. /\ pc = "note cleaned" => pc' = "cleaned"
        /\ pc = "close" => pc' = "next"
    BY <1>f DEF EntryMove, Entry, Plan, RecordPlan, Retire, RenameAside, Observe, NoteRetired,
       Retired, FreshName, CopyRoot, NoteBase, CopyTree, NoteCopied, Copied, EmptyTree,
       RetireRoot, RemoveRoot, Unlink, NoteCleaned, Cleaned, Close, Look, Moved, Calm, Goto,
       Fail, Stop, Fault, Write, disk, recovery, control, ghosts, bounds, PutBack
  <2>6. pc = "cleaned" => pc' = "close"
    <3>1. pc = "cleaned" => Cleaned
      BY EntryAt
    <3> QED BY <3>1, <2>1, <1>f DEF Cleaned, Goto, After
  <2> QED BY <1>8, <2>3, <2>4, <2>5, <2>6, <1>x, <1>f DEF InHand, EntryPcs, WholePcs, Copying,
             Emptying, Switching, TakingDown, GivingUp
<1>9. CASE pc = "unlink"
  <2>1. Moving(cur) /\ cur \in Links /\ cur \in noted
    BY <1>9, <1>h, <1>e DEF InHand, ControlInv
  <2>2. Unlink
    BY <1>9, EntryAt
  <2>3. pc' = "note cleaned"
    BY <2>1, <2>2, <1>f DEF Unlink, Goto, Fault, Moving
  <2>4. slot'[cur] = "none" /\ aside'[cur] = "none"
    BY <1>9, <2>1, <2>3, EntryDisk DEF Moving
  <2>5. After(cur)'
    BY <2>4, <1>f DEF After
  <2> QED BY <1>9, <2>3, <2>5, <1>x, <1>f DEF InHand, EntryPcs, WholePcs, Copying, Emptying,
             Switching, TakingDown, GivingUp
<1> QED BY <1>f, <1>1, <1>2, <1>3, <1>4, <1>5, <1>6, <1>7, <1>8, <1>9 DEF EntryPcs, Emptying

(* A skills directory nobody disturbs is switched.                         *)
LEMMA WholeUndisturbed ==
    ASSUME AdoptAssumption, TypeOK, ControlInv, MemoryInv, OwnerInv, StageInv, AsideInv,
           UndisturbedInv, WholeMove,
           cur \notin touched \cup hit'
    PROVE  /\ pc' # "next" => InHand(cur)'
           /\ pc' = "next" => After(cur)'
<1>f. /\ cur \in Wholes /\ cur \notin Entries /\ cur \in Agents /\ cur # Nobody
      /\ pc \in WholePcs /\ pc' \in WholePcs \cup {"next", "failed"}
      /\ UNCHANGED <<cur, content, bound>> /\ noted \subseteq noted'
      /\ wal'.arch = wal.arch /\ txn'.arch = txn.arch
      /\ cur \notin hit
  BY WholeFrame
<1>p. pc \notin {"next", "settled"}
  BY <1>f DEF EntryPcs, WholePcs, Copying, Emptying, Switching, TakingDown, GivingUp
<1>h. InHand(cur) /\ bound[cur] /\ content[cur] = "inventoried"
  BY <1>f, <1>p DEF UndisturbedInv
<1>e. pc \notin EntryPcs
  BY <1>f DEF EntryPcs, WholePcs, Copying, Emptying, Switching, TakingDown, GivingUp
<1>s. sib \in [Wholes -> {"none", "part", "full"}] /\ slot \in [Agents -> Object] /\
      aside \in [Agents -> Object]
  BY Typed
<1>1. CASE pc = "whole"
  <2>a. Whole
    BY <1>1, WholeAt
  <2>1. Rest(cur)
    BY <1>1, <1>h DEF InHand
  <2>2. txn.sw.of # cur /\ (Before(cur) \/ After(cur))
    BY <2>1 DEF Rest
  <2>3. slot' = slot /\ aside' = aside /\ sib' = sib /\ wal' = wal /\ txn' = txn
    BY <2>a DEF Whole, Look, disk
  <2>4. \/ pc' = "next" /\ slot[cur] = "switched"
        \/ pc' = "start" /\ slot[cur] = "original"
    BY <2>a, <2>2, <1>h, <1>f DEF Whole, Goto, Before, After
  <2>5. pc' = "next" => After(cur)'
    BY <2>2, <2>3, <2>4, <1>f DEF Before, After
  <2>6. pc' = "start" => Before(cur)' /\ Rest(cur)'
    BY <2>1, <2>2, <2>3, <2>4, <1>f DEF Before, After, Rest
  <2> QED BY <2>4, <2>5, <2>6 DEF InHand, EntryPcs, WholePcs, Copying, Emptying, Switching,
             TakingDown, GivingUp
<1>2. CASE pc = "start"
  <2>a. Start
    BY <1>2, WholeAt
  <2>1. Before(cur) /\ Rest(cur)
    BY <1>2, <1>h DEF InHand
  <2>2. slot' = slot /\ aside' = aside /\ sib' = sib
    BY <1>2, WholeDisk
  <2>3. pc' = "mkdir"
    BY <2>a, <2>1, <1>h, <1>f DEF Start, Before, TargetNamesKept, Write, Goto, Fault
  <2>4. Before(cur)' /\ sib'[cur] = "none"
    BY <2>1, <2>2, <1>f DEF Before, Rest
  <2> QED BY <2>3, <2>4, <1>f DEF InHand, EntryPcs, WholePcs, Copying, Emptying, Switching,
             TakingDown, GivingUp
<1>3. CASE pc = "mkdir"
  <2>a. Mkdir
    BY <1>3, WholeAt
  <2>1. Before(cur)
    BY <1>3, <1>h DEF InHand
  <2>2. slot' = slot /\ aside' = aside
    BY <1>3, WholeDisk
  <2>3. pc' = "note sibling"
    BY <2>a DEF Mkdir, Goto
  <2>4. Before(cur)'
    BY <2>1, <2>2, <1>f DEF Before
  <2> QED BY <2>3, <2>4 DEF InHand, EntryPcs, WholePcs, Copying, Emptying, Switching, TakingDown,
             GivingUp
<1>4. CASE pc = "note sibling"
  <2>a. NoteSibling
    BY <1>4, WholeAt
  <2>1. Before(cur)
    BY <1>4, <1>h DEF InHand
  <2>2. slot' = slot /\ aside' = aside
    BY <1>4, WholeDisk
  <2>3. pc' = "links"
    BY <2>a, <1>f DEF NoteSibling, Write, Goto, Fault
  <2>4. Before(cur)'
    BY <2>1, <2>2, <1>f DEF Before
  <2> QED BY <2>3, <2>4 DEF InHand, EntryPcs, WholePcs, Copying, Emptying, Switching, TakingDown,
             GivingUp
<1>5. CASE pc = "links"
  <2>a. MakeLinks
    BY <1>5, WholeAt
  <2>1. Before(cur)
    BY <1>5, <1>h DEF InHand
  <2>2. slot' = slot /\ aside' = aside /\ sib'[cur] = "full"
    BY <1>5, WholeDisk
  <2>3. pc' = "note links"
    BY <2>a DEF MakeLinks, Goto
  <2>4. Before(cur)'
    BY <2>1, <2>2, <1>f DEF Before
  <2> QED BY <2>2, <2>3, <2>4, <1>f DEF InHand, EntryPcs, WholePcs, Copying, Emptying, Switching,
             TakingDown, GivingUp
<1>6. CASE pc = "note links"
  <2>a. NoteLinks
    BY <1>6, WholeAt
  <2>1. Before(cur) /\ sib[cur] = "full"
    BY <1>6, <1>h DEF InHand
  <2>2. slot' = slot /\ aside' = aside /\ sib' = sib
    BY <1>6, WholeDisk
  <2>3. pc' = "check"
    BY <2>a, <1>f DEF NoteLinks, Write, Goto, Fault
  <2>4. Before(cur)' /\ sib'[cur] = "full"
    BY <2>1, <2>2, <1>f DEF Before
  <2> QED BY <2>3, <2>4, <1>f DEF InHand, EntryPcs, WholePcs, Copying, Emptying, Switching,
             TakingDown, GivingUp
<1>7. CASE pc = "check"
  <2>a. Check
    BY <1>7, WholeAt
  <2>1. Before(cur) /\ sib[cur] = "full"
    BY <1>7, <1>h DEF InHand
  <2>2. slot' = slot /\ aside' = aside /\ sib' = sib
    BY <1>7, WholeDisk
  <2>3. pc' = "note swap" /\ cur \in noted'
    BY <2>a, <1>h DEF Check, TargetKept, Goto
  <2>4. Before(cur)' /\ sib'[cur] = "full"
    BY <2>1, <2>2, <1>f DEF Before
  <2> QED BY <2>3, <2>4, <1>f DEF InHand, EntryPcs, WholePcs, Copying, Emptying, Switching,
             TakingDown, GivingUp
<1>8. CASE pc = "note swap"
  <2>a. NoteSwap
    BY <1>8, WholeAt
  <2>1. Before(cur) /\ sib[cur] = "full" /\ cur \in noted /\ txn.sw.stage = "swapped"
    BY <1>8, <1>h DEF InHand, StageInv
  <2>2. slot' = slot /\ aside' = aside /\ sib' = sib /\ txn' = txn
    BY <1>8, WholeDisk, SwitchStep
  <2>3. pc' = "complete"
    BY <2>a, <1>f DEF NoteSwap, Write, Goto, Fault
  <2>4. Before(cur)' /\ sib'[cur] = "full"
    BY <2>1, <2>2, <1>f DEF Before
  <2> QED BY <2>1, <2>2, <2>3, <2>4, <1>f DEF InHand, EntryPcs, WholePcs, Copying, Emptying,
             Switching, TakingDown, GivingUp
<1>9. CASE pc = "complete"
  <2>a. Complete
    BY <1>9, WholeAt
  <2>1. Before(cur) /\ sib[cur] = "full" /\ cur \in noted /\ txn.sw.stage = "swapped"
    BY <1>9, <1>h DEF InHand
  <2>2. slot' = slot /\ aside' = aside /\ sib' = sib
    BY <1>9, WholeDisk
  <2>3. pc' = "move link"
    BY <2>a, <2>1, <1>h DEF Complete, Before, TargetKept, Goto
  <2>4. Before(cur)' /\ sib'[cur] = "full"
    BY <2>1, <2>2, <1>f DEF Before
  <2> QED BY <2>1, <2>3, <2>4, <1>f DEF InHand, EntryPcs, WholePcs, Copying, Emptying, Switching,
             TakingDown, GivingUp
<1>10. CASE pc = "move link"
  <2>a. MoveLink
    BY <1>10, WholeAt
  <2>1. Before(cur) /\ sib[cur] = "full" /\ cur \in noted
    BY <1>10, <1>h DEF InHand
  <2>2. sib' = sib /\ pc' = "see link" /\ slot'[cur] = "none" /\ aside'[cur] = "original"
    BY <1>10, <2>1, WholeDisk DEF Before
  <2>3. Moving(cur)'
    BY <2>2, <1>f DEF Moving
  <2> QED BY <2>1, <2>2, <2>3, <1>f DEF InHand, EntryPcs, WholePcs, Copying, Emptying, Switching,
             TakingDown, GivingUp
<1>11. CASE pc = "see link"
  <2>a. SeeLink
    BY <1>11, WholeAt
  <2>1. Moving(cur) /\ sib[cur] = "full" /\ cur \in noted
    BY <1>11, <1>h DEF InHand
  <2>2. sib' = sib /\ pc' = "check landing" /\ slot' = slot /\ aside' = aside
    BY <1>11, <2>1, WholeDisk DEF Moving
  <2>3. Moving(cur)' /\ sib'[cur] = "full"
    BY <2>1, <2>2, <1>f DEF Moving
  <2> QED BY <2>1, <2>2, <2>3, <1>f DEF InHand, EntryPcs, WholePcs, Copying, Emptying, Switching,
             TakingDown, GivingUp
<1>12. CASE pc = "check landing"
  <2>a. CheckLanding
    BY <1>12, WholeAt
  <2>1. Moving(cur) /\ sib[cur] = "full" /\ cur \in noted
    BY <1>12, <1>h DEF InHand
  <2>2. sib' = sib /\ slot' = slot /\ aside' = aside
    BY <1>12, WholeDisk
  <2>3. pc' = "land"
    BY <2>a, <2>1, <1>h DEF CheckLanding, TargetKept, Goto
  <2>4. Moving(cur)' /\ sib'[cur] = "full"
    BY <2>1, <2>2, <1>f DEF Moving
  <2> QED BY <2>1, <2>3, <2>4, <1>f DEF InHand, EntryPcs, WholePcs, Copying, Emptying, Switching,
             TakingDown, GivingUp
<1>13. CASE pc = "land"
  <2>a. Land
    BY <1>13, WholeAt
  <2>1. Moving(cur) /\ cur \in noted
    BY <1>13, <1>h DEF InHand
  <2>2. pc' = "note done" /\ slot'[cur] = "switched" /\ aside'[cur] = "original"
    BY <1>13, <2>1, WholeDisk DEF Moving
  <2> QED BY <2>1, <2>2, <1>f DEF InHand, EntryPcs, WholePcs, Copying, Emptying, Switching,
             TakingDown, GivingUp
<1>14. CASE pc = "note done"
  <2>a. NoteDone
    BY <1>14, WholeAt
  <2>1. slot[cur] = "switched" /\ aside[cur] = "original" /\ cur \in noted
    BY <1>14, <1>h DEF InHand
  <2>2. slot' = slot /\ aside' = aside
    BY <1>14, WholeDisk
  <2>3. pc' = "seen done"
    BY <2>a, <1>f DEF NoteDone, Write, Goto, Fault
  <2> QED BY <2>1, <2>2, <2>3, <1>f DEF InHand, EntryPcs, WholePcs, Copying, Emptying, Switching,
             TakingDown, GivingUp
<1>15. CASE pc = "seen done"
  <2>a. SeenDone
    BY <1>15, WholeAt
  <2>1. slot[cur] = "switched" /\ aside[cur] = "original" /\ cur \in noted
    BY <1>15, <1>h DEF InHand
  <2>2. slot' = slot /\ aside' = aside
    BY <1>15, WholeDisk
  <2>3. pc' = "backup"
    BY <2>a, <2>1 DEF SeenDone, Goto
  <2> QED BY <2>1, <2>2, <2>3, <1>f DEF InHand, EntryPcs, WholePcs, Copying, Emptying, Switching,
             TakingDown, GivingUp
<1>16. CASE pc = "backup"
  <2>a. Backup
    BY <1>16, WholeAt
  <2>1. slot[cur] = "switched" /\ aside[cur] = "original" /\ cur \in noted
    BY <1>16, <1>h DEF InHand
  <2>3. pc' = "close switch"
    BY <2>a, <2>1, <1>f DEF Backup, RemoveBackup, Goto, Fault
  <2>4. slot' = slot /\ aside'[cur] = "none"
    BY <1>16, <2>1, <2>3, WholeDisk
  <2>5. After(cur)'
    BY <2>1, <2>4, <1>f DEF After
  <2> QED BY <2>3, <2>5, <1>f DEF InHand, EntryPcs, WholePcs, Copying, Emptying, Switching,
             TakingDown, GivingUp
<1>17. CASE pc = "close switch"
  <2>a. CloseSwitch
    BY <1>17, WholeAt
  <2>1. After(cur)
    BY <1>17, <1>h DEF InHand
  <2>2. slot' = slot /\ aside' = aside
    BY <1>17, WholeDisk
  <2>3. pc' = "next"
    BY <2>a, <1>f DEF CloseSwitch, Write, Goto, Fault
  <2>4. After(cur)'
    BY <2>1, <2>2, <1>f DEF After
  <2> QED BY <2>3, <2>4
<1>q. pc \notin {"rebuild", "restart"} \cup TakingDown \cup GivingUp
  BY <1>h DEF InHand
<1> QED BY <1>f, <1>q, <1>1, <1>2, <1>3, <1>4, <1>5, <1>6, <1>7, <1>8, <1>9, <1>10, <1>11, <1>12,
           <1>13, <1>14, <1>15, <1>16, <1>17 DEF WholePcs, Switching

(* Every other agent is left as it is,                                     *)
LEMMA RestStays ==
    ASSUME NEW a \in Agents, Rest(a), slot'[a] = slot[a], aside'[a] = aside[a],
           a \in Wholes => sib'[a] = sib[a],
           a \notin {wal'.arch.of, wal'.sw.of, txn'.arch.of, txn'.sw.of}
    PROVE  Rest(a)'
BY DEF Rest, Before, After

(* and so is the agent that was in hand, which no record names any more.   *)
LEMMA Released ==
    OwnerInv /\ ControlInv /\ pc = "next" /\ cur # Nobody =>
        cur \notin {wal.arch.of, wal.sw.of, txn.arch.of, txn.sw.of}
BY DEF OwnerInv, ControlInv, EntryPcs, WholePcs, Copying, Emptying, Switching, TakingDown, GivingUp

(* Whoever is not disturbed while an entry is switched looks as it should, *)
LEMMA EntryCalm ==
    ASSUME AdoptAssumption, TypeOK, ControlInv, MemoryInv, OwnerInv, StageInv, AsideInv,
           UndisturbedInv, EntryMove
    PROVE  UndisturbedInv'
<1>f. /\ cur \in Entries /\ cur \notin Wholes /\ cur \in Agents /\ cur # Nobody
      /\ pc \in EntryPcs /\ pc' \in EntryPcs \cup {"next", "failed"}
      /\ UNCHANGED <<sib, content, bound, touched, cur>>
      /\ wal' = wal \/ wal' = txn'
      /\ txn'.sw = txn.sw /\ wal'.sw = wal.sw
      /\ txn'.arch.of \in {txn.arch.of, cur, Nobody}
      /\ hit \subseteq hit'
  BY EntryFrame
<1> SUFFICES ASSUME NEW a \in Agents \ (touched' \cup hit')
             PROVE  /\ bound'[a] /\ content'[a] = "inventoried"
                    /\ IF a = cur' /\ pc' \notin {"next", "settled"} THEN InHand(a)' ELSE Rest(a)'
  BY DEF UndisturbedInv
<1>1. bound'[a] /\ content'[a] = "inventoried"
  BY <1>f DEF UndisturbedInv
<1>2. CASE a # cur
  <2>1. Rest(a)
    BY <1>2, <1>f DEF UndisturbedInv
  <2>2. slot'[a] = slot[a] /\ aside'[a] = aside[a]
    BY <1>2, EntryFrame
  <2>3. a # Nobody
    BY AdoptAssumption DEF AdoptAssumption
  <2>4. a \notin {wal'.arch.of, wal'.sw.of, txn'.arch.of, txn'.sw.of}
    BY <1>2, <1>f, <2>1, <2>3 DEF Rest
  <2>5. Rest(a)'
    BY <2>1, <2>2, <2>4, <1>f, RestStays
  <2> QED BY <1>1, <1>2, <1>f, <2>5
<1>3. CASE a = cur
  <2>1. cur \notin touched \cup hit'
    BY <1>3, <1>f
  <2>2. CASE pc' = "next"
    <3>1. After(cur)'
      BY <2>1, <2>2, EntryUndisturbed
    <3>2. OwnerInv' /\ ControlInv'
      BY EntryOwner, EntryControl
    <3>3. (OwnerInv /\ ControlInv /\ pc = "next" /\ cur # Nobody =>
              cur \notin {wal.arch.of, wal.sw.of, txn.arch.of, txn.sw.of})'
      BY Released, PTL
    <3>4. Rest(cur)'
      BY <2>2, <3>1, <3>2, <3>3, <1>f DEF Rest
    <3> QED BY <1>1, <1>3, <2>2, <3>4, <1>f DEF Rest, Before, After
  <2>3. CASE pc' # "next"
    <3>1. InHand(cur)'
      BY <2>1, <2>3, EntryUndisturbed
    <3>2. pc' \notin {"next", "settled"}
      BY <2>3, <1>f DEF EntryPcs, WholePcs, Copying, Emptying, Switching, TakingDown, GivingUp
    <3>3. InHand(a)'
      BY <3>1, <1>3, <1>f DEF InHand, Rest, Before, After, Moving
    <3> QED BY <1>1, <1>3, <3>2, <3>3, <1>f
  <2> QED BY <2>2, <2>3
<1> QED BY <1>2, <1>3

(* so while a skills directory is,                                         *)
LEMMA WholeCalm ==
    ASSUME AdoptAssumption, TypeOK, ControlInv, MemoryInv, OwnerInv, StageInv, AsideInv, OnceInv,
           ParkedInv, UndisturbedInv, WholeMove
    PROVE  UndisturbedInv'
<1>f. /\ cur \in Wholes /\ cur \notin Entries /\ cur \in Agents /\ cur # Nobody
      /\ pc \in WholePcs /\ pc' \in WholePcs \cup {"next", "failed"}
      /\ UNCHANGED <<content, bound, touched, cur>>
      /\ wal' = wal \/ wal' = txn'
      /\ txn'.arch = txn.arch /\ wal'.arch = wal.arch
      /\ txn'.sw.of \in {txn.sw.of, cur, Nobody}
      /\ hit \subseteq hit'
  BY WholeFrame
<1> SUFFICES ASSUME NEW a \in Agents \ (touched' \cup hit')
             PROVE  /\ bound'[a] /\ content'[a] = "inventoried"
                    /\ IF a = cur' /\ pc' \notin {"next", "settled"} THEN InHand(a)' ELSE Rest(a)'
  BY DEF UndisturbedInv
<1>1. bound'[a] /\ content'[a] = "inventoried"
  BY <1>f DEF UndisturbedInv
<1>2. CASE a # cur
  <2>1. Rest(a)
    BY <1>2, <1>f DEF UndisturbedInv
  <2>2. slot'[a] = slot[a] /\ aside'[a] = aside[a] /\ (a \in Wholes => sib'[a] = sib[a])
    BY <1>2, WholeFrame
  <2>3. a # Nobody
    BY AdoptAssumption DEF AdoptAssumption
  <2>4. a \notin {wal'.arch.of, wal'.sw.of, txn'.arch.of, txn'.sw.of}
    BY <1>2, <1>f, <2>1, <2>3 DEF Rest
  <2>5. Rest(a)'
    BY <2>1, <2>2, <2>4, RestStays
  <2> QED BY <1>1, <1>2, <1>f, <2>5
<1>3. CASE a = cur
  <2>1. cur \notin touched \cup hit'
    BY <1>3, <1>f
  <2>2. CASE pc' = "next"
    <3>1. After(cur)'
      BY <2>1, <2>2, WholeUndisturbed
    <3>2. OwnerInv' /\ ControlInv' /\ OnceInv'
      BY WholeOwner, WholeControl, WholeOnce
    <3>3. (OwnerInv /\ ControlInv /\ pc = "next" /\ cur # Nobody =>
              cur \notin {wal.arch.of, wal.sw.of, txn.arch.of, txn.sw.of})'
      BY Released, PTL
    <3>4. slot'[cur] = "switched"
      BY <3>1, <1>f DEF After
    <3>5. sib'[cur] = "none"
      BY <3>2, <3>4, <1>f DEF OnceInv
    <3>6. Rest(cur)'
      BY <2>2, <3>1, <3>2, <3>3, <3>5, <1>f DEF Rest
    <3> QED BY <1>1, <1>3, <2>2, <3>6, <1>f DEF Rest, Before, After
  <2>3. CASE pc' # "next"
    <3>1. InHand(cur)'
      BY <2>1, <2>3, WholeUndisturbed
    <3>2. pc' \notin {"next", "settled"}
      BY <2>3, <1>f DEF EntryPcs, WholePcs, Copying, Emptying, Switching, TakingDown, GivingUp
    <3>3. InHand(a)'
      BY <3>1, <1>3, <1>f DEF InHand, Rest, Before, After, Moving
    <3> QED BY <1>1, <1>3, <3>2, <3>3, <1>f
  <2> QED BY <2>2, <2>3
<1> QED BY <1>2, <1>3

(* when another agent is given up,                                         *)
LEMMA GivingCalm ==
    ASSUME AdoptAssumption, TypeOK, ControlInv, MemoryInv, UndisturbedInv, Giving
    PROVE  UndisturbedInv'
<1>f. /\ cur \in Agents /\ UNCHANGED <<slot, aside, sib, content, bound, touched>>
      /\ hit \subseteq hit'
      /\ IF pc' = "stopped" THEN cur' = Nobody ELSE cur' = cur
  BY GivingFrame DEF disk
<1>r. /\ wal' = wal \/ wal' = txn'
      /\ txn' = txn \/ txn' = wal \/ txn' = Without(cur) \/ txn' = Switch(NoSwitch)
  BY GivingRecords
<1>d. /\ Without(cur).arch \in {NoArchive, txn.arch} /\ Without(cur).sw \in {NoSwitch, txn.sw}
      /\ Switch(NoSwitch).arch = txn.arch /\ Switch(NoSwitch).sw = NoSwitch
  BY <1>f, Dropped
<1>p. pc \in {"failed", "lost", "completed", "drop"}
  BY DEF Giving, Completed, DropWhole, HandleEntry, HandleWhole, Lost
<1> SUFFICES ASSUME NEW a \in Agents \ (touched' \cup hit')
             PROVE  /\ bound'[a] /\ content'[a] = "inventoried"
                    /\ IF a = cur' /\ pc' \notin {"next", "settled"} THEN InHand(a)' ELSE Rest(a)'
  BY DEF UndisturbedInv
<1>1. bound'[a] /\ content'[a] = "inventoried"
  BY <1>f DEF UndisturbedInv
<1>2. a # cur
  <2>1. a = cur => InHand(a)
    BY <1>p, <1>f DEF UndisturbedInv
  <2> QED BY <2>1, <1>p DEF InHand, GivingUp
<1>3. a # Nobody
  BY AdoptAssumption DEF AdoptAssumption
<1>4. Rest(a)
  BY <1>2, <1>f DEF UndisturbedInv
<1>5. a \notin {txn'.arch.of, txn'.sw.of}
  BY <1>3, <1>4, <1>r, <1>d, Blank DEF Rest
<1>6. a \notin {wal'.arch.of, wal'.sw.of}
  BY <1>4, <1>5, <1>r DEF Rest
<1>7. Rest(a)'
  BY <1>4, <1>5, <1>6, <1>f, RestStays
<1> QED BY <1>1, <1>2, <1>3, <1>7, <1>f

(* when another is taken in hand,                                          *)
LEMMA TurningCalm ==
    ASSUME AdoptAssumption, TypeOK, ControlInv, MemoryInv, UndisturbedInv, Turning
    PROVE  UndisturbedInv'
<1>f. /\ UNCHANGED <<slot, aside, sib, content, bound, wal, touched>>
      /\ txn' = txn \/ txn' = wal
      /\ hit \subseteq hit'
  BY TurningFrame DEF disk
<1> SUFFICES ASSUME NEW a \in Agents \ (touched' \cup hit')
             PROVE  /\ bound'[a] /\ content'[a] = "inventoried"
                    /\ IF a = cur' /\ pc' \notin {"next", "settled"} THEN InHand(a)' ELSE Rest(a)'
  BY DEF UndisturbedInv
<1>1. bound'[a] /\ content'[a] = "inventoried"
  BY <1>f DEF UndisturbedInv
<1>2. a # Nobody
  BY AdoptAssumption DEF AdoptAssumption
<1>3. pc \in {"next", "settled"} \/ a # cur
  <2>1. pc = "stopped" => cur = Nobody
    BY DEF ControlInv
  <2>2. Crash => cur \in hit'
    BY DEF Crash, Fault
  <2> QED BY <2>1, <2>2, <1>2 DEF Turning, NextAgent, Clear, Recover, Settled
<1>4. Rest(a)
  BY <1>3, <1>f DEF UndisturbedInv
<1>5. Rest(a)'
  BY <1>4, <1>f, RestStays DEF Rest
<1>6. CASE a = cur' /\ pc' \notin {"next", "settled"}
  <2>1. pc' \in {"entry", "whole"}
    BY <1>2, <1>6, <1>3 DEF Turning, NextAgent, Clear, Recover, Crash, Settled, Stop, vars, control
  <2> QED BY <1>1, <1>5, <1>6, <2>1 DEF InHand, EntryPcs, WholePcs, Copying, Emptying, Switching,
             TakingDown, GivingUp
<1> QED BY <1>1, <1>5, <1>6

(* and when a user changes another's.                                      *)
LEMMA UserCalm ==
    ASSUME AdoptAssumption, TypeOK, UndisturbedInv, NEW a \in Agents, UserStep(a)
    PROVE  UndisturbedInv'
<1>f. UNCHANGED <<aside, sib, saved, noted, wal, txn, pc, cur, hit>> /\ touched' = touched \cup {a}
  BY UserLeaves, UserDisk
<1> SUFFICES ASSUME NEW b \in Agents \ (touched' \cup hit')
             PROVE  /\ bound'[b] /\ content'[b] = "inventoried"
                    /\ IF b = cur' /\ pc' \notin {"next", "settled"} THEN InHand(b)' ELSE Rest(b)'
  BY DEF UndisturbedInv
<1>1. b # a /\ b \notin touched \cup hit
  BY <1>f
<1>2. slot'[b] = slot[b] /\ content'[b] = content[b] /\ bound'[b] = bound[b]
  BY <1>1, UserDisk
<1>3. Rest(b) => Rest(b)'
  BY <1>2, <1>f DEF Rest, Before, After
<1>4. InHand(b) => InHand(b)'
  BY <1>2, <1>3, <1>f DEF InHand, Before, After, Moving
<1> QED BY <1>1, <1>2, <1>3, <1>4, <1>f DEF UndisturbedInv

--------------------------------------------------------------------------------
(* The invariant holds at first,                                           *)
LEMMA InitInv == AdoptAssumption /\ Init => IInv
<1> SUFFICES ASSUME AdoptAssumption, Init PROVE IInv
  OBVIOUS
<1>a. Nobody \notin Agents /\ Nobody \notin Entries /\ Nobody \notin Wholes
  BY AdoptAssumption DEF AdoptAssumption, Agents
<1>b. /\ wal.agents = Agents /\ wal.arch = NoArchive /\ wal.sw = NoSwitch /\ txn = wal
      /\ wal \in Record
  BY Emptied DEF Init, Record, Arch, Sw
<1>1. TypeOK
  <2>1. /\ slot \in [Agents -> Object] /\ aside \in [Agents -> Object] /\ husk \subseteq Dirs
        /\ sib \in [Wholes -> {"none", "part", "full"}] /\ content \in [Agents -> Content]
        /\ bound \in [Agents -> BOOLEAN] /\ saved \in [Dirs -> {"none", "part"} \cup Content]
        /\ noted \subseteq Links \cup Wholes
    BY DEF Init, Object, Content
  <2>2. /\ todo \subseteq Agents /\ cur \in Agents \cup {Nobody}
        /\ theirs \subseteq Agents \X Object /\ over \in {"none", "scene", "past", "nothing"}
    BY DEF Init, Object
  <2> QED BY <1>b, <2>1, <2>2, Blank, Typed
<1>2. ControlInv
  BY <1>a, <1>b DEF Init, ControlInv, Pcs, EntryPcs, WholePcs, Copying, Emptying, Switching,
     TakingDown, GivingUp
<1>3. MemoryInv
  BY <1>a, <1>b DEF Init, MemoryInv, EntryPcs, WholePcs, Copying, Emptying, Switching,
     TakingDown, GivingUp
<1>4. OwnerInv
  BY <1>b, Blank DEF Init, OwnerInv, EntryPcs, WholePcs, Copying, Emptying, Switching,
     TakingDown, GivingUp
<1>5. StageInv
  BY <1>b, Blank DEF Init, StageInv, EntryPcs, WholePcs, Copying, Emptying, Switching,
     TakingDown, GivingUp
<1>6. AsideInv
  BY DEF Init, AsideInv, EntryPcs, WholePcs, Copying, Emptying, Switching, TakingDown, GivingUp
<1>7. TheirsInv /\ TheirsKept
  BY DEF Init, TheirsInv, TheirsKept
<1>8. OnceInv
  BY DEF Init, OnceInv, Agents
<1>9. PresentInv /\ NeverStripped
  BY DEF Init, PresentInv, NeverStripped, Agents, EntryPcs, WholePcs, Copying, Emptying,
     Switching, TakingDown, GivingUp
<1>10. ParkedInv
  BY <1>b, Blank DEF Init, ParkedInv, Agents, EntryPcs, WholePcs, Copying, Emptying, Switching,
     TakingDown, GivingUp
<1>11. SwitchedInv
  BY <1>b, Blank DEF Init, SwitchedInv, EntryPcs, WholePcs, Copying, Emptying, Switching,
     TakingDown, GivingUp
<1>12. GivenUpInv
  BY <1>b DEF Init, GivenUpInv
<1>13. UndisturbedInv
  BY <1>a, <1>b, Blank DEF Init, UndisturbedInv, Rest, Before, Agents
<1> QED BY <1>1, <1>2, <1>3, <1>4, <1>5, <1>6, <1>7, <1>8, <1>9, <1>10, <1>11, <1>12, <1>13 DEF IInv

(* How far a switch got depends on the records and the step.               *)
LEMMA StageStays ==
    ASSUME StageInv, pc' = pc, err' = err, cur' = cur, txn' = txn, wal' = wal
    PROVE  StageInv'
<1>1. \A r \in {txn', wal'} : /\ r.arch.stage = "copied" => r.arch.of \in Dirs
                              /\ r.sw.of = Nobody => r.sw.stage = "building"
  BY DEF StageInv
<1>2. /\ txn'.arch.stage = "copied" => txn'.arch.of \in Dirs
      /\ wal'.arch.stage = "copied" => wal'.arch.of \in Dirs
      /\ txn'.sw.of = Nobody => txn'.sw.stage = "building"
      /\ wal'.sw.of = Nobody => wal'.sw.stage = "building"
  BY <1>1
<1>4. /\ pc' \in EntryPcs \ {"entry", "plan"} => txn'.arch.of = cur'
      /\ pc' \in {"record", "retire", "rename", "observe", "note retired"} =>
         txn'.arch.stage = "planned"
      /\ pc' \in Copying \cup {"retired", "unlink"} => txn'.arch.stage = "retired"
  BY <1>2 DEF StageInv
<1>5. /\ pc' \in Emptying \cup {"copied"} => txn'.arch.stage = "copied"
      /\ pc' \in {"cleaned", "close"} => txn'.arch.stage = "cleaned"
      /\ \A r \in {txn', wal'} : r.arch.stage = "copied" => r.arch.of \in Dirs
  BY <1>2 DEF StageInv
<1>6. /\ pc' = "plan" => txn'.arch.of = Nobody
      /\ pc' = "start" => txn'.sw.of = Nobody
      /\ pc' \in {"mkdir", "note sibling", "links", "note links", "check", "rebuild", "restart"} =>
          txn'.sw.stage = "building"
  BY <1>2 DEF StageInv
<1>7. /\ pc' \in {"links", "note links", "check"} => txn'.sw.known
      /\ pc' \in {"mkdir", "note sibling", "links", "note links", "check", "rebuild", "restart"} =>
          txn'.sw.of = cur'
      /\ pc' \in TakingDown /\ err' = "none" => txn'.sw.of = cur' /\ txn'.sw.stage = "building"
  BY <1>2 DEF StageInv
<1>8. /\ pc' \in {"note swap", "move link", "see link", "check landing", "land", "note done",
         "restore link"} =>
          txn'.sw.of = cur' /\ txn'.sw.stage = "swapped"
      /\ pc' \in {"seen done", "backup", "close switch"} => txn'.sw.stage = "done"
      /\ pc' \in {"complete", "abandoned backup"} => txn'.sw.of = cur' /\ txn'.sw.stage # "building"
  BY <1>2 DEF StageInv
<1>9. /\ pc' # "lost" =>
          /\ wal'.sw.stage = "swapped" => txn'.sw.stage \in {"swapped", "done"}
          /\ wal'.sw.stage = "done" => txn'.sw.stage = "done" \/ txn'.sw = NoSwitch
      /\ \A r \in {txn', wal'} : r.sw.of = Nobody => r.sw.stage = "building"
  BY <1>2 DEF StageInv
<1> QED BY <1>4, <1>5, <1>6, <1>7, <1>8, <1>9 DEF StageInv

(* is kept by what users do to where a step is,                            *)
LEMMA UserControl ==
    ASSUME AdoptAssumption, ControlInv, MemoryInv, OwnerInv, StageInv, NEW a \in Agents, UserStep(a)
    PROVE  ControlInv' /\ MemoryInv' /\ OwnerInv' /\ StageInv'
<1>1. UNCHANGED <<aside, husk, sib, saved, noted, wal, txn, pc, todo, cur, err, hit, over>>
  BY UserLeaves
<1>2. ControlInv'
  BY <1>1 DEF ControlInv
<1>3. MemoryInv'
  BY <1>1 DEF MemoryInv
<1>4. OwnerInv'
  BY <1>1 DEF OwnerInv
<1>5. StageInv'
  BY <1>1, StageStays
<1> QED BY <1>2, <1>3, <1>4, <1>5

(* by a step that changes nothing,                                         *)
LEMMA Stutter == IInv /\ UNCHANGED vars => IInv'
<1> SUFFICES ASSUME IInv, UNCHANGED vars PROVE IInv'
  OBVIOUS
<1>1. UNCHANGED <<slot, aside, husk, sib, bound, content, saved, noted, wal, txn, pc, todo, cur,
      err,
                  touched, hit, vacated, astray, theirs, over>>
  BY DEF vars, disk, recovery, control, ghosts
<1>a2. TypeOK
  BY DEF IInv
<1>b2. TypeOK'
  BY <1>1, <1>a2 DEF TypeOK
<1>a3. ControlInv
  BY DEF IInv
<1>b3. ControlInv'
  BY <1>1, <1>a3 DEF ControlInv
<1>a4. MemoryInv
  BY DEF IInv
<1>b4. MemoryInv'
  BY <1>1, <1>a4 DEF MemoryInv
<1>a5. OwnerInv
  BY DEF IInv
<1>b5. OwnerInv'
  BY <1>1, <1>a5 DEF OwnerInv
<1>a6. StageInv
  BY DEF IInv
<1>b6. StageInv'
  BY <1>1, <1>a6, StageStays
<1>a7. AsideInv
  BY DEF IInv
<1>b7. AsideInv'
  BY <1>1, <1>a7 DEF AsideInv
<1>a8. TheirsInv
  BY DEF IInv
<1>b8. TheirsInv'
  BY <1>1, <1>a8 DEF TheirsInv
<1>a9. TheirsKept
  BY DEF IInv
<1>b9. TheirsKept'
  BY <1>1, <1>a9 DEF TheirsKept, Preserved
<1>a10. OnceInv
  BY DEF IInv
<1>b10. OnceInv'
  BY <1>1, <1>a10 DEF OnceInv
<1>a11. PresentInv
  BY DEF IInv
<1>b11. PresentInv'
  BY <1>1, <1>a11 DEF PresentInv, Present
<1>a12. NeverStripped
  BY DEF IInv
<1>b12. NeverStripped'
  BY <1>1, <1>a12 DEF NeverStripped
<1>a13. ParkedInv
  BY DEF IInv
<1>b13. ParkedInv'
  BY <1>1, <1>a13 DEF ParkedInv
<1>a14. SwitchedInv
  BY DEF IInv
<1>b14. SwitchedInv'
  BY <1>1, <1>a14 DEF SwitchedInv
<1>a15. GivenUpInv
  BY DEF IInv
<1>b15. GivenUpInv'
  BY <1>1, <1>a15 DEF GivenUpInv
<1>a16. UndisturbedInv
  BY DEF IInv
<1>b16. UndisturbedInv'
  <2> SUFFICES ASSUME NEW b \in Agents \ (touched' \cup hit')
               PROVE  /\ bound'[b] /\ content'[b] = "inventoried"
                      /\ IF b = cur' /\ pc' \notin {"next", "settled"} THEN InHand(b)' ELSE Rest(b)'
    BY DEF UndisturbedInv
  <2>1. Rest(b) => Rest(b)'
    BY <1>1 DEF Rest, Before, After
  <2>2. InHand(b) => InHand(b)'
    BY <1>1, <2>1 DEF InHand, Before, After, Moving
  <2> QED BY <1>1, <1>a16, <2>1, <2>2 DEF UndisturbedInv
<1> QED BY <1>b2, <1>b3, <1>b4, <1>b5, <1>b6, <1>b7, <1>b8, <1>b9, <1>b10, <1>b11, <1>b12,
           <1>b13, <1>b14, <1>b15, <1>b16 DEF IInv

(* and by every step.                                                      *)
LEMMA StepInv == AdoptAssumption /\ IInv /\ [Next]_vars => IInv'
<1> SUFFICES ASSUME AdoptAssumption, IInv, [Next]_vars PROVE IInv'
  OBVIOUS
<1> USE DEF IInv
<1>1. CASE EntryMove
  <2>1. TypeOK' /\ ControlInv' /\ MemoryInv' /\ OwnerInv' /\ StageInv' /\ AsideInv'
    BY <1>1, EntryTypes, EntryControl, EntryMemory, EntryOwner, EntryStage, EntryAside
  <2>2. TheirsInv' /\ TheirsKept'
    BY <1>1, NextIs, TheirsKnown, EntryKeeps
  <2>3. OnceInv' /\ PresentInv' /\ NeverStripped'
    BY <1>1, EntryOnce, OtherPresent, OthersStrip
  <2>4. ParkedInv' /\ SwitchedInv' /\ GivenUpInv'
    BY <1>1, NextIs, EntryParks, EntrySwitches, Reasons
  <2>5. UndisturbedInv'
    BY <1>1, EntryCalm
  <2> QED BY <2>1, <2>2, <2>3, <2>4, <2>5
<1>2. CASE WholeMove
  <2>1. TypeOK' /\ ControlInv' /\ MemoryInv' /\ OwnerInv' /\ StageInv' /\ AsideInv'
    BY <1>2, WholeTypes, WholeControl, WholeMemory, WholeOwner, WholeStage, WholeAside
  <2>2. TheirsInv' /\ TheirsKept'
    BY <1>2, NextIs, TheirsKnown, WholeKeeps
  <2>3. OnceInv' /\ PresentInv' /\ NeverStripped'
    BY <1>2, WholeOnce, WholePresent, WholeStrips
  <2>4. ParkedInv' /\ SwitchedInv' /\ GivenUpInv'
    BY <1>2, NextIs, WholeParks, WholeSwitches, Reasons
  <2>5. UndisturbedInv'
    BY <1>2, WholeCalm
  <2> QED BY <2>1, <2>2, <2>3, <2>4, <2>5
<1>3. CASE Giving
  <2>1. TypeOK' /\ ControlInv' /\ MemoryInv' /\ OwnerInv' /\ StageInv' /\ AsideInv'
    BY <1>3, GivingTypes, GivingControl, GivingMemory, GivingOwner, GivingStage, OtherAside
  <2>2. TheirsInv' /\ TheirsKept'
    BY <1>3, NextIs, TheirsKnown, OthersKeep
  <2>3. OnceInv' /\ PresentInv' /\ NeverStripped'
    BY <1>3, OtherOnce, OtherPresent, OthersStrip
  <2>4. ParkedInv' /\ SwitchedInv' /\ GivenUpInv'
    BY <1>3, NextIs, GivingParks, OtherSwitches, Reasons
  <2>5. UndisturbedInv'
    BY <1>3, GivingCalm
  <2> QED BY <2>1, <2>2, <2>3, <2>4, <2>5
<1>4. CASE Turning
  <2>1. TypeOK' /\ ControlInv' /\ MemoryInv' /\ OwnerInv' /\ StageInv' /\ AsideInv'
    BY <1>4, TurningTypes, TurningControl, TurningMemory, TurningOwner, TurningStage, OtherAside
  <2>2. TheirsInv' /\ TheirsKept'
    BY <1>4, NextIs, TheirsKnown, OthersKeep
  <2>3. OnceInv' /\ PresentInv' /\ NeverStripped'
    BY <1>4, OtherOnce, OtherPresent, OthersStrip
  <2>4. ParkedInv' /\ SwitchedInv' /\ GivenUpInv'
    BY <1>4, NextIs, TurningParks, OtherSwitches, Reasons
  <2>5. UndisturbedInv'
    BY <1>4, TurningCalm
  <2> QED BY <2>1, <2>2, <2>3, <2>4, <2>5
<1>5. ASSUME NEW a \in Agents, UserStep(a) PROVE IInv'
  <2>1. TypeOK' /\ ControlInv' /\ MemoryInv' /\ OwnerInv' /\ StageInv' /\ AsideInv'
    BY <1>5, UserTypes, UserControl, OtherAside
  <2>2. TheirsInv' /\ TheirsKept'
    BY <1>5, NextIs, TheirsKnown, OthersKeep
  <2>3. OnceInv' /\ PresentInv' /\ NeverStripped'
    BY <1>5, OtherOnce, OtherPresent, OthersStrip
  <2>4. ParkedInv' /\ SwitchedInv' /\ GivenUpInv'
    BY <1>5, NextIs, UserParks, OtherSwitches, Reasons
  <2>5. UndisturbedInv'
    BY <1>5, UserCalm
  <2> QED BY <2>1, <2>2, <2>3, <2>4, <2>5
<1>6. CASE UNCHANGED vars
  BY <1>6, Stutter
<1> QED BY <1>1, <1>2, <1>3, <1>4, <1>5, <1>6, NextIs

(* The invariant holds throughout.                                         *)
LEMMA Invariance == Spec => []IInv
<1>1. AdoptAssumption
  BY AdoptAssumption
<1>2. Init => IInv
  BY <1>1, InitInv
<1>3. IInv /\ [Next]_vars => IInv'
  BY <1>1, StepInv
<1> QED BY <1>2, <1>3, PTL DEF Spec

--------------------------------------------------------------------------------
(* Theorems                                                                *)

(* The record in memory and the one in the journal, and every object where *)
(* users and fu put it, keep their types (engine/adopt_switch.go,          *)
(* adopt_switchdir.go).                                                    *)
THEOREM AdoptTypes == Spec => []TypeOK
<1>1. IInv => TypeOK
  BY DEF IInv
<1> QED BY <1>1, Invariance, PTL

(* Whatever a user has where an adopted entry was keeps a name, and an     *)
(* entry fu took is gone only when recovery/ holds it, whatever users do   *)
(* between two steps, however often the process dies (RenameNoReplaceAt,   *)
(* copyExactAdoptArchive, RemoveOwnedTreeAt, abandonDirSwitchWithHooks).   *)
THEOREM TheirsStay == Spec => []TheirsKept
<1>1. IInv => TheirsKept
  BY DEF IInv
<1> QED BY <1>1, Invariance, PTL

(* No agent is without its skills directory but by its user's hand or      *)
(* while the journal says how it comes back (completeDirSwitch).           *)
THEOREM NobodyStripped == Spec => []NeverStripped
<1>1. IInv => NeverStripped
  BY DEF IInv
<1> QED BY <1>1, Invariance, PTL

(* A settled adopt leaves nothing under a random name but where a process  *)
(* was stopped or an entry's path led elsewhere (switchAdoptedEntries,     *)
(* switchWholeDirAgents).                                                  *)
THEOREM NothingLeftAside == Spec => []NothingParked
<1>1. IInv => NothingParked
  <2> SUFFICES ASSUME IInv, pc = "settled", NEW a \in Agents, a \notin hit,
    ~(a \in astray \cap Entries)
               PROVE  aside[a] = "none" /\ a \notin husk /\ (a \in Wholes => sib[a] = "none")
    BY DEF NothingParked
  <2>1. wal.arch.of = Nobody /\ wal.sw.of = Nobody
    BY DEF IInv, ControlInv, OwnerInv, EntryPcs, WholePcs, Copying, Emptying, Switching,
       TakingDown, GivingUp
  <2>2. a # Nobody /\ (a \in Entries \/ a \in Wholes)
    BY AdoptAssumption DEF AdoptAssumption, Agents
  <2>3. a \notin husk
    BY DEF IInv, ParkedInv
  <2>4. aside[a] = "none"
    BY <2>1, <2>2 DEF IInv, ParkedInv
  <2>5. a \in Wholes => sib[a] = "none"
    BY <2>1, <2>2 DEF IInv, ParkedInv
  <2> QED BY <2>3, <2>4, <2>5
<1> QED BY <1>1, Invariance, PTL

(* The agents a settled adopt names have lost the captured entry, and each *)
(* agent it gave up was changed by a user or hit by a failure              *)
(* (switchAdoptedEntriesReporting, switchWholeDirAgentsReporting).         *)
THEOREM NamedHaveSwitched == Spec => []NamedAreSwitched
<1>1. IInv => NamedAreSwitched
  BY DEF IInv, ControlInv, SwitchedInv, GivenUpInv, NamedAreSwitched
<1> QED BY <1>1, Invariance, PTL
====
