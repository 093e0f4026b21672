------------------------------- MODULE Links -------------------------------
(***************************************************************************)
(* The links fu keeps in the agents' skills directories (engine/scan.go,   *)
(* diff.go, reconcile.go, agent.go; store/retire.go).  A command that      *)
(* holds fu.lock changes fu.yaml and ends with one pass: for each agent it *)
(* scans the skills directory, plans from what it saw, opens the directory *)
(* it scanned and carries the plan out, one system call at a time.  Users  *)
(* own those directories: between any two calls they put objects there,    *)
(* take them away, replace the directory, or change the store's content.   *)
(*                                                                         *)
(* A directory is an inode: [a][g] is directory g of agent a, and at[a]    *)
(* says which one the agent's path leads to.  An object is its kind and    *)
(* its identity: 0 for the links fu made, the number of the edit for what  *)
(* a user put.  The names a link is retired to are random, so a directory  *)
(* has a set of objects lying aside, and users do not touch those names.   *)
(***************************************************************************)
EXTENDS Integers, FiniteSets

CONSTANTS
    Agents,    \* the adapters whose agent is installed
    Skills,    \* names fu accepts for a skill
    Unusable,  \* names fu refuses, which a hand-edited fu.yaml may hold
    Reserving, \* the agents that keep those names for themselves (codex .system)
    Gens,      \* skills directories an agent may have had
    MaxPasses, \* bound: commands that end with a pass
    MaxEdits,  \* bound: changes users make
    MaxFaults, \* bound: crashes and failing system calls
    MaxTrouble \* bound: edits and faults together

ASSUME LinksAssumption ==
    /\ Agents # {} /\ Skills # {} /\ Gens \cap {"missing", "symlink"} = {}
    /\ Skills \cap Unusable = {} /\ Reserving \subseteq Agents
    /\ MaxPasses \in Nat /\ MaxEdits \in Nat /\ MaxFaults \in Nat /\ MaxTrouble \in Nat

ReservedBy(a) == IF a \in Reserving THEN Unusable ELSE {}

Names == Skills \cup Unusable

(* "ours" is the link fu writes for the name, "respelled" one it owns that *)
(* is spelled another way, "foreign" everything else.                      *)
Object == [kind : {"ours", "respelled", "foreign"}, id : 0 .. MaxEdits]
Nothing == [kind |-> "none", id |-> 0]
OurLink == [kind |-> "ours", id |-> 0]

Contents == {"dir", "absent", "loop"}
Sights == {"none", "ours", "respelled", "broken", "foreign", "unknown"}
Plans == {"none", "create", "remove", "rebuild"}

VARIABLES
    registered, on, \* fu.yaml: its skills, and <<agent, name>> it turns on
    content,        \* what store/skills/<name> is
    at,             \* where each agent's path leads: an inode, "missing" or "symlink"
    entry, aside,   \* what the inodes hold under the skills' and the retired names
    pc, todo, cur,  \* the pass: where it is, the agents left, the present one
    seen, sight,    \* the identity and the entries its scan took
    listed, swaps,  \* the inode it took them from; how often the path was redirected since
    plan,           \* what is left to do per name
    name, approved, \* the link being retired, what it was inspected to be
    moved,          \* and what the move found in its place
    report,         \* what the pass tells: <<agent, name, kind>>
    changed,        \* <<agent, name>> it counted as created or removed
    told,           \* objects left aside that a conflict names
    before,         \* what lay aside when the pass began
    forecast,       \* what fu agent and fu status said when the pass began
    touched,        \* <<agent, name>> whose state a user changed since
    theirs,         \* <<agent, inode, object>>: what users put that fu does not own
    settled,        \* whether nothing changed since a pass that had nothing to tell
    passes, edits, faults

config == <<registered, on>>
disk == <<at, entry, aside>>
scan == <<seen, sight, listed, swaps>>
link == <<name, approved, moved>>
result == <<report, changed, told>>
ghosts == <<before, forecast, touched, theirs, settled>>
bounds == <<passes, edits, faults>>
vars == <<config, content, disk, pc, todo, cur, scan, plan, link, result, ghosts, bounds>>

Nowhere == [n \in Names |-> "none"]
Empty == [n \in Names |-> Nothing]

Init ==
    /\ registered = {} /\ on = {}
    /\ content = [n \in Names |-> "absent"]
    /\ at \in [Agents -> {"missing", "symlink"} \cup Gens]
    /\ entry = [a \in Agents |-> [g \in Gens |-> Empty]]
    /\ aside = [a \in Agents |-> [g \in Gens |-> {}]]
    /\ pc = "idle" /\ todo = {} /\ cur = (CHOOSE a \in Agents : TRUE)
    /\ seen = "missing" /\ sight = Nowhere /\ plan = Nowhere
    /\ listed = "missing" /\ swaps = 0
    /\ name = (CHOOSE n \in Names : TRUE) /\ approved = Nothing /\ moved = Nothing
    /\ report = {} /\ changed = {} /\ told = {}
    /\ before = aside /\ forecast = [a \in Agents |-> [n \in Names |-> "none"]]
    /\ touched = {} /\ theirs = {} /\ settled = FALSE
    /\ passes = 0 /\ edits = 0 /\ faults = 0

--------------------------------------------------------------------------------
(* What a scan sees and what it plans                                      *)

(* ScanAgent: a link of fu is followed to see whether it is broken.  A     *)
(* reserved name is not looked at.                                         *)
SightOf(a, n, o) ==
    IF o.kind = "none" \/ n \in ReservedBy(a) THEN "none"
    ELSE IF o.kind = "foreign" THEN "foreign"
    ELSE IF content[n] = "absent" THEN "broken"
    ELSE IF content[n] = "loop" THEN "unknown"
    ELSE o.kind

SightIn(a, g) == [n \in Names |-> SightOf(a, n, entry[a][g][n])]

(* Desired: the registered names that fu may manage for the agent.         *)
Desired(a) == registered \cap (Skills \ ReservedBy(a))
Wanted(a, n) == n \in Desired(a) /\ <<a, n>> \in on

(* Mutant: a link of a skill that is off, but registered, is kept.         *)
DiffOffStays(a, s) == [n \in Names |->
    IF Wanted(a, n) THEN
        IF s[n] = "none" THEN "create"
        ELSE IF s[n] \in {"respelled", "broken"} THEN "rebuild" ELSE "none"
    ELSE IF n \notin Desired(a) /\ s[n] \in {"ours", "respelled", "broken"}
         THEN "remove" ELSE "none"]

(* Diff: what it plans per name,                                           *)
Diff(a, s) == [n \in Names |->
    IF Wanted(a, n) THEN
        IF s[n] = "none" THEN "create"
        ELSE IF s[n] \in {"respelled", "broken"} THEN "rebuild" ELSE "none"
    ELSE IF s[n] \in {"ours", "respelled", "broken"} THEN "remove" ELSE "none"]

(* and what it reports besides.  A foreign entry under a name fu.yaml does *)
(* not know is inventory, which no one is told.                            *)
DiffReports(a, s) ==
    {<<a, n, "failed">> : n \in {m \in Names : s[m] = "unknown"}}
    \cup {<<a, n, "conflict">> : n \in {m \in Names : Wanted(a, m) /\ s[m] = "foreign"}}
    \cup {<<a, n, "disabled foreign">> :
            n \in {m \in Desired(a) : <<a, m>> \notin on /\ s[m] = "foreign"}}

(* Desired's own: a name that is on where it is reserved.                  *)
ReservedReports(a) == {<<a, n, "reserved">> :
    n \in {m \in registered \cap ReservedBy(a) : <<a, m>> \in on}}

(* configInvalidNames: once for the command, unless a reserved report      *)
(* covers the name or it is on nowhere and reserved somewhere.             *)
AlreadyReportedAsReserved(n) ==
    LET effective == {a \in Agents : <<a, n>> \in on} IN
    \/ \E a \in effective : n \in ReservedBy(a)
    \/ effective = {} /\ \E a \in Agents : n \in ReservedBy(a)

InvalidReports == {<<"fu.yaml", n, "invalid">> :
    n \in {m \in registered \cap Unusable : ~AlreadyReportedAsReserved(m)}}

(* What fu agent counts and fu status lists for an agent: agentOverview    *)
(* and statusDrift read Diff's actions, a rebuild as one change, and a     *)
(* link the store cannot supply as missing rather than as work.  fu agent  *)
(* counts a broken link as a change to come as well.                       *)
Pending == {"create", "remove", "rebuild", "rebuild missing"}

(* Mutant: a link is work to come even if the store has nothing for it.    *)
OverviewHopeful(a) ==
    LET s == IF at[a] \in Gens THEN SightIn(a, at[a]) ELSE Nowhere IN
    IF at[a] = "symlink" THEN Nowhere
    ELSE [n \in Names |->
        IF Diff(a, s)[n] # "none" THEN Diff(a, s)[n]
        ELSE IF \E k \in {"conflict", "disabled foreign"} : <<a, n, k>> \in DiffReports(a, s)
             THEN "blocked" ELSE "none"]

(* agentOverview and statusDrift, for the directory as it is now.          *)
Overview(a) ==
    LET s == IF at[a] \in Gens THEN SightIn(a, at[a]) ELSE Nowhere IN
    IF at[a] = "symlink" THEN Nowhere
    ELSE [n \in Names |->
        IF Diff(a, s)[n] = "create" /\ content[n] # "dir" THEN "missing"
        ELSE IF Diff(a, s)[n] = "rebuild" /\ s[n] = "broken" THEN "rebuild missing"
        ELSE IF Diff(a, s)[n] # "none" THEN Diff(a, s)[n]
        ELSE IF \E k \in {"conflict", "disabled foreign"} : <<a, n, k>> \in DiffReports(a, s)
             THEN "blocked" ELSE "none"]

--------------------------------------------------------------------------------
(* A command takes fu.lock, changes fu.yaml and the store, and begins its  *)
(* pass; fu restore changes nothing.                                       *)

Begin ==
    /\ pc = "idle" /\ passes < MaxPasses
    /\ UNCHANGED <<disk, cur, scan, plan, link, changed, told, touched, theirs, edits, faults>>
    /\ passes' = passes + 1
    /\ pc' = "agent" /\ todo' = Agents
    /\ report' = InvalidReports'
    /\ before' = aside /\ forecast' = [a \in Agents |-> Overview(a)']

Restore == UNCHANGED <<config, content, settled>> /\ Begin

(* fu enable and fu disable, for every agent or for those --agent and the  *)
(* overrides leave.                                                        *)
Toggle ==
    /\ \E n \in registered \cap Skills, A \in SUBSET Agents, up \in BOOLEAN :
        LET pairs == A \X {n} IN
        /\ on' = IF up THEN on \cup pairs ELSE on \ pairs
        /\ settled' = (settled /\ on' = on)
    /\ UNCHANGED <<registered, content>>
    /\ Begin

(* fu new, fu add: a skill the store does not hold; fu rm.                 *)
New ==
    /\ \E n \in Skills \ registered :
        /\ content[n] = "absent"
        /\ registered' = registered \cup {n} /\ on' = on \cup (Agents \X {n})
        /\ content' = [content EXCEPT ![n] = "dir"]
    /\ settled' = FALSE
    /\ Begin

Rm ==
    /\ \E n \in registered \cap Skills :
        /\ registered' = registered \ {n} /\ on' = on \ (Agents \X {n})
        /\ content' = [content EXCEPT ![n] = "absent"]
    /\ settled' = FALSE
    /\ Begin

--------------------------------------------------------------------------------
(* The pass                                                                *)

Fault == faults < MaxFaults /\ edits + faults < MaxTrouble /\ faults' = faults + 1
Tell(told_) == report' = report \cup told_
Goto(p) == pc' = p

(* Agents and names have their turn in a fixed order.                      *)
Turn(a) == pc = "agent" /\ todo # {} /\ a = CHOOSE b \in todo : TRUE
NameTurn(n) == pc = "apply" /\ plan # Nowhere /\ n = CHOOSE m \in {l \in Names : plan[l] # "none"} : TRUE

(* The agent is done with, one way or another.                             *)
NextAgent == Goto("agent") /\ todo' = todo \ {cur}
FailAgent == Tell({<<cur, "*", "failed">>}) /\ NextAgent

Elsewhere == UNCHANGED <<config, content, before, forecast, touched, theirs, settled, passes, edits>>
KeepDisk == UNCHANGED <<disk, changed, told>>

(* ScanAgent takes the identity of what the path names, unfollowed,        *)
ScanIdentity(a) ==
    /\ Turn(a)
    /\ cur' = a
    /\ seen' = at[a] /\ swaps' = 0
    /\ IF at[a] = "symlink"
       THEN Tell({<<a, "*", "skipped">>}) /\ todo' = todo \ {a} /\ Goto("agent")
       ELSE /\ Goto(IF at[a] = "missing" THEN "mkdir" ELSE "list")
            /\ UNCHANGED <<report, todo>>
    /\ Elsewhere /\ KeepDisk /\ UNCHANGED <<sight, listed, plan, link, faults>>

(* or fails to,                                                            *)
ScanFails(a) ==
    /\ Turn(a)
    /\ Fault
    /\ Tell({<<a, "*", "failed">>}) /\ todo' = todo \ {a}
    /\ Elsewhere /\ KeepDisk /\ UNCHANGED <<pc, cur, scan, plan, link>>

(* and lists what the path names by now.  A link that cannot be read is    *)
(* unknown.                                                                *)
ListEntries ==
    /\ pc = "list"
    /\ \E g \in Gens :
        /\ at[cur] \in {g, "symlink"}
        /\ listed' = g
        /\ \/ sight' = SightIn(cur, g) /\ UNCHANGED faults
           \/ \E n \in Names :
                /\ SightIn(cur, g)[n] \in {"ours", "respelled", "broken"}
                /\ sight' = [SightIn(cur, g) EXCEPT ![n] = "unknown"] /\ Fault
    /\ Goto("open")
    /\ Elsewhere /\ KeepDisk /\ UNCHANGED <<todo, cur, seen, swaps, plan, link, report>>

ListFails ==
    /\ pc = "list"
    /\ (at[cur] = "missing" /\ UNCHANGED faults) \/ Fault
    /\ FailAgent
    /\ Elsewhere /\ KeepDisk /\ UNCHANGED <<cur, scan, plan, link>>

(* createAndScanAgentDir: it makes what is missing, no component followed, *)
(* and scans again; the path must still name what it made.  A directory    *)
(* that appeared is taken, a symlink is not.                               *)
MakeDir ==
    /\ pc = "mkdir"
    /\ IF at[cur] = "missing"
       THEN \E g \in Gens :
            /\ entry[cur][g] = Empty /\ aside[cur][g] = {}
            /\ at' = [at EXCEPT ![cur] = g] /\ seen' = g
       ELSE at[cur] \in Gens /\ seen' = at[cur] /\ UNCHANGED at
    /\ Goto("rescan")
    /\ Elsewhere /\ UNCHANGED <<entry, aside, todo, cur, sight, listed, swaps, plan, link, result, faults>>

MakeDirFails ==
    /\ pc = "mkdir"
    /\ (at[cur] = "symlink" /\ UNCHANGED faults) \/ Fault
    /\ FailAgent
    /\ Elsewhere /\ KeepDisk /\ UNCHANGED <<cur, scan, plan, link>>

Rescan ==
    /\ pc = "rescan"
    /\ IF at[cur] = seen THEN Goto("list") /\ UNCHANGED <<report, todo>> ELSE FailAgent
    /\ Elsewhere /\ KeepDisk /\ UNCHANGED <<cur, scan, plan, link, faults>>

(* Mutant: the directory is opened by its path, whatever it is by now.     *)
OpenWhatIsThere ==
    /\ pc = "open"
    /\ IF at[cur] \in Gens
       THEN /\ seen' = at[cur] /\ plan' = Diff(cur, sight) /\ Goto("apply")
            /\ Tell(DiffReports(cur, sight) \cup ReservedReports(cur))
            /\ UNCHANGED todo
       ELSE FailAgent /\ UNCHANGED <<plan, seen>>
    /\ Elsewhere /\ KeepDisk /\ UNCHANGED <<cur, sight, listed, swaps, link, faults>>

(* OpenCheckedDir and Diff: what is opened must be what was scanned.  Two  *)
(* replacements between the identity and here may still have shown the     *)
(* scan another directory's entries.                                       *)
OpenDir ==
    /\ pc = "open"
    /\ IF at[cur] = seen
       THEN /\ plan' = Diff(cur, sight) /\ Goto("apply")
            /\ Tell(DiffReports(cur, sight) \cup ReservedReports(cur))
            /\ UNCHANGED todo
       ELSE FailAgent /\ UNCHANGED plan
    /\ Elsewhere /\ KeepDisk /\ UNCHANGED <<cur, scan, link, faults>>

(* The plan, one action at a time.                                         *)
Held(n) == entry[cur][seen][n]
Hold(n, o) == entry' = [entry EXCEPT ![cur][seen][n] = o]
Planned(n, p) == plan' = [plan EXCEPT ![n] = p]
TellOf(n, kind) == Tell({<<cur, n, kind>>})

(* CreateLink, when the store has no directory for it                      *)
CreateMissing(n) ==
    /\ NameTurn(n) /\ plan[n] = "create"
    /\ content[n] # "dir"
    /\ TellOf(n, "missing")
    /\ Planned(n, "none")
    /\ Elsewhere /\ KeepDisk /\ UNCHANGED <<pc, todo, cur, scan, link, faults>>

(* and when it has: symlinkat, which overwrites nothing.                   *)
Create(n) ==
    /\ NameTurn(n) /\ plan[n] = "create"
    /\ content[n] = "dir"
    /\ Planned(n, "none")
    /\ IF Held(n) = Nothing
       THEN Hold(n, OurLink) /\ changed' = changed \cup {<<cur, n>>} /\ UNCHANGED report
       ELSE TellOf(n, "conflict") /\ UNCHANGED <<entry, changed>>
    /\ Elsewhere /\ UNCHANGED <<at, aside, told, pc, todo, cur, scan, link, faults>>

CreateFails(n) ==
    /\ NameTurn(n) /\ plan[n] = "create"
    /\ Fault
    /\ TellOf(n, "failed")
    /\ Planned(n, "none")
    /\ Elsewhere /\ KeepDisk /\ UNCHANGED <<pc, todo, cur, scan, link>>

(* Mutant: a rebuild ends with its removal.                                *)
RemovedOnly(n) == Planned(n, "none")

(* What follows a removal: the other half of a rebuild, or the next name.  *)
Removed(n) == Planned(n, IF plan[n] = "rebuild" THEN "create" ELSE "none")
EndRemoval == Goto("apply") /\ Removed(name)

(* retireFuLink inspects the link: gone is fine, not fu's is a conflict,   *)
Inspect(n) ==
    /\ NameTurn(n) /\ plan[n] \in {"remove", "rebuild"}
    /\ name' = n
    /\ IF Held(n).kind \in {"ours", "respelled"}
       THEN approved' = Held(n) /\ Goto("retire") /\ UNCHANGED <<plan, report>>
       ELSE /\ IF Held(n) = Nothing THEN UNCHANGED report ELSE TellOf(n, "conflict")
            /\ Removed(n) /\ UNCHANGED <<pc, approved>>
    /\ Elsewhere /\ KeepDisk /\ UNCHANGED <<todo, cur, scan, moved, faults>>

InspectFails(n) ==
    /\ NameTurn(n) /\ plan[n] \in {"remove", "rebuild"}
    /\ Fault
    /\ TellOf(n, "failed")
    /\ Removed(n)
    /\ Elsewhere /\ KeepDisk /\ UNCHANGED <<pc, todo, cur, scan, link>>

(* moves whatever has the name by now to a name of its own,                *)
Retire ==
    /\ pc = "retire"
    /\ IF Held(name) = Nothing
       THEN EndRemoval /\ UNCHANGED <<entry, aside, moved>>
       ELSE /\ Hold(name, Nothing)
            /\ aside' = [aside EXCEPT ![cur][seen] = @ \cup {Held(name)}]
            /\ moved' = Held(name)
            /\ Goto("verify") /\ UNCHANGED plan
    /\ Elsewhere
    /\ UNCHANGED <<at, todo, cur, scan, name, approved, result, faults>>

(* The rename fails, or the link cannot be told from another afterwards.   *)
RetireFails ==
    /\ pc = "retire"
    /\ Fault
    /\ TellOf(name, "failed")
    /\ EndRemoval
    /\ Elsewhere /\ KeepDisk /\ UNCHANGED <<todo, cur, scan, link>>

TakeBack ==
    /\ Hold(name, moved)
    /\ aside' = [aside EXCEPT ![cur][seen] = @ \ {moved}]

(* Mutant: what moved is taken for what was inspected.                     *)
VerifyNothing ==
    /\ pc = "verify"
    /\ Goto("unlink")
    /\ Elsewhere /\ KeepDisk /\ UNCHANGED <<plan, todo, cur, scan, link, report, faults>>

(* Mutant: what does not fit its name any more is left where it lies.      *)
VerifyUntold ==
    /\ pc = "verify"
    /\ \/ /\ moved = approved
          /\ Goto("unlink") /\ UNCHANGED <<plan, entry, aside, report>>
       \/ /\ moved # approved
          /\ EndRemoval
          /\ IF Held(name) = Nothing THEN TakeBack ELSE UNCHANGED <<entry, aside>>
          /\ TellOf(name, "conflict")
    /\ Elsewhere /\ UNCHANGED <<at, changed, told, todo, cur, scan, link, faults>>

(* looks at what it moved, puts it back if it is not what was inspected,   *)
(* and says where it lies if the name was taken meanwhile,                 *)
Verify ==
    /\ pc = "verify"
    /\ \/ /\ moved = approved
          /\ Goto("unlink") /\ UNCHANGED <<plan, entry, aside, told, report>>
       \/ /\ moved # approved
          /\ EndRemoval
          /\ IF Held(name) = Nothing THEN TakeBack /\ UNCHANGED told
             ELSE told' = told \cup {moved} /\ UNCHANGED <<entry, aside>>
          /\ TellOf(name, "conflict")
    /\ Elsewhere /\ UNCHANGED <<at, changed, todo, cur, scan, link, faults>>

(* (a link it cannot look at is put back as well, and a failure to put it  *)
(* back is reported as one)                                                *)
VerifyFails ==
    /\ pc = "verify"
    /\ Fault
    /\ EndRemoval
    /\ \/ /\ Held(name) = Nothing /\ TakeBack
          /\ TellOf(name, "conflict") /\ UNCHANGED told
       \/ /\ Held(name) # Nothing
          /\ told' = told \cup {moved} /\ TellOf(name, "conflict") /\ UNCHANGED <<entry, aside>>
       \/ TellOf(name, "failed") /\ moved # approved /\ UNCHANGED <<entry, aside, told>>
    /\ Elsewhere /\ UNCHANGED <<at, changed, todo, cur, scan, link>>

(* and removes the one object that is what it was.                         *)
Unlink ==
    /\ pc = "unlink"
    /\ aside' = [aside EXCEPT ![cur][seen] = @ \ {moved}]
    /\ changed' = changed \cup {<<cur, name>>}
    /\ EndRemoval
    /\ Elsewhere /\ UNCHANGED <<at, entry, told, todo, cur, scan, link, report, faults>>

UnlinkFails ==
    /\ pc = "unlink"
    /\ Fault
    /\ TellOf(name, "failed")
    /\ EndRemoval
    /\ Elsewhere /\ KeepDisk /\ UNCHANGED <<todo, cur, scan, link>>

EndAgent ==
    /\ pc = "apply" /\ plan = Nowhere
    /\ NextAgent
    /\ Elsewhere /\ KeepDisk /\ UNCHANGED <<cur, scan, plan, link, report, faults>>

(* The command reports and lets go of fu.lock.                             *)
EndPass ==
    /\ pc = "agent" /\ todo = {}
    /\ Goto("end")
    /\ Elsewhere /\ KeepDisk /\ UNCHANGED <<todo, cur, scan, plan, link, report, faults>>

Forget ==
    /\ Goto("idle") /\ todo' = {} /\ cur' = (CHOOSE a \in Agents : TRUE)
    /\ seen' = "missing" /\ sight' = Nowhere /\ plan' = Nowhere
    /\ listed' = "missing" /\ swaps' = 0
    /\ name' = (CHOOSE n \in Names : TRUE) /\ approved' = Nothing /\ moved' = Nothing
    /\ report' = {} /\ changed' = {} /\ told' = {} /\ touched' = {}
    /\ before' = aside /\ forecast' = [a \in Agents |-> Nowhere]
    /\ UNCHANGED <<config, content, disk, theirs, passes, edits>>

Return ==
    /\ pc = "end"
    /\ settled' = (touched = {} /\ faults = 0)
    /\ Forget /\ UNCHANGED faults

Crash ==
    /\ pc \notin {"idle", "end"}
    /\ Fault
    /\ settled' = FALSE
    /\ Forget

--------------------------------------------------------------------------------
(* Users                                                                   *)

Edit == edits < MaxEdits /\ edits + faults < MaxTrouble /\ edits' = edits + 1 /\ settled' = FALSE
Touch(pairs) == touched' = IF pc = "idle" THEN touched ELSE touched \cup pairs
KeepPass == UNCHANGED <<pc, todo, cur, seen, sight, listed, plan, link, result, before, forecast, passes, faults>>

(* They put an object under a name, or take what is there away.            *)
Meddle(a, g, n) ==
    /\ at[a] \in {g, "symlink"}
    /\ Edit
    /\ \E o \in {[kind |-> k, id |-> edits + 1] : k \in {"ours", "respelled", "foreign"}}
                \cup {Nothing} :
        /\ o # entry[a][g][n]
        /\ entry' = [entry EXCEPT ![a][g][n] = o]
        /\ theirs' = (theirs \ {<<a, g, entry[a][g][n]>>})
                        \cup IF o.kind = "foreign" THEN {<<a, g, o>>} ELSE {}
    /\ Touch({<<a, n>>})
    /\ KeepPass /\ UNCHANGED <<swaps, config, content, at, aside>>

(* They make the path lead elsewhere,                                      *)
Redirect(a) ==
    /\ Edit
    /\ \E to \in (Gens \cup {"missing", "symlink"}) \ {at[a]} : at' = [at EXCEPT ![a] = to]
    /\ Touch({a} \X Names)
    /\ swaps' = IF pc # "idle" /\ a = cur THEN swaps + 1 ELSE swaps
    /\ KeepPass /\ UNCHANGED <<config, content, entry, aside, theirs>>

(* change what the store holds,                                            *)
Rework(n) ==
    /\ Edit
    /\ \E c \in Contents \ {content[n]} : content' = [content EXCEPT ![n] = c]
    /\ Touch(Agents \X {n})
    /\ KeepPass /\ UNCHANGED <<swaps, config, disk, theirs>>

(* or write fu.yaml by hand between two commands.                          *)
EditConfig(n) ==
    /\ pc = "idle"
    /\ Edit
    /\ \/ registered' = registered \ {n} /\ on' = on \ (Agents \X {n})
       \/ registered' = registered \cup {n} /\ \E A \in SUBSET Agents : on' = on \cup (A \X {n})
    /\ KeepPass /\ UNCHANGED <<swaps, content, disk, theirs, touched>>

Command == Restore \/ Toggle \/ New \/ Rm

Pass ==
    \/ \E a \in Agents : ScanIdentity(a) \/ ScanFails(a)
    \/ ListEntries \/ ListFails \/ MakeDir \/ MakeDirFails \/ Rescan \/ OpenDir
    \/ \E n \in Names : CreateMissing(n) \/ Create(n) \/ CreateFails(n) \/ Inspect(n) \/ InspectFails(n)
    \/ Retire \/ RetireFails \/ Verify \/ VerifyFails \/ Unlink \/ UnlinkFails
    \/ EndAgent \/ EndPass \/ Return

User ==
    \/ \E a \in Agents, g \in Gens, n \in Names : Meddle(a, g, n)
    \/ \E a \in Agents : Redirect(a)
    \/ \E n \in Names : Rework(n) \/ EditConfig(n)

Next == Command \/ Pass \/ Crash \/ User

Spec == Init /\ [][Next]_vars

--------------------------------------------------------------------------------
(* Properties                                                              *)

Objects == Object \cup {Nothing}
Reports == ((Agents \cup {"fu.yaml"}) \X (Names \cup {"*"})
            \X {"failed", "skipped", "conflict", "disabled foreign", "missing", "reserved", "invalid"})

(* Every variable keeps its type.                                          *)
TypeOK ==
    /\ registered \subseteq Names /\ on \subseteq Agents \X registered
    /\ content \in [Names -> Contents]
    /\ at \in [Agents -> {"missing", "symlink"} \cup Gens]
    /\ entry \in [Agents -> [Gens -> [Names -> Objects]]]
    /\ aside \in [Agents -> [Gens -> SUBSET Object]] /\ before \in [Agents -> [Gens -> SUBSET Object]]
    /\ pc \in {"idle", "agent", "mkdir", "rescan", "list", "open", "apply", "retire", "verify", "unlink", "end"}
    /\ todo \subseteq Agents /\ cur \in Agents
    /\ seen \in {"missing", "symlink"} \cup Gens /\ listed \in {"missing"} \cup Gens
    /\ pc \in {"rescan", "list", "open", "apply", "retire", "verify", "unlink"} => seen \in Gens
    /\ sight \in [Names -> Sights] /\ plan \in [Names -> Plans]
    /\ name \in Names /\ {approved, moved} \subseteq Objects
    /\ report \subseteq Reports /\ changed \subseteq Agents \X Names /\ told \subseteq Object
    /\ forecast \in [Agents -> [Names -> Plans \cup {"missing", "rebuild missing", "blocked"}]]
    /\ touched \subseteq Agents \X Names /\ theirs \subseteq Agents \X Gens \X Object
    /\ settled \in BOOLEAN
    /\ passes \in 0 .. MaxPasses /\ edits \in 0 .. MaxEdits /\ faults \in 0 .. MaxFaults /\ swaps \in 0 .. MaxEdits

(* Whatever was swapped in under fu's hands, and wherever it dies: what a  *)
(* user put in a skills directory and fu does not own is still in that     *)
(* directory, under its name or under the one fu moved it to.              *)
ForeignKept == \A t \in theirs :
    (\E n \in Names : entry[t[1]][t[2]][n] = t[3]) \/ t[3] \in aside[t[1]][t[2]]

(* toggleDeliveryBlocked: why a switch of the name may not take effect.    *)
DeliveryBlocked(a, n) == \E r \in report :
    /\ r[1] = a /\ r[2] \in {n, "*"}
    /\ r[3] \in {"conflict", "disabled foreign", "missing", "failed", "skipped"}

(* A command that ran to its end leaves every name no user touched as      *)
(* fu.yaml says, or tells what is in the way (and "takes effect" is        *)
(* softened): a skill that is on is linked to its content, no link is left *)
(* of one that is off or gone, nothing of a user's is served for a skill   *)
(* that is off, and a name fu refuses is named, unless the agent that      *)
(* reserves it, whose report would name it, was not reached.  A user's     *)
(* object that could not be put back is named by a conflict, or the        *)
(* failure to put it back is reported.                                     *)
AsideTold ==
    \A a \in Agents, g \in Gens : \A o \in aside[a][g] \ before[a][g] :
        o.kind = "foreign" => o \in told \/ \E n \in Names : <<a, n, "failed">> \in report
ToldOrDone == pc = "end" =>
    /\ AsideTold
    /\ \A a \in Agents, n \in Names : <<a, n>> \notin touched =>
        \/ DeliveryBlocked(a, n)
        \/ LET held == entry[a][at[a]][n] IN
           /\ at[a] \in Gens
           /\ Wanted(a, n) => held.kind = "ours" /\ content[n] = "dir"
           /\ ~Wanted(a, n) /\ n \notin ReservedBy(a) => held.kind \notin {"ours", "respelled"}
           /\ n \in Desired(a) => held.kind # "foreign"
           /\ n \in Unusable /\ <<a, n>> \in on => \E r \in report :
                    r[2] = n \/ (r[2] = "*" /\ n \in ReservedBy(r[1]))

(* A pass over what an undisturbed pass left changes no link.              *)
SecondPassIdle == pc = "end" /\ settled => changed = {}

(* What fu agent and fu status say is what the next command does, if no    *)
(* one interferes and nothing fails: the changes they count are made, and  *)
(* what they call missing or blocked is reported so.                       *)
Foretold ==
    pc = "end" /\ touched = {} /\ faults = 0 =>
        \A a \in Agents, n \in Names :
            /\ <<a, n>> \in changed <=> forecast[a][n] \in Pending
            /\ <<a, n, "missing">> \in report <=> forecast[a][n] \in {"missing", "rebuild missing"}
            /\ ({<<a, n, "conflict">>, <<a, n, "disabled foreign">>} \cap report # {})
                    <=> forecast[a][n] = "blocked"

(* A plan is carried out in the directory it was made from, unless the     *)
(* path was redirected twice while fu looked away.                         *)
ActsOnListed == pc \in {"apply", "retire", "verify", "unlink"} /\ swaps < 2 => listed = seen

=============================================================================
