------------------------------ MODULE Worktree ------------------------------
(***************************************************************************)
(* The commands that move the store between commits: `fu revert`, `fu      *)
(* pull`, `fu push`, `fu commit` and `fu restore --hard` (store/git.go,    *)
(* worktree_apply.go, worktree_guard.go, commit_scope.go, revert.go,       *)
(* operations.go, remote.go; engine/commit.go, restore.go, remote.go).     *)
(*                                                                         *)
(* One process at a time holds fu.lock.  It works on a Git repository that *)
(* its user also works on, with an editor and with git, at any moment: the *)
(* branch, the public index and the worktree are three copies of the store *)
(* and none of them can be locked against all writers.                     *)
(*                                                                         *)
(* A path holds a blob, and a worktree path may be a directory of others.  *)
(* The index and a Git tree hold blobs only.                               *)
(***************************************************************************)
EXTENDS Integers, Sequences, FiniteSets, SequencesExt

CONSTANTS
    Order,      \* the paths of the store, as sort.Strings orders them
    Parent,     \* the directory of a path, or TOP
    FuYaml,     \* the path of fu.yaml
    Scope,      \* the paths below skills/<name> of a `fu commit <name>`
    Blobs,      \* contents the history holds
    Edits,      \* contents users write, each once
    History,    \* the commits there are: the last is the remote's branch,
    Local,      \* this one the local branch
    Backs,      \* bound: the n of `fu revert n`
    MaxCommands,\* bound: commands started
    MaxMoves,   \* bound: what users do
    MaxFaults   \* bound: crashes and failing writes

NONE == "none"
TOP == "top"
DIR == "dir"
TORN == "torn"   \* what an interrupted write leaves of a file

Paths == ToSet(Order)
Stored == Blobs \cup Edits \cup {TORN}
NoTree == [p \in Paths |-> NONE]
Children(p) == {q \in Paths : Parent[q] = p}

Tree == [Paths -> Stored \cup {NONE}]
Subjects == {"", "all", "skill"} \cup {History[c].msg.of : c \in DOMAIN History}
Message == [kind : {"init", "op", "recover", "revert", "commit", "external", "direct"},
            of : Subjects, n : Backs \cup {0}]
Msg(kind, of, n) == [kind |-> kind, of |-> of, n |-> n]

(* An entry cannot be both a file and a directory (storePreparedTree).     *)
PathsOf(t) == {p \in Paths : t[p] # NONE}
GitTree(t) == \A p \in PathsOf(t) : Parent[p] # TOP => t[Parent[p]] = NONE

(* Paths are at most two levels deep, and a skill's are whole directories. *)
(* The branch starts before its first revert: what those hold is for the   *)
(* steps to establish.                                                     *)
ASSUME WorktreeAssumption ==
    /\ Order \in Seq(Paths) /\ FuYaml \in Paths /\ Scope \subseteq Paths
    /\ Parent \in [Paths -> Paths \cup {TOP}] /\ TOP \notin Paths
    /\ \A p \in Paths : Parent[p] # TOP => /\ Parent[Parent[p]] = TOP
                                           /\ (p \in Scope <=> Parent[p] \in Scope)
    /\ Backs \subseteq Nat \ {0}
    /\ MaxCommands \in Nat /\ MaxMoves \in Nat /\ MaxFaults \in Nat
    /\ {NONE, DIR, TORN} \cap (Blobs \cup Edits) = {}

ASSUME HistoryAssumption ==
    /\ History \in Seq([parent : Nat, msg : Message, tree : Tree])
    /\ Local \in DOMAIN History
    /\ \A c \in DOMAIN History : /\ History[c].parent < c /\ GitTree(History[c].tree)
                                 /\ History[c].msg.kind \notin {"revert", "commit"}

Command == [kind : {"revert", "pull", "push", "commit", "hard", NONE},
            scope : {"all", "skill", NONE}, n : Backs \cup {0}]
NoCommand == [kind |-> NONE, scope |-> NONE, n |-> 0]
NoCandidate == [parent |-> 0, base |-> NoTree, tree |-> NoTree, sync |-> FALSE, hash |-> 0]
NothingYet == [kind |-> NONE, n |-> 0, how |-> NONE]
NoGuard == [ref |-> 0, index |-> NoTree, expected |-> NoTree]

VARIABLES
    commits,   \* the object database: [parent, msg, tree], children after parents
    head,      \* the branch HEAD names
    tracking,  \* refs/remotes/origin/<branch>
    remote,    \* the branch at the remote
    index,     \* .git/index
    gitlock,   \* .git/index.lock: "free", or "stale" when its owner died
    worktree,
    pc, cmd,   \* where the process holding fu.lock is, and its command
    loaded,    \* the fu.yaml it read
    job,       \* what the candidate is for: "staged", "rest", "revert", "all", "skill"
    cand,      \* PreparedCommit: parent, baseline index, tree, and the commit made of it
    guard,     \* worktreeGuard: HEAD, index and files the rewrite may replace
    target, goal, \* the tree being applied and, for a pull, its commit
    todo,      \* the paths left to delete and to write, in order
    known,     \* union(index, target)
    moved,     \* whether the rewrite changed a path
    late,      \* what users wrote at a path between its check and its change
    calm,      \* whether the command ran undisturbed so far
    last,      \* the last command and how it ended
    dropped,   \* user contents the user, or a command entitled to it, gave up
    authored, moves, started, faults

repo == <<commits, head, tracking, remote, index, gitlock>>
local == <<cmd, loaded, job, cand, guard, target, goal, todo, known, moved, late>>
ghost == <<dropped, authored, moves, started, faults>>
vars == <<repo, worktree, pc, local, calm, last, ghost>>

TreeOf(c) == commits[c].tree
Files(w) == [p \in Paths |-> IF w[p] = DIR THEN NONE ELSE w[p]]

(* The commits reachable from c.                                           *)
Chain == LET reach[c \in 0 .. Len(commits)] ==
               IF c = 0 THEN {} ELSE {c} \cup reach[commits[c].parent]
         IN reach

(* IsDirty: HEAD, the public index and the worktree differ.                *)
Clean == index = TreeOf(head) /\ Files(worktree) = TreeOf(head)

Init ==
    /\ commits = History
    /\ head = Local /\ tracking = Local /\ remote = Len(History)
    /\ index = TreeOf(head)
    /\ worktree = [p \in Paths |-> IF \E q \in Children(p) : index[q] # NONE THEN DIR ELSE index[p]]
    /\ gitlock = "free"
    /\ pc = "idle" /\ cmd = NoCommand /\ loaded = NONE /\ job = NONE /\ cand = NoCandidate
    /\ guard = NoGuard /\ target = NoTree /\ goal = 0 /\ todo = {} /\ known = {}
    /\ moved = FALSE /\ late = {} /\ calm = TRUE
    /\ last = NothingYet
    /\ dropped = {} /\ authored = {} /\ moves = 0 /\ started = 0 /\ faults = 0

--------------------------------------------------------------------------------
Goto(p) == pc' = p

(* The command is over: fu.lock is released.                               *)
Exit(how) ==
    /\ pc' = "idle"
    /\ last' = [kind |-> cmd.kind, n |-> cmd.n, how |-> how]
    /\ cmd' = NoCommand /\ loaded' = NONE /\ job' = NONE /\ cand' = NoCandidate
    /\ guard' = NoGuard /\ target' = NoTree /\ goal' = 0 /\ todo' = {} /\ known' = {}
    /\ moved' = FALSE /\ late' = {}

Stop(how) == Exit(how) /\ UNCHANGED <<repo, worktree, calm, ghost>>

OrStop(ok, step) == IF ok THEN step ELSE Stop("refused")

(* A command takes fu.lock.  Nothing is pending (see FuTransactions); push *)
(* is there for whatever is left to record.                                *)
Begin(c) ==
    /\ pc = "idle"
    /\ \/ started < MaxCommands /\ started' = started + 1
       \/ c.kind = "push" /\ ~Clean /\ UNCHANGED started
    /\ cmd' = c /\ calm' = TRUE /\ last' = NothingYet
    /\ loaded' = IF c.kind = "commit" THEN worktree[FuYaml] ELSE NONE
    /\ job' = CASE c.scope = "all" -> "staged" [] c.scope = "skill" -> "skill" [] OTHER -> NONE
    /\ Goto(CASE c.kind = "commit" -> "parent" [] c.kind = "hard" -> "apply" [] OTHER -> "sweep")
    /\ UNCHANGED <<repo, worktree, cand, guard, target, goal, todo, known, moved, late,
                   dropped, authored, moves, faults>>

BeginCommand ==
    \/ \E n \in Backs : Begin([kind |-> "revert", scope |-> NONE, n |-> n])
    \/ \E k \in {"pull", "hard"} : Begin([kind |-> k, scope |-> NONE, n |-> 0])
    \/ \E s \in {"all", "skill"} : Begin([kind |-> "commit", scope |-> s, n |-> 0])
BeginPush == Begin([kind |-> "push", scope |-> NONE, n |-> 0])

--------------------------------------------------------------------------------
(* Committing (git.go).  A candidate is frozen against the branch and the  *)
(* public index as they are, published on that branch alone, and installed *)
(* in the public index where nobody restaged in the meantime.              *)

(* What follows a candidate of the sweep.                                  *)
Swept == Goto(IF cmd.kind = "push" THEN "swept" ELSE "guard")

Prepare(j) == Goto("parent") /\ job' = j /\ cand' = NoCandidate

(* Sweep records the staged snapshot first, and what the worktree holds    *)
(* beyond it in a second commit.                                           *)
Sweep ==
    /\ pc \in {"sweep", "sweep again"}
    /\ IF Clean THEN Swept /\ UNCHANGED <<job, cand>>
       ELSE Prepare(IF pc = "sweep" THEN "staged" ELSE "rest")
    /\ UNCHANGED <<repo, worktree, cmd, loaded, guard, target, goal, todo, known, moved,
                   late, calm, last, ghost>>

(* capturePreparedCommitReference, before the index is read.               *)
CaptureParent ==
    /\ pc = "parent"
    /\ cand' = [cand EXCEPT !.parent = head]
    /\ Goto("baseline")
    /\ UNCHANGED <<repo, worktree, cmd, loaded, job, guard, target, goal, todo, known, moved,
                   late, calm, last, ghost>>

(* capturePublicIndex takes index.lock.                                    *)
CaptureIndex ==
    /\ pc = "baseline"
    /\ OrStop(gitlock = "free",
        /\ cand' = [cand EXCEPT !.base = index]
        /\ Goto("freeze")
        /\ UNCHANGED <<repo, worktree, cmd, loaded, job, guard, target, goal, todo, known,
                       moved, late, calm, last, ghost>>)

(* Where the command goes on from a candidate.  A revert that published    *)
(* nothing has nothing to revert.                                          *)
AfterCandidate ==
    CASE job = "staged" /\ cmd.kind # "commit" ->
           Goto("sweep again") /\ UNCHANGED <<local, last>>
      [] job = "staged" /\ cmd.kind = "commit" ->
           Prepare("all") /\ UNCHANGED <<cmd, loaded, guard, target, goal, todo, known, moved, late, last>>
      [] job = "rest" -> Swept /\ UNCHANGED <<local, last>>
      [] OTHER -> Exit(IF job = "revert" /\ cand.hash = 0 THEN "refused" ELSE "ok")

(* Mutant: the sweep records tracked files only, as `git commit -a` does.  *)
FrozenTracked ==
    IF job = "staged" THEN cand.base
    ELSE [p \in Paths |-> IF cand.base[p] = NONE THEN NONE ELSE Files(worktree)[p]]

(* stageAll and PrepareCommitUnder record the worktree as it is, a staged  *)
(* snapshot the index; beyond its scope a candidate is its parent's tree.  *)
Frozen ==
    CASE job = "staged" -> cand.base
      [] job = "skill" -> [p \in Paths |-> IF p \in Scope THEN Files(worktree)[p]
                                            ELSE TreeOf(cand.parent)[p]]
      [] OTHER -> Files(worktree)

Freeze ==
    /\ pc = "freeze"
    /\ OrStop(GitTree(Frozen),
        IF job = "staged" /\ Frozen = TreeOf(head)
        THEN AfterCandidate /\ UNCHANGED <<repo, worktree, calm, ghost>>
        ELSE
        /\ cand' = [cand EXCEPT !.tree = Frozen,
                     !.sync = CASE job = "staged" -> FALSE [] job = "skill" -> TRUE
                                [] OTHER -> cand.base = TreeOf(cand.parent)]
        /\ Goto(IF job \in {"staged", "rest"} THEN "publish" ELSE "vet")
        /\ UNCHANGED <<repo, worktree, cmd, loaded, job, guard, target, goal, todo, known,
                       moved, late, calm, last, ghost>>)

(* checkAll: HEAD, the index and every file are as the rewrite left them.  *)
CheckAll == head = guard.ref /\ index = guard.index /\ Files(worktree) = guard.expected

(* Mutant: the candidate of a revert is not compared with its target.      *)
VetConfigOnly == (job \in {"all", "skill"}) => worktree[FuYaml] = loaded

(* A revert publishes the target's tree or nothing; a commit publishes the *)
(* fu.yaml whose links it goes on to reconcile.                            *)
Vetted ==
    /\ job = "revert" => cand.tree = target /\ CheckAll
    /\ job \in {"all", "skill"} => worktree[FuYaml] = loaded
    /\ job = "all" => cand.tree[FuYaml] = loaded

Vet ==
    /\ pc = "vet"
    /\ OrStop(Vetted,
        /\ Goto("publish")
        /\ UNCHANGED <<repo, worktree, local, calm, last, ghost>>)

MessageOf ==
    CASE job \in {"staged", "rest"} -> Msg("external", "", 0)
      [] job = "revert" -> Msg("revert", "", cmd.n)
      [] OTHER -> Msg("commit", job, 0)

(* Mutant: the candidate is published on whatever branch there is by now.  *)
AnyParent == TRUE

(* checkPreparedParent, the reference a revert was guarded with, and the   *)
(* compare-and-swap of the branch.                                         *)
ParentUnmoved == head = IF job = "revert" THEN guard.ref ELSE cand.parent

(* A candidate that changes nothing is not published.                      *)
Publish ==
    /\ pc = "publish"
    /\ OrStop(ParentUnmoved,
        /\ IF cand.tree = TreeOf(head)
           THEN UNCHANGED <<commits, head, cand>>
           ELSE /\ commits' = Append(commits, [parent |-> head, msg |-> MessageOf, tree |-> cand.tree])
                /\ head' = Len(commits')
                /\ cand' = [cand EXCEPT !.hash = head']
        /\ Goto("install")
        /\ UNCHANGED <<tracking, remote, index, gitlock, worktree, cmd, loaded, job, guard,
                       target, goal, todo, known, moved, late, calm, last, ghost>>)

InScope == IF job = "skill" THEN Scope ELSE Paths
Install == [p \in Paths |-> IF p \in InScope THEN cand.tree[p] ELSE index[p]]

(* Mutant: the public index is replaced whatever was staged meanwhile.     *)
NeverRestaged == TRUE

(* sameIndexContent, over the entries in scope.                            *)
NotRestaged == \A p \in InScope : index[p] = cand.base[p]

(* syncPreparedPublicIndex, under index.lock.  `fu commit <name>` takes    *)
(* the worktree's version of its own paths over a staged one.              *)
SyncIndex ==
    /\ pc = "install"
    /\ IF cand.hash # 0 /\ head # cand.hash THEN Stop("refused")
       ELSE IF cand.sync /\ gitlock # "free" THEN Stop("refused")
       ELSE IF cand.sync /\ NotRestaged
       THEN /\ index' = Install
            /\ dropped' = dropped \cup (IF job = "skill" THEN {cand.base[p] : p \in Scope} ELSE {})
            /\ AfterCandidate
            /\ UNCHANGED <<commits, head, tracking, remote, gitlock, worktree, calm,
                           authored, moves, started, faults>>
       ELSE AfterCandidate /\ UNCHANGED <<repo, worktree, calm, ghost>>

(* push: the lock is released and the transfer begins (Push below).        *)
PushSwept == pc = "swept" /\ Stop("ok")

--------------------------------------------------------------------------------
(* Rewriting the worktree (worktree_guard.go, worktree_apply.go).  A revert *)
(* and a pull replace only what they found when they began; a hard restore *)
(* makes every tracked path what HEAD says.                                *)
Guarded == cmd.kind # "hard"

(* newWorktreeGuard: the store must be as the sweep left it.               *)
NewGuard ==
    /\ pc = "guard"
    /\ OrStop(gitlock = "free" /\ Clean,
        /\ guard' = [ref |-> head, index |-> index, expected |-> TreeOf(head)]
        /\ Goto(IF cmd.kind = "revert" THEN "resolve" ELSE "relate")
        /\ UNCHANGED <<repo, worktree, cmd, loaded, job, cand, target, goal, todo, known,
                       moved, late, calm, last, ghost>>)

(* WalkOperations: a commit counts if it is one of SPEC 5.3's operations   *)
(* and no compensation seen before it, from HEAD down, cancels it.         *)
Rollbacks(c, o, m) == {x \in Chain[c] : o < x /\ x <= m /\ commits[x].msg.kind = "recover"
                                          /\ commits[x].msg.of = commits[o].msg.of}
Repeats(c, o, m) == {x \in Chain[c] : o < x /\ x <= m /\ commits[x].msg = commits[o].msg}
Cancelled(c, o) ==
    \E m \in Chain[c] : Cardinality(Rollbacks(c, o, m)) > Cardinality(Repeats(c, o, m))
Operations(c) ==
    {o \in Chain[c] : /\ commits[o].msg.kind \in {"op", "revert", "commit"}
                      /\ ~(commits[o].msg.kind = "op" /\ Cancelled(c, o))}

(* resolveOperationsBack: the parent of the n-th operation, 0 if there are *)
(* not so many.                                                            *)
Back(c, n) ==
    LET nth == {o \in Operations(c) : Cardinality({x \in Operations(c) : x > o}) = n - 1}
    IN IF nth = {} THEN 0 ELSE commits[CHOOSE o \in nth : TRUE].parent

Resolve ==
    /\ pc = "resolve"
    /\ OrStop(Back(head, cmd.n) # 0,
        /\ target' = TreeOf(Back(head, cmd.n))
        /\ Goto("apply")
        /\ UNCHANGED <<repo, worktree, cmd, loaded, job, cand, guard, goal, todo, known,
                       moved, late, calm, last, ghost>>)

(* FastForward goes on only where the remote's commit descends from ours.  *)
Relate ==
    /\ pc = "relate"
    /\ IF tracking \in Chain[head] THEN Stop("ok")
       ELSE OrStop(head \in Chain[tracking],
        /\ target' = TreeOf(tracking) /\ goal' = tracking
        /\ Goto("apply")
        /\ UNCHANGED <<repo, worktree, cmd, loaded, job, cand, guard, todo, known, moved,
                       late, calm, last, ghost>>)

(* The deletions, deepest path first, then the writes.                     *)
Deletion(p) == [del |-> TRUE, path |-> p]
Write(p) == [del |-> FALSE, path |-> p]
Plan(names, t) == {IF t[p] = NONE THEN Deletion(p) ELSE Write(p) : p \in names}

Rank(p) == CHOOSE i \in DOMAIN Order : Order[i] = p

(* Mutant: one pass over the paths in order, as it once was.               *)
InOrder(a, b) == Rank(a.path) < Rank(b.path)

Before(a, b) ==
    IF a.del # b.del THEN a.del
    ELSE IF a.del THEN Rank(a.path) > Rank(b.path) ELSE Rank(a.path) < Rank(b.path)

IsNext(step) == step \in todo /\ \A other \in todo \ {step} : Before(step, other)

(* Mutant: the worktree decides what is rewritten, as go-git's Reset does. *)
NamesOnDisk(t) == PathsOf(t) \cup PathsOf(Files(worktree))

(* What a rewrite may touch: never a path only the worktree knows.         *)
Names(t) == PathsOf(t) \cup PathsOf(index)

Apply ==
    /\ pc = "apply"
    /\ IF Guarded /\ ~CheckAll THEN Stop("refused")
       ELSE IF ~Guarded /\ Clean THEN Stop("ok")
       ELSE LET t == IF Guarded THEN target ELSE TreeOf(head) IN
        /\ target' = t
        /\ todo' = Plan(Names(t), t)
        /\ known' = PathsOf(t) \cup PathsOf(index)
        /\ cand' = [NoCandidate EXCEPT !.base = index]
        /\ Goto("check")
        /\ UNCHANGED <<repo, worktree, cmd, loaded, job, guard, goal, moved, late, calm,
                       last, ghost>>

FileAbove(w, p) == Parent[p] # TOP /\ w[Parent[p]] \notin {NONE, DIR}

(* checkPath.                                                              *)
CheckPath(w, p) ==
    /\ head = guard.ref /\ index = guard.index
    /\ IF guard.expected[p] # NONE THEN w[p] = guard.expected[p]
       ELSE ~FileAbove(w, p) /\ w[p] \in {NONE, DIR}

(* Mutant: a path is rewritten without looking at it again.                *)
PathUnchecked(w, p) == TRUE

Approved(w, p) == Guarded => CheckPath(w, p)

(* Nothing is done where the target already holds, and a directory it      *)
(* wants stays although the index has a file of that name.                 *)
Settled(next) ==
    IF next.del THEN worktree[next.path] = DIR /\ \E q \in Children(next.path) : target[q] # NONE
    ELSE worktree[next.path] = target[next.path]

MkdirAbove(p) ==
    IF Parent[p] = TOP THEN worktree ELSE [worktree EXCEPT ![Parent[p]] = DIR]

CheckNext ==
    /\ pc = "check"
    /\ \E next \in todo : IsNext(next) /\
       LET w == IF next.del THEN worktree ELSE MkdirAbove(next.path) IN
        IF Settled(next)
        THEN /\ todo' = todo \ {next}
             /\ UNCHANGED <<repo, worktree, pc, cmd, loaded, job, cand, guard, target, goal,
                            known, moved, late, calm, last, ghost>>
        ELSE IF ~next.del /\ FileAbove(worktree, next.path) THEN Stop("refused")
        ELSE /\ worktree' = w
             /\ IF Approved(w, next.path)
                THEN Goto("rewrite") /\ late' = {}
                     /\ UNCHANGED <<cmd, loaded, job, cand, guard, target, goal, todo, known,
                                    moved, last>>
                ELSE Exit("refused")
             /\ UNCHANGED <<repo, calm, ghost>>

(* removeWorktreeEntry, then the parents it emptied: rmdir alone decides   *)
(* what is empty.                                                          *)
Occupied(w, p) == \E q \in Children(p) : w[q] # NONE
There(p) == worktree[p] # NONE /\ ~FileAbove(worktree, p)
Removed(p) == [worktree EXCEPT ![p] = NONE]
Pruned(w, p) ==
    IF Parent[p] = TOP \/ Occupied(w, Parent[p]) THEN w ELSE [w EXCEPT ![Parent[p]] = NONE]

(* The contents the command may destroy at p: what a hard restore is for,  *)
(* and what comes between the check of a path and its change, a window the *)
(* documents leave open.                                                   *)
Entitled(p) == IF Guarded THEN late ELSE IF p \in known THEN Edits ELSE {}

Rewrite ==
    /\ pc = "rewrite"
    /\ \E next \in todo : IsNext(next) /\
       LET p == next.path IN
        IF There(p) /\ worktree[p] = DIR /\ Occupied(worktree, p) THEN Stop("refused")
        ELSE IF ~next.del /\ Parent[p] # TOP /\ worktree[Parent[p]] # DIR THEN Stop("refused")
        ELSE
        /\ worktree' = IF next.del THEN (IF There(p) THEN Pruned(Removed(p), p) ELSE worktree)
                       ELSE [worktree EXCEPT ![p] = target[p]]
        /\ dropped' = dropped \cup ({worktree[p]} \cap Entitled(p))
        /\ moved' = (moved \/ ~next.del \/ There(p))
        /\ guard' = IF Guarded /\ (next.del => There(p))
                     THEN [guard EXCEPT !.expected[p] = IF next.del THEN NONE ELSE target[p]]
                     ELSE guard
        /\ todo' = todo \ {next} /\ late' = {}
        /\ Goto("check")
        /\ UNCHANGED <<repo, cmd, loaded, job, cand, target, goal, known, calm, last,
                       authored, moves, started, faults>>

(* What follows the rewrite.                                               *)
Applied ==
    CASE cmd.kind = "revert" -> Prepare("revert") /\ UNCHANGED <<cmd, loaded, target, goal,
                                                    todo, known, moved, late, last>>
      [] cmd.kind = "pull" -> Goto("agree") /\ UNCHANGED <<cmd, loaded, job, cand, target, goal,
                                                    todo, known, moved, late, last>>
      [] OTHER -> Exit("ok")

(* rebuildIndexFromTarget, under index.lock, where anything changed.  A    *)
(* hard restore means to discard what is staged.                           *)
Rebuild ==
    /\ pc = "check" /\ todo = {}
    /\ IF ~moved /\ cand.base = target
       THEN Applied /\ UNCHANGED <<repo, worktree, guard, calm, ghost>>
       ELSE IF gitlock # "free" \/ (Guarded /\ ~CheckAll) THEN Stop("refused")
       ELSE /\ index' = target
            /\ dropped' = dropped \cup (IF Guarded THEN {} ELSE {index[p] : p \in Paths})
            /\ IF cmd.kind = "hard" THEN Exit("ok")
               ELSE guard' = [guard EXCEPT !.index = target] /\ Applied
            /\ UNCHANGED <<commits, head, tracking, remote, gitlock, worktree, calm,
                           authored, moves, started, faults>>

(* A pull writes no commit: the branch moves to the remote's, if the store *)
(* still is what the rewrite made it and the branch is where it was.       *)
Agree ==
    /\ pc = "agree"
    /\ OrStop(CheckAll,
        /\ Goto("advance")
        /\ UNCHANGED <<repo, worktree, local, calm, last, ghost>>)

(* Mutant: the branch is set, not compared and swapped.                    *)
BranchIgnored == TRUE

BranchUnmoved == head = guard.ref

Advance ==
    /\ pc = "advance"
    /\ IF BranchUnmoved
       THEN /\ head' = goal
            /\ Exit("ok")
            /\ UNCHANGED <<commits, tracking, remote, index, gitlock, worktree, calm, ghost>>
       ELSE Stop("refused")

Step ==
    \/ Sweep \/ CaptureParent \/ CaptureIndex \/ Freeze \/ Vet \/ Publish \/ SyncIndex
    \/ PushSwept \/ NewGuard \/ Resolve \/ Relate \/ Apply \/ CheckNext \/ Rewrite \/ Rebuild
    \/ Agree \/ Advance

(* The process dies, or writing a file fails: index.lock stays behind if   *)
(* it was held, and of a file being written, nothing or a part.            *)
Writing(p) ==
    /\ pc = "rewrite" /\ IsNext(Write(p))
    /\ worktree[p] # DIR /\ (Parent[p] # TOP => worktree[Parent[p]] = DIR)
Broken ==
    {worktree} \cup {[worktree EXCEPT ![p] = v] : p \in {q \in Paths : Writing(q)}, v \in {NONE, TORN}}

LocksIndex == pc \in {"baseline", "install", "guard"} \/ (pc = "check" /\ todo = {})

Crash ==
    /\ pc # "idle" /\ faults < MaxFaults
    /\ faults' = faults + 1
    /\ gitlock' \in IF LocksIndex THEN {gitlock, "stale"} ELSE {gitlock}
    /\ worktree' \in Broken
    /\ dropped' = dropped \cup UNION {{worktree[p]} \cap Entitled(p) :
                                         p \in {q \in Paths : worktree'[q] # worktree[q]}}
    /\ Exit("crashed")
    /\ UNCHANGED <<commits, head, tracking, remote, index, calm, authored, moves, started>>

--------------------------------------------------------------------------------
(* `fu pull` fetches before it takes fu.lock and `fu push` transfers after *)
(* it released it: both may come at any time of another command.           *)
Fetch ==
    /\ tracking # remote
    /\ tracking' = remote /\ calm' = FALSE
    /\ UNCHANGED <<commits, head, remote, index, gitlock, worktree, pc, local, last, ghost>>

Push ==
    /\ remote \in Chain[head] /\ remote # head
    /\ remote' = head /\ tracking' = head
    /\ UNCHANGED <<commits, head, index, gitlock, worktree, pc, local, calm, last, ghost>>

(* The user edits files, uses git, and removes a lock a dead process left, *)
(* as fu asks.                                                             *)
KeptNext(e) ==
    \/ \E p \in Paths : worktree'[p] = e \/ index'[p] = e
    \/ \E c \in Chain'[head'] : \E p \in Paths : commits'[c].tree[p] = e

User ==
    /\ moves < MaxMoves /\ moves' = moves + 1
    /\ calm' = FALSE
    /\ dropped' = dropped \cup {e \in authored : ~KeptNext(e)}
    /\ UNCHANGED <<tracking, remote, gitlock, pc, cmd, loaded, job, cand, guard, target, goal,
                   todo, known, moved, last, started, faults>>

At(p) == pc = "rewrite" /\ \E step \in todo : IsNext(step) /\ step.path = p

UserWrite(p, e) ==
    /\ e \notin authored /\ authored' = authored \cup {e}
    /\ worktree' = [q \in Paths |-> IF q = p THEN e ELSE IF q = Parent[p] THEN DIR
                                     ELSE IF q \in Children(p) THEN NONE ELSE worktree[q]]
    /\ late' = IF At(p) THEN {e} ELSE late
    /\ UNCHANGED <<commits, head, index>>
    /\ User

UserRemove(p) ==
    /\ worktree[p] \notin {NONE, DIR}
    /\ worktree' = Pruned(Removed(p), p)
    /\ UNCHANGED <<commits, head, index, late, authored>>
    /\ User

(* `git add <path>`; git's index holds no file below a file.               *)
UserStage(p) ==
    /\ gitlock = "free"
    /\ index[p] # Files(worktree)[p]
    /\ index' = [q \in Paths |-> IF q = p THEN Files(worktree)[p]
                                  ELSE IF worktree[p] \notin {NONE, DIR}
                                          /\ (q = Parent[p] \/ q \in Children(p)) THEN NONE
                                  ELSE index[q]]
    /\ UNCHANGED <<commits, head, worktree, late, authored>>
    /\ User

(* `git add -p` stages a version the file does not have.                   *)
UserStagePart(p, e) ==
    /\ gitlock = "free"
    /\ e \notin authored /\ authored' = authored \cup {e}
    /\ worktree[p] \notin {NONE, DIR}
    /\ index' = [q \in Paths |-> IF q = p THEN e
                                  ELSE IF q = Parent[p] \/ q \in Children(p) THEN NONE ELSE index[q]]
    /\ UNCHANGED <<commits, head, worktree, late>>
    /\ User

(* `git commit`.                                                           *)
UserCommit ==
    /\ gitlock = "free"
    /\ index # TreeOf(head)
    /\ commits' = Append(commits, [parent |-> head, msg |-> Msg("direct", "", 0), tree |-> index])
    /\ head' = Len(commits')
    /\ UNCHANGED <<index, worktree, late, authored>>
    /\ User

UserUnlock ==
    /\ gitlock = "stale"
    /\ gitlock' = "free" /\ calm' = FALSE
    /\ UNCHANGED <<commits, head, tracking, remote, index, worktree, pc, local, last, ghost>>

UserStep ==
    \/ \E p \in Paths : UserRemove(p) \/ UserStage(p)
    \/ \E p \in Paths, e \in Edits : UserWrite(p, e) \/ UserStagePart(p, e)
    \/ UserCommit

Next == Step \/ BeginCommand \/ BeginPush \/ Crash \/ Fetch \/ Push \/ UserStep \/ UserUnlock

Spec == Init /\ [][Next]_vars

(* A process runs until it dies; whatever is left to record is recorded by *)
(* a later command; a lock left behind is removed.                         *)
FairSpec == Spec /\ WF_vars(Step) /\ WF_vars(BeginPush) /\ WF_vars(UserUnlock)

--------------------------------------------------------------------------------
(* Every variable keeps its type; commits are Git trees, and the worktree  *)
(* a file system.                                                          *)
TypeOK ==
    /\ commits \in Seq([parent : Nat, msg : Message, tree : Tree])
    /\ \A c \in DOMAIN commits : commits[c].parent < c /\ GitTree(TreeOf(c))
    /\ {head, tracking, remote} \subseteq DOMAIN commits
    /\ index \in Tree /\ gitlock \in {"free", "stale"}
    /\ worktree \in [Paths -> Stored \cup {NONE, DIR}]
    /\ \A p \in Paths : worktree[p] # NONE /\ Parent[p] # TOP => worktree[Parent[p]] = DIR
    /\ cmd \in Command /\ (pc = "idle") = (cmd = NoCommand)
    /\ job \in {"staged", "rest", "revert", "all", "skill", NONE}
    /\ guard.ref = 0 \/ (guard.ref \in DOMAIN commits /\ guard.index \in Tree)
    /\ target \in Tree /\ late \subseteq authored

(* A version a user wrote is in a file, staged, or in the history of the   *)
(* branch, unless the user gave it up or a command did that says so: a     *)
(* hard restore of tracked paths, a `fu commit <name>` of a staged version *)
(* of that skill, and an edit in the instant between check and rewrite.    *)
Kept(e) ==
    \/ \E p \in Paths : worktree[p] = e \/ index[p] = e
    \/ \E c \in Chain[head] : \E p \in Paths : TreeOf(c)[p] = e
EditsKept == \A e \in authored \ dropped : Kept(e)

(* A revert's commit is the tree its message names and undoes nothing      *)
(* else: seen from its parent, n operations back, whoever wrote what       *)
(* meanwhile.                                                              *)
RevertExact ==
    \A c \in DOMAIN commits : commits[c].msg.kind = "revert" =>
        LET to == Back(commits[c].parent, commits[c].msg.n)
        IN to # 0 /\ TreeOf(c) = TreeOf(to)

(* `fu commit <name>` records that skill and nothing else, and takes       *)
(* nothing back that somebody committed while it was being prepared.       *)
CommitScoped ==
    \A c \in DOMAIN commits : commits[c].msg = Msg("commit", "skill", 0) =>
        \A p \in Paths \ Scope : TreeOf(c)[p] = TreeOf(commits[c].parent)[p]

(* The branch never loses a commit, whatever moves it.                     *)
ForwardOnly == [][({head} \subseteq Chain'[head'])]_vars

(* Undisturbed, a command does what it is for, directories that become     *)
(* files and files that become directories included.  A hard restore ends  *)
(* with every tracked path and the index as HEAD has them, and only an     *)
(* untracked file in the place of a tracked or staged path stops it.  A    *)
(* pull ends with the remote's commits, and only a branch that has         *)
(* diverged stops it; a revert ends where it should, and stops only if     *)
(* there is no such operation or nothing to change.                        *)
Tracked(p) == TreeOf(head)[p] # NONE
InTheWay ==
    \E p, q \in Paths : /\ ~Tracked(p) /\ index[p] = NONE /\ Files(worktree)[p] # NONE
                        /\ \/ q = Parent[p] /\ (Tracked(q) \/ index[q] # NONE)
                           \/ p = Parent[q] /\ Tracked(q)
Undisturbed ==
    calm /\ gitlock = "free" =>
        /\ last.kind = "hard" =>
            CASE last.how = "ok" -> index = TreeOf(head) /\
                                    \A p \in Paths : Tracked(p) => worktree[p] = TreeOf(head)[p]
              [] last.how = "refused" -> InTheWay
              [] OTHER -> TRUE
        /\ last.kind = "pull" =>
            CASE last.how = "ok" -> tracking \in Chain[head] /\ Clean
              [] last.how = "refused" -> tracking \notin Chain[head] /\ head \notin Chain[tracking]
              [] OTHER -> TRUE
        /\ last.kind = "revert" =>
            CASE last.how = "ok" -> commits[head].msg = Msg("revert", "", last.n) /\ Clean
              [] last.how = "refused" -> LET to == Back(head, last.n)
                                         IN to = 0 \/ TreeOf(to) = TreeOf(head)
              [] OTHER -> TRUE

(* Whatever was edited, staged, half rewritten by a crash, or pulled and   *)
(* not yet on the branch ends up recorded.                                 *)
Recorded == []<>(pc = "idle" /\ Clean)
=============================================================================
