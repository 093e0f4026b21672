---------------------------- MODULE WorktreeProofs ----------------------------
(***************************************************************************)
(* For every history of commits, every tree of paths two levels deep and   *)
(* any number of commands, edits and crashes: what users wrote is in a     *)
(* file, in the index or in the history of the branch, unless it was given *)
(* up; a revert's commit is the tree its message names; a commit of one    *)
(* skill leaves the others as its parent has them; and no step takes a     *)
(* commit off the branch.                                                  *)
(*                                                                         *)
(* The branch may move under a command at any step, so the invariant ties  *)
(* what a command holds to commits, not to the branch: a candidate's       *)
(* parent, a guard's commit and a revert's target stay in the history of   *)
(* the branch whoever commits meanwhile (CandInv, GuardInv, AimInv), and a *)
(* pull's goal descends from its guard's commit (GoalInv).                 *)
(*                                                                         *)
(* The last part is about commands nobody disturbs: a hard restore, a pull *)
(* and a revert leave what they are for.  There what a command holds is    *)
(* tied to the store itself, place by place and, in the loop over the      *)
(* paths, path by path (CourseInv).                                        *)
(***************************************************************************)
EXTENDS Worktree, TLAPS, WellFoundedInduction, SequenceTheorems

(* Every non-empty set of numbers has a least one.                         *)
LEMMA Least ==
    ASSUME NEW T \in SUBSET Nat, T # {}
    PROVE  \E x \in T : \A y \in T : x <= y
<1> DEFINE R == {ss \in Nat \X Nat : ss[1] < ss[2]}
<1>1. IsWellFoundedOn(R, Nat)
  <2>1. OpToRel(<, Nat) = R
    BY DEF OpToRel
  <2> HIDE DEF R
  <2> QED BY <2>1, NatLessThanWellFounded, Zenon
<1>2. PICK x \in T : \A y \in T : ~ (<<y, x>> \in R)
  <2> HIDE DEF R
  <2> QED BY <1>1, WFMin
<1>3. ASSUME NEW y \in T PROVE x <= y
  <2>1. x \in Nat /\ y \in Nat
    OBVIOUS
  <2>2. y < x => <<y, x>> \in R
    BY <2>1
  <2>3. ~ (<<y, x>> \in R)
    BY <1>2
  <2> QED BY <2>1, <2>2, <2>3
<1> QED BY <1>3

(* A number beyond which T does not go back is a bad one with only good    *)
(* ones below it.                                                          *)
LEMMA LeastIn ==
    ASSUME NEW n \in Nat, NEW T \in SUBSET (0 .. n), T # {}
    PROVE  \E x \in T : \A y \in 0 .. n : y < x => y \notin T
<1>1. T \in SUBSET Nat
  OBVIOUS
<1>2. PICK x \in T : \A y \in T : x <= y
  BY <1>1, Least
<1>3. ASSUME NEW y \in 0 .. n, y < x, y \in T PROVE FALSE
  BY <1>2, <1>3
<1> QED BY <1>3

--------------------------------------------------------------------------------
(* The history: what Chain computes, over any database cs of commits.      *)
IsReach(cs, f) ==
    f = [c \in 0 .. Len(cs) |-> IF c = 0 THEN {} ELSE {c} \cup f[cs[c].parent]]
Reach(cs) == CHOOSE f : IsReach(cs, f)

(* Chain is the Reach of the database as it is ...                         *)
LEMMA ChainIs == Chain = Reach(commits)
BY DEF Chain, Reach, IsReach

(* ... and Chain' that of the database a step leaves.                      *)
LEMMA ChainIsNext == Chain' = Reach(commits')
BY DEF Chain, Reach, IsReach

(* Parents come first.                                                     *)
Ordered(cs) ==
    /\ Len(cs) \in Nat
    /\ \A c \in 1 .. Len(cs) : cs[c].parent \in Nat /\ cs[c].parent < c

(* The least set of commits that holds c and every parent of its members.  *)
Upwards(cs, S) == \A y \in S : cs[y].parent # 0 => cs[y].parent \in S
Above(cs, c) ==
    {x \in 1 .. Len(cs) : \A S \in SUBSET (1 .. Len(cs)) : c \in S /\ Upwards(cs, S) => x \in S}

(* A commit's history is itself and its parent's history.                  *)
LEMMA AboveStep ==
    ASSUME NEW cs, Ordered(cs), NEW c \in 1 .. Len(cs)
    PROVE  Above(cs, c) = {c} \cup (IF cs[c].parent = 0 THEN {} ELSE Above(cs, cs[c].parent))
<1> DEFINE p == cs[c].parent
           up == IF p = 0 THEN {} ELSE Above(cs, p)
<1>1. p \in Nat /\ p < c /\ (p # 0 => p \in 1 .. Len(cs))
  BY DEF Ordered
<1>2. {c} \cup up \in SUBSET (1 .. Len(cs))
  BY DEF Above
<1>3. Upwards(cs, {c} \cup up)
  <2>1. p # 0 => p \in up
    BY <1>1 DEF Above
  <2>2. ASSUME NEW y \in up, cs[y].parent # 0 PROVE cs[y].parent \in up
    <3>1. p # 0 /\ y \in Above(cs, p) /\ y \in 1 .. Len(cs)
      BY <2>2 DEF Above
    <3>2. cs[y].parent \in 1 .. Len(cs)
      BY <3>1, <2>2 DEF Ordered
    <3>3. ASSUME NEW S \in SUBSET (1 .. Len(cs)), p \in S, Upwards(cs, S)
          PROVE  cs[y].parent \in S
      BY <3>1, <3>3, <2>2 DEF Above, Upwards
    <3> QED BY <3>1, <3>2, <3>3 DEF Above
  <2> HIDE DEF up
  <2> QED BY <2>1, <2>2 DEF Upwards
<1>4. Above(cs, c) \subseteq {c} \cup up
  <2> HIDE DEF up
  <2> QED BY <1>2, <1>3 DEF Above
<1>5. ASSUME NEW x \in {c} \cup up PROVE x \in Above(cs, c)
  <2>1. x \in 1 .. Len(cs)
    BY <1>2
  <2>2. ASSUME NEW S \in SUBSET (1 .. Len(cs)), c \in S, Upwards(cs, S) PROVE x \in S
    <3>1. p # 0 => p \in S
      BY <2>2 DEF Upwards
    <3> QED BY <3>1, <2>2, <1>1 DEF Above
  <2> QED BY <2>1, <2>2 DEF Above
<1> QED BY <1>4, <1>5

(* So the recursion has a solution, and Reach is one.                      *)
LEMMA ReachStep ==
    ASSUME NEW cs, Ordered(cs)
    PROVE  /\ Reach(cs) = [c \in 0 .. Len(cs) |->
                              IF c = 0 THEN {} ELSE {c} \cup Reach(cs)[cs[c].parent]]
           /\ Reach(cs)[0] = {}
           /\ \A c \in 1 .. Len(cs) : Reach(cs)[c] = {c} \cup Reach(cs)[cs[c].parent]
<1> DEFINE f == [c \in 0 .. Len(cs) |-> IF c = 0 THEN {} ELSE Above(cs, c)]
           g == [c \in 0 .. Len(cs) |-> IF c = 0 THEN {} ELSE {c} \cup f[cs[c].parent]]
<1>1. ASSUME NEW c \in 0 .. Len(cs) PROVE f[c] = g[c]
  <2>1. CASE c = 0
    BY <2>1
  <2>2. CASE c # 0
    <3>1. c \in 1 .. Len(cs) /\ cs[c].parent \in 0 .. Len(cs)
      BY <2>2 DEF Ordered
    <3>2. f[cs[c].parent] = IF cs[c].parent = 0 THEN {} ELSE Above(cs, cs[c].parent)
      BY <3>1
    <3>3. f[c] = Above(cs, c) /\ g[c] = {c} \cup f[cs[c].parent]
      BY <2>2
    <3> HIDE DEF f, g
    <3> QED BY <3>1, <3>2, <3>3, AboveStep
  <2> QED BY <2>1, <2>2
<1>2. f = g
  <2>1. f = [c \in 0 .. Len(cs) |-> f[c]] /\ g = [c \in 0 .. Len(cs) |-> g[c]]
    OBVIOUS
  <2> HIDE DEF f, g
  <2> QED BY <1>1, <2>1
<1>3. IsReach(cs, f)
  BY <1>2 DEF IsReach
<1>4. IsReach(cs, Reach(cs))
  <2> HIDE DEF f, g
  <2> QED BY <1>3 DEF Reach
<1>5. Reach(cs) = [c \in 0 .. Len(cs) |-> IF c = 0 THEN {} ELSE {c} \cup Reach(cs)[cs[c].parent]]
  BY <1>4 DEF IsReach
<1>6. Reach(cs)[0] = {}
  BY <1>5 DEF Ordered
<1>7. ASSUME NEW c \in 1 .. Len(cs) PROVE Reach(cs)[c] = {c} \cup Reach(cs)[cs[c].parent]
  <2>1. c \in 0 .. Len(cs) /\ c # 0
    BY DEF Ordered
  <2> QED BY <2>1, <1>5
<1> QED BY <1>5, <1>6, <1>7

(* A commit is reached from itself, and only older ones are.               *)
LEMMA ReachType ==
    ASSUME NEW cs, Ordered(cs)
    PROVE  /\ \A c \in 0 .. Len(cs) : Reach(cs)[c] \subseteq 1 .. c
           /\ \A c \in 1 .. Len(cs) : c \in Reach(cs)[c]
<1> DEFINE bad == {c \in 0 .. Len(cs) : ~(Reach(cs)[c] \subseteq 1 .. c)}
<1>1. bad = {}
  <2> SUFFICES ASSUME bad # {} PROVE FALSE
    OBVIOUS
  <2>1. bad \in SUBSET (0 .. Len(cs)) /\ Len(cs) \in Nat
    BY DEF Ordered
  <2>2. PICK c \in bad : \A y \in 0 .. Len(cs) : y < c => y \notin bad
    <3> HIDE DEF bad
    <3> QED BY <2>1, LeastIn
  <2>3. CASE c = 0
    BY <2>3, ReachStep
  <2>4. CASE c # 0
    <3>1. c \in 1 .. Len(cs) /\ cs[c].parent \in 0 .. Len(cs) /\ cs[c].parent < c
      BY <2>4 DEF Ordered
    <3>2. Reach(cs)[cs[c].parent] \subseteq 1 .. cs[c].parent
      BY <3>1, <2>2
    <3>3. Reach(cs)[c] = {c} \cup Reach(cs)[cs[c].parent]
      BY <3>1, ReachStep
    <3>4. Reach(cs)[c] \subseteq 1 .. c
      BY <3>1, <3>2, <3>3
    <3> QED BY <3>4
  <2> QED BY <2>3, <2>4
<1>2. \A c \in 0 .. Len(cs) : Reach(cs)[c] \subseteq 1 .. c
  BY <1>1
<1>3. \A c \in 1 .. Len(cs) : c \in Reach(cs)[c]
  BY ReachStep
<1> QED BY <1>2, <1>3

(* What is reached from a reached commit is reached.                       *)
LEMMA ReachTrans ==
    ASSUME NEW cs, Ordered(cs), NEW c \in 0 .. Len(cs), NEW x \in Reach(cs)[c]
    PROVE  Reach(cs)[x] \subseteq Reach(cs)[c]
<1> DEFINE bad == {d \in 0 .. Len(cs) : \E y \in Reach(cs)[d] :
  ~(Reach(cs)[y] \subseteq Reach(cs)[d])}
<1>1. bad = {}
  <2> SUFFICES ASSUME bad # {} PROVE FALSE
    OBVIOUS
  <2>1. bad \in SUBSET (0 .. Len(cs)) /\ Len(cs) \in Nat
    BY DEF Ordered
  <2>2. PICK d \in bad : \A y \in 0 .. Len(cs) : y < d => y \notin bad
    <3> HIDE DEF bad
    <3> QED BY <2>1, LeastIn
  <2>3. PICK y \in Reach(cs)[d] : ~(Reach(cs)[y] \subseteq Reach(cs)[d])
    BY <2>2
  <2>4. d # 0 /\ d \in 1 .. Len(cs)
    BY <2>2, <2>3, ReachStep
  <2>5. cs[d].parent \in 0 .. Len(cs) /\ cs[d].parent < d
    BY <2>4 DEF Ordered
  <2>6. Reach(cs)[d] = {d} \cup Reach(cs)[cs[d].parent]
    BY <2>4, ReachStep
  <2>7. cs[d].parent \notin bad
    BY <2>5, <2>2
  <2>8. \A z \in Reach(cs)[cs[d].parent] : Reach(cs)[z] \subseteq Reach(cs)[cs[d].parent]
    BY <2>7, <2>5
  <2> QED BY <2>3, <2>6, <2>8
<1> QED BY <1>1

(* A database that only grows leaves the history of its commits alone.     *)
LEMMA ReachKept ==
    ASSUME NEW cs, NEW ds, Ordered(cs), Ordered(ds), Len(cs) <= Len(ds),
           \A c \in 1 .. Len(cs) : ds[c] = cs[c]
    PROVE  \A c \in 0 .. Len(cs) : Reach(ds)[c] = Reach(cs)[c]
<1> DEFINE bad == {c \in 0 .. Len(cs) : Reach(ds)[c] # Reach(cs)[c]}
<1>1. bad = {}
  <2> SUFFICES ASSUME bad # {} PROVE FALSE
    OBVIOUS
  <2>1. bad \in SUBSET (0 .. Len(cs)) /\ Len(cs) \in Nat /\ Len(ds) \in Nat
    BY DEF Ordered
  <2>2. PICK c \in bad : \A y \in 0 .. Len(cs) : y < c => y \notin bad
    <3> HIDE DEF bad
    <3> QED BY <2>1, LeastIn
  <2>3. c # 0 /\ c \in 1 .. Len(cs)
    BY <2>2, ReachStep
  <2>4. cs[c].parent \in 0 .. Len(cs) /\ cs[c].parent < c /\ c \in 1 .. Len(ds)
    BY <2>3, <2>1 DEF Ordered
  <2>5. Reach(cs)[c] = {c} \cup Reach(cs)[cs[c].parent]
    BY <2>3, ReachStep
  <2>6. Reach(ds)[c] = {c} \cup Reach(ds)[cs[c].parent]
    BY <2>3, <2>4, ReachStep
  <2>7. Reach(ds)[cs[c].parent] = Reach(cs)[cs[c].parent]
    BY <2>4, <2>2
  <2> QED BY <2>2, <2>5, <2>6, <2>7
<1> QED BY <1>1
--------------------------------------------------------------------------------
(* Which operations a history holds, over any database of commits.         *)
RollbacksIn(cs, h, o, m) ==
    {x \in h : o < x /\ x <= m /\ cs[x].msg.kind = "recover" /\ cs[x].msg.of = cs[o].msg.of}
RepeatsIn(cs, h, o, m) == {x \in h : o < x /\ x <= m /\ cs[x].msg = cs[o].msg}
OperationsIn(cs, h) ==
    {o \in h : /\ cs[o].msg.kind \in {"op", "revert", "commit"}
               /\ ~(cs[o].msg.kind = "op" /\ \E m \in h : Cardinality(RollbacksIn(cs, h, o, m))
                                                            > Cardinality(RepeatsIn(cs, h, o, m)))}
NthIn(ops, n) == {o \in ops : Cardinality({x \in ops : x > o}) = n - 1}
BackIn(cs, f, c, n) ==
    LET nth == NthIn(OperationsIn(cs, f[c]), n)
    IN IF nth = {} THEN 0 ELSE cs[CHOOSE o \in nth : TRUE].parent

(* The inductive invariant.                                                *)
Commit == [parent : Nat, msg : Message, tree : Tree]
Candidate == [parent : Nat, base : Tree, tree : Tree, sync : BOOLEAN, hash : Nat]
Guard == [ref : Nat, index : Tree, expected : Tree]
Todo == [del : BOOLEAN, path : Paths]

(* Where a process can be: preparing a commit, and rewriting the worktree. *)
Preparing == {"parent", "baseline", "freeze", "vet", "publish", "install"}
Captured == Preparing \ {"parent"}
Decided == {"vet", "publish", "install"}
Looping == {"check", "rewrite"}
Rewriting == {"resolve", "relate", "apply", "check", "rewrite", "agree", "advance"}
Places == {"idle", "sweep", "sweep again", "swept", "guard"} \cup Preparing \cup Rewriting
Jobs == {"staged", "rest", "revert", "all", "skill", NONE}

StoreTyped ==
    /\ commits \in Seq(Commit)
    /\ \A c \in DOMAIN commits : commits[c].parent < c /\ GitTree(TreeOf(c))
    /\ head \in DOMAIN commits /\ tracking \in DOMAIN commits /\ remote \in DOMAIN commits
    /\ index \in Tree /\ GitTree(index)
    /\ gitlock \in {"free", "stale"}
    /\ worktree \in [Paths -> Stored \cup {NONE, DIR}]
LocalTyped ==
    /\ pc \in Places /\ cmd \in Command /\ job \in Jobs
    /\ loaded \in Stored \cup {NONE, DIR}
    /\ cand \in Candidate /\ GitTree(cand.tree)
    /\ guard \in Guard
    /\ target \in Tree /\ GitTree(target)
    /\ goal \in Nat /\ todo \in SUBSET Todo /\ known \in SUBSET Paths
    /\ moved \in BOOLEAN /\ calm \in BOOLEAN
GhostTyped == late \subseteq authored /\ authored \subseteq Edits

(* A directory holds what is below it.                                     *)
FilesInv == \A p \in Paths : worktree[p] # NONE /\ Parent[p] # TOP => worktree[Parent[p]] = DIR

(* Which command is where, and with which candidate.                       *)
GuardLive == job = "revert" \/ (pc \in Rewriting /\ Guarded)
ControlInv ==
    /\ pc = "idle" => cmd = NoCommand
    /\ pc # "idle" => cmd.kind # NONE
    /\ pc \in {"idle", "sweep"} => job = NONE
    /\ pc \notin Looping => todo = {}
    /\ pc = "idle" => late = {} /\ target = NoTree /\ goal = 0 /\ cand = NoCandidate
    /\ pc = "sweep again" => job = "staged"
    /\ pc \in Preparing => job # NONE
    /\ pc = "vet" => job \notin {"staged", "rest"}
    /\ pc \in {"sweep", "sweep again", "guard"} => cmd.kind \in {"revert", "pull", "push"}
    /\ pc = "swept" => cmd.kind = "push"
    /\ pc \in Rewriting => job \in {NONE, "staged", "rest"}
    /\ pc \in Rewriting \cup {"guard"} => cmd.kind # "push"
    /\ pc = "resolve" => cmd.kind = "revert"
    /\ pc \in {"relate", "agree", "advance"} => cmd.kind = "pull"
    /\ cmd.kind = "commit" => pc \in Preparing /\ job \in {"staged", "all", "skill"}
    /\ cmd.kind = "hard" => pc \in {"apply", "check", "rewrite"}
    /\ job \in {"all", "skill"} => cmd.kind = "commit"
    /\ job = "revert" => cmd.kind = "revert" /\ pc \in Preparing
    /\ ~GuardLive => guard = NoGuard

(* A candidate's parent stays in the history of the branch.                *)
CandInv ==
    /\ pc \in Captured => cand.parent \in Chain[head]
    /\ pc \in Preparing \ {"install"} => cand.hash = 0
    /\ pc \in Decided =>
        /\ job = "staged" => ~cand.sync
        /\ job \in {"rest", "revert", "all"} /\ cand.sync => cand.base = TreeOf(cand.parent)
        /\ job = "skill" => \A p \in Paths \ Scope : cand.tree[p] = TreeOf(cand.parent)[p]

(* So does the commit a rewrite is guarded with; what it may replace is    *)
(* that commit's, or written by itself.                                    *)
GuardInv ==
    /\ GuardLive => guard.ref \in Chain[head]
    /\ pc \in {"resolve", "relate", "apply"} /\ Guarded =>
         guard.index = TreeOf(guard.ref) /\ guard.expected = TreeOf(guard.ref)
    /\ pc \in Looping /\ Guarded =>
         /\ guard.index = TreeOf(guard.ref)
         /\ \A p \in Paths : guard.expected[p] \in {TreeOf(guard.ref)[p], target[p], NONE}

PlanInv ==
    /\ pc \in Looping => \A s \in todo : (s.del <=> target[s.path] = NONE) /\ s.path \in known
    /\ pc = "rewrite" => \E s \in todo : IsNext(s)
    /\ pc = "rewrite" /\ Guarded =>
         \A s \in todo : IsNext(s) =>
             worktree[s.path] \in late \cup {NONE, DIR, TreeOf(guard.ref)[s.path]}

(* A pull's goal descends from what its rewrite began with.                *)
GoalInv ==
    cmd.kind = "pull" /\ pc \in {"apply", "check", "rewrite", "agree", "advance"} =>
        goal \in DOMAIN commits /\ guard.ref \in Chain[goal] /\ target = TreeOf(goal)

(* A revert's target is the tree that many operations back from there.     *)
Aimed(r) ==
    LET to == BackIn(commits, Chain, r, cmd.n) IN to # 0 /\ target = TreeOf(to)
AimInv ==
    cmd.kind = "revert" =>
        /\ pc = "apply" => \E r \in Chain[head] : guard.ref \in Chain[r] /\ Aimed(r)
        /\ pc \in Looping \/ job = "revert" => Aimed(guard.ref)
        /\ pc = "publish" /\ job = "revert" => cand.tree = target

BaseInv ==
    /\ StoreTyped /\ LocalTyped /\ GhostTyped /\ FilesInv /\ ControlInv /\ CandInv /\ GuardInv
    /\ PlanInv /\ GoalInv /\ AimInv

(* What a command commits, it commits on top of the branch.                *)
RootedInv ==
    \A c \in DOMAIN commits :
        commits[c].msg.kind \in {"revert", "commit"} => commits[c].parent \in DOMAIN commits
IInv == BaseInv /\ RootedInv /\ RevertExact /\ CommitScoped /\ EditsKept

(* `fu revert n` resolves n by these operations.                           *)
LEMMA BackIs == \A c, n : Back(c, n) = BackIn(commits, Chain, c, n)
<1>1. \A c, o, m : Rollbacks(c, o, m) = RollbacksIn(commits, Chain[c], o, m)
  BY DEF Rollbacks, RollbacksIn
<1>2. \A c, o, m : Repeats(c, o, m) = RepeatsIn(commits, Chain[c], o, m)
  BY DEF Repeats, RepeatsIn
<1>3. ASSUME NEW c PROVE Operations(c) = OperationsIn(commits, Chain[c])
  BY <1>1, <1>2, Zenon DEF Operations, OperationsIn, Cancelled
<1>4. ASSUME NEW c, NEW n PROVE Back(c, n) = BackIn(commits, Chain, c, n)
  <2> DEFINE ops == Operations(c)
             nth == {o \in ops : Cardinality({x \in ops : x > o}) = n - 1}
  <2>1. Back(c, n) = IF nth = {} THEN 0 ELSE commits[CHOOSE o \in nth : TRUE].parent
    BY DEF Back
  <2>2. nth = NthIn(OperationsIn(commits, Chain[c]), n)
    <3>1. ops = OperationsIn(commits, Chain[c])
      BY <1>3
    <3> HIDE DEF ops
    <3> QED BY <3>1 DEF NthIn
  <2> HIDE DEF nth
  <2> QED BY <2>1, <2>2 DEF BackIn
<1> QED BY <1>4

(* They depend on the commits of that history alone.                       *)
LEMMA BackKept ==
    ASSUME NEW cs, NEW ds, NEW f, NEW g, NEW c, NEW n,
           f[c] = g[c], \A x \in f[c] : cs[x] = ds[x]
    PROVE  BackIn(cs, f, c, n) = BackIn(ds, g, c, n)
<1> DEFINE h == f[c]
<1>1. ASSUME NEW o \in h, NEW m \in h
      PROVE  /\ RollbacksIn(cs, h, o, m) = RollbacksIn(ds, h, o, m)
             /\ RepeatsIn(cs, h, o, m) = RepeatsIn(ds, h, o, m)
  <2>1. RollbacksIn(cs, h, o, m) = RollbacksIn(ds, h, o, m)
    BY DEF RollbacksIn
  <2>2. RepeatsIn(cs, h, o, m) = RepeatsIn(ds, h, o, m)
    BY DEF RepeatsIn
  <2> QED BY <2>1, <2>2
<1>2. \A x \in h : cs[x] = ds[x]
  OBVIOUS
<1> HIDE DEF h
<1>3. OperationsIn(cs, h) = OperationsIn(ds, h)
  <2>1. ASSUME NEW o \in h
        PROVE  (\E m \in h :
               Cardinality(RollbacksIn(cs, h, o, m)) > Cardinality(RepeatsIn(cs, h, o, m)))
          <=> (\E m \in h :
            Cardinality(RollbacksIn(ds, h, o, m)) > Cardinality(RepeatsIn(ds, h, o, m)))
    BY <1>1
  <2> QED BY <2>1, <1>2 DEF OperationsIn
<1>4. OperationsIn(cs, h) \subseteq h
  BY DEF OperationsIn
<1> DEFINE nth == NthIn(OperationsIn(cs, h), n)
<1>5. nth \subseteq h
  BY <1>4 DEF NthIn
<1>6. nth # {} => (CHOOSE o \in nth : TRUE) \in h
  <2> HIDE DEF nth
  <2> QED BY <1>5
<1>7. BackIn(cs, f, c, n) = IF nth = {} THEN 0 ELSE cs[CHOOSE o \in nth : TRUE].parent
  BY DEF BackIn, h
<1>8. BackIn(ds, g, c, n) = IF nth = {} THEN 0 ELSE ds[CHOOSE o \in nth : TRUE].parent
  BY <1>3 DEF BackIn, h
<1> HIDE DEF nth
<1> QED BY <1>2, <1>6, <1>7, <1>8
--------------------------------------------------------------------------------
(* The history of the store.                                               *)
LEMMA Recorded1 ==
    ASSUME StoreTyped
    PROVE  Ordered(commits) /\ DOMAIN commits = 1 .. Len(commits) /\ Len(commits) \in Nat
<1>1. Len(commits) \in Nat /\ DOMAIN commits = 1 .. Len(commits)
  BY LenProperties DEF StoreTyped
<1>2. \A c \in DOMAIN commits : commits[c] \in Commit
  BY ElementOfSeq, <1>1 DEF StoreTyped
<1> QED BY <1>1, <1>2 DEF StoreTyped, Ordered, Commit

(* The same of the commits of the store (the walk of store/operations.go). *)
LEMMA ChainFacts ==
    ASSUME StoreTyped
    PROVE  /\ Chain[0] = {}
           /\ \A c \in DOMAIN commits : /\ c \in Chain[c]
                                        /\ Chain[c] \subseteq 1 .. c
                                        /\ Chain[c] \subseteq DOMAIN commits
                                        /\ Chain[c] = {c} \cup Chain[commits[c].parent]
                                        /\ \A x \in Chain[c] : Chain[x] \subseteq Chain[c]
<1>1. Ordered(commits) /\ DOMAIN commits = 1 .. Len(commits) /\ Len(commits) \in Nat
  BY Recorded1
<1>2. Reach(commits)[0] = {}
  BY <1>1, ReachStep
<1>3. ASSUME NEW c \in 1 .. Len(commits)
      PROVE  /\ c \in Reach(commits)[c]
             /\ Reach(commits)[c] \subseteq 1 .. c
             /\ Reach(commits)[c] = {c} \cup Reach(commits)[commits[c].parent]
             /\ \A x \in Reach(commits)[c] : Reach(commits)[x] \subseteq Reach(commits)[c]
  <2>1. c \in 0 .. Len(commits)
    BY <1>1
  <2> QED BY <1>1, <2>1, ReachType, ReachStep, ReachTrans
<1>4. \A c \in 1 .. Len(commits) : 1 .. c \subseteq 1 .. Len(commits)
  BY <1>1
<1> QED BY <1>1, <1>2, <1>3, <1>4, ChainIs

(* A step leaves the commits there are and what they descend from.         *)
Grown ==
    /\ DOMAIN commits \subseteq DOMAIN commits'
    /\ \A c \in DOMAIN commits : commits'[c] = commits[c] /\ Chain'[c] = Chain[c]

(* A database that got longer and kept its entries has Grown.              *)
LEMMA GrownWhen ==
    ASSUME StoreTyped, StoreTyped', Len(commits) <= Len(commits'),
           \A c \in 1 .. Len(commits) : commits'[c] = commits[c]
    PROVE  Grown
<1>1. Ordered(commits) /\ DOMAIN commits = 1 .. Len(commits) /\ Len(commits) \in Nat
  BY Recorded1
<1>2. Ordered(commits') /\ DOMAIN commits' = 1 .. Len(commits') /\ Len(commits') \in Nat
  <2>1. (Ordered(commits) /\ DOMAIN commits = 1 .. Len(commits) /\ Len(commits) \in Nat)'
    BY Recorded1, PTL
  <2> QED BY <2>1 DEF Ordered
<1>3. \A c \in 0 .. Len(commits) : Reach(commits')[c] = Reach(commits)[c]
  BY <1>1, <1>2, ReachKept
<1> QED BY <1>1, <1>2, <1>3, ChainIs, ChainIsNext DEF Grown

(* How the branch moves: not at all, to a new commit made on it, or, at    *)
(* the end of a pull, to the remote's.                                     *)
Stays == commits' = commits /\ head' = head
Commits(m, t) ==
    /\ commits' = Append(commits, [parent |-> head, msg |-> m, tree |-> t])
    /\ head' = Len(commits')
Advances == pc = "advance" /\ commits' = commits /\ head' = goal /\ head = guard.ref

(* A candidate is published under one of the messages of commit_scope.go.  *)
LEMMA MessageTyped ==
    ASSUME LocalTyped, job # NONE
    PROVE  MessageOf \in Message
<1>1. "" \in Subjects /\ (job \in {"all", "skill"} => job \in Subjects)
  BY DEF Subjects
<1>2. cmd.n \in Backs \cup {0}
  BY DEF LocalTyped, Command
<1>3. ASSUME NEW k \in {"external", "revert", "commit"}, NEW o \in Subjects, NEW n \in Backs \cup
             {0}
      PROVE  Msg(k, o, n) \in Message
  BY DEF Msg, Message
<1> QED BY <1>1, <1>2, <1>3 DEF MessageOf, LocalTyped, Jobs

(* These are the only ways the branch of HEAD moves.                       *)
LEMMA BranchSteps ==
    ASSUME StoreTyped, LocalTyped, [Next]_vars
    PROVE  \/ Stays
           \/ pc = "publish" /\ ParentUnmoved /\ Commits(MessageOf, cand.tree)
           \/ Commits(Msg("direct", "", 0), index)
           \/ Advances
<1>1. CASE Publish
  BY <1>1 DEF Publish, OrStop, Stop, Exit, repo, Stays, Commits
<1>2. CASE Advance
  BY <1>2 DEF Advance, BranchUnmoved, Stop, Exit, repo, Stays, Advances
<1>3. CASE UserStep
  BY <1>3 DEF UserStep, UserRemove, UserStage, UserWrite, UserStagePart, UserCommit, Stays, Commits
<1>4. CASE \/ Sweep \/ CaptureParent \/ CaptureIndex \/ Freeze \/ Vet \/ SyncIndex \/ PushSwept
           \/ NewGuard \/ Resolve \/ Relate \/ Apply \/ CheckNext \/ Rewrite \/ Rebuild \/ Agree
  <2>1. CASE Sweep \/ CaptureParent \/ CaptureIndex \/ Freeze \/ Vet
    BY <2>1 DEF Sweep, CaptureParent, CaptureIndex, Freeze, Vet, OrStop, Stop, repo, Stays
  <2>2. CASE SyncIndex \/ PushSwept \/ NewGuard \/ Resolve \/ Relate \/ Apply
    BY <2>2 DEF SyncIndex, PushSwept, NewGuard, Resolve, Relate, Apply, OrStop, Stop, repo, Stays
  <2>3. CASE CheckNext \/ Rewrite \/ Rebuild \/ Agree
    BY <2>3 DEF CheckNext, Rewrite, Rebuild, Agree, OrStop, Stop, repo, Stays
  <2> QED BY <1>4, <2>1, <2>2, <2>3
<1>5. CASE BeginCommand \/ BeginPush \/ Crash \/ Fetch \/ Push \/ UserUnlock
  BY <1>5 DEF BeginCommand, BeginPush, Begin, Crash, Fetch, Push, UserUnlock, repo, Stays
<1>6. CASE UNCHANGED vars
  BY <1>6 DEF vars, repo, Stays
<1> QED BY <1>1, <1>2, <1>3, <1>4, <1>5, <1>6 DEF Next, Step
--------------------------------------------------------------------------------
(* Types.                                                                  *)
LEMMA Contents ==
    /\ NONE \notin Stored /\ DIR \notin Stored /\ NONE # DIR
    /\ NONE \notin Edits /\ DIR \notin Edits /\ TORN \notin Edits
    /\ Edits \subseteq Stored /\ TORN \in Stored
BY WorktreeAssumption DEF Stored, NONE, DIR, TORN

(* A directory is a path of the store and holds no directory.              *)
LEMMA Parents ==
    ASSUME NEW p \in Paths
    PROVE  /\ Parent[p] # TOP => /\ Parent[p] \in Paths /\ Parent[Parent[p]] = TOP /\ Parent[p] # p
                                 /\ p \in Scope <=> Parent[p] \in Scope
           /\ \A q \in Children(p) : q \in Paths /\ Parent[q] = p /\ Parent[p] = TOP /\ q # p
           /\ Parent[p] = TOP => Parent[p] \notin Paths
<1>1. /\ Parent \in [Paths -> Paths \cup {TOP}] /\ TOP \notin Paths
      /\ \A q \in Paths : Parent[q] # TOP => Parent[Parent[q]] = TOP
      /\ \A q \in Paths : Parent[q] # TOP => (q \in Scope <=> Parent[q] \in Scope)
  <2>1. Parent \in [Paths -> Paths \cup {TOP}] /\ TOP \notin Paths
    BY WorktreeAssumption
  <2>2. ASSUME NEW q \in Paths, Parent[q] # TOP PROVE Parent[Parent[q]] = TOP
    BY <2>2, WorktreeAssumption
  <2>3. ASSUME NEW q \in Paths, Parent[q] # TOP PROVE q \in Scope <=> Parent[q] \in Scope
    BY <2>3, WorktreeAssumption
  <2> QED BY <2>1, <2>2, <2>3
<1>2. ASSUME NEW q \in Children(p)
      PROVE  q \in Paths /\ Parent[q] = p /\ Parent[p] = TOP /\ q # p
  BY <1>1 DEF Children
<1> QED BY <1>1, <1>2

(* A commit appended to the database leaves the others where they were.    *)
LEMMA CommitTyped ==
    ASSUME StoreTyped, NEW m \in Message, NEW t \in Tree, GitTree(t), Commits(m, t)
    PROVE  /\ commits' \in Seq(Commit)
           /\ \A c \in DOMAIN commits' : commits'[c].parent < c /\ GitTree(commits'[c].tree)
           /\ head' \in DOMAIN commits' /\ head' \notin DOMAIN commits
           /\ DOMAIN commits' = 1 .. Len(commits') /\ Len(commits') = Len(commits) + 1
           /\ \A c \in DOMAIN commits : commits'[c] = commits[c] /\ c \in DOMAIN commits'
           /\ commits'[head'] = [parent |-> head, msg |-> m, tree |-> t]
           /\ \A c \in DOMAIN commits' : c \in DOMAIN commits \/ c = head'
<1> DEFINE new == [parent |-> head, msg |-> m, tree |-> t]
<1>1. DOMAIN commits = 1 .. Len(commits) /\ Len(commits) \in Nat
  BY Recorded1
<1>2. commits \in Seq(Commit) /\ head \in DOMAIN commits
  BY DEF StoreTyped
<1>3. new \in Commit
  BY <1>1, <1>2 DEF Commit
<1>4. commits' = Append(commits, new) /\ head' = Len(commits')
  BY DEF Commits
<1> HIDE DEF new
<1>5. /\ commits' \in Seq(Commit) /\ Len(commits') = Len(commits) + 1
      /\ \A i \in 1 .. Len(commits) : commits'[i] = commits[i]
      /\ commits'[Len(commits) + 1] = new
  BY <1>2, <1>3, <1>4, AppendProperties
<1>6. DOMAIN commits' = 1 .. Len(commits')
  BY <1>5, LenProperties
<1>7. \A c \in DOMAIN commits' : c \in DOMAIN commits \/ c = head'
  BY <1>1, <1>4, <1>5, <1>6
<1>8. new.parent < head' /\ GitTree(new.tree)
  BY <1>1, <1>2, <1>4, <1>5 DEF new
<1>9. \A c \in DOMAIN commits : commits[c].parent < c /\ GitTree(commits[c].tree)
  BY DEF StoreTyped, TreeOf
<1>10. \A c \in DOMAIN commits' : commits'[c].parent < c /\ GitTree(commits'[c].tree)
  BY <1>1, <1>4, <1>5, <1>7, <1>8, <1>9
<1> QED BY <1>1, <1>4, <1>5, <1>6, <1>7, <1>10 DEF new

(* What is published is a Git tree under a message.                        *)
LEMMA PublishTyped ==
    ASSUME BaseInv, pc = "publish"
    PROVE  MessageOf \in Message /\ cand.tree \in Tree /\ GitTree(cand.tree)
<1>1. job # NONE
  BY DEF BaseInv, ControlInv, Preparing
<1> QED BY <1>1, MessageTyped DEF BaseInv, LocalTyped, Candidate

(* Every step leaves a database of Git trees whose parents come first, and *)
(* the commits it found.                                                   *)
LEMMA HistoryTyped ==
    ASSUME BaseInv, [Next]_vars
    PROVE  /\ commits' \in Seq(Commit)
           /\ \A c \in DOMAIN commits' : commits'[c].parent < c /\ GitTree(commits'[c].tree)
           /\ head' \in DOMAIN commits'
           /\ DOMAIN commits \subseteq DOMAIN commits'
           /\ Len(commits) <= Len(commits')
           /\ \A c \in 1 .. Len(commits) : commits'[c] = commits[c]
<1> USE DEF BaseInv
<1>1. DOMAIN commits = 1 .. Len(commits) /\ Len(commits) \in Nat
  BY Recorded1
<1>2. CASE Stays
  BY <1>1, <1>2 DEF Stays, StoreTyped, TreeOf
<1>2a. ASSUME NEW m \in Message, NEW t \in Tree, GitTree(t), Commits(m, t)
       PROVE  /\ commits' \in Seq(Commit)
              /\ \A c \in DOMAIN commits' : commits'[c].parent < c /\ GitTree(commits'[c].tree)
              /\ head' \in DOMAIN commits'
              /\ DOMAIN commits \subseteq DOMAIN commits'
              /\ Len(commits) <= Len(commits')
              /\ \A c \in 1 .. Len(commits) : commits'[c] = commits[c]
  <2>1. /\ commits' \in Seq(Commit)
        /\ \A c \in DOMAIN commits' : commits'[c].parent < c /\ GitTree(commits'[c].tree)
        /\ head' \in DOMAIN commits'
        /\ DOMAIN commits' = 1 .. Len(commits') /\ Len(commits') = Len(commits) + 1
        /\ \A c \in DOMAIN commits : commits'[c] = commits[c] /\ c \in DOMAIN commits'
    BY <1>2a, CommitTyped
  <2> QED BY <1>1, <2>1
<1>3. CASE pc = "publish" /\ Commits(MessageOf, cand.tree)
  BY <1>3, <1>2a, PublishTyped
<1>4. CASE Commits(Msg("direct", "", 0), index)
  <2>1. Msg("direct", "", 0) \in Message
    BY DEF Msg, Message, Subjects
  <2>2. index \in Tree /\ GitTree(index)
    BY DEF StoreTyped
  <2> QED BY <1>4, <1>2a, <2>1, <2>2
<1>5. CASE Advances
  <2>1. goal \in DOMAIN commits
    BY <1>5 DEF Advances, ControlInv, GoalInv
  <2> QED BY <1>1, <1>5, <2>1 DEF Advances, StoreTyped, TreeOf
<1> QED BY <1>2, <1>3, <1>4, <1>5, BranchSteps

(* The remote-tracking ref and the remote name commits; the index has a    *)
(* lock file or none.                                                      *)
LEMMA RefsTyped ==
    ASSUME BaseInv, [Next]_vars
    PROVE  tracking' \in DOMAIN commits' /\ remote' \in DOMAIN commits' /\
           gitlock' \in {"free", "stale"}
<1> USE DEF BaseInv
<1>1. DOMAIN commits \subseteq DOMAIN commits'
  BY HistoryTyped
<1>2. /\ tracking \in DOMAIN commits /\ remote \in DOMAIN commits /\ head \in DOMAIN commits
      /\ gitlock \in {"free", "stale"}
  BY DEF StoreTyped
<1>3. tracking' \in {tracking, remote, head} /\ remote' \in {remote, head} /\
      gitlock' \in {gitlock, "free", "stale"}
  <2>1. CASE Sweep \/ CaptureParent \/ CaptureIndex \/ Freeze \/ Vet \/ Publish
    BY <2>1 DEF Sweep, CaptureParent, CaptureIndex, Freeze, Vet, Publish, OrStop, Stop, repo
  <2>2. CASE SyncIndex \/ PushSwept \/ NewGuard \/ Resolve \/ Relate \/ Apply
    BY <2>2 DEF SyncIndex, PushSwept, NewGuard, Resolve, Relate, Apply, OrStop, Stop, repo
  <2>3. CASE CheckNext \/ Rewrite \/ Rebuild \/ Agree \/ Advance
    BY <2>3 DEF CheckNext, Rewrite, Rebuild, Agree, Advance, OrStop, Stop, repo
  <2>4. CASE BeginCommand \/ BeginPush \/ Crash \/ Fetch \/ Push \/ UserUnlock
    BY <2>4 DEF BeginCommand, BeginPush, Begin, Crash, Fetch, Push, UserUnlock, repo
  <2>5. CASE UserStep
    BY <2>5 DEF UserStep, UserRemove, UserStage, UserWrite, UserStagePart, UserCommit, User
  <2>6. CASE UNCHANGED vars
    BY <2>6 DEF vars, repo
  <2> QED BY <2>1, <2>2, <2>3, <2>4, <2>5, <2>6 DEF Next, Step
<1> QED BY <1>1, <1>2, <1>3
--------------------------------------------------------------------------------
(* Index and worktree.                                                     *)
LEMMA IndexTyped ==
    ASSUME BaseInv, [Next]_vars
    PROVE  index' \in Tree /\ GitTree(index')
<1> USE DEF BaseInv
<1>1. index \in Tree /\ GitTree(index) /\ cand.tree \in Tree /\ GitTree(cand.tree)
      /\ target \in Tree /\ GitTree(target)
  BY DEF StoreTyped, LocalTyped, Candidate
<1>2. CASE index' = Install
  <2>1. Install \in Tree
    BY <1>1 DEF Install, Tree
  <2>2. GitTree(Install)
    <3> SUFFICES ASSUME NEW p \in Paths, Install[p] # NONE, Parent[p] # TOP
                 PROVE  Install[Parent[p]] = NONE
      BY DEF GitTree, PathsOf
    <3>1. Parent[p] \in Paths /\ (p \in InScope <=> Parent[p] \in InScope)
      BY Parents DEF InScope
    <3>2. CASE p \in InScope
      <4>1. Install[p] = cand.tree[p] /\ Install[Parent[p]] = cand.tree[Parent[p]]
        BY <3>1, <3>2 DEF Install
      <4> QED BY <4>1, <1>1 DEF GitTree, PathsOf
    <3>3. CASE p \notin InScope
      <4>1. Install[p] = index[p] /\ Install[Parent[p]] = index[Parent[p]]
        BY <3>1, <3>3 DEF Install
      <4> QED BY <4>1, <1>1 DEF GitTree, PathsOf
    <3> QED BY <3>2, <3>3
  <2> QED BY <1>2, <2>1, <2>2
<1>3. CASE index' = index \/ index' = target
  BY <1>1, <1>3
<1>4. ASSUME NEW p \in Paths, UserStage(p) PROVE index' \in Tree /\ GitTree(index')
  <2> DEFINE file == worktree[p] \notin {NONE, DIR}
  <2>1. \A q \in Paths : index'[q] = IF q = p THEN (IF file THEN worktree[p] ELSE NONE)
                                     ELSE IF file /\ (q = Parent[p] \/ q \in Children(p)) THEN NONE
                                     ELSE index[q]
    BY <1>4 DEF UserStage, Files
  <2>2. DOMAIN index' = Paths /\ index' = [q \in Paths |-> index'[q]]
    BY <1>4 DEF UserStage
  <2>3. file => worktree[p] \in Stored
    BY DEF StoreTyped
  <2>4. index' \in Tree
    <3> HIDE DEF file
    <3>1. \A q \in Paths : index'[q] \in Stored \cup {NONE}
      BY <2>1, <2>3, <1>1 DEF Tree
    <3> QED BY <3>1, <2>2 DEF Tree
  <2>5. ASSUME NEW q \in Paths, index'[q] # NONE, Parent[q] # TOP PROVE index'[Parent[q]] = NONE
    <3>1. Parent[q] \in Paths /\ Parent[q] # q /\ Parent[Parent[q]] = TOP
      BY <2>5, Parents
    <3>2. CASE q = p
      BY <2>1, <2>5, <3>1, <3>2 DEF StoreTyped
    <3>3. CASE q # p /\ Parent[q] = p
      BY <2>1, <2>5, <3>1, <3>3, <1>1 DEF GitTree, PathsOf, Children
    <3>4. CASE q # p /\ Parent[q] # p
      <4>1. index[q] # NONE
        BY <2>1, <2>5, <3>4
      <4>2. index[Parent[q]] = NONE
        BY <4>1, <2>5, <1>1 DEF GitTree, PathsOf
      <4> QED BY <4>2, <2>1, <3>1, <3>4
    <3> QED BY <3>2, <3>3, <3>4
  <2> QED BY <2>4, <2>5 DEF GitTree, PathsOf
<1>5. ASSUME NEW p \in Paths, NEW e \in Edits, UserStagePart(p, e)
      PROVE  index' \in Tree /\ GitTree(index')
  <2>1. \A q \in Paths : index'[q] = IF q = p THEN e
                                     ELSE IF q = Parent[p] \/ q \in Children(p) THEN NONE
                                       ELSE index[q]
    BY <1>5 DEF UserStagePart
  <2>2. DOMAIN index' = Paths /\ index' = [q \in Paths |-> index'[q]]
    BY <1>5 DEF UserStagePart
  <2>4. index' \in Tree
    <3>1. \A q \in Paths : index'[q] \in Stored \cup {NONE}
      BY <2>1, <1>1, Contents DEF Tree
    <3> QED BY <3>1, <2>2 DEF Tree
  <2>5. ASSUME NEW q \in Paths, index'[q] # NONE, Parent[q] # TOP PROVE index'[Parent[q]] = NONE
    <3>1. Parent[q] \in Paths /\ Parent[q] # q /\ Parent[Parent[q]] = TOP
      BY <2>5, Parents
    <3>2. CASE q = p
      BY <2>1, <3>1, <3>2
    <3>3. CASE q # p /\ Parent[q] = p
      BY <2>1, <2>5, <3>1, <3>3 DEF Children
    <3>4. CASE q # p /\ Parent[q] # p
      <4>1. index[q] # NONE
        BY <2>1, <2>5, <3>4
      <4>2. index[Parent[q]] = NONE
        BY <4>1, <2>5, <1>1 DEF GitTree, PathsOf
      <4> QED BY <4>2, <2>1, <3>1, <3>4
    <3> QED BY <3>2, <3>3, <3>4
  <2> QED BY <2>4, <2>5 DEF GitTree, PathsOf
<1>6. CASE Step
  <2>1. CASE SyncIndex
    <3>1. index' = Install \/ index' = index
      BY <2>1 DEF SyncIndex, Stop, repo
    <3> QED BY <3>1, <1>2, <1>3
  <2>2. CASE Rebuild
    <3>1. index' = target \/ index' = index
      BY <2>2 DEF Rebuild, Stop, repo
    <3> QED BY <3>1, <1>3
  <2>3. CASE Sweep \/ CaptureParent \/ CaptureIndex \/ Freeze \/ Vet \/ Publish \/ PushSwept
    BY <2>3, <1>3 DEF Sweep, CaptureParent, CaptureIndex, Freeze, Vet, Publish, PushSwept,
       OrStop, Stop, repo
  <2>4. CASE NewGuard \/ Resolve \/ Relate \/ Apply
    BY <2>4, <1>3 DEF NewGuard, Resolve, Relate, Apply, OrStop, Stop, repo
  <2>5. CASE CheckNext \/ Rewrite \/ Agree \/ Advance
    BY <2>5, <1>3 DEF CheckNext, Rewrite, Agree, Advance, OrStop, Stop, repo
  <2> QED BY <1>6, <2>1, <2>2, <2>3, <2>4, <2>5 DEF Step
<1>7. CASE BeginCommand \/ BeginPush \/ Crash \/ Fetch \/ Push \/ UserUnlock \/ UNCHANGED vars
  BY <1>7, <1>3 DEF BeginCommand, BeginPush, Begin, Crash, Fetch, Push, UserUnlock, repo, vars
<1>8. CASE UserStep
  <2>1. CASE \E p \in Paths : UserRemove(p) \/ \E e \in Edits : UserWrite(p, e)
    BY <2>1, <1>3 DEF UserRemove, UserWrite
  <2>2. CASE UserCommit
    BY <2>2, <1>3 DEF UserCommit
  <2> QED BY <1>8, <2>1, <2>2, <1>4, <1>5 DEF UserStep
<1> QED BY <1>6, <1>7, <1>8 DEF Next

WellFiled(w) ==
    /\ w \in [Paths -> Stored \cup {NONE, DIR}]
    /\ \A p \in Paths : w[p] # NONE /\ Parent[p] # TOP => w[Parent[p]] = DIR

(* Making the directory of a path ...                                      *)
LEMMA MkdirFiled ==
    ASSUME WellFiled(worktree), NEW p \in Paths
    PROVE  WellFiled(MkdirAbove(p))
<1>1. CASE Parent[p] = TOP
  BY <1>1 DEF MkdirAbove
<1>2. CASE Parent[p] # TOP
  <2> DEFINE d == Parent[p]
  <2>1. d \in Paths /\ Parent[d] = TOP
    BY <1>2, Parents
  <2> HIDE DEF d
  <2>2. MkdirAbove(p) = [worktree EXCEPT ![d] = DIR]
    BY <1>2 DEF MkdirAbove, d
  <2> QED BY <2>1, <2>2 DEF WellFiled
<1> QED BY <1>1, <1>2

(* ... writing into a directory that is there ...                          *)
LEMMA PutFiled ==
    ASSUME WellFiled(worktree), NEW p \in Paths, NEW v \in Stored \cup {NONE},
           worktree[p] # DIR \/ ~Occupied(worktree, p),
           Parent[p] # TOP => worktree[Parent[p]] = DIR
    PROVE  WellFiled([worktree EXCEPT ![p] = v])
<1> DEFINE w == [worktree EXCEPT ![p] = v]
<1>1. w \in [Paths -> Stored \cup {NONE, DIR}]
  BY DEF WellFiled
<1>2. ASSUME NEW q \in Paths, w[q] # NONE, Parent[q] # TOP PROVE w[Parent[q]] = DIR
  <2>1. Parent[q] \in Paths /\ Parent[q] # q
    BY <1>2, Parents
  <2>2. CASE q = p
    BY <2>1, <2>2, <1>2 DEF WellFiled
  <2>3. CASE q # p
    <3>1. worktree[q] # NONE /\ worktree[Parent[q]] = DIR
      BY <2>3, <1>2 DEF WellFiled
    <3>2. Parent[q] # p
      BY <3>1 DEF Occupied, Children
    <3> QED BY <3>1, <3>2, <2>1 DEF WellFiled
  <2> QED BY <2>2, <2>3
<1> QED BY <1>1, <1>2 DEF WellFiled

(* ... removing an entry and its empty parent ...                          *)
LEMMA RemovedFiled ==
    ASSUME WellFiled(worktree), NEW p \in Paths, worktree[p] # DIR \/ ~Occupied(worktree, p)
    PROVE  WellFiled(Removed(p)) /\ WellFiled(Pruned(Removed(p), p))
<1> DEFINE w == Removed(p)
<1>1. w \in [Paths -> Stored \cup {NONE, DIR}] /\ w[p] = NONE
  BY DEF WellFiled, Removed
<1>2. \A q \in Paths : q # p => w[q] = worktree[q]
  BY DEF WellFiled, Removed
<1>3. ASSUME NEW q \in Paths, w[q] # NONE, Parent[q] # TOP PROVE w[Parent[q]] = DIR
  <2>1. Parent[q] \in Paths /\ q # p
    BY <1>1, <1>3, Parents
  <2>2. worktree[q] # NONE /\ worktree[Parent[q]] = DIR
    BY <2>1, <1>2, <1>3 DEF WellFiled
  <2>3. Parent[q] # p
    BY <2>2 DEF Occupied, Children
  <2> QED BY <2>1, <2>2, <2>3, <1>2
<1>4. WellFiled(w)
  BY <1>1, <1>3 DEF WellFiled
<1>5. CASE Parent[p] = TOP \/ Occupied(w, Parent[p])
  BY <1>4, <1>5 DEF Pruned
<1>6. CASE Parent[p] # TOP /\ ~Occupied(w, Parent[p])
  <2> DEFINE d == Parent[p]
             u == [w EXCEPT ![d] = NONE]
  <2>1. d \in Paths /\ Parent[d] = TOP /\ ~Occupied(w, d)
    BY <1>6, Parents
  <2>2. Pruned(w, p) = u
    BY <1>6 DEF Pruned
  <2> HIDE DEF d, w
  <2>3. u \in [Paths -> Stored \cup {NONE, DIR}]
    BY <2>1, <1>1
  <2>4. ASSUME NEW q \in Paths, u[q] # NONE, Parent[q] # TOP PROVE u[Parent[q]] = DIR
    <3>1. Parent[q] \in Paths /\ q # d
      BY <2>4, <2>1, <1>1, Parents
    <3>2. w[q] # NONE
      BY <2>4, <3>1, <1>1
    <3>3. w[Parent[q]] = DIR /\ Parent[q] # d
      BY <3>2, <2>1, <2>4, <1>4 DEF WellFiled, Occupied, Children
    <3> QED BY <3>1, <3>3, <1>1
  <2> QED BY <2>2, <2>3, <2>4, <1>4 DEF WellFiled, w
<1> QED BY <1>4, <1>5, <1>6

(* ... and a user's write leave a file system.                             *)
LEMMA WriteFiled ==
    ASSUME WellFiled(worktree), NEW p \in Paths, NEW e \in Edits,
           worktree' = [q \in Paths |-> IF q = p THEN e ELSE IF q = Parent[p] THEN DIR
                                        ELSE IF q \in Children(p) THEN NONE ELSE worktree[q]]
    PROVE  WellFiled(worktree')
<1>1. worktree' \in [Paths -> Stored \cup {NONE, DIR}]
  BY Contents DEF WellFiled
<1>2. \A q \in Paths : worktree'[q] = IF q = p THEN e ELSE IF q = Parent[p] THEN DIR
                                      ELSE IF q \in Children(p) THEN NONE ELSE worktree[q]
  OBVIOUS
<1>3. ASSUME NEW q \in Paths, worktree'[q] # NONE, Parent[q] # TOP PROVE worktree'[Parent[q]] = DIR
  <2>1. Parent[q] \in Paths /\ Parent[q] # q /\ Parent[Parent[q]] = TOP
    BY <1>3, Parents
  <2>2. CASE q = p
    BY <2>1, <2>2, <1>2
  <2>3. CASE q # p
    <3>1. q # Parent[p]
      BY <1>3, Parents
    <3>2. q \notin Children(p) /\ worktree[q] # NONE
      BY <1>2, <1>3, <2>3, <3>1
    <3>3. worktree[Parent[q]] = DIR /\ Parent[q] # p
      BY <3>2, <1>3, <2>1 DEF WellFiled, Children
    <3>4. Parent[q] \notin Children(p)
      <4>1. ASSUME Parent[q] \in Children(p) PROVE FALSE
        <5>1. Parent[Parent[q]] = p
          BY <4>1 DEF Children
        <5>2. p = TOP
          BY <5>1, <2>1
        <5> QED BY <5>2, WorktreeAssumption
      <4> QED BY <4>1
    <3> QED BY <3>3, <3>4, <2>1, <1>2
  <2> QED BY <2>2, <2>3
<1> QED BY <1>1, <1>3 DEF WellFiled

(* WellFiled is what the invariant says of the worktree.                   *)
LEMMA FiledIs == (StoreTyped /\ FilesInv => WellFiled(worktree)) /\
  (WellFiled(worktree) => FilesInv)
BY DEF StoreTyped, FilesInv, WellFiled

(* How the worktree changes: a directory made, an entry rewritten or       *)
(* removed, a write broken off, a user's edit.                             *)
LEMMA WorktreeTyped ==
    ASSUME BaseInv, [Next]_vars
    PROVE  WellFiled(worktree')
<1>1. WellFiled(worktree)
  BY FiledIs DEF BaseInv
<1>2. \A s \in todo : s.path \in Paths
  BY DEF BaseInv, LocalTyped, Todo
<1>2a. target \in Tree /\ \A p \in Paths : target[p] \in Stored \cup {NONE}
  BY DEF BaseInv, LocalTyped, Tree
<1>3. CASE UNCHANGED worktree
  BY <1>1, <1>3
<1>4. CASE CheckNext
  <2>1. PICK s \in todo :
          \/ UNCHANGED worktree
          \/ worktree' = IF s.del THEN worktree ELSE MkdirAbove(s.path)
    BY <1>4 DEF CheckNext, Stop
  <2> QED BY <1>1, <1>2, <2>1, MkdirFiled
<1>5. CASE Rewrite
  <2>1. PICK s \in todo :
          \/ UNCHANGED worktree
          \/ /\ ~(There(s.path) /\ worktree[s.path] = DIR /\ Occupied(worktree, s.path))
             /\ ~(~s.del /\ Parent[s.path] # TOP /\ worktree[Parent[s.path]] # DIR)
             /\ worktree' = IF s.del
                THEN (IF There(s.path) THEN Pruned(Removed(s.path), s.path) ELSE worktree)
                            ELSE [worktree EXCEPT ![s.path] = target[s.path]]
    BY <1>5 DEF Rewrite, Stop
  <2> DEFINE p == s.path
  <2>2. p \in Paths
    BY <1>2
  <2>3. CASE s.del /\ There(p) /\ ~UNCHANGED worktree
    <3>1. worktree[p] # DIR \/ ~Occupied(worktree, p)
      BY <2>1, <2>3
    <3>2. worktree' = Pruned(Removed(p), p)
      BY <2>1, <2>3
    <3> QED BY <1>1, <2>2, <3>1, <3>2, RemovedFiled
  <2>4. CASE ~s.del /\ ~UNCHANGED worktree
    <3>1. worktree' = [worktree EXCEPT ![p] = target[p]] /\
          (Parent[p] # TOP => worktree[Parent[p]] = DIR)
      BY <2>1, <2>4
    <3>2. worktree[p] # DIR \/ ~Occupied(worktree, p)
      <4>1. There(p) \/ worktree[p] = NONE
        BY <3>1 DEF There, FileAbove
      <4> QED BY <4>1, <2>1, <2>4, Contents
    <3>3. target[p] \in Stored \cup {NONE}
      BY <1>2a, <2>2
    <3> HIDE DEF p
    <3> QED BY <1>1, <2>2, <3>1, <3>2, <3>3, PutFiled
  <2>5. CASE UNCHANGED worktree
    BY <1>3, <2>5
  <2> QED BY <2>1, <2>3, <2>4, <2>5
<1>6. CASE Crash
  <2>1. CASE ~UNCHANGED worktree
    <3>1. PICK p \in Paths, v \in {NONE, TORN} : Writing(p) /\
          worktree' = [worktree EXCEPT ![p] = v]
      BY <1>6, <2>1 DEF Crash, Broken
    <3>2. worktree[p] # DIR /\ (Parent[p] # TOP => worktree[Parent[p]] = DIR) /\ v \in Stored \cup
          {NONE}
      BY <3>1, Contents DEF Writing
    <3> QED BY <1>1, <3>1, <3>2, PutFiled
  <2> QED BY <1>3, <2>1
<1>7. CASE UserStep
  <2>1. ASSUME NEW p \in Paths, UserRemove(p) PROVE WellFiled(worktree')
    <3>1. worktree[p] # DIR /\ worktree' = Pruned(Removed(p), p)
      BY <2>1 DEF UserRemove
    <3> QED BY <1>1, <3>1, RemovedFiled
  <2>2. ASSUME NEW p \in Paths, NEW e \in Edits, UserWrite(p, e) PROVE WellFiled(worktree')
    BY <1>1, <2>2, WriteFiled DEF UserWrite
  <2>3. CASE UserCommit \/ (\E p \in Paths : UserStage(p)) \/
        (\E p \in Paths, e \in Edits : UserStagePart(p, e))
    BY <2>3, <1>3 DEF UserCommit, UserStage, UserStagePart
  <2> QED BY <1>7, <2>1, <2>2, <2>3 DEF UserStep
<1>8. CASE BeginCommand \/ BeginPush \/ Fetch \/ Push \/ UserUnlock \/ UNCHANGED vars
  BY <1>8, <1>3 DEF BeginCommand, BeginPush, Begin, Fetch, Push, UserUnlock, vars
<1>9. CASE Sweep \/ CaptureParent \/ CaptureIndex \/ Freeze \/ Vet \/ Publish \/ PushSwept
  BY <1>9, <1>3 DEF Sweep, CaptureParent, CaptureIndex, Freeze, Vet, Publish, PushSwept, OrStop,
     Stop
<1>10. CASE SyncIndex \/ NewGuard \/ Resolve \/ Relate \/ Apply
  BY <1>10, <1>3 DEF SyncIndex, NewGuard, Resolve, Relate, Apply, OrStop, Stop
<1>11. CASE Rebuild \/ Agree \/ Advance
  BY <1>11, <1>3 DEF Rebuild, Agree, Advance, OrStop, Stop
<1> QED BY <1>4, <1>5, <1>6, <1>7, <1>8, <1>9, <1>10, <1>11 DEF Next, Step

(* Every step keeps the store well typed and the worktree a file system.   *)
LEMMA StoreStep ==
    ASSUME BaseInv, [Next]_vars
    PROVE  StoreTyped' /\ FilesInv'
BY HistoryTyped, RefsTyped, IndexTyped, WorktreeTyped DEF StoreTyped, FilesInv, WellFiled, TreeOf
--------------------------------------------------------------------------------
(* What a process knows.                                                   *)
LEMMA Nothing ==
    /\ NoTree \in Tree /\ GitTree(NoTree) /\ NoCommand \in Command
    /\ NoCandidate \in Candidate /\ NoGuard \in Guard
    /\ NoCandidate.parent = 0 /\ NoCandidate.hash = 0 /\ NoCandidate.tree = NoTree
    /\ NoCommand.kind = NONE /\ NoGuard.ref = 0
<1>1. NoTree \in Tree /\ GitTree(NoTree)
  BY DEF NoTree, Tree, GitTree, PathsOf
<1>2. NoCommand \in Command /\ NoCommand.kind = NONE
  BY DEF NoCommand, Command
<1>3. NoCandidate \in Candidate /\ NoCandidate.parent = 0 /\ NoCandidate.hash = 0 /\
      NoCandidate.tree = NoTree
  BY <1>1 DEF NoCandidate, Candidate
<1>4. NoGuard \in Guard /\ NoGuard.ref = 0
  BY <1>1 DEF NoGuard, Guard
<1> QED BY <1>1, <1>2, <1>3, <1>4

(* What is read of the store is a Git tree.                                *)
LEMMA TreesTyped ==
    ASSUME BaseInv
    PROVE  /\ \A c \in DOMAIN commits : TreeOf(c) \in Tree /\ GitTree(TreeOf(c))
           /\ Files(worktree) \in Tree /\ GitTree(Files(worktree))
           /\ Frozen \in Tree \/ cand.parent \notin DOMAIN commits
<1> USE DEF BaseInv
<1>1. \A c \in DOMAIN commits : commits[c] \in Commit
  BY Recorded1, ElementOfSeq DEF StoreTyped
<1>2. \A c \in DOMAIN commits : TreeOf(c) \in Tree /\ GitTree(TreeOf(c))
  BY <1>1 DEF StoreTyped, TreeOf, Commit
<1>3. Files(worktree) \in Tree
  BY DEF StoreTyped, Files, Tree
<1>4. GitTree(Files(worktree))
  <2> SUFFICES ASSUME NEW p \in Paths, Files(worktree)[p] # NONE, Parent[p] # TOP
               PROVE  Files(worktree)[Parent[p]] = NONE
    BY DEF GitTree, PathsOf
  <2>1. Parent[p] \in Paths /\ worktree[p] # NONE
    BY Parents DEF Files
  <2> QED BY <2>1 DEF FilesInv, Files
<1>5. ASSUME cand.parent \in DOMAIN commits PROVE Frozen \in Tree
  <2>1. TreeOf(cand.parent) \in Tree
    BY <1>2, <1>5
  <2>2. CASE job = "staged"
    BY <2>2 DEF Frozen, LocalTyped, Candidate
  <2>3. CASE job = "skill"
    BY <2>3, <1>3, <2>1 DEF Frozen, Tree
  <2>4. CASE job \notin {"staged", "skill"}
    BY <2>4, <1>3 DEF Frozen
  <2> QED BY <2>2, <2>3, <2>4
<1> QED BY <1>2, <1>3, <1>4, <1>5

(* A candidate whose parent was captured has a commit for parent.          *)
LEMMA ParentTyped ==
    ASSUME BaseInv, pc \in Captured
    PROVE  cand.parent \in DOMAIN commits
<1>1. cand.parent \in Chain[head] /\ head \in DOMAIN commits
  BY DEF BaseInv, CandInv, StoreTyped
<1> QED BY <1>1, ChainFacts DEF BaseInv

(* A command that is over leaves nothing behind.                           *)
Over == \E how : Exit(how)

(* Nothing is known, and no command is anywhere, once a command is over.   *)
LEMMA OverTyped ==
    ASSUME BaseInv, Over, calm' \in BOOLEAN
    PROVE  LocalTyped' /\ ControlInv'
<1>1. /\ pc' = "idle" /\ cmd' = NoCommand /\ loaded' = NONE /\ job' = NONE /\ cand' = NoCandidate
      /\ guard' = NoGuard /\ target' = NoTree /\ goal' = 0 /\ todo' = {} /\ known' = {}
      /\ moved' = FALSE /\ late' = {}
  BY DEF Over, Exit
<1>2. LocalTyped'
  BY <1>1, Nothing DEF LocalTyped, Places, Jobs
<1>3. ControlInv'
  BY <1>1, Nothing DEF ControlInv, Preparing, Rewriting, Looping, GuardLive, NONE
<1> QED BY <1>2, <1>3

(* Where a command goes on from a candidate, without its IFs.              *)
GoesOn(q) == pc' = q /\ UNCHANGED <<local, last>>
SetsUp(j) == Prepare(j) /\
  UNCHANGED <<cmd, loaded, guard, target, goal, todo, known, moved, late, last>>

(* What follows a candidate, by what it was for.                           *)
LEMMA After ==
    ASSUME BaseInv, AfterCandidate, pc \in {"freeze", "install"}
    PROVE  \/ job = "staged" /\ cmd.kind \in {"revert", "pull", "push"} /\ GoesOn("sweep again")
           \/ job = "staged" /\ cmd.kind = "commit" /\ SetsUp("all")
           \/ job = "rest" /\ cmd.kind = "push" /\ GoesOn("swept")
           \/ job = "rest" /\ cmd.kind \in {"revert", "pull"} /\ GoesOn("guard")
           \/ job \in {"all", "skill", "revert"} /\
              Exit(IF job = "revert" /\ cand.hash = 0 THEN "refused" ELSE "ok")
<1>1. /\ job \in Jobs /\ job # NONE
      /\ cmd.kind \in {"revert", "pull", "push", "commit", "hard", NONE}
      /\ cmd.kind \notin {"hard", NONE}
      /\ job = "rest" => cmd.kind # "commit"
  BY DEF BaseInv, LocalTyped, ControlInv, Command, Preparing
<1>2. CASE job = "staged"
  BY <1>1, <1>2 DEF AfterCandidate, GoesOn, SetsUp, Goto
<1>3. CASE job = "rest"
  BY <1>1, <1>3 DEF AfterCandidate, GoesOn, Swept, Goto
<1>4. CASE job \in {"all", "skill", "revert"}
  BY <1>4 DEF AfterCandidate
<1> QED BY <1>1, <1>2, <1>3, <1>4 DEF Jobs

(* What follows a rewrite, by its command.                                 *)
LEMMA AppliedIs ==
    ASSUME BaseInv, Applied, pc = "check"
    PROVE  \/ cmd.kind = "revert" /\ Prepare("revert")
                /\ UNCHANGED <<cmd, loaded, target, goal, todo, known, moved, late, last>>
           \/ cmd.kind = "pull" /\ pc' = "agree"
                /\ UNCHANGED <<cmd, loaded, job, cand, target, goal, todo, known, moved, late,
                   last>>
           \/ cmd.kind = "hard" /\ Exit("ok")
<1>1. cmd.kind \in {"revert", "pull", "hard"}
  BY DEF BaseInv, LocalTyped, ControlInv, Command, Rewriting, Preparing
<1> QED BY <1>1 DEF Applied, Goto
--------------------------------------------------------------------------------
(* The steps of a process, as what they change of what it knows.           *)
Sits ==
    /\ UNCHANGED <<pc, cmd, loaded, job, cand, guard, target, goal, todo, known, moved>>
    /\ pc # "rewrite" => late' = late
Starts(c) ==
    /\ pc = "idle" /\ cmd' = c /\ c.kind # NONE
    /\ UNCHANGED <<cand, guard, target, goal, todo, known, moved, late>>
    /\ \/ c.kind = "commit" /\ c.scope = "all" /\ job' = "staged" /\ pc' = "parent"
       \/ c.kind = "commit" /\ c.scope = "skill" /\ job' = "skill" /\ pc' = "parent"
       \/ c.kind = "hard" /\ job' = NONE /\ pc' = "apply"
       \/ c.kind \in {"revert", "pull", "push"} /\ job' = NONE /\ pc' = "sweep"
Passes(p, q) == pc = p /\ pc' = q /\ UNCHANGED local
Turns ==
    \/ \E p \in {"sweep", "sweep again", "install"} :
         /\ p = "install" => job = "rest"
         /\ \/ cmd.kind = "push" /\ Passes(p, "swept")
            \/ cmd.kind \in {"revert", "pull"} /\ Passes(p, "guard")
    \/ \E p \in {"freeze", "install"} : job = "staged" /\ cmd.kind # "commit" /\
       Passes(p, "sweep again")
    \/ Vetted /\ Passes("vet", "publish")
    \/ cand.tree = TreeOf(head) /\ Passes("publish", "install")
    \/ Passes("agree", "advance")
Sets(j) ==
    /\ pc' = "parent" /\ job' = j /\ cand' = NoCandidate
    /\ UNCHANGED <<cmd, loaded, guard, target, goal, todo, known, moved, late>>
SetsUpNext ==
    \/ pc = "sweep" /\ Sets("staged")
    \/ pc = "sweep again" /\ Sets("rest")
    \/ pc \in {"freeze", "install"} /\ job = "staged" /\ cmd.kind = "commit" /\ Sets("all")
ButCand == UNCHANGED <<cmd, loaded, job, guard, target, goal, todo, known, moved, late>>
Parented == pc = "parent" /\ pc' = "baseline" /\ cand' = [cand EXCEPT !.parent = head] /\ ButCand
Based == pc = "baseline" /\ pc' = "freeze" /\ cand' = [cand EXCEPT !.base = index] /\ ButCand
Froze ==
    /\ pc = "freeze" /\ GitTree(Frozen)
    /\ cand' = [cand EXCEPT !.tree = Frozen,
                  !.sync = CASE job = "staged" -> FALSE [] job = "skill" -> TRUE
                             [] OTHER -> cand.base = TreeOf(cand.parent)]
    /\ pc' = IF job \in {"staged", "rest"} THEN "publish" ELSE "vet"
    /\ ButCand
Published == pc = "publish" /\ pc' = "install" /\ cand' = [cand EXCEPT !.hash = head'] /\ ButCand
Guards ==
    /\ pc = "guard" /\ Clean
    /\ guard' = [ref |-> head, index |-> index, expected |-> TreeOf(head)]
    /\ pc' = IF cmd.kind = "revert" THEN "resolve" ELSE "relate"
    /\ UNCHANGED <<cmd, loaded, job, cand, target, goal, todo, known, moved, late>>
Resolves ==
    /\ pc = "resolve" /\ pc' = "apply" /\ BackIn(commits, Chain, head, cmd.n) # 0
    /\ target' = TreeOf(BackIn(commits, Chain, head, cmd.n))
    /\ UNCHANGED <<cmd, loaded, job, cand, guard, goal, todo, known, moved, late>>
Relates ==
    /\ pc = "relate" /\ pc' = "apply" /\ head \in Chain[tracking]
    /\ target' = TreeOf(tracking) /\ goal' = tracking
    /\ UNCHANGED <<cmd, loaded, job, cand, guard, todo, known, moved, late>>
Plans(t) ==
    /\ pc = "apply" /\ pc' = "check"
    /\ IF Guarded THEN t = target /\ CheckAll ELSE t = TreeOf(head)
    /\ target' = t /\ todo' = Plan(Names(t), t) /\ known' = Names(t)
    /\ cand' = [NoCandidate EXCEPT !.base = index]
    /\ UNCHANGED <<cmd, loaded, job, guard, goal, moved, late>>
Skips(s) ==
    /\ pc = "check" /\ todo' = todo \ {s}
    /\ UNCHANGED <<pc, cmd, loaded, job, cand, guard, target, goal, known, moved, late>>
Enters(s) ==
    /\ pc = "check" /\ pc' = "rewrite" /\ s \in todo /\ IsNext(s) /\ ~Settled(s) /\ late' = {}
    /\ worktree' = IF s.del THEN worktree ELSE MkdirAbove(s.path)
    /\ s.del \/ ~FileAbove(worktree, s.path)
    /\ Approved(worktree', s.path)
    /\ UNCHANGED <<cmd, loaded, job, cand, guard, target, goal, todo, known, moved>>
Rewrites(s) ==
    /\ pc = "rewrite" /\ pc' = "check" /\ s \in todo /\ IsNext(s)
    /\ moved' = (moved \/ ~s.del \/ There(s.path))
    /\ \/ guard' = guard
       \/ /\ Guarded
          /\ guard' = [guard EXCEPT !.expected[s.path] = IF s.del THEN NONE ELSE target[s.path]]
    /\ todo' = todo \ {s} /\ late' = {}
    /\ UNCHANGED <<cmd, loaded, job, cand, target, goal, known>>
Rebuilds ==
    /\ pc = "check" /\ todo = {}
    /\ guard' = guard \/ guard' = [guard EXCEPT !.index = target]
    /\ UNCHANGED <<cmd, loaded, target, goal, todo, known, moved, late>>
    /\ \/ cmd.kind = "revert" /\ pc' = "parent" /\ job' = "revert" /\ cand' = NoCandidate
       \/ cmd.kind = "pull" /\ pc' = "agree" /\ UNCHANGED <<job, cand>>

Acts ==
    \/ (pc # "idle" /\ Over) \/ (\E c \in Command : Starts(c)) \/ Turns \/ SetsUpNext
    \/ Parented \/ Based \/ Froze \/ Published
    \/ Guards \/ Resolves \/ Relates \/ (\E t \in Tree : Plans(t))
    \/ (\E s \in Todo : Skips(s) \/ Enters(s) \/ Rewrites(s)) \/ Rebuilds
Flows == Sits \/ Acts

(* A command that stops is over.                                           *)
LEMMA StopOver == \A how : Stop(how) => Over
BY DEF Stop, Over

(* The commands begin with nothing known.                                  *)
LEMMA StartFlows ==
    ASSUME BaseInv, BeginCommand \/ BeginPush
    PROVE  \E c \in Command : Starts(c)
<1>1. \A n \in Backs : [kind |-> "revert", scope |-> NONE, n |-> n] \in Command
  BY DEF Command
<1>2. \A k \in {"pull", "hard", "push"} : [kind |-> k, scope |-> NONE, n |-> 0] \in Command
  BY DEF Command
<1>3. \A s \in {"all", "skill"} : [kind |-> "commit", scope |-> s, n |-> 0] \in Command
  BY DEF Command
<1>4. ASSUME NEW c \in Command, Begin(c), c.kind # NONE,
             c.kind = "commit" <=> c.scope # NONE
      PROVE  Starts(c)
  <2>1. /\ pc = "idle" /\ cmd' = c
        /\ job' = CASE c.scope = "all" -> "staged" [] c.scope = "skill" -> "skill" [] OTHER -> NONE
        /\ pc' = (CASE c.kind = "commit" -> "parent" [] c.kind = "hard" -> "apply" [] OTHER -> "sweep")
        /\ UNCHANGED <<cand, guard, target, goal, todo, known, moved, late>>
    BY <1>4 DEF Begin, Goto
  <2>2. c.kind \in {"revert", "pull", "push", "commit", "hard"} /\
        c.scope \in {"all", "skill", NONE}
    BY <1>4 DEF Command
  <2>3. CASE c.kind = "commit"
    BY <2>1, <2>2, <2>3, <1>4 DEF Starts, NONE
  <2>4. CASE c.kind # "commit"
    BY <2>1, <2>2, <2>4, <1>4 DEF Starts, NONE
  <2> QED BY <2>3, <2>4
<1>5. CASE BeginPush
  BY <1>2, <1>4, <1>5 DEF BeginPush, NONE
<1>6. CASE BeginCommand
  <2>1. CASE \E n \in Backs : Begin([kind |-> "revert", scope |-> NONE, n |-> n])
    BY <1>1, <1>4, <2>1 DEF NONE
  <2>2. CASE \E k \in {"pull", "hard"} : Begin([kind |-> k, scope |-> NONE, n |-> 0])
    BY <1>2, <1>4, <2>2 DEF NONE
  <2>3. CASE \E s \in {"all", "skill"} : Begin([kind |-> "commit", scope |-> s, n |-> 0])
    BY <1>3, <1>4, <2>3 DEF NONE
  <2> QED BY <1>6, <2>1, <2>2, <2>3 DEF BeginCommand
<1> QED BY <1>5, <1>6

(* The steps of preparing a commit are of these kinds ...                  *)
LEMMA CommitFlows ==
    ASSUME BaseInv, Sweep \/ CaptureParent \/ CaptureIndex \/ Freeze \/ Vet \/ Publish \/ SyncIndex
    PROVE  Acts
<1>1. CASE Sweep
  <2>1. cmd.kind \in {"revert", "pull", "push"}
    BY <1>1 DEF BaseInv, ControlInv, Sweep
  <2> QED BY <1>1, <2>1 DEF Sweep, Swept, Prepare, Goto, Acts, Turns, Passes, SetsUpNext, Sets,
             local
<1>2. CASE CaptureParent
  BY <1>2 DEF CaptureParent, Goto, Acts, Parented, ButCand
<1>3. CASE CaptureIndex
  BY <1>3, StopOver DEF CaptureIndex, OrStop, Goto, Acts, Based, ButCand
<1>4. CASE Freeze
  <2>1. CASE \E how : Stop(how)
    BY <2>1, <1>4, StopOver DEF Acts, Freeze
  <2>2. CASE AfterCandidate /\ job = "staged"
    BY <1>4, <2>2, After DEF Freeze, GoesOn, SetsUp, Prepare, Goto, Acts, Turns, Passes,
       SetsUpNext, Sets, local
  <2>3. CASE Froze
    BY <2>3 DEF Acts
  <2> QED BY <1>4, <2>1, <2>2, <2>3 DEF Freeze, OrStop, Froze, Goto, ButCand
<1>5. CASE Vet
  BY <1>5, StopOver DEF Vet, OrStop, Goto, Acts, Turns, Passes
<1>6. CASE Publish
  <2>1. CASE \E how : Stop(how)
    BY <2>1, <1>6, StopOver DEF Acts, Publish
  <2>2. CASE cand.tree = TreeOf(head) /\ ~(\E how : Stop(how))
    BY <1>6, <2>2 DEF Publish, OrStop, Goto, Acts, Turns, Passes, local
  <2>3. CASE cand.tree # TreeOf(head) /\ ~(\E how : Stop(how))
    BY <1>6, <2>3 DEF Publish, OrStop, Goto, Acts, Published, ButCand
  <2> QED BY <2>1, <2>2, <2>3
<1>7. CASE SyncIndex
  <2>1. CASE \E how : Stop(how)
    BY <2>1, <1>7, StopOver DEF Acts, SyncIndex
  <2>2. CASE AfterCandidate
    <3>1. pc = "install"
      BY <1>7 DEF SyncIndex
    <3>2. CASE Over
      BY <3>1, <3>2 DEF Acts
    <3>3. CASE ~Over
      BY <3>1, <3>3, <2>2, After DEF GoesOn, SetsUp, Prepare, Goto, Acts, Turns, Passes,
         SetsUpNext, Sets, local, Over
    <3> QED BY <3>2, <3>3
  <2> QED BY <1>7, <2>1, <2>2 DEF SyncIndex
<1> QED BY <1>1, <1>2, <1>3, <1>4, <1>5, <1>6, <1>7

(* ... so are those of rewriting the worktree ...                          *)
LEMMA RewriteFlows ==
    ASSUME BaseInv,
           NewGuard \/ Resolve \/ Relate \/ Apply \/ CheckNext \/ Rewrite \/ Rebuild \/ Agree \/
             Advance \/ PushSwept
    PROVE  Acts
<1>1. CASE NewGuard
  BY <1>1, StopOver DEF NewGuard, OrStop, Goto, Acts, Guards
<1>2. CASE Resolve
  BY <1>2, StopOver, BackIs DEF Resolve, OrStop, Goto, Acts, Resolves
<1>3. CASE Relate
  BY <1>3, StopOver DEF Relate, OrStop, Goto, Acts, Relates
<1>4. CASE Apply
  <2> DEFINE t == IF Guarded THEN target ELSE TreeOf(head)
  <2>1. t \in Tree
    BY TreesTyped DEF BaseInv, LocalTyped, StoreTyped
  <2>2. CASE \E how : Stop(how)
    BY <2>2, <1>4, StopOver DEF Acts, Apply
  <2>3. CASE ~ \E how : Stop(how)
    <3>1. Plans(t)
      BY <1>4, <2>3 DEF Apply, Goto, Plans, Names
    <3> QED BY <3>1, <2>1 DEF Acts
  <2> QED BY <2>2, <2>3
<1>5. CASE CheckNext
  <2>1. PICK s \in todo : /\ IsNext(s)
                          /\ \/ \E how : Exit(how)
                             \/ Skips(s)
                             \/ Enters(s)
    <3>1. PICK s \in todo : /\ pc = "check" /\ IsNext(s)
            /\ LET w == IF s.del THEN worktree ELSE MkdirAbove(s.path) IN
               IF Settled(s)
               THEN /\ todo' = todo \ {s}
                    /\ UNCHANGED <<repo, worktree, pc, cmd, loaded, job, cand, guard, target, goal,
                                   known, moved, late, calm, last, ghost>>
               ELSE IF ~s.del /\ FileAbove(worktree, s.path) THEN Stop("refused")
               ELSE /\ worktree' = w
                    /\ IF Approved(w, s.path)
                       THEN Goto("rewrite") /\ late' = {}
                            /\ UNCHANGED <<cmd, loaded, job, cand, guard, target, goal, todo, known,
                                           moved, last>>
                       ELSE Exit("refused")
                    /\ UNCHANGED <<repo, calm, ghost>>
      BY <1>5 DEF CheckNext
    <3>2. CASE Settled(s)
      BY <3>1, <3>2 DEF Skips
    <3>3. CASE ~Settled(s) /\ ~s.del /\ FileAbove(worktree, s.path)
      BY <3>1, <3>3 DEF Stop
    <3>4. CASE ~Settled(s) /\ (s.del \/ ~FileAbove(worktree, s.path))
      BY <3>1, <3>4 DEF Goto, Enters
    <3> QED BY <3>2, <3>3, <3>4
  <2>2. s \in Todo /\ pc # "idle"
    BY <1>5 DEF BaseInv, LocalTyped, CheckNext
  <2> QED BY <2>1, <2>2 DEF Acts, Over
<1>6. CASE Rewrite
  <2>1. PICK s \in todo : Stop("refused") \/ Rewrites(s)
    BY <1>6 DEF Rewrite, Rewrites, Goto
  <2>2. s \in Todo /\ pc # "idle"
    BY <1>6 DEF BaseInv, LocalTyped, Rewrite
  <2> QED BY <2>1, <2>2, StopOver DEF Acts
<1>7. CASE Rebuild
  <2>1. pc = "check" /\ todo = {}
    BY <1>7 DEF Rebuild
  <2>2. CASE Over
    BY <2>1, <2>2 DEF Acts
  <2>3. CASE ~Over
    <3>1. Applied /\ (guard' = guard \/ guard' = [guard EXCEPT !.index = target])
      BY <1>7, <2>3, StopOver DEF Rebuild, Over
    <3> QED BY <3>1, <2>1, <2>3, AppliedIs DEF Prepare, Goto, Acts, Rebuilds, Over
  <2> QED BY <2>2, <2>3
<1>8. CASE Agree
  BY <1>8, StopOver DEF Agree, OrStop, Goto, Acts, Turns, Passes
<1>9. CASE Advance
  BY <1>9, StopOver DEF Advance, Acts, Over
<1>10. CASE PushSwept
  BY <1>10, StopOver DEF PushSwept, Acts
<1> QED BY <1>1, <1>2, <1>3, <1>4, <1>5, <1>6, <1>7, <1>8, <1>9, <1>10

(* ... and so is every step.                                               *)
LEMMA FlowSteps ==
    ASSUME BaseInv, [Next]_vars
    PROVE  Flows
<1>1. CASE Step
  BY <1>1, CommitFlows, RewriteFlows DEF Step, Flows
<1>2. CASE BeginCommand \/ BeginPush
  BY <1>2, StartFlows DEF Flows, Acts
<1>3. CASE Crash
  BY <1>3 DEF Crash, Flows, Acts, Over
<1>4. CASE UserStep
  BY <1>4 DEF UserStep, UserRemove, UserStage, UserWrite, UserStagePart, UserCommit, User, At,
     Flows, Sits
<1>5. CASE Fetch \/ Push \/ UserUnlock \/ UNCHANGED vars
  BY <1>5 DEF Fetch, Push, UserUnlock, vars, local, Flows, Sits
<1> QED BY <1>1, <1>2, <1>3, <1>4, <1>5 DEF Next
--------------------------------------------------------------------------------
(* What a step may change besides: what users wrote, and whether one came  *)
(* between a check and its change.                                         *)
LEMMA GhostSteps ==
    ASSUME BaseInv, [Next]_vars
    PROVE  /\ GhostTyped' /\ authored \subseteq authored'
           /\ loaded' \in Stored \cup {NONE, DIR} /\ calm' \in BOOLEAN
<1>1. /\ late \subseteq authored /\ authored \subseteq Edits
      /\ loaded \in Stored \cup {NONE, DIR} /\ calm \in BOOLEAN
      /\ worktree[FuYaml] \in Stored \cup {NONE, DIR}
  BY WorktreeAssumption DEF BaseInv, GhostTyped, LocalTyped, StoreTyped
<1> DEFINE Quiet == /\ authored' = authored /\ (late' = late \/ late' = {})
                    /\ (loaded' = loaded \/ loaded' = NONE) /\ (calm' = calm \/ calm' = FALSE)
<1>2. Quiet => /\ GhostTyped' /\ authored \subseteq authored'
               /\ loaded' \in Stored \cup {NONE, DIR} /\ calm' \in BOOLEAN
  BY <1>1 DEF GhostTyped
<1>3. CASE Step
  <2>1. authored' = authored /\ calm' = calm
    <3>1. CASE Sweep \/ CaptureParent \/ CaptureIndex \/ Freeze \/ Vet \/ Publish \/ SyncIndex \/
          PushSwept
      BY <3>1 DEF Sweep, CaptureParent, CaptureIndex, Freeze, Vet, Publish, SyncIndex, PushSwept,
                  OrStop, Stop, ghost
    <3>2. CASE NewGuard \/ Resolve \/ Relate \/ Apply \/ Agree \/ Advance
      BY <3>2 DEF NewGuard, Resolve, Relate, Apply, Agree, Advance, OrStop, Stop, ghost
    <3>3. CASE CheckNext \/ Rewrite \/ Rebuild
      BY <3>3 DEF CheckNext, Rewrite, Rebuild, Stop, ghost
    <3> QED BY <1>3, <3>1, <3>2, <3>3 DEF Step
  <2>2. Acts
    BY <1>3, CommitFlows, RewriteFlows DEF Step
  <2>3. CASE \E c \in Command : Starts(c)
    <3>1. FALSE
      BY <1>3, <2>3 DEF Starts, Step, Sweep, CaptureParent, CaptureIndex, Freeze, Vet, Publish,
         SyncIndex,
                  PushSwept, NewGuard, Resolve, Relate, Apply, CheckNext, Rewrite, Rebuild, Agree,
                    Advance
    <3> QED BY <3>1
  <2>4. CASE Over \/ Turns \/ SetsUpNext \/ Parented \/ Based \/ Froze \/ Published
    BY <2>1, <2>4, <1>2 DEF Over, Exit, Turns, Passes, local, SetsUpNext, Sets, Parented, Based,
       Froze, Published, ButCand
  <2>5. CASE Guards \/ Resolves \/ Relates \/ (\E t \in Tree : Plans(t)) \/ Rebuilds
    BY <2>1, <2>5, <1>2 DEF Guards, Resolves, Relates, Plans, Rebuilds
  <2>6. CASE \E s \in Todo : Skips(s) \/ Enters(s) \/ Rewrites(s)
    BY <2>1, <2>6, <1>2 DEF Skips, Enters, Rewrites
  <2> QED BY <2>2, <2>3, <2>4, <2>5, <2>6 DEF Acts
<1>4. CASE Crash \/ Fetch \/ Push \/ UserUnlock \/ UNCHANGED vars
  <2>1. Quiet
    BY <1>4 DEF Crash, Exit, Fetch, Push, UserUnlock, vars, local, ghost
  <2> QED BY <2>1, <1>2
<1>5. CASE BeginCommand \/ BeginPush
  <2>1. /\ authored' = authored /\ late' = late /\ calm' = TRUE
        /\ loaded' = NONE \/ loaded' = worktree[FuYaml]
    BY <1>5 DEF BeginCommand, BeginPush, Begin
  <2> QED BY <2>1, <1>1 DEF GhostTyped
<1>6. CASE UserStep
  <2>1. calm' = FALSE /\ loaded' = loaded
    BY <1>6 DEF UserStep, UserRemove, UserStage, UserWrite, UserStagePart, UserCommit, User
  <2>2. \/ authored' = authored /\ late' = late
        \/ \E e \in Edits : authored' = authored \cup {e} /\ (late' = late \/ late' = {e})
    BY <1>6 DEF UserStep, UserRemove, UserStage, UserWrite, UserStagePart, UserCommit
  <2> QED BY <2>1, <2>2, <1>1 DEF GhostTyped
<1> QED BY <1>3, <1>4, <1>5, <1>6 DEF Next

(* The steps of a plan name the paths of both trees.                       *)
LEMMA PlanTyped ==
    ASSUME NEW t \in Tree
    PROVE  /\ Plan(Names(t), t) \in SUBSET Todo /\ Names(t) \in SUBSET Paths
           /\ \A s \in Plan(Names(t), t) : (s.del <=> t[s.path] = NONE) /\ s.path \in Names(t)
<1>1. Names(t) \in SUBSET Paths
  BY DEF Names, PathsOf
<1>2. ASSUME NEW p \in Paths
      PROVE  /\ Deletion(p) \in Todo /\ Deletion(p).del /\ Deletion(p).path = p
             /\ Write(p) \in Todo /\ ~Write(p).del /\ Write(p).path = p
  BY DEF Deletion, Write, Todo
<1> HIDE DEF Names
<1>3. ASSUME NEW s \in Plan(Names(t), t)
      PROVE  s \in Todo /\ (s.del <=> t[s.path] = NONE) /\ s.path \in Names(t)
  <2>1. PICK p \in Names(t) : s = IF t[p] = NONE THEN Deletion(p) ELSE Write(p)
    BY DEF Plan
  <2>2. p \in Paths
    BY <1>1
  <2>3. CASE t[p] = NONE
    BY <2>1, <2>2, <2>3, <1>2
  <2>4. CASE t[p] # NONE
    BY <2>1, <2>2, <2>4, <1>2
  <2> QED BY <2>3, <2>4
<1> QED BY <1>1, <1>3

(* They are commits of the database.                                       *)
LEMMA BackTyped ==
    ASSUME StoreTyped, NEW c \in DOMAIN commits, NEW n, BackIn(commits, Chain, c, n) # 0
    PROVE  BackIn(commits, Chain, c, n) \in DOMAIN commits
<1> DEFINE nth == NthIn(OperationsIn(commits, Chain[c]), n)
<1>1. nth \subseteq DOMAIN commits
  <2>1. OperationsIn(commits, Chain[c]) \subseteq Chain[c]
    BY DEF OperationsIn
  <2> QED BY <2>1, ChainFacts DEF NthIn
<1>2. nth # {} /\ BackIn(commits, Chain, c, n) = commits[CHOOSE o \in nth : TRUE].parent
  BY DEF BackIn
<1>3. PICK o \in nth : BackIn(commits, Chain, c, n) = commits[o].parent
  <2> HIDE DEF nth
  <2> QED BY <1>2
<1>4. o \in DOMAIN commits
  BY <1>1
<1>5. commits[o].parent \in Nat /\ commits[o].parent < o /\ DOMAIN commits = 1 .. Len(commits) /\
      Len(commits) \in Nat
  BY <1>4, Recorded1 DEF Ordered
<1> QED BY <1>3, <1>4, <1>5
--------------------------------------------------------------------------------
(* What the process holding fu.lock knows, and which command is where.     *)
LEMMA LocalStep ==
    ASSUME BaseInv, [Next]_vars
    PROVE  LocalTyped' /\ ControlInv'
<1>1. Flows /\ loaded' \in Stored \cup {NONE, DIR} /\ calm' \in BOOLEAN
  BY FlowSteps, GhostSteps
<1>2. /\ head \in DOMAIN commits /\ head \in Nat /\ tracking \in DOMAIN commits /\ tracking \in Nat
      /\ head' \in Nat /\ index \in Tree
      /\ \A c \in DOMAIN commits : TreeOf(c) \in Tree /\ GitTree(TreeOf(c))
  <2>1. DOMAIN commits \subseteq Nat /\ head \in DOMAIN commits /\ tracking \in DOMAIN commits /\
        index \in Tree
    BY Recorded1 DEF BaseInv, StoreTyped
  <2>2. head' \in Nat
    <3>1. head' \in DOMAIN commits' /\ StoreTyped'
      BY HistoryTyped, StoreStep
    <3>2. (Ordered(commits) /\ DOMAIN commits = 1 .. Len(commits) /\ Len(commits) \in Nat)'
      BY <3>1, Recorded1, PTL
    <3> QED BY <3>1, <3>2
  <2> QED BY <2>1, <2>2, TreesTyped
<1>3. LocalTyped /\ ControlInv
  BY DEF BaseInv
<1>4. /\ pc \in Places /\ cmd \in Command /\ job \in Jobs /\ loaded \in Stored \cup {NONE, DIR}
      /\ cand \in Candidate /\ GitTree(cand.tree) /\ guard \in Guard
      /\ target \in Tree /\ GitTree(target)
      /\ goal \in Nat /\ todo \in SUBSET Todo /\ known \in SUBSET Paths
      /\ moved \in BOOLEAN
  BY <1>3 DEF LocalTyped
<1>5. CASE Sits
  <2>1. LocalTyped'
    BY <1>1, <1>4, <1>5 DEF Sits, LocalTyped
  <2>2. ControlInv'
    BY <1>3, <1>5 DEF Sits, ControlInv, GuardLive, Guarded
  <2> QED BY <2>1, <2>2
<1>6. CASE pc # "idle" /\ Over
  BY <1>1, <1>6, OverTyped
<1>7. CASE \E c \in Command : Starts(c)
  <2>1. PICK c \in Command : Starts(c)
    BY <1>7
  <2>2. LocalTyped'
    BY <1>1, <1>4, <2>1 DEF Starts, LocalTyped, Places, Jobs, Preparing, Rewriting
  <2>3. ControlInv'
    <3>1. pc = "idle" /\ todo = {} /\ job = NONE /\ ~GuardLive
      BY <1>3, <2>1 DEF ControlInv, Starts, GuardLive, Looping, Rewriting, NONE
    <3>2. guard = NoGuard
      BY <1>3, <3>1 DEF ControlInv
    <3> QED BY <2>1, <3>1, <3>2 DEF Starts, ControlInv, GuardLive, Guarded, Looping, Preparing,
               Rewriting, NONE
  <2> QED BY <2>2, <2>3
<1>8. CASE Turns
  <2>1. LocalTyped'
    BY <1>1, <1>4, <1>8 DEF Turns, Passes, local, LocalTyped, Places, Preparing, Rewriting
  <2>2. ControlInv'
    <3>1. CASE \E p \in {"sweep", "sweep again", "install"} :
                 /\ p = "install" => job = "rest"
                 /\ \/ cmd.kind = "push" /\ Passes(p, "swept")
                    \/ cmd.kind \in {"revert", "pull"} /\ Passes(p, "guard")
      BY <1>3, <3>1 DEF ControlInv, Passes, local, GuardLive, Guarded, Looping, Preparing,
         Rewriting, NONE
    <3>2. CASE \E p \in {"freeze", "install"} : job = "staged" /\ cmd.kind # "commit" /\
          Passes(p, "sweep again")
      BY <1>3, <1>4, <3>2 DEF ControlInv, Passes, local, GuardLive, Guarded, Looping, Preparing,
         Rewriting, NONE, Command
    <3>3. CASE Passes("vet", "publish") \/ Passes("publish", "install")
      <4>1. /\ pc' \in Preparing /\ pc' \in {"publish", "install"} /\ pc \in Preparing
            /\ UNCHANGED local
        BY <3>3 DEF Passes, Preparing
      <4> QED BY <1>3, <4>1 DEF ControlInv, local, GuardLive, Looping, Preparing, Rewriting
    <3>4. CASE Passes("agree", "advance")
      BY <1>3, <3>4 DEF ControlInv, Passes, local, GuardLive, Guarded, Looping, Preparing,
         Rewriting, NONE
    <3> QED BY <1>8, <3>1, <3>2, <3>3, <3>4 DEF Turns
  <2> QED BY <2>1, <2>2
<1>9. CASE SetsUpNext
  <2>1. LocalTyped'
    BY <1>1, <1>4, <1>9, Nothing DEF SetsUpNext, Sets, LocalTyped, Places, Preparing, Jobs
  <2>2. ControlInv'
    BY <1>3, <1>9 DEF SetsUpNext, Sets, ControlInv, GuardLive, Guarded, Looping, Preparing,
       Rewriting, NONE
  <2> QED BY <2>1, <2>2
<1>10. CASE Parented \/ Based \/ Published
  <2>1. cand' \in Candidate /\ cand'.tree = cand.tree
    BY <1>2, <1>4, <1>10 DEF Parented, Based, Published, Candidate
  <2>2. LocalTyped'
    BY <1>1, <1>4, <1>10, <2>1 DEF Parented, Based, Published, ButCand, LocalTyped, Places,
       Preparing
  <2>3. ControlInv'
    <3>1. CASE Parented
      BY <1>3, <3>1 DEF Parented, ButCand, ControlInv, GuardLive, Looping, Preparing, Rewriting
    <3>2. CASE Based
      BY <1>3, <3>2 DEF Based, ButCand, ControlInv, GuardLive, Looping, Preparing, Rewriting
    <3>3. CASE Published
      BY <1>3, <3>3 DEF Published, ButCand, ControlInv, GuardLive, Looping, Preparing, Rewriting
    <3> QED BY <1>10, <3>1, <3>2, <3>3
  <2> QED BY <2>2, <2>3
<1>11. CASE Froze
  <2>1. Frozen \in Tree
    BY <1>11, TreesTyped, ParentTyped DEF Froze, Captured, Preparing
  <2>2. cand' \in Candidate /\ cand'.tree = Frozen /\ GitTree(Frozen)
    <3>1. (CASE job = "staged" -> FALSE [] job = "skill" -> TRUE
             [] OTHER -> cand.base = TreeOf(cand.parent)) \in BOOLEAN
      OBVIOUS
    <3> DEFINE b == CASE job = "staged" -> FALSE [] job = "skill" -> TRUE
                      [] OTHER -> cand.base = TreeOf(cand.parent)
    <3>2. cand' = [cand EXCEPT !.tree = Frozen, !.sync = b] /\ GitTree(Frozen)
      BY <1>11 DEF Froze
    <3>3. b \in BOOLEAN
      BY <3>1
    <3> HIDE DEF b
    <3> QED BY <1>4, <2>1, <3>2, <3>3 DEF Candidate
  <2>3. LocalTyped'
    BY <1>1, <1>4, <1>11, <2>2 DEF Froze, ButCand, LocalTyped, Places, Preparing
  <2>4. ControlInv'
    BY <1>3, <1>11 DEF Froze, ButCand, ControlInv, GuardLive, Guarded, Looping, Preparing,
       Rewriting, NONE
  <2> QED BY <2>3, <2>4
<1>12. CASE Guards
  <2>1. guard' \in Guard
    BY <1>2, <1>12 DEF Guards, Guard
  <2>2. LocalTyped'
    BY <1>1, <1>4, <1>12, <2>1 DEF Guards, LocalTyped, Places, Rewriting
  <2>3. job \in {NONE, "staged", "rest"}
    BY <1>3, <1>4, <1>12 DEF ControlInv, Guards, Jobs, Preparing
  <2>4. ControlInv'
    BY <1>3, <1>12, <2>3 DEF Guards, ControlInv, GuardLive, Guarded, Looping, Preparing,
       Rewriting, NONE
  <2> QED BY <2>2, <2>4
<1>13. CASE Resolves
  <2>1. target' \in Tree /\ GitTree(target')
    BY <1>2, <1>13, BackTyped DEF Resolves, BaseInv
  <2>2. LocalTyped'
    BY <1>1, <1>4, <1>13, <2>1 DEF Resolves, LocalTyped, Places, Rewriting
  <2>3. ControlInv'
    BY <1>3, <1>13 DEF Resolves, ControlInv, GuardLive, Guarded, Looping, Preparing, Rewriting
  <2> QED BY <2>2, <2>3
<1>14. CASE Relates
  <2>1. LocalTyped'
    BY <1>1, <1>2, <1>4, <1>14 DEF Relates, LocalTyped, Places, Rewriting
  <2>2. ControlInv'
    BY <1>3, <1>14 DEF Relates, ControlInv, GuardLive, Guarded, Looping, Preparing, Rewriting
  <2> QED BY <2>1, <2>2
<1>15. CASE \E t \in Tree : Plans(t)
  <2>1. PICK t \in Tree : Plans(t)
    BY <1>15
  <2>2. GitTree(t)
    BY <1>2, <1>4, <2>1 DEF Plans
  <2>3. cand' \in Candidate /\ cand'.tree = NoTree
    BY <1>2, <2>1, Nothing DEF Plans, Candidate
  <2>4. LocalTyped'
    BY <1>1, <1>4, <2>1, <2>2, <2>3, PlanTyped, Nothing DEF Plans, LocalTyped, Places, Rewriting
  <2>5. ControlInv'
    BY <1>3, <2>1 DEF Plans, ControlInv, GuardLive, Guarded, Looping, Preparing, Rewriting, NONE
  <2> QED BY <2>4, <2>5
<1>16. CASE \E s \in Todo : Skips(s) \/ Enters(s) \/ Rewrites(s)
  <2>1. PICK s \in Todo : Skips(s) \/ Enters(s) \/ Rewrites(s)
    BY <1>16
  <2>2. guard' \in Guard
    <3>1. s.path \in Paths
      BY DEF Todo
    <3>2. \A v \in Stored \cup {NONE} : [guard EXCEPT !.expected[s.path] = v] \in Guard
      BY <1>4, <3>1 DEF Guard, Tree
    <3>3. (IF s.del THEN NONE ELSE target[s.path]) \in Stored \cup {NONE}
      BY <1>4, <3>1 DEF Tree
    <3> QED BY <1>4, <2>1, <3>2, <3>3 DEF Skips, Enters, Rewrites
  <2>3. moved' \in BOOLEAN
    BY <1>4, <2>1 DEF Skips, Enters, Rewrites
  <2>4. LocalTyped'
    BY <1>1, <1>4, <2>1, <2>2, <2>3 DEF Skips, Enters, Rewrites, LocalTyped, Places, Rewriting
  <2>5. ControlInv'
    <3>1. guard' = guard \/ Guarded
      BY <2>1 DEF Skips, Enters, Rewrites
    <3> QED BY <1>3, <2>1, <3>1 DEF Skips, Enters, Rewrites, ControlInv, GuardLive, Guarded,
               Looping, Preparing, Rewriting, NONE
  <2> QED BY <2>4, <2>5
<1>17. CASE Rebuilds
  <2>1. guard' \in Guard
    BY <1>4, <1>17 DEF Rebuilds, Guard
  <2>2. LocalTyped'
    BY <1>1, <1>4, <1>17, <2>1, Nothing DEF Rebuilds, LocalTyped, Places, Jobs, Preparing, Rewriting
  <2>3. ControlInv'
    BY <1>3, <1>17 DEF Rebuilds, ControlInv, GuardLive, Guarded, Looping, Preparing, Rewriting, NONE
  <2> QED BY <2>2, <2>3
<1> QED BY <1>1, <1>5, <1>6, <1>7, <1>8, <1>9, <1>10, <1>11, <1>12, <1>13, <1>14, <1>15, <1>16,
           <1>17 DEF Flows, Acts
--------------------------------------------------------------------------------
(* Whatever moves the branch, it keeps its history: a new commit is made   *)
(* on it, and a pull ends at a commit that descends from it.               *)
LEMMA BranchGrows ==
    ASSUME BaseInv, [Next]_vars
    PROVE  /\ StoreTyped' /\ Grown
           /\ head \in Chain'[head'] /\ Chain[head] \subseteq Chain'[head']
<1>1. StoreTyped /\ StoreTyped' /\ LocalTyped
  BY StoreStep DEF BaseInv
<1>2. Grown
  BY <1>1, HistoryTyped, GrownWhen
<1>3. head \in DOMAIN commits /\ head' \in DOMAIN commits' /\ head \in Chain[head]
  BY <1>1, ChainFacts DEF StoreTyped
<1>4. (/\ Chain[0] = {}
       /\ \A c \in DOMAIN commits : /\ c \in Chain[c]
                                    /\ Chain[c] \subseteq 1 .. c
                                    /\ Chain[c] \subseteq DOMAIN commits
                                    /\ Chain[c] = {c} \cup Chain[commits[c].parent]
                                    /\ \A x \in Chain[c] : Chain[x] \subseteq Chain[c])'
  BY <1>1, ChainFacts, PTL
<1>5. Chain'[head] = Chain[head]
  BY <1>2, <1>3 DEF Grown
<1>6. CASE head' = head
  BY <1>1, <1>2, <1>3, <1>5, <1>6
<1>7. ASSUME NEW m, NEW t, Commits(m, t), DOMAIN commits' = 1 .. Len(commits')
             PROVE head \in Chain'[head'] /\ Chain[head] \subseteq Chain'[head']
  <2>1. commits'[head'].parent = head
    <3>1. Len(commits') \in Nat /\ Len(commits') = Len(commits) + 1 /\ commits \in Seq(Commit) /\
          Len(commits) \in Nat
      BY <1>7, <1>1, Recorded1, LenProperties DEF Commits, StoreTyped
    <3> QED BY <3>1, <1>7 DEF Commits
  <2>2. Chain'[head'] = {head'} \cup Chain'[head]
    BY <1>4, <1>3, <2>1
  <2> QED BY <2>2, <1>3, <1>5
<1>8. DOMAIN commits' = 1 .. Len(commits')
  BY <1>1, LenProperties DEF StoreTyped
<1>9. CASE Advances
  <2>1. goal \in DOMAIN commits /\ guard.ref \in Chain[goal]
    BY <1>9 DEF BaseInv, GoalInv, ControlInv, Advances
  <2>2. Chain'[goal] = Chain[goal] /\ head' = goal /\ head = guard.ref
    BY <1>2, <1>9, <2>1 DEF Grown, Advances
  <2>3. Chain[head] \subseteq Chain[goal]
    BY <1>1, <2>1, <2>2, ChainFacts
  <2> QED BY <1>1, <1>2, <2>1, <2>2, <2>3
<1> QED BY <1>1, <1>2, <1>6, <1>7, <1>8, <1>9, BranchSteps DEF Stays

(* What a step leaves of the commits there were.                           *)
LEMMA Remains ==
    ASSUME BaseInv, [Next]_vars
    PROVE  /\ \A c \in DOMAIN commits : /\ c \in DOMAIN commits' /\ commits'[c].tree = TreeOf(c)
                                        /\ Chain'[c] = Chain[c] /\ Chain[c] \subseteq DOMAIN commits
           /\ \A x \in Chain[head] : x \in Chain'[head'] /\ x \in DOMAIN commits
           /\ \A c \in DOMAIN commits : \A n :
                BackIn(commits', Chain', c, n) = BackIn(commits, Chain, c, n)
<1>1. Grown /\ StoreTyped /\ head \in DOMAIN commits /\ Chain[head] \subseteq Chain'[head']
  BY BranchGrows DEF BaseInv, StoreTyped
<1>2. \A c \in DOMAIN commits : Chain[c] \subseteq DOMAIN commits
  BY <1>1, ChainFacts
<1>3. ASSUME NEW c \in DOMAIN commits, NEW n
      PROVE  BackIn(commits', Chain', c, n) = BackIn(commits, Chain, c, n)
  <2>1. Chain[c] = Chain'[c] /\ \A x \in Chain[c] : commits[x] = commits'[x]
    BY <1>1, <1>2 DEF Grown
  <2> HIDE DEF Chain
  <2> QED BY <2>1, BackKept
<1> QED BY <1>1, <1>2, <1>3 DEF Grown, TreeOf
--------------------------------------------------------------------------------
(* The candidate.                                                          *)
LEMMA CandStep ==
    ASSUME BaseInv, [Next]_vars
    PROVE  CandInv'
<1>1. Flows /\ CandInv /\ ControlInv /\ job \in Jobs /\ cand \in Candidate
  BY FlowSteps DEF BaseInv, LocalTyped
<1>2. /\ head \in Chain'[head']
      /\ \A x \in Chain[head] : x \in Chain'[head'] /\ x \in DOMAIN commits
      /\ \A c \in DOMAIN commits : commits'[c].tree = TreeOf(c)
  BY BranchGrows, Remains
<1> DEFINE Held == /\ cand'.parent = cand.parent /\ cand'.base = cand.base /\ cand'.tree = cand.tree
                   /\ cand'.sync = cand.sync
<1>3. ASSUME Held, job' = job, pc \in Captured, pc' \in Captured, pc' \in Decided => pc \in Decided,
             pc' # "install" => cand'.hash = 0
      PROVE  CandInv'
  <2>1. cand.parent \in Chain[head]
    BY <1>1, <1>3 DEF CandInv
  <2>2. cand'.parent \in Chain'[head'] /\ commits'[cand'.parent].tree = TreeOf(cand.parent)
    BY <1>2, <1>3, <2>1
  <2>3. pc' \in Decided =>
          /\ job = "staged" => ~cand'.sync
          /\ job \in {"rest", "revert", "all"} /\ cand'.sync => cand'.base = TreeOf(cand.parent)
          /\ job = "skill" => \A p \in Paths \ Scope : cand'.tree[p] = TreeOf(cand.parent)[p]
    BY <1>1, <1>3 DEF CandInv
  <2> QED BY <1>3, <2>2, <2>3 DEF CandInv, TreeOf, Captured, Preparing
<1>4. ASSUME pc' \notin Captured, pc' = "parent" => cand'.hash = 0 PROVE CandInv'
  BY <1>4 DEF CandInv, Captured, Preparing, Decided
<1>5. CASE Sits
  <2>1. pc' = pc /\ job' = job /\ cand' = cand
    BY <1>5 DEF Sits
  <2>2. CASE pc \in Captured
    BY <1>1, <1>3, <2>1, <2>2 DEF CandInv, Captured, Preparing
  <2>3. CASE pc \notin Captured
    BY <1>1, <1>4, <2>1, <2>3 DEF CandInv, Captured, Preparing
  <2> QED BY <2>2, <2>3
<1>6. CASE Over
  BY <1>4, <1>6 DEF Over, Exit, Captured, Preparing
<1>7. CASE \E c \in Command : Starts(c)
  <2>1. pc' \in {"parent", "apply", "sweep"} /\ cand' = NoCandidate
    BY <1>1, <1>7 DEF Starts, ControlInv
  <2> QED BY <1>4, <2>1, Nothing DEF Captured, Preparing
<1>8. CASE Turns
  <2>1. CASE pc \in {"vet", "publish"}
    <3>1. /\ pc' \in {"publish", "install"} /\ cand' = cand /\ job' = job
          /\ pc' = "publish" => pc = "vet"
      BY <1>8, <2>1 DEF Turns, Passes, local
    <3> QED BY <1>1, <1>3, <2>1, <3>1 DEF CandInv, Captured, Decided, Preparing
  <2>2. CASE pc \notin {"vet", "publish"}
    BY <1>4, <1>8, <2>2 DEF Turns, Passes, Captured, Preparing
  <2> QED BY <2>1, <2>2
<1>9. CASE SetsUpNext
  BY <1>4, <1>9, Nothing DEF SetsUpNext, Sets, Captured, Preparing
<1>10. CASE Parented
  <2>1. pc' = "baseline" /\ cand'.parent = head /\ cand'.hash = cand.hash /\ pc = "parent"
    BY <1>1, <1>10 DEF Parented, Candidate
  <2> QED BY <1>1, <1>2, <2>1 DEF CandInv, Captured, Preparing, Decided
<1>11. CASE Based
  <2>1. pc' = "freeze" /\ cand'.parent = cand.parent /\ cand'.hash = cand.hash /\ pc = "baseline"
    BY <1>1, <1>11 DEF Based, Candidate
  <2> QED BY <1>1, <1>2, <2>1 DEF CandInv, Captured, Preparing, Decided
<1>12. CASE Froze
  <2> DEFINE b == CASE job = "staged" -> FALSE [] job = "skill" -> TRUE
                    [] OTHER -> cand.base = TreeOf(cand.parent)
  <2>1. cand' = [cand EXCEPT !.tree = Frozen, !.sync = b] /\ job' = job /\ pc = "freeze"
        /\ pc' \in {"publish", "vet"}
    BY <1>12 DEF Froze, ButCand
  <2>2. /\ job = "staged" => b = FALSE
        /\ job \in {"rest", "revert", "all"} => (b <=> cand.base = TreeOf(cand.parent))
    OBVIOUS
  <2> HIDE DEF b
  <2>3. /\ cand'.parent = cand.parent /\ cand'.base = cand.base /\ cand'.tree = Frozen
        /\ cand'.sync = b /\ cand'.hash = cand.hash
    BY <1>1, <2>1 DEF Candidate
  <2>4. cand.parent \in Chain[head] /\ cand.hash = 0
    BY <1>1, <2>1 DEF CandInv, Captured, Preparing
  <2>5. job = "skill" => \A p \in Paths \ Scope : Frozen[p] = TreeOf(cand.parent)[p]
    BY DEF Frozen
  <2>6. cand'.parent \in Chain'[head'] /\ commits'[cand'.parent].tree = TreeOf(cand.parent)
    BY <1>2, <2>3, <2>4
  <2>7. /\ job = "staged" => ~cand'.sync
        /\ job \in {"rest", "revert", "all"} /\ cand'.sync => cand'.base = TreeOf(cand.parent)
        /\ job = "skill" => \A p \in Paths \ Scope : cand'.tree[p] = TreeOf(cand.parent)[p]
    BY <2>2, <2>3, <2>5
  <2> QED BY <2>1, <2>3, <2>4, <2>6, <2>7 DEF CandInv, TreeOf
<1>13. CASE Published
  <2>1. Held /\ job' = job /\ pc = "publish" /\ pc' = "install"
    BY <1>1, <1>13 DEF Published, ButCand, Candidate
  <2> QED BY <1>3, <2>1 DEF Captured, Decided, Preparing
<1>14. CASE Guards \/ Resolves \/ Relates \/ (\E t \in Tree : Plans(t))
  BY <1>4, <1>14 DEF Guards, Resolves, Relates, Plans, Captured, Preparing
<1>15. CASE \E s \in Todo : Skips(s) \/ Enters(s) \/ Rewrites(s)
  BY <1>4, <1>15 DEF Skips, Enters, Rewrites, Captured, Preparing
<1>16. CASE Rebuilds
  BY <1>4, <1>16, Nothing DEF Rebuilds, Captured, Preparing
<1> QED BY <1>1, <1>5, <1>6, <1>7, <1>8, <1>9, <1>10, <1>11, <1>12, <1>13, <1>14, <1>15, <1>16
           DEF Flows, Acts

(* The guard, a pull's goal and a revert's target: what they say is said   *)
(* of commits, which no later step changes.                                *)
Rests == UNCHANGED <<cmd, guard, target, goal>>

(* The guard names a commit of the branch, and what may be replaced is its *)
(* content.                                                                *)
LEMMA GuardStep ==
    ASSUME BaseInv, [Next]_vars
    PROVE  GuardInv'
<1>1. Flows /\ GuardInv /\ ControlInv /\ job \in Jobs /\ guard \in Guard /\ target \in Tree
  BY FlowSteps DEF BaseInv, LocalTyped
<1>2. /\ head \in Chain'[head'] /\ head \in DOMAIN commits
      /\ \A x \in Chain[head] : x \in Chain'[head'] /\ x \in DOMAIN commits
      /\ \A c \in DOMAIN commits : commits'[c].tree = TreeOf(c)
  BY BranchGrows, Remains DEF BaseInv, StoreTyped
<1>3. GuardLive => guard.ref \in Chain'[head'] /\ commits'[guard.ref].tree = TreeOf(guard.ref)
  BY <1>1, <1>2 DEF GuardInv
<1>4. ASSUME ~(job' = "revert"), pc' \notin Rewriting \/ cmd'.kind = "hard" PROVE GuardInv'
  BY <1>4 DEF GuardInv, GuardLive, Guarded, Rewriting, Looping
<1>5. ASSUME Rests, GuardLive, pc' \in {"resolve", "relate", "apply"} =>
             pc \in {"resolve", "relate", "apply"},
             pc' \in Looping => pc \in Looping
      PROVE  GuardInv'
  <2>1. guard' = guard /\ target' = target /\ cmd' = cmd /\ Guarded' = Guarded
    BY <1>5 DEF Rests, Guarded
  <2> QED BY <1>1, <1>3, <1>5, <2>1 DEF GuardInv, TreeOf
<1>6. CASE Sits
  <2>1. pc' = pc /\ job' = job /\ cmd' = cmd /\ Rests
    BY <1>6 DEF Sits, Rests
  <2>2. CASE GuardLive
    BY <1>5, <2>1, <2>2
  <2>3. CASE ~GuardLive
    BY <1>4, <2>1, <2>3 DEF GuardLive, Guarded
  <2> QED BY <2>2, <2>3
<1>7. CASE Over
  BY <1>4, <1>7 DEF Over, Exit, Rewriting, NONE
<1>8. CASE \E c \in Command : Starts(c)
  <2>1. job' # "revert" /\ (pc' \notin Rewriting \/ cmd'.kind = "hard")
    BY <1>1, <1>8 DEF Starts, Rewriting, NONE
  <2> QED BY <1>4, <2>1
<1>9. CASE Turns
  <2>1. CASE pc = "agree" \/ job = "revert"
    <3>1. Rests /\ GuardLive /\ job' = job
      BY <1>1, <1>9, <2>1 DEF Turns, Passes, local, Rests, GuardLive, Guarded, ControlInv, Rewriting
    <3>2. pc' \notin {"resolve", "relate", "apply"} /\ pc' \notin Looping
      BY <1>9 DEF Turns, Passes, Looping
    <3> QED BY <1>5, <3>1, <3>2
  <2>2. CASE pc # "agree" /\ job # "revert"
    <3>1. job' # "revert" /\ pc' \notin Rewriting
      BY <1>9, <2>2 DEF Turns, Passes, local, Rewriting
    <3> QED BY <1>4, <3>1
  <2> QED BY <2>1, <2>2
<1>10. CASE SetsUpNext
  BY <1>4, <1>10 DEF SetsUpNext, Sets, Rewriting
<1>11. CASE Parented \/ Based \/ Froze \/ Published
  <2>1. ButCand /\ pc' \in Preparing
    BY <1>11 DEF Parented, Based, Froze, Published, Preparing
  <2>2. CASE job = "revert"
    BY <1>5, <2>1, <2>2 DEF ButCand, Rests, GuardLive, Preparing, Looping
  <2>3. CASE job # "revert"
    BY <1>4, <2>1, <2>3 DEF ButCand, Preparing, Rewriting
  <2> QED BY <2>2, <2>3
<1>12. CASE Guards
  <2>1. guard'.ref = head /\ guard'.index = TreeOf(head) /\ guard'.expected = TreeOf(head)
    BY <1>12 DEF Guards, Clean
  <2>2. pc' \in {"resolve", "relate"}
    BY <1>12 DEF Guards
  <2> QED BY <1>2, <2>1, <2>2 DEF GuardInv, TreeOf, Looping
<1>13. CASE Resolves \/ Relates
  <2>1. guard' = guard /\ cmd' = cmd /\ pc \in {"resolve", "relate"} /\ pc' = "apply"
    BY <1>13 DEF Resolves, Relates
  <2>2. Guarded /\ GuardLive
    BY <1>1, <2>1 DEF ControlInv, Guarded, GuardLive, Rewriting
  <2> QED BY <1>1, <1>3, <2>1, <2>2 DEF GuardInv, TreeOf, Looping, Guarded
<1>14. CASE \E t \in Tree : Plans(t)
  <2>1. PICK t \in Tree : Plans(t)
    BY <1>14
  <2>2. guard' = guard /\ cmd' = cmd /\ job' = job /\ pc = "apply" /\ pc' = "check" /\ target' = t
    BY <2>1 DEF Plans
  <2>3. CASE Guarded
    <3>1. GuardLive /\ Guarded'
      BY <2>2, <2>3 DEF GuardLive, Guarded, Rewriting
    <3>2. guard.index = TreeOf(guard.ref) /\ guard.expected = TreeOf(guard.ref)
      BY <1>1, <2>2, <2>3 DEF GuardInv
    <3> QED BY <1>3, <2>2, <3>1, <3>2 DEF GuardInv, TreeOf
  <2>4. CASE ~Guarded
    BY <1>1, <1>4, <2>2, <2>4 DEF Guarded, ControlInv, Rewriting
  <2> QED BY <2>3, <2>4
<1>15. CASE \E s \in Todo : Skips(s) \/ Enters(s) \/ Rewrites(s)
  <2>1. PICK s \in Todo : Skips(s) \/ Enters(s) \/ Rewrites(s)
    BY <1>15
  <2>2. /\ cmd' = cmd /\ job' = job /\ pc \in Looping /\ pc' \in Looping /\ target' = target
        /\ guard' = guard \/
           (Guarded /\
           guard' = [guard EXCEPT !.expected[s.path] = IF s.del THEN NONE ELSE target[s.path]])
    BY <2>1 DEF Skips, Enters, Rewrites, Looping
  <2>3. CASE Guarded
    <3>1. GuardLive /\ Guarded'
      BY <2>2, <2>3 DEF GuardLive, Guarded, Rewriting, Looping
    <3>2. guard.index = TreeOf(guard.ref) /\ \A p \in Paths :
          guard.expected[p] \in {TreeOf(guard.ref)[p], target[p], NONE}
      BY <1>1, <2>2, <2>3 DEF GuardInv
    <3>3. /\ guard'.ref = guard.ref /\ guard'.index = guard.index
          /\ \A p \in Paths : guard'.expected[p] \in {guard.expected[p], target[p], NONE}
      BY <1>1, <2>2 DEF Guard, Tree
    <3>4. \A p \in Paths : guard'.expected[p] \in {TreeOf(guard.ref)[p], target[p], NONE}
      BY <3>2, <3>3
    <3> QED BY <1>3, <2>2, <3>1, <3>2, <3>3, <3>4 DEF GuardInv, TreeOf, Looping
  <2>4. CASE ~Guarded
    BY <1>1, <1>4, <2>2, <2>4 DEF Guarded, ControlInv, Rewriting, Looping
  <2> QED BY <2>3, <2>4
<1>16. CASE Rebuilds
  <2>1. /\ guard'.ref = guard.ref /\ cmd' = cmd /\ pc' \in {"parent", "agree"} /\
           cmd.kind # "hard" /\ pc = "check"
    BY <1>1, <1>16 DEF Rebuilds, Guard
  <2>2. GuardLive
    BY <2>1 DEF GuardLive, Guarded, Rewriting
  <2> QED BY <1>3, <2>1, <2>2 DEF GuardInv, Looping
<1> QED BY <1>1, <1>6, <1>7, <1>8, <1>9, <1>10, <1>11, <1>12, <1>13, <1>14, <1>15, <1>16
           DEF Flows, Acts

(* A pull's goal goes on descending from the commit of its guard.          *)
LEMMA GoalStep ==
    ASSUME BaseInv, [Next]_vars
    PROVE  GoalInv'
<1>1. Flows /\ GoalInv /\ GuardInv /\ ControlInv /\ guard \in Guard
  BY FlowSteps DEF BaseInv, LocalTyped
<1>2. /\ head \in DOMAIN commits /\ tracking \in DOMAIN commits
      /\ \A c \in DOMAIN commits : c \in DOMAIN commits' /\ commits'[c].tree = TreeOf(c) /\
         Chain'[c] = Chain[c]
  BY Remains DEF BaseInv, StoreTyped
<1> DEFINE after == {"apply", "check", "rewrite", "agree", "advance"}
<1>3. ASSUME pc' \notin after \/ cmd'.kind # "pull" PROVE GoalInv'
  BY <1>3 DEF GoalInv
<1>4. ASSUME cmd' = cmd, goal' = goal, target' = target, guard'.ref = guard.ref, pc' \in after =>
             pc \in after
      PROVE  GoalInv'
  BY <1>1, <1>2, <1>4 DEF GoalInv, TreeOf
<1>5. CASE Sits \/ Turns
  <2>1. UNCHANGED <<cmd, goal, target, guard>> /\ (pc' \in after => pc \in after)
    BY <1>5 DEF Sits, Turns, Passes, local
  <2> QED BY <1>4, <2>1
<1>6. CASE Over \/ (\E c \in Command : Starts(c)) \/ SetsUpNext \/ Guards \/ Resolves
  BY <1>1, <1>3, <1>6 DEF Over, Exit, Starts, SetsUpNext, Sets, Guards, Resolves, ControlInv, NONE
<1>7. CASE Parented \/ Based \/ Froze \/ Published
  BY <1>3, <1>7 DEF Parented, Based, Froze, Published
<1>8. CASE Relates
  <2>1. /\ target' = TreeOf(tracking) /\ goal' = tracking /\ guard' = guard /\
           head \in Chain[tracking] /\ pc = "relate"
    BY <1>8 DEF Relates
  <2>2. guard.ref \in Chain[head]
    BY <1>1, <2>1 DEF GuardInv, GuardLive, Guarded, ControlInv, Rewriting
  <2>3. guard.ref \in Chain[tracking]
    BY <1>2, <2>1, <2>2, ChainFacts DEF BaseInv
  <2> QED BY <1>2, <2>1, <2>3 DEF GoalInv, TreeOf
<1>9. CASE \E t \in Tree : Plans(t)
  <2>1. PICK t \in Tree : Plans(t)
    BY <1>9
  <2>2. cmd.kind = "pull" => target' = target
    BY <2>1 DEF Plans, Guarded
  <2>3. UNCHANGED <<cmd, goal, guard>> /\ pc \in after
    BY <2>1 DEF Plans
  <2> QED BY <1>3, <1>4, <2>2, <2>3
<1>10. CASE \E s \in Todo : Skips(s) \/ Enters(s) \/ Rewrites(s)
  <2>1. UNCHANGED <<cmd, goal, target>> /\ guard'.ref = guard.ref /\ pc \in after
    BY <1>1, <1>10 DEF Skips, Enters, Rewrites, Guard
  <2> QED BY <1>4, <2>1
<1>11. CASE Rebuilds
  <2>1. UNCHANGED <<cmd, goal, target>> /\ guard'.ref = guard.ref /\ pc \in after
    BY <1>1, <1>11 DEF Rebuilds, Guard
  <2> QED BY <1>4, <2>1
<1> QED BY <1>1, <1>5, <1>6, <1>7, <1>8, <1>9, <1>10, <1>11 DEF Flows, Acts

(* A revert's target goes on being that many operations back from the      *)
(* commit of its guard.                                                    *)
LEMMA AimStep ==
    ASSUME BaseInv, [Next]_vars
    PROVE  AimInv'
<1>1. Flows /\ AimInv /\ GuardInv /\ ControlInv /\ guard \in Guard /\ job \in Jobs
  BY FlowSteps DEF BaseInv, LocalTyped
<1>2. /\ head \in DOMAIN commits /\ head \in Chain'[head'] /\ head \in Chain[head]
      /\ \A c \in DOMAIN commits : Chain'[c] = Chain[c]
      /\ \A x \in Chain[head] : x \in Chain'[head'] /\ x \in DOMAIN commits
  BY BranchGrows, Remains, ChainFacts DEF BaseInv, StoreTyped
(* An aim once taken is kept.                                              *)
<1>3. ASSUME NEW r \in DOMAIN commits, UNCHANGED <<cmd, target>>, Aimed(r)
      PROVE  /\ BackIn(commits', Chain', r, cmd'.n) # 0
             /\ target' = commits'[BackIn(commits', Chain', r, cmd'.n)].tree
  <2>1. BackIn(commits', Chain', r, cmd'.n) = BackIn(commits, Chain, r, cmd.n)
    BY <1>3, Remains
  <2>2. BackIn(commits, Chain, r, cmd.n) # 0 /\ target = TreeOf(BackIn(commits, Chain, r, cmd.n))
    BY <1>3 DEF Aimed
  <2>3. BackIn(commits, Chain, r, cmd.n) \in DOMAIN commits
    BY <2>2, BackTyped DEF BaseInv
  <2>4. commits'[BackIn(commits, Chain, r, cmd.n)].tree = TreeOf(BackIn(commits, Chain, r, cmd.n))
    BY <2>3, Remains
  <2> QED BY <1>3, <2>1, <2>2, <2>4
<1>4. ASSUME cmd'.kind # "revert" PROVE AimInv'
  BY <1>4 DEF AimInv
<1>5. ASSUME pc' # "apply", pc' \notin Looping, job' # "revert" PROVE AimInv'
  BY <1>5 DEF AimInv
<1>6. ASSUME UNCHANGED <<cmd, target>>, guard'.ref = guard.ref, pc' # "apply", GuardLive,
             cmd.kind = "revert" => Aimed(guard.ref),
             cmd.kind = "revert" /\ job' = "revert" /\ pc' = "publish" => cand'.tree = target
      PROVE  AimInv'
  <2>1. guard.ref \in DOMAIN commits
    BY <1>1, <1>2, <1>6 DEF GuardInv
  <2>2. cmd.kind = "revert" => /\ BackIn(commits', Chain', guard'.ref, cmd'.n) # 0
                               /\ target' = commits'[BackIn(commits', Chain', guard'.ref,
                                  cmd'.n)].tree
    BY <1>3, <1>6, <2>1
  <2> QED BY <1>6, <2>2 DEF AimInv, Aimed, TreeOf
<1>7. CASE Sits
  <2>1. UNCHANGED <<cmd, target, guard, pc, job, cand>>
    BY <1>7 DEF Sits
  <2>2. CASE cmd.kind = "revert" /\ pc = "apply"
    <3>1. PICK r \in Chain[head] : guard.ref \in Chain[r] /\ Aimed(r)
      BY <1>1, <2>2 DEF AimInv
    <3>2. r \in DOMAIN commits /\ r \in Chain'[head'] /\ guard'.ref \in Chain'[r]
      BY <1>2, <2>1, <3>1
    <3>3. /\ BackIn(commits', Chain', r, cmd'.n) # 0
          /\ target' = commits'[BackIn(commits', Chain', r, cmd'.n)].tree
      BY <1>3, <2>1, <3>1, <3>2
    <3>4. job # "revert"
      BY <1>1, <2>2 DEF ControlInv, Preparing
    <3> QED BY <2>1, <2>2, <3>2, <3>3, <3>4 DEF AimInv, Aimed, TreeOf, Looping
  <2>3. CASE cmd.kind = "revert" /\ (pc \in Looping \/ job = "revert")
    <3>1. GuardLive /\ pc # "apply"
      BY <1>1, <2>3 DEF ControlInv, GuardLive, Guarded, Looping, Preparing, Rewriting
    <3> QED BY <1>1, <1>6, <2>1, <2>3, <3>1 DEF AimInv
  <2>4. CASE cmd.kind # "revert"
    BY <1>4, <2>1, <2>4
  <2>5. CASE pc # "apply" /\ pc \notin Looping /\ job # "revert"
    BY <1>5, <2>1, <2>5
  <2> QED BY <2>2, <2>3, <2>4, <2>5
<1>8. CASE Over
  BY <1>4, <1>8, Nothing DEF Over, Exit, NONE
<1>9. CASE \E c \in Command : Starts(c)
  <2>1. PICK c \in Command : Starts(c)
    BY <1>9
  <2>2. cmd'.kind # "revert" \/ (pc' = "sweep" /\ job' = NONE)
    <3> SUFFICES ASSUME cmd'.kind = "revert" PROVE pc' = "sweep" /\ job' = NONE
      OBVIOUS
    <3>1. c.kind = "revert"
      BY <2>1 DEF Starts
    <3> QED BY <2>1, <3>1 DEF Starts
  <2> QED BY <1>4, <1>5, <2>2 DEF Looping, NONE
<1>10. CASE Turns \/ Parented \/ Based \/ Froze \/ Published
  <2>1. UNCHANGED <<cmd, target, guard, job>> /\ pc' # "apply" /\ pc' \notin Looping
    BY <1>10 DEF Turns, Passes, local, Parented, Based, Froze, Published, ButCand, Looping
  <2>2. CASE job = "revert"
    <3>1. cmd.kind = "revert" /\ Aimed(guard.ref) /\ GuardLive
      BY <1>1, <2>2 DEF AimInv, ControlInv, GuardLive
    <3>2. pc' = "publish" => Vetted /\ cand' = cand
      BY <1>10, <2>2 DEF Turns, Passes, local, Parented, Based, Froze, Published
    <3>3. Vetted => cand.tree = target
      BY <2>2 DEF Vetted
    <3> QED BY <1>6, <2>1, <3>1, <3>2, <3>3
  <2>3. CASE job # "revert"
    BY <1>5, <2>1, <2>3
  <2> QED BY <2>2, <2>3
<1>11. CASE SetsUpNext \/ Guards
  <2>1. pc' # "apply" /\ pc' \notin Looping /\ job' # "revert"
    BY <1>1, <1>11 DEF SetsUpNext, Sets, Guards, Looping, ControlInv, Preparing
  <2> QED BY <1>5, <2>1
<1>12. CASE Relates
  BY <1>1, <1>4, <1>12 DEF Relates, ControlInv
<1>13. CASE Resolves
  <2>1. UNCHANGED <<cmd, guard, job>> /\ pc = "resolve" /\ pc' = "apply"
        /\ BackIn(commits, Chain, head, cmd.n) # 0 /\
           target' = TreeOf(BackIn(commits, Chain, head, cmd.n))
    BY <1>13 DEF Resolves
  <2>2. guard.ref \in Chain[head]
    BY <1>1, <2>1 DEF GuardInv, GuardLive, Guarded, ControlInv, Rewriting
  <2>3. BackIn(commits', Chain', head, cmd'.n) = BackIn(commits, Chain, head, cmd.n)
    BY <1>2, <2>1, Remains
  <2>4. BackIn(commits, Chain, head, cmd.n) \in DOMAIN commits
    BY <1>2, <2>1, BackTyped DEF BaseInv
  <2>5. target' = commits'[BackIn(commits', Chain', head, cmd'.n)].tree /\
        BackIn(commits', Chain', head, cmd'.n) # 0
    BY <2>1, <2>3, <2>4, Remains
  <2>6. head \in Chain'[head'] /\ guard'.ref \in Chain'[head]
    BY <1>2, <2>1, <2>2
  <2>7. \E r \in Chain'[head'] : /\ guard'.ref \in Chain'[r]
                                 /\ BackIn(commits', Chain', r, cmd'.n) # 0
                                 /\ target' = commits'[BackIn(commits', Chain', r, cmd'.n)].tree
    BY <2>5, <2>6
  <2>8. job' # "revert"
    BY <1>1, <2>1 DEF ControlInv, Preparing
  <2> QED BY <2>1, <2>7, <2>8 DEF AimInv, Aimed, TreeOf, Looping
<1>14. CASE \E t \in Tree : Plans(t)
  <2>1. PICK t \in Tree : Plans(t)
    BY <1>14
  <2>2. UNCHANGED <<cmd, guard, job>> /\ pc = "apply" /\ pc' = "check"
    BY <2>1 DEF Plans
  <2>3. CASE cmd.kind = "revert"
    <3>1. Guarded /\ GuardLive /\ target' = target /\ head = guard.ref
      BY <2>1, <2>2, <2>3 DEF Plans, Guarded, GuardLive, CheckAll, Rewriting
    <3>2. PICK r \in Chain[head] : guard.ref \in Chain[r] /\ Aimed(r)
      BY <1>1, <2>2, <2>3 DEF AimInv
    <3>3. r \in 1 .. head /\ head \in 1 .. r /\ head \in Nat /\ r \in Nat
      BY <1>2, <3>1, <3>2, ChainFacts, Recorded1 DEF BaseInv
    <3>4. Aimed(guard.ref)
      BY <3>1, <3>2, <3>3
    <3> QED BY <1>6, <2>2, <3>1, <3>4
  <2>4. CASE cmd.kind # "revert"
    BY <1>4, <2>2, <2>4
  <2> QED BY <2>3, <2>4
<1>15. CASE \E s \in Todo : Skips(s) \/ Enters(s) \/ Rewrites(s)
  <2>1. UNCHANGED <<cmd, target, job>> /\ guard'.ref = guard.ref /\ pc \in Looping /\
        pc' \in Looping
    BY <1>1, <1>15 DEF Skips, Enters, Rewrites, Guard, Looping
  <2>2. CASE cmd.kind = "revert"
    BY <1>1, <1>6, <2>1, <2>2 DEF AimInv, Looping, GuardLive, Guarded, Rewriting
  <2>3. CASE cmd.kind # "revert"
    BY <1>4, <2>1, <2>3
  <2> QED BY <2>2, <2>3
<1>16. CASE Rebuilds
  <2>1. UNCHANGED <<cmd, target>> /\ guard'.ref = guard.ref /\ pc = "check" /\
        pc' \in {"parent", "agree"}
    BY <1>1, <1>16 DEF Rebuilds, Guard
  <2>2. CASE cmd.kind = "revert"
    BY <1>1, <1>6, <2>1, <2>2 DEF AimInv, Looping, GuardLive, Guarded, Rewriting
  <2>3. CASE cmd.kind # "revert"
    BY <1>4, <2>1, <2>3
  <2> QED BY <2>2, <2>3
<1> QED BY <1>1, <1>7, <1>8, <1>9, <1>10, <1>11, <1>12, <1>13, <1>14, <1>15, <1>16 DEF Flows, Acts
--------------------------------------------------------------------------------
(* One step of a plan is next.                                             *)
LEMMA OneNext ==
    ASSUME todo \in SUBSET Todo, NEW a, NEW b, IsNext(a), IsNext(b)
    PROVE  a = b
<1> SUFFICES ASSUME a # b PROVE FALSE
  OBVIOUS
<1>1. a \in Todo /\ b \in Todo /\ Before(a, b) /\ Before(b, a)
  BY DEF IsNext
<1>2. a.path \in Paths /\ b.path \in Paths
  BY <1>1 DEF Todo
<1>3. ASSUME NEW p \in Paths PROVE Rank(p) \in Nat
  <2>1. Order \in Seq(Paths)
    BY WorktreeAssumption
  <2>2. DOMAIN Order = 1 .. Len(Order) /\ Len(Order) \in Nat
    BY <2>1, LenProperties
  <2>3. \E i \in DOMAIN Order : Order[i] = p
    BY <2>2 DEF Paths, ToSet
  <2>4. Rank(p) \in DOMAIN Order
    BY <2>3 DEF Rank
  <2> QED BY <2>2, <2>4
<1>4. Rank(a.path) \in Nat /\ Rank(b.path) \in Nat
  BY <1>2, <1>3
<1>5. a.del \in BOOLEAN /\ b.del \in BOOLEAN
  BY <1>1 DEF Todo
<1>6. CASE a.del = b.del
  <2>1. CASE a.del
    BY <1>1, <1>4, <1>6, <2>1 DEF Before
  <2>2. CASE ~a.del
    BY <1>1, <1>4, <1>6, <2>2 DEF Before
  <2> QED BY <2>1, <2>2
<1>7. CASE a.del # b.del
  BY <1>1, <1>5, <1>7 DEF Before
<1> QED BY <1>6, <1>7

(* Users edit at any time; at the path being rewritten, `late` says so.    *)
LEMMA Interludes ==
    ASSUME BaseInv, [Next]_vars
    PROVE  \/ Acts
           \/ Sits /\ worktree' = worktree /\ late' = late
           \/ /\ Sits
              /\ \A p \in Paths :
                    At(p) => \/ worktree'[p] \in late'
                             \/ late' = late /\ worktree'[p] \in {worktree[p], NONE, DIR}
<1>1. CASE Step
  BY <1>1, CommitFlows, RewriteFlows DEF Step
<1>2. CASE BeginCommand \/ BeginPush
  BY <1>2, StartFlows DEF Acts
<1>3. CASE Crash
  BY <1>3 DEF Crash, Acts, Over
<1>4. CASE Fetch \/ Push \/ UserUnlock \/ UNCHANGED vars
  BY <1>4 DEF Fetch, Push, UserUnlock, vars, local, Sits
<1>5. CASE UserStep
  <2>1. Sits
    BY <1>5 DEF UserStep, UserRemove, UserStage, UserWrite, UserStagePart, UserCommit, User, At,
       Sits
  <2>2. CASE \E p \in Paths, e \in Edits : UserStagePart(p, e)
    BY <2>1, <2>2 DEF UserStagePart
  <2>3. CASE UserCommit \/ \E p \in Paths : UserStage(p)
    BY <2>1, <2>3 DEF UserCommit, UserStage
  <2>4. CASE \E p \in Paths : UserRemove(p)
    <3>1. PICK p \in Paths : worktree' = Pruned(Removed(p), p) /\ late' = late
      BY <2>4 DEF UserRemove
    <3>2. worktree \in [Paths -> Stored \cup {NONE, DIR}]
      BY DEF BaseInv, StoreTyped
    <3>3. \A q \in Paths : worktree'[q] \in {worktree[q], NONE}
      BY <3>1, <3>2 DEF Pruned, Removed
    <3> QED BY <2>1, <3>1, <3>3
  <2>5. CASE \E p \in Paths, e \in Edits : UserWrite(p, e)
    <3>1. PICK p \in Paths, e \in Edits : UserWrite(p, e)
      BY <2>5
    <3>2. /\ worktree' = [q \in Paths |-> IF q = p THEN e ELSE IF q = Parent[p] THEN DIR
                                          ELSE IF q \in Children(p) THEN NONE ELSE worktree[q]]
          /\ late' = IF At(p) THEN {e} ELSE late
      BY <3>1 DEF UserWrite
    <3>3. \A q \in Paths : At(q) /\ At(p) => q = p
      BY OneNext DEF At, BaseInv, LocalTyped
    <3>4. \A q \in Paths : q # p => worktree'[q] \in {worktree[q], NONE, DIR}
      BY <3>2
    <3>5. worktree'[p] = e
      BY <3>2
    <3>6. ASSUME NEW q \in Paths, At(q)
          PROVE  \/ worktree'[q] \in late'
                 \/ late' = late /\ worktree'[q] \in {worktree[q], NONE, DIR}
      <4>1. CASE q = p
        BY <3>2, <3>5, <3>6, <4>1
      <4>2. CASE q # p
        <5>1. ~At(p)
          BY <3>3, <3>6, <4>2
        <5> QED BY <3>2, <3>4, <4>2, <5>1
      <4> QED BY <4>1, <4>2
    <3> QED BY <2>1, <3>6
  <2> QED BY <1>5, <2>2, <2>3, <2>4, <2>5 DEF UserStep
<1> QED BY <1>1, <1>2, <1>3, <1>4, <1>5 DEF Next

(* Every step left of a plan is one of both trees, and what it meets is    *)
(* the guard's or late.                                                    *)
LEMMA PlanStep ==
    ASSUME BaseInv, [Next]_vars
    PROVE  PlanInv'
<1>1. /\ PlanInv /\ ControlInv /\ GuardInv /\ todo \in SUBSET Todo /\ target \in Tree
      /\ WellFiled(worktree)
  BY FiledIs DEF BaseInv, LocalTyped
<1>2. \A x \in Chain[head] : x \in DOMAIN commits /\ commits'[x].tree = TreeOf(x)
  BY Remains
<1>3. ASSUME pc' \notin Looping PROVE PlanInv'
  BY <1>3 DEF PlanInv, Looping
<1>4. ASSUME pc' = "check", todo' \in SUBSET todo, target' = target, known' = known, pc \in Looping
      PROVE  PlanInv'
  BY <1>1, <1>4 DEF PlanInv
<1>5. ASSUME Sits,
             \/ worktree' = worktree /\ late' = late
             \/ \A p \in Paths :
                  At(p) => \/ worktree'[p] \in late'
                           \/ late' = late /\ worktree'[p] \in {worktree[p], NONE, DIR}
      PROVE  PlanInv'
  <2>1. UNCHANGED <<pc, cmd, todo, target, known, guard>>
    BY <1>5 DEF Sits
  <2>2. CASE pc = "check"
    BY <1>1, <1>4, <2>1, <2>2 DEF Looping
  <2>3. CASE pc = "rewrite"
    <3>1. \E s \in todo : IsNext(s)
      BY <1>1, <2>3 DEF PlanInv
    <3>2. \A s \in todo : (s.del <=> target[s.path] = NONE) /\ s.path \in known
      BY <1>1, <2>3 DEF PlanInv, Looping
    <3>3. ASSUME Guarded, NEW s \in todo, IsNext(s)
          PROVE  worktree'[s.path] \in late' \cup {NONE, DIR, commits'[guard.ref].tree[s.path]}
      <4>1. worktree[s.path] \in late \cup {NONE, DIR, TreeOf(guard.ref)[s.path]}
        BY <1>1, <2>3, <3>3 DEF PlanInv
      <4>2. commits'[guard.ref].tree = TreeOf(guard.ref)
        BY <1>1, <1>2, <2>3, <3>3 DEF GuardInv, GuardLive, Rewriting
      <4>3. At(s.path) /\ s.path \in Paths
        BY <1>1, <2>3, <3>3 DEF At, Todo
      <4> QED BY <1>5, <4>1, <4>2, <4>3
    <3> QED BY <2>1, <2>3, <3>1, <3>2, <3>3 DEF PlanInv, IsNext, Guarded, TreeOf
  <2>4. CASE pc \notin Looping
    BY <1>3, <2>1, <2>4
  <2> QED BY <2>2, <2>3, <2>4 DEF Looping
<1>6. CASE Over \/ (\E c \in Command : Starts(c)) \/ Turns \/ SetsUpNext
  BY <1>3, <1>6 DEF Over, Exit, Starts, Turns, Passes, SetsUpNext, Sets, Looping
<1>7. CASE Parented \/ Based \/ Froze \/ Published \/ Guards \/ Resolves \/ Relates \/ Rebuilds
  BY <1>3, <1>7 DEF Parented, Based, Froze, Published, Guards, Resolves, Relates, Rebuilds, Looping
<1>8. CASE \E t \in Tree : Plans(t)
  <2>1. PICK t \in Tree : Plans(t)
    BY <1>8
  <2>2. pc' = "check" /\ target' = t /\ todo' = Plan(Names(t), t) /\ known' = Names(t)
    BY <2>1 DEF Plans
  <2> QED BY <2>2, PlanTyped DEF PlanInv
<1>9. CASE \E s \in Todo : Skips(s) \/ Rewrites(s)
  BY <1>4, <1>9 DEF Skips, Rewrites, Looping
<1>10. CASE \E s \in Todo : Enters(s)
  <2>1. PICK s \in Todo : Enters(s)
    BY <1>10
  <2> DEFINE p == s.path
  <2>2. /\ pc = "check" /\ pc' = "rewrite" /\ s \in todo /\ IsNext(s) /\ ~Settled(s)
        /\ worktree' = (IF s.del THEN worktree ELSE MkdirAbove(p)) /\ Approved(worktree', p)
        /\ UNCHANGED <<cmd, guard, target, todo, known>> /\ p \in Paths
    BY <2>1 DEF Enters, Todo
  <2>3. \A r \in todo : (r.del <=> target[r.path] = NONE) /\ r.path \in known
    BY <1>1, <2>2 DEF PlanInv, Looping
  <2>4. ASSUME Guarded
        PROVE  worktree'[p] \in {NONE, DIR, commits'[guard.ref].tree[p]}
    <3>1. CheckPath(worktree', p)
      BY <2>2, <2>4 DEF Approved
    <3>2. guard.expected[p] \in {TreeOf(guard.ref)[p], target[p], NONE}
      BY <1>1, <2>2, <2>4 DEF GuardInv, Looping
    <3>3. commits'[guard.ref].tree = TreeOf(guard.ref)
      BY <1>1, <1>2, <2>2, <2>4 DEF GuardInv, GuardLive, Rewriting
    <3>4. ~s.del => worktree'[p] = worktree[p] /\ worktree[p] # target[p]
      <4>1. Parent[p] # TOP => Parent[p] # p
        BY <2>2, Parents
      <4>2. ~s.del => worktree[p] # target[p]
        BY <2>2 DEF Settled
      <4> HIDE DEF p
      <4> QED BY <1>1, <2>2, <4>1, <4>2 DEF MkdirAbove, WellFiled
    <3>5. s.del <=> target[p] = NONE
      BY <2>2, <2>3
    <3>6. CASE guard.expected[p] # NONE
      BY <3>1, <3>2, <3>3, <3>4, <3>5, <3>6 DEF CheckPath
    <3>7. CASE guard.expected[p] = NONE
      BY <3>1, <3>7 DEF CheckPath
    <3> QED BY <3>6, <3>7
  <2>5. ASSUME NEW r \in todo, IsNext(r) PROVE r = s
    BY <1>1, <2>2, <2>5, OneNext
  <2>6. \A r : IsNext(r)' <=> IsNext(r)
    BY <2>2 DEF IsNext
  <2>7. Guarded' <=> Guarded
    BY <2>2 DEF Guarded
  <2> HIDE DEF p
  <2>8. ASSUME NEW r \in todo, r \in todo /\ \A other \in todo \ {r} : Before(r, other), Guarded
        PROVE  worktree'[r.path] \in late' \cup {NONE, DIR, commits'[guard.ref].tree[r.path]}
    <3>1. r = s
      BY <2>5, <2>8 DEF IsNext
    <3> QED BY <2>4, <2>8, <3>1 DEF p
  <2>9. \E r \in todo : r \in todo /\ \A other \in todo \ {r} : Before(r, other)
    BY <2>2 DEF IsNext
  <2> QED BY <2>2, <2>3, <2>7, <2>8, <2>9 DEF PlanInv, IsNext, TreeOf
<1> QED BY Interludes, <1>5, <1>6, <1>7, <1>8, <1>9, <1>10 DEF Acts
--------------------------------------------------------------------------------
(* The typing and bookkeeping part of the invariant is inductive.          *)
LEMMA BaseStep == BaseInv /\ [Next]_vars => BaseInv'
BY StoreStep, LocalStep, GhostSteps, CandStep, GuardStep, PlanStep, GoalStep, AimStep DEF BaseInv

(* The commits a step makes.                                               *)
LEMMA NewCommits ==
    ASSUME BaseInv, [Next]_vars
    PROVE  \A c \in DOMAIN commits' :
             \/ c \in DOMAIN commits /\ commits'[c] = commits[c]
             \/ /\ pc = "publish" /\ ParentUnmoved
                /\ commits'[c] = [parent |-> head, msg |-> MessageOf, tree |-> cand.tree]
             \/ commits'[c].msg.kind = "direct"
<1>1. Grown /\ StoreTyped /\ StoreTyped' /\ LocalTyped
  BY BranchGrows DEF BaseInv
<1>2. DOMAIN commits = 1 .. Len(commits) /\ DOMAIN commits' = 1 .. Len(commits') /\
      commits \in Seq(Commit)
      /\ Len(commits) \in Nat
  BY <1>1, LenProperties DEF StoreTyped
<1>3. CASE commits' = commits
  BY <1>3
<1>4. ASSUME NEW m, NEW t, Commits(m, t), NEW c \in DOMAIN commits', c \notin DOMAIN commits
      PROVE  commits'[c] = [parent |-> head, msg |-> m, tree |-> t]
  BY <1>2, <1>4 DEF Commits
<1>5. CASE pc = "publish" /\ ParentUnmoved /\ Commits(MessageOf, cand.tree)
  BY <1>1, <1>4, <1>5 DEF Grown
<1>6. CASE Commits(Msg("direct", "", 0), index)
  <2> DEFINE m == Msg("direct", "", 0)
  <2>1. m.kind = "direct"
    BY DEF Msg
  <2>2. Commits(m, index)
    BY <1>6
  <2> HIDE DEF m
  <2>3. ASSUME NEW c \in DOMAIN commits', c \notin DOMAIN commits
               PROVE commits'[c].msg.kind = "direct"
    <3>1. commits'[c] = [parent |-> head, msg |-> m, tree |-> index]
      BY <1>2, <2>2, <2>3 DEF Commits
    <3> QED BY <2>1, <3>1
  <2> QED BY <1>1, <2>3 DEF Grown
<1> QED BY <1>1, <1>3, <1>5, <1>6, BranchSteps DEF Stays, Advances

(* A commit of a command has a parent.                                     *)
LEMMA RootedStep ==
    ASSUME BaseInv, RootedInv, [Next]_vars
    PROVE  RootedInv'
<1>1. DOMAIN commits \subseteq DOMAIN commits' /\ head \in DOMAIN commits
  BY BranchGrows DEF Grown, BaseInv, StoreTyped
<1> QED BY <1>1, NewCommits DEF RootedInv

(* A revert is committed on what it was aimed from.                        *)
LEMMA RevertStep ==
    ASSUME BaseInv, RootedInv, RevertExact, [Next]_vars
    PROVE  RevertExact'
<1>1. head \in DOMAIN commits /\ job \in Jobs
  BY DEF BaseInv, StoreTyped, LocalTyped
<1> SUFFICES ASSUME NEW c \in DOMAIN commits', commits'[c].msg.kind = "revert"
             PROVE  LET to == BackIn(commits', Chain', commits'[c].parent, commits'[c].msg.n)
                    IN to # 0 /\ commits'[c].tree = commits'[to].tree
  <2>1. (\A c, n : Back(c, n) = BackIn(commits, Chain, c, n))'
    BY BackIs, PTL
  <2> QED BY <2>1 DEF RevertExact, TreeOf
<1> DEFINE Exact(parent, n, tree) ==
             LET to == BackIn(commits, Chain, parent, n) IN to # 0 /\ tree = TreeOf(to)
<1>2. ASSUME NEW r \in DOMAIN commits, NEW n, NEW t, Exact(r, n, t)
      PROVE  LET to == BackIn(commits', Chain', r, n) IN to # 0 /\ t = commits'[to].tree
  <2>1. BackIn(commits', Chain', r, n) = BackIn(commits, Chain, r, n)
    BY Remains
  <2>2. BackIn(commits, Chain, r, n) \in DOMAIN commits
    BY <1>2, BackTyped DEF BaseInv
  <2> QED BY <1>2, <2>1, <2>2, Remains
<1>3. CASE c \in DOMAIN commits /\ commits'[c] = commits[c]
  <2>1. commits[c].parent \in DOMAIN commits
    BY <1>3 DEF RootedInv
  <2>2. Exact(commits[c].parent, commits[c].msg.n, commits[c].tree)
    BY <1>3, BackIs DEF RevertExact, TreeOf
  <2> HIDE DEF Exact
  <2> QED BY <1>2, <1>3, <2>1, <2>2
<1>4. CASE /\ pc = "publish" /\ ParentUnmoved
           /\ commits'[c] = [parent |-> head, msg |-> MessageOf, tree |-> cand.tree]
  <2>1. job = "revert" /\ MessageOf.n = cmd.n
    <3>1. MessageOf.kind = "revert"
      BY <1>4
    <3> QED BY <3>1 DEF MessageOf, Msg
  <2>2. head = guard.ref /\ cmd.kind = "revert"
    BY <1>4, <2>1 DEF ParentUnmoved, BaseInv, ControlInv
  <2>3. Aimed(guard.ref) /\ cand.tree = target
    BY <1>4, <2>1, <2>2 DEF BaseInv, AimInv
  <2>4. Exact(head, cmd.n, cand.tree)
    BY <2>2, <2>3 DEF Aimed
  <2>5. commits'[c].parent = head /\ commits'[c].msg.n = cmd.n /\ commits'[c].tree = cand.tree
    BY <1>4, <2>1
  <2> HIDE DEF Exact
  <2> QED BY <1>1, <1>2, <2>4, <2>5
<1> QED BY <1>3, <1>4, NewCommits

(* A commit of one skill is made on the parent whose tree it copied.       *)
LEMMA ScopeStep ==
    ASSUME BaseInv, RootedInv, CommitScoped, [Next]_vars
    PROVE  CommitScoped'
<1> SUFFICES ASSUME NEW c \in DOMAIN commits', commits'[c].msg = Msg("commit", "skill", 0),
                    NEW p \in Paths \ Scope
             PROVE  commits'[c].tree[p] = commits'[commits'[c].parent].tree[p]
  BY DEF CommitScoped, TreeOf
<1>1. commits'[c].msg.kind = "commit" /\ commits'[c].msg.of = "skill"
  BY DEF Msg
<1>2. CASE c \in DOMAIN commits /\ commits'[c] = commits[c]
  <2>1. commits[c].parent \in DOMAIN commits
    BY <1>1, <1>2 DEF RootedInv
  <2>2. commits[c].tree[p] = TreeOf(commits[c].parent)[p]
    BY <1>2 DEF CommitScoped, TreeOf
  <2> QED BY <1>2, <2>1, <2>2, Remains
<1>3. CASE /\ pc = "publish" /\ ParentUnmoved
           /\ commits'[c] = [parent |-> head, msg |-> MessageOf, tree |-> cand.tree]
  <2>1. MessageOf.kind = "commit" /\ MessageOf.of = "skill"
    BY <1>1, <1>3
  <2>2. job = "skill"
    BY <2>1 DEF MessageOf, Msg
  <2>3. cand.tree[p] = TreeOf(cand.parent)[p] /\ head = cand.parent /\ head \in DOMAIN commits
    BY <1>3, <2>2 DEF BaseInv, CandInv, Decided, ParentUnmoved, StoreTyped
  <2> QED BY <1>3, <2>3, Remains
<1> QED BY <1>1, <1>2, <1>3, NewCommits
--------------------------------------------------------------------------------
(* What users wrote.  The history of the branch is kept, so only what the  *)
(* index and the worktree lose counts.                                     *)
InHistory(e) == \E c \in Chain[head] : \E p \in Paths : TreeOf(c)[p] = e

(* A step keeps what users wrote if it keeps, file by file, what no commit *)
(* of the branch has.                                                      *)
LEMMA KeptWhen ==
    ASSUME BaseInv, EditsKept, [Next]_vars, authored' = authored, dropped \subseteq dropped',
           \A p \in Paths : worktree[p] \in Edits \ dropped' =>
               worktree'[p] = worktree[p] \/ InHistory(worktree[p]),
           \A p \in Paths : index[p] \in Edits \ dropped' =>
               index'[p] = index[p] \/ InHistory(index[p])
    PROVE  EditsKept'
<1>1. \A x \in Chain[head] : x \in Chain'[head'] /\ commits'[x].tree = TreeOf(x)
  BY Remains
<1>2. ASSUME NEW e \in authored' \ dropped', InHistory(e)
      PROVE  \E c \in Chain'[head'] : \E p \in Paths : commits'[c].tree[p] = e
  BY <1>1, <1>2 DEF InHistory
<1>3. ASSUME NEW e \in authored' \ dropped'
      PROVE  \/ \E p \in Paths : worktree'[p] = e \/ index'[p] = e
             \/ \E c \in Chain'[head'] : \E p \in Paths : commits'[c].tree[p] = e
  <2>1. Kept(e) /\ e \in Edits \ dropped'
    BY <1>3 DEF EditsKept, BaseInv, GhostTyped
  <2>2. CASE InHistory(e)
    BY <1>2, <2>2
  <2>3. CASE \E p \in Paths : worktree[p] = e \/ index[p] = e
    BY <1>2, <2>1, <2>3
  <2> QED BY <2>1, <2>2, <2>3 DEF Kept, InHistory
<1> QED BY <1>3 DEF EditsKept, Kept, TreeOf

(* At the path being rewritten is what the guard's commit has, or what the *)
(* command may destroy.                                                    *)
LEMMA Replaceable ==
    ASSUME BaseInv, pc = "rewrite", NEW s \in todo, IsNext(s), worktree[s.path] \in Edits
    PROVE  worktree[s.path] \in Entitled(s.path) \/ InHistory(worktree[s.path])
<1>1. s.path \in Paths /\ s.path \in known
  BY DEF BaseInv, LocalTyped, Todo, PlanInv, Looping
<1>2. CASE Guarded
  <2>1. worktree[s.path] \in late \cup {NONE, DIR, TreeOf(guard.ref)[s.path]}
    BY <1>2 DEF BaseInv, PlanInv
  <2>2. guard.ref \in Chain[head]
    BY <1>2 DEF BaseInv, GuardInv, GuardLive, Rewriting
  <2> QED BY <1>1, <1>2, <2>1, <2>2, Contents DEF Entitled, InHistory
<1>3. CASE ~Guarded
  BY <1>1, <1>3 DEF Entitled
<1> QED BY <1>2, <1>3

(* Rewriting a path, with the parents it empties (worktree_apply.go).      *)
LEMMA RewriteKeeps ==
    ASSUME BaseInv, EditsKept, Rewrite
    PROVE  EditsKept'
<1>1. PICK s \in todo : /\ pc = "rewrite" /\ IsNext(s)
                        /\ \/ Stop("refused")
                           \/ /\ worktree' = IF s.del
                                 THEN (IF There(s.path) THEN Pruned(Removed(s.path), s.path)
                                 ELSE worktree)
                                              ELSE [worktree EXCEPT ![s.path] = target[s.path]]
                              /\ dropped' = dropped \cup ({worktree[s.path]} \cap Entitled(s.path))
                              /\ UNCHANGED <<repo, authored>>
  BY DEF Rewrite
<1> DEFINE p == s.path
<1>2. [Next]_vars
  BY DEF Next, Step
<1>3. CASE Stop("refused")
  BY <1>2, <1>3, KeptWhen DEF Stop, repo, ghost
<1>4. CASE ~Stop("refused")
  <2>1. /\ worktree' = IF s.del THEN (IF There(p) THEN Pruned(Removed(p), p) ELSE worktree)
                        ELSE [worktree EXCEPT ![p] = target[p]]
        /\ dropped' = dropped \cup ({worktree[p]} \cap Entitled(p))
        /\ index' = index /\ authored' = authored
    BY <1>1, <1>4 DEF repo
  <2>2. p \in Paths /\ WellFiled(worktree)
    BY FiledIs DEF BaseInv, LocalTyped, Todo
  <2>3. worktree[p] \in Edits \ dropped' => InHistory(worktree[p])
    BY <1>1, <2>1, Replaceable
  <2> HIDE DEF p
  <2>4. ASSUME NEW q \in Paths, q # p, worktree[q] \in Edits PROVE worktree'[q] = worktree[q]
    <3>1. CASE s.del /\ There(p)
      <4>1. Parent[p] # TOP => worktree[Parent[p]] = DIR
        BY <2>2, <3>1 DEF There, WellFiled
      <4>2. worktree' = Removed(p) \/
            (Parent[p] # TOP /\ worktree' = [Removed(p) EXCEPT ![Parent[p]] = NONE])
        BY <2>1, <3>1 DEF Pruned
      <4>3. Parent[p] # TOP => q # Parent[p]
        BY <4>1, <2>4, Contents
      <4>4. Removed(p)[q] = worktree[q] /\ DOMAIN Removed(p) = Paths
        BY <2>2, <2>4 DEF Removed, WellFiled
      <4> QED BY <4>2, <4>3, <4>4
    <3>2. CASE ~(s.del /\ There(p))
      BY <2>1, <2>2, <2>4, <3>2 DEF WellFiled
    <3> QED BY <3>1, <3>2
  <2>5. \A q \in Paths : worktree[q] \in Edits \ dropped' => worktree'[q] = worktree[q] \/
        InHistory(worktree[q])
    BY <2>3, <2>4
  <2>6. dropped \subseteq dropped' /\ index' = index /\ authored' = authored
    BY <2>1
  <2> QED BY <1>2, <2>5, <2>6, KeptWhen
<1> QED BY <1>3, <1>4

(* Dying or failing while a path is written.                               *)
LEMMA CrashKeeps ==
    ASSUME BaseInv, EditsKept, Crash
    PROVE  EditsKept'
<1>1. [Next]_vars
  BY DEF Next
<1>2. /\ worktree' \in Broken /\ index' = index /\ authored' = authored
      /\ dropped' = dropped \cup UNION {{worktree[p]} \cap Entitled(p) :
                                         p \in {q \in Paths : worktree'[q] # worktree[q]}}
  BY DEF Crash
<1>3. worktree \in [Paths -> Stored \cup {NONE, DIR}]
  BY DEF BaseInv, StoreTyped
<1>4. ASSUME NEW q \in Paths, worktree'[q] # worktree[q], worktree[q] \in Edits
      PROVE  worktree[q] \in Entitled(q) \/ InHistory(worktree[q])
  <2>1. PICK p \in Paths, v \in {NONE, TORN} : Writing(p) /\ worktree' = [worktree EXCEPT ![p] = v]
    BY <1>2, <1>4 DEF Broken
  <2>2. q = p
    BY <1>3, <1>4, <2>1
  <2>3. Write(p) \in todo /\ IsNext(Write(p)) /\ Write(p).path = p /\ pc = "rewrite"
    BY <2>1 DEF Writing, IsNext, Write
  <2> QED BY <1>4, <2>2, <2>3, Replaceable
<1>5. ASSUME NEW q \in Paths, worktree[q] \in Edits \ dropped'
      PROVE  worktree'[q] = worktree[q] \/ InHistory(worktree[q])
  BY <1>2, <1>4, <1>5
<1>6. dropped \subseteq dropped'
  BY <1>2
<1> QED BY <1>1, <1>2, <1>5, <1>6, KeptWhen

(* What the index loses where a candidate is installed, and where a        *)
(* rewrite is done.                                                        *)
LEMMA IndexKeeps ==
    ASSUME BaseInv, EditsKept, SyncIndex \/ Rebuild
    PROVE  EditsKept'
<1>1. [Next]_vars
  BY DEF Next, Step
<1>2. index \in Tree /\ job \in Jobs
  BY DEF BaseInv, StoreTyped, LocalTyped
<1>3. ASSUME worktree' = worktree, authored' = authored, dropped \subseteq dropped',
             \A p \in Paths : index'[p] = index[p] \/ index[p] \in dropped' \/
               \E c \in Chain[head] : index[p] = TreeOf(c)[p]
      PROVE  EditsKept'
  <2>1. \A p \in Paths : index[p] \in Edits \ dropped' => index'[p] = index[p] \/
        InHistory(index[p])
    BY <1>3 DEF InHistory
  <2> QED BY <1>1, <1>3, <2>1, KeptWhen
<1>4. ASSUME UNCHANGED <<repo, worktree, ghost>> PROVE EditsKept'
  BY <1>3, <1>4 DEF repo, ghost
<1>5. CASE SyncIndex
  <2>1. CASE ~(cand.sync /\ NotRestaged /\ index' = Install)
    BY <1>4, <1>5, <2>1 DEF SyncIndex, Stop
  <2>2. CASE cand.sync /\ NotRestaged /\ index' = Install
    <3>1. pc = "install" /\ worktree' = worktree /\ authored' = authored
          /\ \/ dropped' = dropped \cup (IF job = "skill" THEN {cand.base[p] : p \in Scope} ELSE {})
             \/ UNCHANGED <<repo, ghost>>
      BY <1>5 DEF SyncIndex, Stop, ghost
    <3>2. CASE UNCHANGED <<repo, ghost>>
      BY <1>4, <3>1, <3>2
    <3>3. CASE dropped' = dropped \cup (IF job = "skill" THEN {cand.base[p] : p \in Scope} ELSE {})
      <4>1. ASSUME NEW p \in Paths, p \notin InScope PROVE index'[p] = index[p]
        BY <2>2, <4>1 DEF Install
      <4>2. \A p \in InScope : index[p] = cand.base[p]
        BY <2>2 DEF NotRestaged
      <4>3. CASE job = "skill"
        <5>1. \A p \in Scope : index[p] \in dropped'
          BY <3>3, <4>2, <4>3 DEF InScope
        <5> QED BY <1>3, <3>1, <3>3, <4>1, <4>3, <5>1 DEF InScope
      <4>4. CASE job # "skill"
        <5>1. job \in {"rest", "revert", "all"}
          BY <1>2, <2>2, <3>1, <4>4 DEF BaseInv, CandInv, ControlInv, Decided, Preparing, Jobs
        <5>2. cand.base = TreeOf(cand.parent) /\ cand.parent \in Chain[head]
          BY <2>2, <3>1, <5>1 DEF BaseInv, CandInv, Decided, Captured, Preparing
        <5> QED BY <1>3, <3>1, <3>3, <4>1, <4>2, <5>2, <4>4
      <4> QED BY <4>3, <4>4
    <3> QED BY <3>1, <3>2, <3>3
  <2> QED BY <2>1, <2>2
<1>6. CASE Rebuild
  <2>1. pc = "check" /\ (\/ UNCHANGED <<repo, worktree, ghost>>
                         \/ /\ worktree' = worktree /\ authored' = authored
                            /\ Guarded => CheckAll
                            /\ dropped' = dropped \cup
                               (IF Guarded THEN {} ELSE {index[p] : p \in Paths}))
    BY <1>6 DEF Rebuild, Stop
  <2>2. CASE UNCHANGED <<repo, worktree, ghost>>
    BY <1>4, <2>2
  <2>3. CASE /\ worktree' = worktree /\ authored' = authored
             /\ Guarded => CheckAll
             /\ dropped' = dropped \cup (IF Guarded THEN {} ELSE {index[p] : p \in Paths})
    <3>1. CASE Guarded
      <4>1. index = TreeOf(guard.ref) /\ guard.ref \in Chain[head]
        BY <2>1, <2>3, <3>1 DEF CheckAll, BaseInv, GuardInv, GuardLive, Looping, Rewriting
      <4> QED BY <1>3, <2>3, <4>1
    <3>2. CASE ~Guarded
      BY <1>3, <2>3, <3>2
    <3> QED BY <3>1, <3>2
  <2> QED BY <2>1, <2>2, <2>3
<1> QED BY <1>5, <1>6

(* Every step keeps what users wrote.                                      *)
LEMMA EditsStep ==
    ASSUME BaseInv, EditsKept, [Next]_vars
    PROVE  EditsKept'
<1>1. ASSUME UNCHANGED <<index, worktree, authored, dropped>> PROVE EditsKept'
  BY <1>1, KeptWhen
<1>2. CASE Rewrite \/ SyncIndex \/ Rebuild \/ Crash
  BY <1>2, RewriteKeeps, IndexKeeps, CrashKeeps
<1>3. CASE Sweep \/ CaptureParent \/ CaptureIndex \/ Freeze \/ Vet \/ Publish \/ PushSwept
  <2>1. UNCHANGED <<index, worktree, authored, dropped>>
    BY <1>3 DEF Sweep, CaptureParent, CaptureIndex, Freeze, Vet, Publish, PushSwept, OrStop,
       Stop, repo, ghost
  <2> QED BY <1>1, <2>1
<1>4. CASE NewGuard \/ Resolve \/ Relate \/ Apply \/ Agree \/ Advance
  <2>1. UNCHANGED <<index, worktree, authored, dropped>>
    BY <1>4 DEF NewGuard, Resolve, Relate, Apply, Agree, Advance, OrStop, Stop, repo, ghost
  <2> QED BY <1>1, <2>1
<1>5. CASE CheckNext
  <2>1. /\ UNCHANGED <<index, authored, dropped>>
        /\ \/ worktree' = worktree
           \/ \E s \in todo : ~s.del /\ ~FileAbove(worktree, s.path) /\
              worktree' = MkdirAbove(s.path)
    BY <1>5 DEF CheckNext, Stop, repo, ghost
  <2>2. \A p \in Paths : worktree[p] \in Edits => worktree'[p] = worktree[p]
    <3>1. CASE worktree' = worktree
      BY <3>1
    <3>2. ASSUME NEW s \in todo, ~FileAbove(worktree, s.path), worktree' = MkdirAbove(s.path)
          PROVE  \A p \in Paths : worktree[p] \in Edits => worktree'[p] = worktree[p]
      <4>1. worktree \in [Paths -> Stored \cup {NONE, DIR}]
        BY DEF BaseInv, StoreTyped
      <4> QED BY <3>2, <4>1, Contents DEF MkdirAbove, FileAbove
    <3> QED BY <2>1, <3>1, <3>2
  <2> QED BY <2>1, <2>2, KeptWhen
<1>6. CASE BeginCommand \/ BeginPush \/ Fetch \/ Push \/ UserUnlock \/ UNCHANGED vars
  <2>1. UNCHANGED <<index, worktree, authored, dropped>>
    BY <1>6 DEF BeginCommand, BeginPush, Begin, Fetch, Push, UserUnlock, vars, repo, ghost
  <2> QED BY <1>1, <2>1
<1>7. CASE UserStep
  <2>1. dropped' = dropped \cup {e \in authored : ~KeptNext(e)}
    BY <1>7 DEF UserStep, UserRemove, UserStage, UserWrite, UserStagePart, UserCommit, User
  <2>2. \/ authored' = authored
        \/ \E e \in Edits : authored' = authored \cup {e} /\ \E p \in Paths : worktree'[p] = e \/
           index'[p] = e
    <3>1. CASE (\E p \in Paths : UserRemove(p) \/ UserStage(p)) \/ UserCommit
      BY <3>1 DEF UserRemove, UserStage, UserCommit
    <3>2. CASE \E p \in Paths, e \in Edits : UserWrite(p, e) \/ UserStagePart(p, e)
      BY <3>2 DEF UserWrite, UserStagePart
    <3> QED BY <1>7, <3>1, <3>2 DEF UserStep
  <2>3. \A e \in authored' \ dropped' : KeptNext(e)
    BY <2>1, <2>2 DEF KeptNext
  <2> QED BY <2>3 DEF EditsKept, Kept, KeptNext, TreeOf
<1> QED BY <1>2, <1>3, <1>4, <1>5, <1>6, <1>7 DEF Next, Step
--------------------------------------------------------------------------------
(* The first state.                                                        *)
LEMMA Starting == Init => IInv
<1> SUFFICES ASSUME Init PROVE IInv
  OBVIOUS
<1>1. /\ commits = History /\ head = Local /\ tracking = Local /\ remote = Len(History)
      /\ index = TreeOf(head) /\ gitlock = "free" /\ pc = "idle" /\ cmd = NoCommand
      /\ loaded = NONE /\ job = NONE /\ cand = NoCandidate /\ guard = NoGuard /\ target = NoTree
      /\ goal = 0 /\ todo = {} /\ known = {} /\ moved = FALSE /\ late = {} /\ calm = TRUE
      /\ dropped = {} /\ authored = {}
  BY DEF Init
<1>2. commits \in Seq(Commit) /\ DOMAIN commits = 1 .. Len(commits) /\ Len(commits) \in Nat
  BY <1>1, HistoryAssumption, LenProperties DEF Commit
<1>3. /\ \A c \in DOMAIN commits : commits[c].parent < c /\ GitTree(TreeOf(c))
      /\ \A c \in DOMAIN commits : commits[c].msg.kind \notin {"revert", "commit"}
      /\ head \in DOMAIN commits /\ tracking \in DOMAIN commits
  BY <1>1, HistoryAssumption DEF TreeOf
<1>4. remote \in DOMAIN commits
  BY <1>1, <1>2, <1>3
<1>5. index \in Tree /\ GitTree(index)
  <2>1. commits[head] \in Commit
    BY <1>2, <1>3, ElementOfSeq
  <2> QED BY <1>1, <1>3, <2>1 DEF TreeOf, Commit
<1>6. WellFiled(worktree)
  <2>1. worktree = [p \in Paths |-> IF \E q \in Children(p) : index[q] # NONE THEN DIR
        ELSE index[p]]
    BY DEF Init
  <2>2. \A p \in Paths : worktree[p] \in Stored \cup {NONE, DIR}
    BY <1>5, <2>1 DEF Tree
  <2>3. ASSUME NEW p \in Paths, worktree[p] # NONE, Parent[p] # TOP PROVE worktree[Parent[p]] = DIR
    <3>1. Parent[p] \in Paths /\ p \in Children(Parent[p]) /\ Children(p) = {}
      <4>1. Parent[p] \in Paths /\ Parent[Parent[p]] = TOP
        BY <2>3, Parents
      <4>2. Children(p) = {}
        BY <2>3, Parents
      <4> QED BY <4>1, <4>2 DEF Children
    <3>2. index[p] # NONE
      BY <2>1, <2>3, <3>1
    <3> QED BY <2>1, <3>1, <3>2
  <2> QED BY <2>1, <2>2, <2>3 DEF WellFiled
<1>7. StoreTyped /\ FilesInv
  BY <1>1, <1>2, <1>3, <1>4, <1>5, <1>6 DEF StoreTyped, FilesInv, WellFiled
<1>8. LocalTyped /\ GhostTyped /\ ControlInv
  BY <1>1, Nothing DEF LocalTyped, GhostTyped, ControlInv, Places, Jobs, GuardLive, Looping,
     Preparing, Rewriting, NONE
<1>9. CandInv /\ GuardInv /\ PlanInv /\ GoalInv /\ AimInv
  BY <1>1, Nothing DEF CandInv, GuardInv, PlanInv, GoalInv, AimInv, GuardLive, Captured, Decided,
     Preparing,
                       Rewriting, Looping, NONE
<1>10. RootedInv /\ RevertExact
  BY <1>3 DEF RootedInv, RevertExact
<1>11. CommitScoped
  BY <1>3 DEF CommitScoped, Msg
<1>12. EditsKept
  BY <1>1 DEF EditsKept
<1> QED BY <1>7, <1>8, <1>9, <1>10, <1>11, <1>12 DEF IInv, BaseInv

(* The invariant holds always.                                             *)
LEMMA Invariance == Spec => []IInv
<1>1. IInv /\ [Next]_vars => IInv'
  BY BaseStep, RootedStep, RevertStep, ScopeStep, EditsStep DEF IInv
<1> QED BY Starting, <1>1, PTL DEF Spec

(* Every variable keeps its type, commits are Git trees with parents       *)
(* before children, and the worktree a file system, over every history,    *)
(* every tree of paths two levels deep, and any number of commands, edits  *)
(* and crashes.                                                            *)
THEOREM WorktreeTypes == Spec => []TypeOK
<1>1. IInv => TypeOK
  <2> SUFFICES ASSUME IInv PROVE TypeOK
    OBVIOUS
  <2>1. /\ StoreTyped /\ LocalTyped /\ GhostTyped /\ FilesInv /\ ControlInv /\ GuardInv
    BY DEF IInv, BaseInv
  <2>2. (pc = "idle") = (cmd = NoCommand)
    BY <2>1, Nothing DEF ControlInv
  <2>3. guard.ref = 0 \/ (guard.ref \in DOMAIN commits /\ guard.index \in Tree)
    <3>1. CASE GuardLive
      BY <2>1, <3>1, ChainFacts DEF GuardInv, LocalTyped, Guard, StoreTyped
    <3>2. CASE ~GuardLive
      BY <2>1, <3>2, Nothing DEF ControlInv
    <3> QED BY <3>1, <3>2
  <2>4. commits \in Seq([parent : Nat, msg : Message, tree : Tree])
    BY <2>1 DEF StoreTyped, Commit
  <2> QED BY <2>1, <2>2, <2>3, <2>4 DEF TypeOK, StoreTyped, LocalTyped, GhostTyped, FilesInv, Jobs
<1> QED BY Invariance, <1>1, PTL

(* A version a user wrote at any moment of a command is in a file, in the  *)
(* index or in the history of the branch, unless it was given up.          *)
THEOREM EditsStay == Spec => []EditsKept
<1>1. IInv => EditsKept
  BY DEF IInv
<1> QED BY Invariance, <1>1, PTL

(* A revert's commit is the tree its message names, seen from its parent.  *)
THEOREM RevertsExact == Spec => []RevertExact
<1>1. IInv => RevertExact
  BY DEF IInv
<1> QED BY Invariance, <1>1, PTL

(* A commit of one skill leaves every other path as its parent has it.     *)
THEOREM CommitsScoped == Spec => []CommitScoped
<1>1. IInv => CommitScoped
  BY DEF IInv
<1> QED BY Invariance, <1>1, PTL

(* No step takes a commit off the branch.                                  *)
THEOREM NeverBackward == Spec => ForwardOnly
<1>1. IInv /\ [Next]_vars => [({head} \subseteq Chain'[head'])]_vars
  BY BranchGrows DEF IInv
<1> QED BY Invariance, <1>1, PTL DEF Spec, ForwardOnly
--------------------------------------------------------------------------------
(* What an undisturbed command finds at each of its places.  Nobody else   *)
(* moved the branch or the index or a file since it began, so what it has  *)
(* captured is still what there is.                                        *)
Alone == calm /\ gitlock = "free"

(* A file is never a directory: only a path with others below it can be.   *)
DirsInv == \A p \in Paths : worktree[p] = DIR => Children(p) # {}

(* What was last seen of the remote is in its history, or in the store's.  *)
TrackInv == tracking \in Chain[head] \cup Chain[remote]

LastInv == pc # "idle" => last = NothingYet

(* The guard of a revert or a pull is as the store is.                     *)
Guarding == head = guard.ref /\ guard.index = index /\ guard.expected = Files(worktree)
OnTarget == index = target /\ Files(worktree) = target

(* A sweep's candidates are the index and then the worktree; a revert's is *)
(* its target.                                                             *)
SweepCourse ==
    /\ pc = "sweep again" => index = TreeOf(head)
    /\ pc \in {"guard", "resolve", "relate"} \/ (pc = "apply" /\ Guarded) => Clean
CandCourse ==
    pc \in Preparing /\ cmd.kind # "commit" =>
        /\ pc \in Captured \ {"install"} => cand.parent = head
        /\ pc \in Decided \cup {"freeze"} => cand.base = index
        /\ pc \in Decided => cand.tree = Frozen
        /\ pc = "install" => cand.tree = TreeOf(head) /\ cand.hash \in {0, head}
        /\ job = "rest" => /\ pc # "install" => index = TreeOf(head)
                           /\ pc \in Decided => cand.sync
        /\ job = "revert" =>
             /\ OnTarget
             /\ IF pc = "install" /\ cand.hash # 0
                THEN commits[head].msg = Msg("revert", "", cmd.n)
                ELSE Guarding

(* A rewrite has done what it has no longer to do, and a guarded one has   *)
(* left the rest as the branch has it.                                     *)
Pending(p) == \E s \in todo : s.path = p
GuardCourse ==
    /\ pc \in Rewriting /\ Guarded => Guarding
    /\ pc \in {"agree", "advance"} => OnTarget
    /\ cmd.kind = "pull" /\ pc \in Rewriting \ {"relate"} =>
         goal = tracking /\ tracking \notin Chain[head]
PlanCourse ==
    pc \in Looping =>
        /\ known = Names(target) /\ cand.base = index
        /\ \A p \in known : Pending(p) \/ Files(worktree)[p] = target[p]
        /\ IF Guarded THEN /\ \A p \in Paths : Pending(p) => Files(worktree)[p] = index[p]
                           /\ \A q \in Paths \ known : Files(worktree)[q] = NONE
                      ELSE target = TreeOf(head)
NextCourse ==
    pc = "rewrite" => \A s \in todo : IsNext(s) =>
        /\ ~Settled(s)
        /\ s.del \/ Parent[s.path] = TOP \/ worktree[Parent[s.path]] = DIR

CourseInv == Alone => SweepCourse /\ CandCourse /\ GuardCourse /\ PlanCourse /\ NextCourse
UInv == DirsInv /\ TrackInv /\ LastInv /\ CourseInv /\ Undisturbed

(* What is the same when nobody moved the branch, the index or a file.     *)
LEMMA SameStore ==
    ASSUME UNCHANGED <<commits, head, index, worktree>>
    PROVE  /\ Chain' = Chain /\ Files(worktree)' = Files(worktree) /\ TreeOf(head)' = TreeOf(head)
           /\ Clean' = Clean
<1>1. Chain' = Chain
  BY ChainIs, ChainIsNext
<1>2. Files(worktree)' = Files(worktree)
  BY DEF Files
<1>3. TreeOf(head)' = TreeOf(head)
  BY DEF TreeOf
<1> QED BY <1>1, <1>2, <1>3 DEF Clean

(* A command that is over has nothing to go on with.                       *)
LEMMA CourseOver ==
    ASSUME pc' = "idle"
    PROVE  CourseInv'
BY DEF CourseInv, SweepCourse, CandCourse, GuardCourse, PlanCourse, NextCourse, Preparing,
       Rewriting, Looping

(* One that goes on, or did not come to its end, or was not to leave       *)
(* anything as it should be, has left nothing wrong.                       *)
LEMMA NoResult ==
    ASSUME last'.kind \notin {"hard", "pull", "revert"} \/ last'.how = "crashed"
    PROVE  Undisturbed'
BY DEF Undisturbed

(* A command that goes on has no result yet.                               *)
LEMMA GoesOnWell ==
    ASSUME LastInv, pc # "idle", last' = last
    PROVE  Undisturbed'
<1>1. last'.kind = NONE
  BY DEF LastInv, NothingYet
<1> QED BY <1>1, NoResult DEF NONE

(* An ending is recorded with the command.                                 *)
LEMMA Ended ==
    ASSUME NEW how, Exit(how)
    PROVE  /\ CourseInv' /\ pc' = "idle"
           /\ last'.kind = cmd.kind /\ last'.n = cmd.n /\ last'.how = how
BY CourseOver DEF Exit

(* A crash ends the command, and nothing is promised of it.                *)
LEMMA Crashes ==
    ASSUME Crash
    PROVE  CourseInv' /\ Undisturbed'
<1>1. Exit("crashed")
  BY DEF Crash
<1> QED BY <1>1, Ended, NoResult

(* Users and the remote disturb a command, and so does a lock left behind. *)
LEMMA AloneSteps ==
    ASSUME BaseInv, [Next]_vars, Alone'
    PROVE  \/ BeginCommand \/ BeginPush
           \/ Alone /\ (Step \/ Crash \/ Push \/ UNCHANGED vars)
<1>1. CASE UserStep \/ Fetch \/ UserUnlock
  <2>1. calm' = FALSE
    BY <1>1 DEF UserStep, UserRemove, UserStage, UserWrite, UserStagePart, UserCommit, User, Fetch,
                UserUnlock
  <2> QED BY <2>1 DEF Alone
<1>2. CASE Step
  <2>1. CASE Sweep \/ CaptureParent \/ CaptureIndex \/ Freeze \/ Vet \/ Publish \/ PushSwept
    BY <1>2, <2>1 DEF Sweep, CaptureParent, CaptureIndex, Freeze, Vet, Publish, PushSwept, OrStop,
                      Stop, repo, Alone
  <2>2. CASE SyncIndex \/ NewGuard \/ Resolve \/ Relate \/ Apply \/ Agree
    BY <1>2, <2>2 DEF SyncIndex, NewGuard, Resolve, Relate, Apply, Agree, OrStop, Stop, repo, Alone
  <2>3. CASE CheckNext \/ Rewrite \/ Rebuild \/ Advance
    BY <1>2, <2>3 DEF CheckNext, Rewrite, Rebuild, Advance, OrStop, Stop, repo, Alone
  <2> QED BY <1>2, <2>1, <2>2, <2>3 DEF Step
<1>3. CASE Crash
  BY <1>3 DEF Crash, Alone, LocksIndex, BaseInv, StoreTyped
<1>4. CASE Push \/ UNCHANGED vars
  BY <1>4 DEF Push, vars, repo, Alone
<1> QED BY <1>1, <1>2, <1>3, <1>4 DEF Next

(* Directories are only made of the parents of paths.                      *)
LEMMA DirsStep ==
    ASSUME BaseInv, DirsInv, [Next]_vars
    PROVE  DirsInv'
<1>1. /\ worktree \in [Paths -> Stored \cup {NONE, DIR}] /\ target \in [Paths -> Stored \cup {NONE}]
      /\ \A s \in todo : s.path \in Paths
      /\ \A p \in Paths : worktree[p] = DIR => Children(p) # {}
  BY DEF BaseInv, StoreTyped, LocalTyped, Tree, Todo, DirsInv
<1>2. \A p \in Paths : Parent[p] # TOP => Parent[p] \in Paths /\ Children(Parent[p]) # {}
  BY Parents DEF Children
<1>3. ASSUME \A q \in Paths : worktree'[q] = DIR => worktree[q] = DIR \/ Children(q) # {}
      PROVE  DirsInv'
  BY <1>1, <1>3 DEF DirsInv, Children
<1>4. CASE UNCHANGED worktree
  BY <1>3, <1>4
<1>5. ASSUME NEW p \in Paths
      PROVE  \A q \in Paths : MkdirAbove(p)[q] = DIR => worktree[q] = DIR \/ Children(q) # {}
  BY <1>1, <1>2 DEF MkdirAbove
<1>6. ASSUME NEW p \in Paths, NEW v, v # DIR
      PROVE \A q \in Paths : [worktree EXCEPT ![p] = v][q] = DIR => worktree[q] = DIR
  BY <1>1, <1>6
<1>7. ASSUME NEW p \in Paths
      PROVE \A q \in Paths : Pruned(Removed(p), p)[q] = DIR => worktree[q] = DIR
  BY <1>1, Contents DEF Pruned, Removed
<1>8. CASE CheckNext
  <2>1. PICK s \in todo :
                  UNCHANGED worktree \/ worktree' = IF s.del THEN worktree ELSE MkdirAbove(s.path)
    BY <1>8 DEF CheckNext, Stop
  <2> QED BY <1>1, <1>3, <1>4, <1>5, <2>1
<1>9. CASE Rewrite
  <2>1. PICK s \in todo :
          \/ UNCHANGED worktree
          \/ worktree' = Pruned(Removed(s.path), s.path)
          \/ worktree' = [worktree EXCEPT ![s.path] = target[s.path]]
    BY <1>9 DEF Rewrite, Stop
  <2>2. s.path \in Paths /\ target[s.path] # DIR
    BY <1>1, Contents
  <2>3. CASE worktree' = [worktree EXCEPT ![s.path] = target[s.path]]
    <3>1. \A q \in Paths : worktree'[q] = DIR => worktree[q] = DIR
      BY <1>6, <2>2, <2>3
    <3> QED BY <3>1, <1>3
  <2>4. CASE worktree' = Pruned(Removed(s.path), s.path)
    BY <1>3, <1>7, <2>2, <2>4
  <2> QED BY <1>4, <2>1, <2>3, <2>4
<1>10. CASE Crash
  <2>1. CASE ~UNCHANGED worktree
    <3>1. PICK p \in Paths, v \in {NONE, TORN} : worktree' = [worktree EXCEPT ![p] = v]
      BY <1>10, <2>1 DEF Crash, Broken
    <3> QED BY <1>3, <1>6, <3>1, Contents
  <2> QED BY <1>4, <2>1
<1>11. CASE UserStep
  <2>1. CASE \E p \in Paths : UserRemove(p)
    BY <2>1, <1>3, <1>7 DEF UserRemove
  <2>2. CASE \E p \in Paths, e \in Edits : UserWrite(p, e)
    <3>1. PICK p \in Paths, e \in Edits :
            worktree' = [q \in Paths |-> IF q = p THEN e ELSE IF q = Parent[p] THEN DIR
                                         ELSE IF q \in Children(p) THEN NONE ELSE worktree[q]]
      BY <2>2 DEF UserWrite
    <3>2. e # DIR /\ NONE # DIR
      BY Contents
    <3>3. \A q \in Paths : q = Parent[p] => Children(q) # {}
      BY Parents, <1>2
    <3> QED BY <1>3, <3>1, <3>2, <3>3
  <2>3. CASE UNCHANGED worktree
    BY <1>4, <2>3
  <2> QED BY <1>11, <2>1, <2>2, <2>3 DEF UserStep, UserCommit, UserStage, UserStagePart
<1>12. CASE BeginCommand \/ BeginPush \/ Fetch \/ Push \/ UserUnlock \/ UNCHANGED vars
  BY <1>12, <1>4 DEF BeginCommand, BeginPush, Begin, Fetch, Push, UserUnlock, vars
<1>13. CASE Sweep \/ CaptureParent \/ CaptureIndex \/ Freeze \/ Vet \/ Publish \/ PushSwept
  BY <1>13, <1>4 DEF Sweep, CaptureParent, CaptureIndex, Freeze, Vet, Publish, PushSwept, OrStop,
     Stop
<1>14. CASE SyncIndex \/ NewGuard \/ Resolve \/ Relate \/ Apply \/ Rebuild \/ Agree \/ Advance
  BY <1>14, <1>4 DEF SyncIndex, NewGuard, Resolve, Relate, Apply, Rebuild, Agree, Advance, OrStop,
     Stop
<1> QED BY <1>8, <1>9, <1>10, <1>11, <1>12, <1>13, <1>14 DEF Next, Step

(* A commit is in its own history.                                         *)
LEMMA OwnChain == StoreTyped => \A c \in DOMAIN commits : c \in Chain[c]
BY ChainFacts

(* Only fetch and push change what is known of the remote and the remote.  *)
LEMMA TrackStep ==
    ASSUME BaseInv, TrackInv, [Next]_vars
    PROVE  TrackInv'
<1>1. /\ head \in Chain'[head'] /\ Chain[head] \subseteq Chain'[head']
      /\ StoreTyped /\ StoreTyped' /\ Grown
  BY BranchGrows DEF BaseInv
<1>2. /\ remote \in DOMAIN commits /\ Chain'[remote] = Chain[remote] /\ head' \in DOMAIN commits'
      /\ remote' \in DOMAIN commits'
  BY <1>1 DEF StoreTyped, Grown
<1>3. remote' \in Chain'[remote'] /\ head' \in Chain'[head']
  <2>1. (StoreTyped => \A c \in DOMAIN commits : c \in Chain[c])'
    BY OwnChain, PTL
  <2> QED BY <1>1, <1>2, <2>1
<1>4. CASE tracking' = tracking /\ remote' = remote
  BY <1>1, <1>2, <1>4 DEF TrackInv
<1>5. CASE tracking' = remote /\ remote' = remote
  BY <1>3, <1>5 DEF TrackInv
<1>6. CASE tracking' = head /\ remote' = head
  BY <1>1, <1>6 DEF TrackInv
<1>7. CASE Sweep \/ CaptureParent \/ CaptureIndex \/ Freeze \/ Vet \/ Publish
  BY <1>7, <1>4 DEF Sweep, CaptureParent, CaptureIndex, Freeze, Vet, Publish, OrStop, Stop, repo
<1>8. CASE SyncIndex \/ PushSwept \/ NewGuard \/ Resolve \/ Relate \/ Apply
  BY <1>8, <1>4 DEF SyncIndex, PushSwept, NewGuard, Resolve, Relate, Apply, OrStop, Stop, repo
<1>9. CASE CheckNext \/ Rewrite \/ Rebuild \/ Agree \/ Advance
  BY <1>9, <1>4 DEF CheckNext, Rewrite, Rebuild, Agree, Advance, OrStop, Stop, repo
<1>10. CASE BeginCommand \/ BeginPush \/ Crash \/ UserUnlock \/ UNCHANGED vars
  BY <1>10, <1>4 DEF BeginCommand, BeginPush, Begin, Crash, UserUnlock, repo, vars
<1>11. CASE UserStep
  BY <1>11, <1>4 DEF UserStep, UserRemove, UserStage, UserWrite, UserStagePart, UserCommit, User
<1>12. CASE Fetch \/ Push
  BY <1>12, <1>5, <1>6 DEF Fetch, Push
<1> QED BY <1>7, <1>8, <1>9, <1>10, <1>11, <1>12 DEF Next, Step

(* A step of a command leaves it as it is, or is its last.                 *)
LEMMA GoesOrEnds ==
    ASSUME BaseInv, Step
    PROVE  pc # "idle" /\ (UNCHANGED <<cmd, last>> \/ \E how : Exit(how))
<1>1. CASE Sweep \/ CaptureParent \/ CaptureIndex \/ Vet \/ Publish \/ PushSwept
  BY <1>1 DEF Sweep, Swept, Goto, Prepare, CaptureParent, CaptureIndex, Vet, Publish, PushSwept,
              OrStop, Stop, local
<1>2. CASE NewGuard \/ Resolve \/ Relate \/ Apply \/ Agree \/ Advance
  BY <1>2 DEF NewGuard, Resolve, Relate, Apply, Agree, Advance, OrStop, Stop, local
<1>3. CASE CheckNext \/ Rewrite
  BY <1>3 DEF CheckNext, Rewrite, Stop
<1>4. CASE Freeze \/ SyncIndex
  <2>1. pc \in {"freeze", "install"}
    BY <1>4 DEF Freeze, SyncIndex
  <2>2. CASE AfterCandidate
    <3>1. UNCHANGED <<cmd, last>> \/ \E how : Exit(how)
      BY <2>1, <2>2, After DEF GoesOn, SetsUp, local
    <3> QED BY <3>1, <2>1
  <2>3. CASE ~AfterCandidate
    BY <1>4, <2>1, <2>3 DEF Freeze, SyncIndex, OrStop, Stop
  <2> QED BY <2>2, <2>3
<1>5. CASE Rebuild
  <2>1. pc = "check"
    BY <1>5 DEF Rebuild
  <2>2. CASE Applied
    BY <2>1, <2>2, AppliedIs
  <2>3. CASE ~Applied
    BY <1>5, <2>1, <2>3 DEF Rebuild, Stop
  <2> QED BY <2>2, <2>3
<1> QED BY <1>1, <1>2, <1>3, <1>4, <1>5 DEF Step

(* A command's result is recorded when it is over.                         *)
LEMMA LastStep ==
    ASSUME BaseInv, LastInv, [Next]_vars
    PROVE  LastInv'
<1>1. CASE pc' = "idle"
  BY <1>1 DEF LastInv
<1>2. CASE UNCHANGED <<pc, last>>
  BY <1>2 DEF LastInv
<1>3. CASE Step
  BY <1>1, <1>3, GoesOrEnds DEF Exit, LastInv
<1>4. CASE BeginCommand \/ BeginPush
  BY <1>4 DEF BeginCommand, BeginPush, Begin, LastInv
<1>5. CASE Crash
  BY <1>5, <1>1 DEF Crash, Exit
<1>6. CASE UserStep \/ Fetch \/ Push \/ UserUnlock \/ UNCHANGED vars
  BY <1>6, <1>2 DEF UserStep, UserRemove, UserStage, UserWrite, UserStagePart, UserCommit, User,
                    Fetch, Push, UserUnlock, vars
<1> QED BY <1>3, <1>4, <1>5, <1>6 DEF Next

(* `fu commit` and `fu push` promise nothing of this kind.                 *)
LEMMA CommitWell ==
    ASSUME BaseInv, UInv, Step, cmd.kind = "commit"
    PROVE  CourseInv' /\ Undisturbed'
<1>1. pc # "idle" /\ LastInv
  BY GoesOrEnds DEF UInv
<1>2. ASSUME NEW how, Exit(how) PROVE CourseInv' /\ Undisturbed'
  BY <1>2, Ended, NoResult
<1>3. CASE UNCHANGED <<cmd, last>>
  <2>1. ControlInv'
    BY BaseStep DEF Next, BaseInv
  <2>2. pc' \in Preparing
    BY <2>1, <1>3 DEF ControlInv
  <2>3. CourseInv'
    BY <2>2, <1>3 DEF CourseInv, SweepCourse, CandCourse, GuardCourse, PlanCourse, NextCourse,
       Preparing, Rewriting, Looping
  <2> QED BY <1>1, <1>3, <2>3, GoesOnWell
<1> QED BY <1>2, <1>3, GoesOrEnds
--------------------------------------------------------------------------------
(* The course of a sweep and of a revert's commit.  A step that leaves the *)
(* store alone keeps what is said of the store.                            *)
Untouched == UNCHANGED <<commits, head, index, worktree>>

(* At the beginning of a candidate, and of a rewrite.                      *)
LEMMA AtParent ==
    ASSUME pc' = "parent",
           cmd'.kind # "commit" => /\ job' = "rest" => (index = TreeOf(head))'
                                   /\ job' = "revert" => OnTarget' /\ Guarding'
    PROVE  CourseInv'
BY DEF CourseInv, SweepCourse, CandCourse, GuardCourse, PlanCourse, NextCourse, Preparing, Captured,
       Decided, Rewriting, Looping

(* At the beginning of a sweep, and once it is over.                       *)
LEMMA AtClean ==
    ASSUME pc' \in {"sweep", "sweep again", "swept", "guard"},
           pc' = "sweep again" => (index = TreeOf(head))',
           pc' = "guard" => Clean'
    PROVE  CourseInv'
BY DEF CourseInv, SweepCourse, CandCourse, GuardCourse, PlanCourse, NextCourse, Preparing, Captured,
       Decided, Rewriting, Looping

(* What a running command and its candidate are.                           *)
LEMMA CandFacts ==
    ASSUME BaseInv, UInv, Alone, pc \in Preparing, cmd.kind # "commit"
    PROVE  /\ job \in {"staged", "rest", "revert"}
           /\ cmd.kind \in {"revert", "pull", "push"} /\ pc # "idle"
           /\ pc \in Captured \ {"install"} => cand.parent = head
           /\ pc \in Decided \cup {"freeze"} => cand.base = index
           /\ pc \in Decided => cand.tree = Frozen
           /\ pc = "install" => cand.tree = TreeOf(head) /\ cand.hash \in {0, head}
           /\ job = "rest" => /\ pc # "install" => index = TreeOf(head)
                              /\ pc \in Decided => cand.sync
           /\ job = "revert" =>
                /\ cmd.kind = "revert" /\ Aimed(guard.ref) /\ OnTarget
                /\ IF pc = "install" /\ cand.hash # 0
                   THEN commits[head].msg = Msg("revert", "", cmd.n)
                   ELSE Guarding
<1>1. ControlInv /\ AimInv /\ job \in Jobs /\ cmd \in Command /\ CandCourse
  BY DEF BaseInv, LocalTyped, UInv, CourseInv
<1>2. cmd.kind \in {"revert", "pull", "push", "hard", NONE}
      /\ job # NONE /\ cmd.kind # NONE /\ cmd.kind # "hard"
      /\ job \notin {"all", "skill"} /\ pc # "idle"
  BY <1>1 DEF ControlInv, Command, Preparing
<1>3. job = "revert" => cmd.kind = "revert" /\ Aimed(guard.ref)
  BY <1>1 DEF ControlInv, AimInv
<1> QED BY <1>1, <1>2, <1>3 DEF CandCourse, Jobs

(* A sweep begins with what is staged and goes on to the rest.             *)
LEMMA SweepWell ==
    ASSUME BaseInv, UInv, Alone, Sweep
    PROVE  CourseInv' /\ Undisturbed'
<1>1. /\ pc \in {"sweep", "sweep again"} /\ Untouched /\ cmd' = cmd /\ last' = last
      /\ LastInv
      /\ pc = "sweep again" => index = TreeOf(head)
  BY DEF Sweep, repo, Untouched, UInv, CourseInv, SweepCourse
<1>2. Undisturbed'
  BY <1>1, GoesOnWell
<1>3. Clean' = Clean /\ TreeOf(head)' = TreeOf(head)
  BY <1>1, SameStore DEF Untouched
<1>4. CASE Clean
  <2>1. pc' \in {"swept", "guard"}
    BY <1>4 DEF Sweep, Swept, Goto
  <2> QED BY <1>2, <1>3, <1>4, <2>1, AtClean
<1>5. CASE ~Clean
  <2>1. pc' = "parent" /\ job' = IF pc = "sweep" THEN "staged" ELSE "rest"
    BY <1>5 DEF Sweep, Prepare, Goto
  <2>2. job' = "rest" => (index = TreeOf(head))'
    BY <1>1, <1>3, <2>1 DEF Untouched
  <2>3. job' # "revert"
    BY <2>1
  <2> QED BY <1>2, <2>1, <2>2, <2>3, AtParent
<1> QED BY <1>4, <1>5

(* A candidate's parent is captured while the branch is there.             *)
LEMMA ParentWell ==
    ASSUME BaseInv, UInv, Alone, CaptureParent, cmd.kind # "commit"
    PROVE  CourseInv' /\ Undisturbed'
<1>1. /\ pc = "parent" /\ pc' = "baseline" /\ cand' = [cand EXCEPT !.parent = head]
      /\ cand \in Candidate
      /\ Untouched /\ UNCHANGED <<cmd, job, guard, target, last>>
      /\ LastInv
  BY DEF CaptureParent, Goto, repo, Untouched, UInv, BaseInv, LocalTyped
<1>2. Undisturbed'
  BY <1>1, GoesOnWell
<1>3. Files(worktree)' = Files(worktree) /\ TreeOf(head)' = TreeOf(head)
  BY <1>1, SameStore DEF Untouched
<1>4. job = "rest" => index = TreeOf(head)
  BY <1>1, CandFacts DEF Preparing
<1>5. job = "revert" => OnTarget /\ Guarding
  BY <1>1, CandFacts DEF Preparing
<1>6. OnTarget => OnTarget'
  BY <1>1, <1>3 DEF OnTarget, Untouched
<1>7. Guarding => Guarding'
  BY <1>1, <1>3 DEF Guarding, Untouched
<1>8. CandCourse'
  BY <1>1, <1>3, <1>4, <1>5, <1>6, <1>7 DEF CandCourse, Captured, Decided, Preparing, Untouched,
         Candidate
<1> QED BY <1>1, <1>2, <1>8 DEF CourseInv, SweepCourse, GuardCourse, PlanCourse, NextCourse,
       Rewriting, Looping

(* Its index is captured while the public one is the same.                 *)
LEMMA IndexWell ==
    ASSUME BaseInv, UInv, Alone, CaptureIndex, cmd.kind # "commit"
    PROVE  CourseInv' /\ Undisturbed'
<1>1. /\ pc = "baseline" /\ pc' = "freeze" /\ cand' = [cand EXCEPT !.base = index]
      /\ cand \in Candidate
      /\ Untouched /\ UNCHANGED <<cmd, job, guard, target, last>>
      /\ LastInv
  BY DEF CaptureIndex, OrStop, Goto, repo, Untouched, UInv, BaseInv, LocalTyped, Alone
<1>2. Undisturbed'
  BY <1>1, GoesOnWell
<1>3. Files(worktree)' = Files(worktree) /\ TreeOf(head)' = TreeOf(head)
  BY <1>1, SameStore DEF Untouched
<1>4. (job = "rest" => index = TreeOf(head)) /\ cand.parent = head
  BY <1>1, CandFacts DEF Preparing, Captured
<1>5. job = "revert" => OnTarget /\ Guarding
  BY <1>1, CandFacts DEF Preparing
<1>6. OnTarget => OnTarget'
  BY <1>1, <1>3 DEF OnTarget, Untouched
<1>7. Guarding => Guarding'
  BY <1>1, <1>3 DEF Guarding, Untouched
<1>8. CandCourse'
  BY <1>1, <1>3, <1>4, <1>5, <1>6, <1>7 DEF CandCourse, Captured, Decided, Preparing, Untouched,
         Candidate
<1> QED BY <1>1, <1>2, <1>8 DEF CourseInv, SweepCourse, GuardCourse, PlanCourse, NextCourse,
       Rewriting, Looping

(* What a candidate other than a skill's freezes.                          *)
LEMMA FrozenIs ==
    ASSUME job \in {"staged", "rest", "revert"}
    PROVE  Frozen = IF job = "staged" THEN cand.base ELSE Files(worktree)
BY DEF Frozen

(* The same of the candidate after a step.                                 *)
LEMMA FrozenIsNext ==
    ASSUME job' \in {"staged", "rest", "revert"}
    PROVE  Frozen' = IF job' = "staged" THEN cand'.base ELSE Files(worktree)'
BY DEF Frozen

(* The public index of the branch's history is a Git tree, and so is what  *)
(* a worktree holds: nothing keeps a candidate from being frozen.          *)
LEMMA FreezeWell ==
    ASSUME BaseInv, UInv, Alone, Freeze, cmd.kind # "commit"
    PROVE  CourseInv' /\ Undisturbed'
<1>1. /\ pc = "freeze" /\ LastInv /\ cand \in Candidate /\ StoreTyped
      /\ job \in {"staged", "rest", "revert"} /\ cmd.kind \in {"revert", "pull", "push"}
      /\ cand.parent = head /\ cand.base = index
      /\ job = "rest" => index = TreeOf(head)
      /\ job = "revert" => OnTarget /\ Guarding
  BY CandFacts DEF Freeze, Preparing, Captured, Decided, UInv, BaseInv, LocalTyped
<1>2. Frozen = IF job = "staged" THEN index ELSE Files(worktree)
  BY <1>1, FrozenIs
<1>3. GitTree(Frozen)
  BY <1>1, <1>2, TreesTyped DEF StoreTyped
<1>4. CASE job = "staged" /\ Frozen = TreeOf(head)
  <2>1. AfterCandidate /\ Untouched
    BY <1>1, <1>3, <1>4 DEF Freeze, OrStop, repo, Untouched
  <2>2. GoesOn("sweep again")
    BY <2>1, <1>1, <1>4, After
  <2>3. TreeOf(head)' = TreeOf(head) /\ index' = index /\ index = TreeOf(head)
    BY <2>1, <1>2, <1>4, SameStore DEF Untouched
  <2>4. CourseInv'
    BY <2>2, <2>3, AtClean DEF GoesOn
  <2> QED BY <2>2, <2>4, <1>1, GoesOnWell DEF GoesOn
<1>5. CASE ~(job = "staged" /\ Frozen = TreeOf(head))
  <2>1. /\ cand' = [cand EXCEPT !.tree = Frozen,
                     !.sync = CASE job = "staged" -> FALSE [] job = "skill" -> TRUE
                                [] OTHER -> cand.base = TreeOf(cand.parent)]
        /\ pc' \in {"publish", "vet"}
        /\ Untouched /\ UNCHANGED <<cmd, job, guard, target, last>>
    BY <1>1, <1>3, <1>5 DEF Freeze, OrStop, repo, Untouched, Goto
  <2>2. /\ cand'.tree = Frozen /\ cand'.parent = head /\ cand'.base = index
        /\ job = "rest" => cand'.sync
    BY <2>1, <1>1 DEF Candidate
  <2>3. Files(worktree)' = Files(worktree) /\ TreeOf(head)' = TreeOf(head)
    BY <2>1, SameStore DEF Untouched
  <2>4. Frozen' = Frozen
    BY <1>1, <1>2, <2>1, <2>2, <2>3, FrozenIsNext
  <2>5. OnTarget => OnTarget'
    BY <2>1, <2>3 DEF OnTarget, Untouched
  <2>6. Guarding => Guarding'
    BY <2>1, <2>3 DEF Guarding, Untouched
  <2>7. CandCourse'
    BY <1>1, <2>1, <2>2, <2>3, <2>4, <2>5, <2>6 DEF CandCourse, Captured, Decided, Preparing,
           Untouched
  <2>8. CourseInv'
    BY <2>1, <2>7 DEF CourseInv, SweepCourse, GuardCourse, PlanCourse, NextCourse, Rewriting,
           Looping
  <2> QED BY <2>1, <2>8, <1>1, GoesOnWell
<1> QED BY <1>4, <1>5

(* A revert's candidate is its target.                                     *)
LEMMA VetWell ==
    ASSUME BaseInv, UInv, Alone, Vet, cmd.kind # "commit"
    PROVE  CourseInv' /\ Undisturbed'
<1>1. /\ pc = "vet" /\ LastInv
      /\ job \in {"staged", "rest", "revert"}
      /\ cand.parent = head /\ cand.base = index /\ cand.tree = Frozen
      /\ job = "rest" => index = TreeOf(head) /\ cand.sync
      /\ job = "revert" => OnTarget /\ Guarding
  BY CandFacts DEF Vet, Preparing, Captured, Decided, UInv
<1>2. Frozen = IF job = "staged" THEN cand.base ELSE Files(worktree)
  BY <1>1, FrozenIs
<1>3. Vetted
  BY <1>1, <1>2 DEF Vetted, CheckAll, OnTarget, Guarding
<1>4. pc' = "publish" /\ Untouched /\ UNCHANGED <<cmd, job, cand, guard, target, last>>
  BY <1>3 DEF Vet, OrStop, Goto, repo, local, Untouched
<1>5. Files(worktree)' = Files(worktree) /\ TreeOf(head)' = TreeOf(head)
  BY <1>4, SameStore DEF Untouched
<1>6. Frozen' = Frozen
  BY <1>1, <1>2, <1>4, <1>5, FrozenIsNext
<1>7. OnTarget => OnTarget'
  BY <1>4, <1>5 DEF OnTarget, Untouched
<1>8. Guarding => Guarding'
  BY <1>4, <1>5 DEF Guarding, Untouched
<1>9. CandCourse'
  BY <1>1, <1>4, <1>5, <1>6, <1>7, <1>8 DEF CandCourse, Captured, Decided, Preparing, Untouched
<1>10. CourseInv'
  BY <1>4, <1>9 DEF CourseInv, SweepCourse, GuardCourse, PlanCourse, NextCourse, Rewriting, Looping
<1> QED BY <1>1, <1>4, <1>10, GoesOnWell

(* The branch is where the candidate's parent is: it is published there.   *)
LEMMA PublishWell ==
    ASSUME BaseInv, UInv, Alone, Publish, cmd.kind # "commit"
    PROVE  CourseInv' /\ Undisturbed'
<1>1. /\ pc = "publish" /\ LastInv /\ cand \in Candidate
      /\ job \in {"staged", "rest", "revert"} /\ cmd.kind \in {"revert", "pull", "push"}
      /\ cand.parent = head /\ cand.base = index /\ cand.tree = Frozen
      /\ job = "rest" => index = TreeOf(head) /\ cand.sync
      /\ job = "revert" => OnTarget /\ Guarding
  BY CandFacts DEF Publish, Preparing, Captured, Decided, UInv, BaseInv, LocalTyped
<1>2. Frozen = IF job = "staged" THEN cand.base ELSE Files(worktree)
  BY <1>1, FrozenIs
<1>3. ParentUnmoved
  BY <1>1 DEF ParentUnmoved, Guarding
<1>4. /\ pc' = "install" /\ UNCHANGED <<index, worktree, cmd, job, guard, target, last>>
      /\ IF cand.tree = TreeOf(head)
         THEN UNCHANGED <<commits, head, cand>>
         ELSE /\ commits' = Append(commits,
                                      [parent |-> head, msg |-> MessageOf, tree |-> cand.tree])
              /\ head' = Len(commits')
              /\ cand' = [cand EXCEPT !.hash = head']
  BY <1>3 DEF Publish, OrStop, Goto
<1>5. cand.hash = 0
  BY <1>1 DEF BaseInv, CandInv, Preparing
<1>6. Files(worktree)' = Files(worktree)
  BY <1>4 DEF Files
<1>7. cand'.base = cand.base /\ cand'.tree = cand.tree /\ cand'.sync = cand.sync
  BY <1>1, <1>4 DEF Candidate
<1>8. Frozen' = Frozen
  BY <1>1, <1>2, <1>4, <1>6, <1>7, FrozenIsNext
<1>9. OnTarget => OnTarget'
  BY <1>4, <1>6 DEF OnTarget
<1>10. CASE cand.tree = TreeOf(head)
  <2>1. TreeOf(head)' = TreeOf(head) /\ cand' = cand
    BY <1>4, <1>10, SameStore
  <2>2. Guarding => Guarding'
    BY <1>4, <1>6, <1>10 DEF Guarding
  <2>3. CandCourse'
    BY <1>1, <1>4, <1>5, <1>8, <1>9, <1>10, <2>1, <2>2 DEF CandCourse, Captured, Decided, Preparing
  <2> QED BY <1>1, <1>4, <2>3, GoesOnWell DEF CourseInv, SweepCourse, GuardCourse, PlanCourse,
                 NextCourse, Rewriting, Looping
<1>11. CASE cand.tree # TreeOf(head)
  <2>1. commits' = Append(commits, [parent |-> head, msg |-> MessageOf, tree |-> cand.tree])
        /\ head' = Len(commits') /\ cand'.hash = head'
    BY <1>1, <1>4, <1>11 DEF Candidate
  <2>2. commits \in Seq(Commit) /\ Len(commits) \in Nat
    BY Recorded1 DEF BaseInv, StoreTyped
  <2>3. head' = Len(commits) + 1
        /\ commits'[head'] = [parent |-> head, msg |-> MessageOf, tree |-> cand.tree]
    BY <2>1, <2>2
  <2>4. TreeOf(head)' = cand'.tree /\ commits'[head'].msg = MessageOf
    BY <1>7, <2>3 DEF TreeOf
  <2>5. job = "revert" => MessageOf = Msg("revert", "", cmd.n)
    BY DEF MessageOf
  <2>6. cand'.hash # 0
    BY <2>1, <2>2, <2>3
  <2>7. CandCourse'
    BY <1>1, <1>4, <1>7, <1>8, <1>9, <2>1, <2>4, <2>5, <2>6
    DEF CandCourse, Captured, Decided, Preparing
  <2> QED BY <1>1, <1>4, <2>7, GoesOnWell DEF CourseInv, SweepCourse, GuardCourse, PlanCourse,
                 NextCourse, Rewriting, Looping
<1> QED BY <1>10, <1>11

(* The command that ended had nowhere to go back to, or was there already. *)
Nowhere == LET to == Back(head, last.n) IN to = 0 \/ TreeOf(to) = TreeOf(head)

(* Going back in the next state's history.                                 *)
LEMMA BackIsNext == (\A c, n : Back(c, n) = BackIn(commits, Chain, c, n))'
BY BackIs, PTL

(* A command that ends where it was has still nowhere to go back to.       *)
LEMMA NowhereStays ==
    ASSUME UNCHANGED <<commits, head>>, NEW k, last'.n = k,
           LET to == BackIn(commits, Chain, head, k) IN to = 0 \/ TreeOf(to) = TreeOf(head)
    PROVE  Nowhere'
<1>1. Back(head, last.n)' = BackIn(commits', Chain', head', last'.n)
  BY BackIsNext
<1>2. Chain' = Chain
  BY ChainIs, ChainIsNext
<1>3. Back(head, last.n)' = BackIn(commits, Chain, head, k)
  BY <1>1, <1>2
<1> QED BY <1>3 DEF Nowhere, TreeOf

(* After a sweep's second candidate the store is clean; after a revert's   *)
(* it is where the revert was to go.                                       *)
LEMMA SyncWell ==
    ASSUME BaseInv, UInv, Alone, SyncIndex, cmd.kind # "commit"
    PROVE  CourseInv' /\ Undisturbed'
<1>1. /\ pc = "install" /\ LastInv /\ cand \in Candidate
      /\ job \in {"staged", "rest", "revert"} /\ cmd.kind \in {"revert", "pull", "push"}
      /\ cand.base = index /\ cand.tree = Frozen /\ cand.tree = TreeOf(head)
      /\ cand.hash \in {0, head}
      /\ job = "rest" => cand.sync
      /\ job = "revert" => /\ cmd.kind = "revert" /\ Aimed(guard.ref) /\ OnTarget
                           /\ IF cand.hash # 0 THEN commits[head].msg = Msg("revert", "", cmd.n)
                              ELSE Guarding
  BY CandFacts DEF SyncIndex, Preparing, Captured, Decided, UInv, BaseInv, LocalTyped
<1>2. Frozen = IF job = "staged" THEN cand.base ELSE Files(worktree)
  BY <1>1, FrozenIs
<1>3. InScope = Paths /\ NotRestaged
  BY <1>1 DEF InScope, NotRestaged
<1>4. /\ AfterCandidate /\ UNCHANGED <<commits, head, worktree, gitlock, calm>>
      /\ index' = IF cand.sync THEN Install ELSE index
  BY <1>1, <1>3 DEF SyncIndex, Alone, repo
<1>5. TreeOf(head)' = TreeOf(head) /\ Files(worktree)' = Files(worktree)
  BY <1>4 DEF TreeOf, Files
<1>6. Install = cand.tree
  <2>1. cand.tree \in [Paths -> Stored \cup {NONE}]
    BY <1>1 DEF Candidate, Tree
  <2> QED BY <1>3, <2>1 DEF Install
<1>7. CASE job = "staged"
  <2>1. GoesOn("sweep again")
    BY <1>1, <1>4, <1>7, After
  <2>2. index' = TreeOf(head)'
    BY <1>1, <1>2, <1>4, <1>5, <1>6, <1>7
  <2>3. CourseInv'
    BY <2>1, <2>2, AtClean DEF GoesOn
  <2> QED BY <2>1, <2>3, <1>1, GoesOnWell DEF GoesOn
<1>8. CASE job = "rest"
  <2>1. GoesOn("swept") \/ GoesOn("guard")
    BY <1>1, <1>4, <1>8, After
  <2>2. Clean'
    BY <1>1, <1>2, <1>4, <1>5, <1>6, <1>8 DEF Clean
  <2>3. CourseInv'
    BY <2>1, <2>2, AtClean DEF GoesOn
  <2> QED BY <2>1, <2>3, <1>1, GoesOnWell DEF GoesOn
<1>9. CASE job = "revert"
  <2>1. Exit(IF cand.hash = 0 THEN "refused" ELSE "ok")
    BY <1>1, <1>4, <1>9, After
  <2>2. CourseInv' /\ last'.kind = "revert" /\ last'.n = cmd.n
        /\ last'.how = (IF cand.hash = 0 THEN "refused" ELSE "ok")
    BY <1>1, <1>9, <2>1, Ended
  <2>3. Clean'
    BY <1>1, <1>2, <1>4, <1>5, <1>6, <1>9 DEF Clean, OnTarget
  <2>4. CASE cand.hash # 0
    <3>1. commits'[head'].msg = Msg("revert", "", last'.n)
      BY <1>1, <1>4, <1>9, <2>2, <2>4
    <3> QED BY <2>2, <2>3, <2>4, <3>1 DEF Undisturbed
  <2>5. CASE cand.hash = 0
    <3>1. head = guard.ref /\ target = TreeOf(head)
      BY <1>1, <1>2, <1>9, <2>5 DEF Guarding, OnTarget
    <3>2. TreeOf(BackIn(commits, Chain, head, cmd.n)) = TreeOf(head)
      BY <1>1, <1>9, <3>1 DEF Aimed
    <3>3. Nowhere'
      BY <1>4, <2>2, <3>2, NowhereStays
    <3> QED BY <2>2, <2>5, <3>3 DEF Undisturbed, Nowhere
  <2> QED BY <2>2, <2>4, <2>5
<1> QED BY <1>1, <1>7, <1>8, <1>9

(* A push that has swept is over, and nothing was promised of it.          *)
LEMMA SweptWell ==
    ASSUME BaseInv, PushSwept
    PROVE  CourseInv' /\ Undisturbed'
<1>1. cmd.kind = "push"
  BY DEF PushSwept, BaseInv, ControlInv
<1> QED BY <1>1, Ended, NoResult DEF PushSwept, Stop
--------------------------------------------------------------------------------
(* The course of a rewrite.                                                *)
LEMMA WayFacts ==
    ASSUME BaseInv, UInv, Alone, pc \in Rewriting
    PROVE  /\ cmd.kind \in {"revert", "pull", "hard"} /\ job \in {NONE, "staged", "rest"}
           /\ pc # "idle" /\ LastInv /\ cand \in Candidate /\ guard \in Guard /\ StoreTyped
           /\ Guarded <=> cmd.kind \in {"revert", "pull"}
           /\ Guarded => Guarding
           /\ pc \in {"resolve", "relate"} \/ (pc = "apply" /\ Guarded) => Clean
           /\ pc \in {"agree", "advance"} => OnTarget
           /\ cmd.kind = "pull" /\ pc # "relate" => goal = tracking /\ tracking \notin Chain[head]
<1>1. /\ ControlInv /\ cmd \in Command /\ SweepCourse /\ GuardCourse /\ LastInv
      /\ cand \in Candidate /\ guard \in Guard /\ StoreTyped
  BY DEF BaseInv, LocalTyped, UInv, CourseInv
<1>2. cmd.kind \in {"revert", "pull", "hard"} /\ job \in {NONE, "staged", "rest"} /\ pc # "idle"
  BY <1>1 DEF ControlInv, Command, Preparing, Rewriting
<1>3. pc = "resolve" => cmd.kind = "revert"
  BY <1>1 DEF ControlInv
<1> QED BY <1>1, <1>2, <1>3 DEF Guarded, SweepCourse, GuardCourse, Rewriting

(* What holds at each of its places.                                       *)
LEMMA AtWay ==
    ASSUME pc' \in {"resolve", "relate", "apply", "agree", "advance"},
           Guarded' => Guarding',
           pc' \in {"resolve", "relate"} \/ (pc' = "apply" /\ Guarded') => Clean',
           pc' \in {"agree", "advance"} => OnTarget',
           cmd'.kind = "pull" /\ pc' # "relate" =>
               goal' = tracking' /\ tracking' \notin Chain'[head']
    PROVE  CourseInv'
BY DEF CourseInv, SweepCourse, CandCourse, GuardCourse, PlanCourse, NextCourse, Preparing,
       Rewriting, Looping

(* A guard is made of a store that was just swept.                         *)
LEMMA GuardWell ==
    ASSUME BaseInv, UInv, Alone, NewGuard
    PROVE  CourseInv' /\ Undisturbed'
<1>1. /\ pc = "guard" /\ cmd.kind \in {"revert", "pull"} /\ LastInv /\ Clean
  BY DEF NewGuard, BaseInv, ControlInv, UInv, CourseInv, SweepCourse, Rewriting, LocalTyped, Command
<1>2. /\ guard' = [ref |-> head, index |-> index, expected |-> TreeOf(head)]
      /\ pc' = (IF cmd.kind = "revert" THEN "resolve" ELSE "relate")
      /\ Untouched /\ UNCHANGED <<cmd, tracking, goal, last>>
  BY <1>1 DEF NewGuard, OrStop, Goto, Alone, repo, Untouched
<1>3. Clean' = Clean /\ Files(worktree)' = Files(worktree)
  BY <1>2, SameStore DEF Untouched
<1>4. Guarding'
  BY <1>1, <1>2, <1>3 DEF Guarding, Clean, Untouched
<1>5. CourseInv'
  BY <1>1, <1>2, <1>3, <1>4, AtWay
<1> QED BY <1>1, <1>2, <1>5, GoesOnWell

(* A revert is refused only when it has nowhere to go.                     *)
LEMMA ResolveWell ==
    ASSUME BaseInv, UInv, Alone, Resolve
    PROVE  CourseInv' /\ Undisturbed'
<1>1. /\ pc = "resolve" /\ cmd.kind = "revert" /\ Guarding /\ Clean /\ LastInv
  BY WayFacts DEF Resolve, Rewriting, BaseInv, ControlInv
<1>2. CASE Back(head, cmd.n) = 0
  <2>1. Exit("refused") /\ UNCHANGED <<commits, head>>
    BY <1>2 DEF Resolve, OrStop, Stop, repo
  <2>2. CourseInv' /\ last'.kind = "revert" /\ last'.n = cmd.n /\ last'.how = "refused"
    BY <1>1, <2>1, Ended
  <2>3. BackIn(commits, Chain, head, cmd.n) = 0
    BY <1>2, BackIs
  <2>4. Nowhere'
    BY <2>1, <2>2, <2>3, NowhereStays
  <2> QED BY <2>2, <2>4 DEF Undisturbed, Nowhere
<1>3. CASE Back(head, cmd.n) # 0
  <2>1. pc' = "apply" /\ Untouched /\ UNCHANGED <<cmd, guard, last>>
    BY <1>3 DEF Resolve, OrStop, Goto, repo, Untouched
  <2>2. Clean' = Clean /\ Files(worktree)' = Files(worktree)
    BY <2>1, SameStore DEF Untouched
  <2>3. Guarding'
    BY <1>1, <2>1, <2>2 DEF Guarding, Untouched
  <2>4. CourseInv'
    BY <1>1, <2>1, <2>2, <2>3, AtWay
  <2> QED BY <1>1, <2>1, <2>4, GoesOnWell
<1> QED BY <1>2, <1>3

(* A pull goes on to what it does not have, or ends where it is.           *)
LEMMA RelateWell ==
    ASSUME BaseInv, UInv, Alone, Relate
    PROVE  CourseInv' /\ Undisturbed'
<1>1. /\ pc = "relate" /\ cmd.kind = "pull" /\ Guarding /\ Clean /\ LastInv
  BY WayFacts DEF Relate, Rewriting, Guarded, BaseInv, ControlInv
<1>2. Untouched /\ tracking' = tracking
  BY DEF Relate, OrStop, Stop, repo, Untouched
<1>3. Clean' = Clean /\ Files(worktree)' = Files(worktree) /\ Chain' = Chain
  BY <1>2, SameStore DEF Untouched
<1>4. CASE tracking \in Chain[head]
  <2>1. Exit("ok")
    BY <1>4 DEF Relate, Stop
  <2>2. CourseInv' /\ last'.kind = "pull" /\ last'.how = "ok"
    BY <1>1, <2>1, Ended
  <2>3. tracking' \in Chain'[head']
    BY <1>2, <1>3, <1>4 DEF Untouched
  <2> QED BY <1>1, <1>3, <2>2, <2>3 DEF Undisturbed
<1>5. CASE tracking \notin Chain[head] /\ head \notin Chain[tracking]
  <2>1. Exit("refused")
    BY <1>5 DEF Relate, OrStop, Stop
  <2>2. CourseInv' /\ last'.kind = "pull" /\ last'.how = "refused"
    BY <1>1, <2>1, Ended
  <2>3. tracking' \notin Chain'[head'] /\ head' \notin Chain'[tracking']
    BY <1>2, <1>3, <1>5 DEF Untouched
  <2> QED BY <2>2, <2>3 DEF Undisturbed
<1>6. CASE tracking \notin Chain[head] /\ head \in Chain[tracking]
  <2>1. pc' = "apply" /\ UNCHANGED <<cmd, guard, last>> /\ goal' = tracking
    BY <1>6 DEF Relate, OrStop, Goto
  <2>2. Guarding'
    BY <1>1, <1>2, <1>3, <2>1 DEF Guarding, Untouched
  <2>3. CourseInv'
    BY <1>1, <1>2, <1>3, <1>6, <2>1, <2>2, AtWay DEF Untouched
  <2> QED BY <1>1, <2>1, <2>3, GoesOnWell
<1> QED BY <1>4, <1>5, <1>6

(* Nothing differs from the guard when the rewrite is over.                *)
LEMMA AgreeWell ==
    ASSUME BaseInv, UInv, Alone, Agree
    PROVE  CourseInv' /\ Undisturbed'
<1>1. /\ pc = "agree" /\ cmd.kind = "pull" /\ Guarding /\ OnTarget /\ LastInv
      /\ goal = tracking /\ tracking \notin Chain[head]
  BY WayFacts DEF Agree, Rewriting, Guarded, BaseInv, ControlInv
<1>2. CheckAll
  BY <1>1 DEF CheckAll, Guarding
<1>3. pc' = "advance" /\ Untouched /\ UNCHANGED <<tracking, cmd, guard, target, goal, last>>
  BY <1>2 DEF Agree, OrStop, Goto, repo, local, Untouched
<1>4. Files(worktree)' = Files(worktree) /\ Chain' = Chain
  BY <1>3, SameStore DEF Untouched
<1>5. Guarding' /\ OnTarget'
  BY <1>1, <1>3, <1>4 DEF Guarding, OnTarget, Untouched
<1>6. CourseInv'
  BY <1>1, <1>3, <1>4, <1>5, AtWay DEF Untouched
<1> QED BY <1>1, <1>3, <1>6, GoesOnWell

(* The branch is still where the rewrite found it.                         *)
LEMMA AdvanceWell ==
    ASSUME BaseInv, UInv, Alone, Advance
    PROVE  CourseInv' /\ Undisturbed'
<1>1. /\ pc = "advance" /\ cmd.kind = "pull" /\ Guarding /\ OnTarget /\ goal = tracking
      /\ StoreTyped
  BY WayFacts DEF Advance, Rewriting, Guarded, BaseInv, ControlInv
<1>2. target = TreeOf(goal)
  BY <1>1 DEF BaseInv, GoalInv
<1>3. Exit("ok") /\ head' = goal /\ UNCHANGED <<commits, tracking, index, worktree>>
  BY <1>1 DEF Advance, BranchUnmoved, Guarding
<1>4. CourseInv' /\ last'.kind = "pull" /\ last'.how = "ok"
  BY <1>1, <1>3, Ended
<1>5. Chain' = Chain /\ tracking \in Chain[tracking]
  BY <1>1, <1>3, ChainIs, ChainIsNext, OwnChain DEF StoreTyped
<1>6. tracking' \in Chain'[head']
  BY <1>1, <1>3, <1>5
<1>7. TreeOf(head)' = target /\ Files(worktree)' = Files(worktree)
  BY <1>2, <1>3 DEF TreeOf, Files
<1>8. Clean'
  BY <1>1, <1>3, <1>7 DEF Clean, OnTarget
<1> QED BY <1>4, <1>6, <1>8 DEF Undisturbed

(* A push runs only where the remote's history is in the store's: neither  *)
(* while a pull goes on nor after one was refused.                         *)
LEMMA StillWell ==
    ASSUME BaseInv, UInv, Alone, Push \/ UNCHANGED vars
    PROVE  CourseInv' /\ Undisturbed'
<1>1. /\ tracking' = tracking \/ (remote \in Chain[head] /\ tracking' = head)
      /\ Untouched
      /\ UNCHANGED <<gitlock, pc, local, calm, last>>
      /\ StoreTyped /\ TrackInv /\ Undisturbed /\ CourseInv
  BY DEF Push, Untouched, UInv, BaseInv, vars, repo
<1>2. /\ Chain' = Chain /\ Files(worktree)' = Files(worktree) /\ TreeOf(head)' = TreeOf(head)
      /\ Clean' = Clean
  BY <1>1, SameStore DEF Untouched
<1>3. ASSUME tracking' # tracking PROVE tracking \in Chain[head]
  <2>1. Chain[remote] \subseteq Chain[head]
    BY <1>1, <1>3, ChainFacts DEF StoreTyped
  <2> QED BY <1>1, <2>1 DEF TrackInv
<1>4. ASSUME tracking' # tracking PROVE tracking' \in Chain'[head']
  BY <1>1, <1>2, <1>4, OwnChain DEF Untouched, StoreTyped
<1>5. UNCHANGED <<cmd, job, cand, guard, target, goal, todo, known>>
  BY <1>1 DEF local
<1>6. CourseInv'
  <2>1. SweepCourse'
    BY <1>1, <1>2, <1>5 DEF CourseInv, SweepCourse, Guarded, Untouched
  <2>2. Frozen' = Frozen
    BY <1>1, <1>2, <1>5 DEF Frozen, TreeOf, Untouched
  <2>3. Guarding' = Guarding /\ OnTarget' = OnTarget
    BY <1>1, <1>2, <1>5 DEF Guarding, OnTarget, Untouched
  <2>4. CandCourse'
    BY <1>1, <1>2, <1>5, <2>2, <2>3 DEF CourseInv, CandCourse, Untouched
  <2>5. GuardCourse'
    BY <1>1, <1>2, <1>3, <1>5, <2>3 DEF CourseInv, GuardCourse, Guarded, Untouched
  <2>6. Names(target)' = Names(target) /\ \A p : Pending(p)' = Pending(p)
    BY <1>1, <1>5 DEF Names, PathsOf, Pending, Untouched
  <2>7. PlanCourse'
    BY <1>1, <1>2, <1>5, <2>6 DEF CourseInv, PlanCourse, Guarded, Untouched
  <2>8. \A s : IsNext(s)' = IsNext(s) /\ Settled(s)' = Settled(s)
    BY <1>1, <1>5 DEF IsNext, Settled, Untouched
  <2>9. NextCourse'
    BY <1>1, <1>5, <2>8 DEF CourseInv, NextCourse, Untouched
  <2> QED BY <2>1, <2>4, <2>5, <2>7, <2>9 DEF CourseInv
<1>7. Undisturbed'
  <2>1. last.kind = "hard" /\ last.how = "refused" => (InTheWay' = InTheWay)
    BY <1>1, <1>2 DEF InTheWay, Tracked, Untouched
  <2>2. \A c, n : Back(c, n)' = Back(c, n)
    BY <1>1, <1>2, BackIs, BackIsNext DEF Untouched
  <2>3. last.kind = "hard" => Undisturbed'
    BY <1>1, <1>2, <2>1 DEF Undisturbed, Alone, Tracked, Untouched
  <2>4. last.kind = "pull" => Undisturbed'
    BY <1>1, <1>2, <1>3, <1>4 DEF Undisturbed, Alone, Untouched
  <2>5. last.kind = "revert" => Undisturbed'
    BY <1>1, <1>2, <2>2 DEF Undisturbed, Alone, TreeOf, Untouched
  <2> QED BY <1>1, <2>3, <2>4, <2>5, NoResult
<1> QED BY <1>6, <1>7

(* Nothing is expected of a command that has just begun.                   *)
LEMMA BeginWell ==
    ASSUME BaseInv, BeginCommand \/ BeginPush
    PROVE  CourseInv' /\ Undisturbed'
<1>1. PICK c \in Command : Starts(c)
  BY StartFlows
<1>2. last' = NothingYet
  BY DEF BeginCommand, BeginPush, Begin
<1>3. Undisturbed'
  BY <1>2, NoResult DEF NothingYet, NONE
<1>4. cmd' = c /\ guard' = guard /\ ControlInv
  BY <1>1 DEF Starts, BaseInv
<1>5. CASE pc' = "parent" /\ c.kind = "commit"
  BY <1>3, <1>4, <1>5, AtParent
<1>6. CASE pc' = "apply" /\ c.kind = "hard"
  BY <1>3, <1>4, <1>6, AtWay DEF Guarded
<1>7. CASE pc' = "sweep"
  BY <1>3, <1>7, AtClean
<1> QED BY <1>1, <1>3, <1>5, <1>6, <1>7 DEF Starts
--------------------------------------------------------------------------------
(* The rewrite, path by path.  What a command knows there.                 *)
LEMMA LoopFacts ==
    ASSUME BaseInv, UInv, Alone, pc \in Looping
    PROVE  /\ cmd.kind \in {"revert", "pull", "hard"} /\ (Guarded <=> cmd.kind # "hard")
           /\ pc # "idle" /\ LastInv /\ WellFiled(worktree) /\ DirsInv
           /\ index \in Tree /\ GitTree(index) /\ target \in Tree /\ GitTree(target)
           /\ guard \in Guard /\ todo \in SUBSET Todo
           /\ known = Names(target) /\ cand.base = index
           /\ \A p \in known : Pending(p) \/ Files(worktree)[p] = target[p]
           /\ \A s \in todo : (s.del <=> target[s.path] = NONE) /\ s.path \in known
           /\ Guarded => /\ Guarding
                         /\ \A p \in Paths : Pending(p) => Files(worktree)[p] = index[p]
                         /\ \A q \in Paths \ known : Files(worktree)[q] = NONE
           /\ ~Guarded => target = TreeOf(head)
           /\ cmd.kind = "pull" => goal = tracking /\ tracking \notin Chain[head]
<1>1. pc \in Rewriting /\ pc # "relate"
  BY DEF Looping, Rewriting
<1>2. /\ cmd.kind \in {"revert", "pull", "hard"} /\ (Guarded <=> cmd.kind \in {"revert", "pull"})
      /\ pc # "idle" /\ LastInv /\ guard \in Guard
      /\ Guarded => Guarding
      /\ cmd.kind = "pull" => goal = tracking /\ tracking \notin Chain[head]
  BY <1>1, WayFacts
<1>3. /\ WellFiled(worktree) /\ DirsInv /\ PlanCourse
      /\ index \in Tree /\ GitTree(index) /\ target \in Tree /\ GitTree(target)
      /\ todo \in SUBSET Todo
      /\ \A s \in todo : (s.del <=> target[s.path] = NONE) /\ s.path \in known
  BY FiledIs DEF BaseInv, StoreTyped, LocalTyped, UInv, CourseInv, PlanInv
<1> QED BY <1>2, <1>3 DEF PlanCourse

(* One step of a path at a time; a write comes after every deletion.       *)
LEMMA OneStep ==
    ASSUME BaseInv, UInv, Alone, pc \in Looping, NEW a \in todo, NEW b \in todo, a.path = b.path
    PROVE  a = b
<1>1. a.del = b.del /\ a \in Todo /\ b \in Todo
  BY LoopFacts DEF Todo
<1> QED BY <1>1 DEF Todo

(* When a write comes next, no path that should be gone is left.           *)
LEMMA Deleted ==
    ASSUME BaseInv, UInv, Alone, pc \in Looping, NEW s \in todo, IsNext(s), ~s.del,
           NEW q \in known, target[q] = NONE
    PROVE  Files(worktree)[q] = NONE
<1>1. CASE Pending(q)
  <2>1. PICK r \in todo : r.path = q
    BY <1>1 DEF Pending
  <2>2. r.del
    BY <2>1, LoopFacts
  <2>3. Before(s, r)
    BY <2>2 DEF IsNext
  <2>4. s.del \in BOOLEAN /\ r.del \in BOOLEAN
    BY LoopFacts DEF Todo
  <2> QED BY <2>2, <2>3, <2>4 DEF Before
<1>2. CASE ~Pending(q)
  BY <1>2, LoopFacts
<1> QED BY <1>1, <1>2

(* A file where a directory should be, or something in a directory where a *)
(* file should be, is untracked: only a hard restore can meet it.          *)
LEMMA FileInTheWay ==
    ASSUME BaseInv, UInv, Alone, pc \in Looping, NEW s \in todo, IsNext(s), ~s.del,
           FileAbove(worktree, s.path)
    PROVE  ~Guarded /\ InTheWay
<1> DEFINE p == s.path
           q == Parent[p]
<1>1. p \in Paths /\ p \in known /\ target[p] # NONE
  BY LoopFacts DEF Todo
<1>2. q # TOP /\ q \in Paths /\ worktree[q] \notin {NONE, DIR}
  BY <1>1, Parents DEF FileAbove
<1>3. Files(worktree)[q] = worktree[q]
  BY <1>2 DEF Files
<1>4. target[q] = NONE
  BY <1>1, <1>2, LoopFacts DEF GitTree, PathsOf
<1>5. q \notin known
  BY <1>2, <1>3, <1>4, Deleted
<1>6. index[q] = NONE
  BY <1>2, <1>5, LoopFacts DEF Names, PathsOf
<1>7. ~Guarded /\ target = TreeOf(head)
  BY <1>2, <1>3, <1>5, LoopFacts
<1>8. Files(worktree)[q] # NONE
  BY <1>2, <1>3
<1> HIDE DEF q, p
<1>9. q = Parent[p]
  BY DEF q, p
<1> QED BY <1>1, <1>2, <1>4, <1>6, <1>7, <1>8, <1>9 DEF InTheWay, Tracked

(* The same of a directory with something in it.                           *)
LEMMA EntryInTheWay ==
    ASSUME BaseInv, UInv, Alone, pc \in Looping, NEW s \in todo, IsNext(s), ~Settled(s),
           worktree[s.path] = DIR, Occupied(worktree, s.path)
    PROVE  ~Guarded /\ InTheWay
<1> DEFINE p == s.path
<1>1. p \in Paths /\ p \in known /\ (s.del <=> target[p] = NONE)
  BY LoopFacts DEF Todo
<1>2. PICK q \in Children(p) : worktree[q] # NONE
  BY DEF Occupied
<1>3. q \in Paths /\ Parent[q] = p /\ p # TOP
  BY <1>1, <1>2, WorktreeAssumption DEF Children
<1>4. worktree[q] # DIR
  <2>1. ASSUME NEW r \in Children(q) PROVE FALSE
    BY <1>3, <2>1, Parents
  <2> QED BY <1>3, <2>1, LoopFacts DEF DirsInv
<1>5. Files(worktree)[q] # NONE /\ Files(worktree)[p] = NONE
  BY <1>1, <1>2, <1>3, <1>4 DEF Files
<1> HIDE DEF p
<1>6. CASE ~s.del
  <2>1. target[p] # NONE /\ target[q] = NONE
    BY <1>1, <1>3, <1>6, LoopFacts DEF GitTree, PathsOf
  <2>2. q \notin known
    BY <1>5, <1>6, <2>1, Deleted
  <2>3. index[q] = NONE
    BY <1>3, <2>2, LoopFacts DEF Names, PathsOf
  <2>4. ~Guarded /\ target = TreeOf(head)
    BY <1>3, <1>5, <2>2, LoopFacts
  <2> QED BY <1>1, <1>3, <1>5, <2>1, <2>3, <2>4 DEF InTheWay, Tracked
<1>7. CASE s.del
  <2>1. target[p] = NONE /\ index[p] # NONE
    BY <1>1, <1>7, LoopFacts DEF Names, PathsOf
  <2>2. target[q] = NONE
    BY <1>2, <1>7 DEF Settled, p
  <2>3. index[q] = NONE
    BY <1>3, <2>1, LoopFacts DEF GitTree, PathsOf
  <2>4. Pending(p)
    BY DEF Pending, p
  <2>5. ~Guarded /\ target = TreeOf(head)
    BY <1>1, <1>5, <2>1, <2>4, LoopFacts
  <2> QED BY <1>1, <1>3, <1>5, <2>1, <2>2, <2>3, <2>5 DEF InTheWay, Tracked
<1> QED BY <1>6, <1>7

(* What the user sees of a directory made, an entry removed, a file        *)
(* written.                                                                *)
LEMMA MkdirShows ==
    ASSUME WellFiled(worktree), NEW p \in Paths, ~FileAbove(worktree, p)
    PROVE  /\ \A q \in Paths : Files(MkdirAbove(p))[q] = Files(worktree)[q]
           /\ MkdirAbove(p)[p] = worktree[p]
           /\ Parent[p] # TOP => MkdirAbove(p)[Parent[p]] = DIR
<1>1. CASE Parent[p] = TOP
  BY <1>1 DEF MkdirAbove
<1>2. CASE Parent[p] # TOP
  <2> DEFINE d == Parent[p]
  <2>1. /\ d \in Paths /\ d # p /\ worktree[d] \in {NONE, DIR}
        /\ MkdirAbove(p) = [worktree EXCEPT ![d] = DIR]
    BY <1>2, Parents DEF MkdirAbove, FileAbove
  <2>2. worktree \in [Paths -> Stored \cup {NONE, DIR}]
    BY DEF WellFiled
  <2> HIDE DEF d
  <2>3. /\ \A q \in Paths : q # d => MkdirAbove(p)[q] = worktree[q]
        /\ MkdirAbove(p)[d] = DIR
    BY <2>1, <2>2
  <2>4. \A q \in Paths : Files(MkdirAbove(p))[q] = Files(worktree)[q]
    BY <2>1, <2>3 DEF Files
  <2> QED BY <2>1, <2>3, <2>4 DEF d
<1> QED BY <1>1, <1>2

(* An entry removed, with its directory if that was the last one.          *)
LEMMA RemoveShows ==
    ASSUME WellFiled(worktree), NEW p \in Paths, worktree[p] # NONE
    PROVE  /\ \A q \in Paths : q # p => Files(Pruned(Removed(p), p))[q] = Files(worktree)[q]
           /\ Files(Pruned(Removed(p), p))[p] = NONE
<1> DEFINE d == Parent[p]
           w == Pruned(Removed(p), p)
<1>1. worktree \in [Paths -> Stored \cup {NONE, DIR}] /\ NONE # DIR
  BY Contents DEF WellFiled
<1>2. d # TOP => d \in Paths /\ d # p /\ worktree[d] = DIR
  BY Parents DEF WellFiled
<1>3. \/ w = [worktree EXCEPT ![p] = NONE]
      \/ d # TOP /\ w = [[worktree EXCEPT ![p] = NONE] EXCEPT ![d] = NONE]
  BY DEF Pruned, Removed
<1> HIDE DEF d, w
<1>4. /\ w[p] = NONE
      /\ \A q \in Paths : q # p => w[q] = worktree[q] \/ (worktree[q] = DIR /\ w[q] = NONE)
  BY <1>1, <1>2, <1>3
<1>5. \A q \in Paths : q # p => Files(w)[q] = Files(worktree)[q]
  BY <1>4 DEF Files
<1>6. Files(w)[p] = NONE
  BY <1>4 DEF Files
<1> QED BY <1>5, <1>6 DEF w

(* A file written.                                                         *)
LEMMA WriteShows ==
    ASSUME WellFiled(worktree), NEW p \in Paths, NEW v \in Stored
    PROVE  /\ \A q \in Paths : q # p => Files([worktree EXCEPT ![p] = v])[q] = Files(worktree)[q]
           /\ Files([worktree EXCEPT ![p] = v])[p] = v
<1>1. worktree \in [Paths -> Stored \cup {NONE, DIR}] /\ v # DIR
  BY Contents DEF WellFiled
<1> QED BY <1>1 DEF Files

(* Two trees with the same files at every path are the same.               *)
LEMMA SameFiles ==
    ASSUME NEW u, NEW w, \A q \in Paths : Files(u)[q] = Files(w)[q]
    PROVE  Files(u) = Files(w)
<1>1. Files(u) = [q \in Paths |-> Files(u)[q]] /\ Files(w) = [q \in Paths |-> Files(w)[q]]
  BY DEF Files
<1> HIDE DEF Files
<1> QED BY <1>1

(* What the next state of the worktree shows.                              *)
LEMMA FilesNext ==
    ASSUME NEW w, worktree' = w
    PROVE  Files(worktree)' = Files(w)
BY DEF Files

(* At each place of the loop over the paths.                               *)
LEMMA AtLoop ==
    ASSUME pc' \in Looping, Guarded' => Guarding', PlanCourse', NextCourse',
           cmd'.kind = "pull" => goal' = tracking' /\ tracking' \notin Chain'[head']
    PROVE  CourseInv'
BY DEF CourseInv, SweepCourse, CandCourse, GuardCourse, Preparing, Rewriting, Looping

(* The plan is kept when the path done last shows its target and no other  *)
(* has changed.                                                            *)
LEMMA StepDone ==
    ASSUME BaseInv, UInv, Alone, pc \in Looping, NEW s \in todo, todo' = todo \ {s},
           UNCHANGED <<commits, head, index, cmd, cand, target, known>>,
           \A q \in Paths : q # s.path => Files(worktree)'[q] = Files(worktree)[q],
           Files(worktree)'[s.path] = target[s.path]
    PROVE  PlanCourse'
<1>1. /\ \A p \in known : Pending(p) \/ Files(worktree)[p] = target[p]
      /\ Guarded => /\ \A p \in Paths : Pending(p) => Files(worktree)[p] = index[p]
                    /\ \A q \in Paths \ known : Files(worktree)[q] = NONE
      /\ ~Guarded => target = TreeOf(head)
      /\ known = Names(target) /\ cand.base = index /\ s.path \in known
  BY LoopFacts
<1>2. known \subseteq Paths
  BY <1>1 DEF Names, PathsOf
<1>3. ASSUME NEW p \in known, ~Pending(p)' PROVE Files(worktree)'[p] = target[p]
  <2>1. CASE p = s.path
    BY <2>1
  <2>2. CASE p # s.path
    <3>1. ~Pending(p)
      BY <1>3, <2>2 DEF Pending
    <3> QED BY <1>1, <1>2, <2>2, <3>1
  <2> QED BY <2>1, <2>2
<1>4. ASSUME NEW p \in Paths, Pending(p)' PROVE Pending(p) /\ p # s.path
  BY <1>4, OneStep DEF Pending
<1>5. Names(target)' = Names(target) /\ TreeOf(head)' = TreeOf(head) /\ Guarded' = Guarded
  BY DEF Names, PathsOf, TreeOf, Guarded
<1>6. ASSUME Guarded
      PROVE  /\ \A p \in Paths : Pending(p)' => Files(worktree)'[p] = index[p]
             /\ \A q \in Paths \ known : Files(worktree)'[q] = NONE
  BY <1>1, <1>4, <1>6
<1> QED BY <1>1, <1>3, <1>5, <1>6 DEF PlanCourse

(* A rewrite begins with its whole plan ahead.                             *)
LEMMA ApplyWell ==
    ASSUME BaseInv, UInv, Alone, Apply
    PROVE  CourseInv' /\ Undisturbed'
<1>1. /\ pc = "apply" /\ cmd.kind \in {"revert", "pull", "hard"} /\ LastInv
      /\ Guarded <=> cmd.kind \in {"revert", "pull"}
      /\ Guarded => Guarding /\ Clean
      /\ cmd.kind = "pull" => goal = tracking /\ tracking \notin Chain[head]
      /\ index \in Tree
  BY WayFacts DEF Apply, Rewriting, StoreTyped
<1>2. Guarded => CheckAll
  BY <1>1 DEF CheckAll, Guarding
<1>3. Untouched /\ tracking' = tracking
  BY DEF Apply, Stop, repo, Untouched
<1>4. /\ Chain' = Chain /\ Files(worktree)' = Files(worktree) /\ TreeOf(head)' = TreeOf(head)
      /\ Clean' = Clean
  BY <1>3, SameStore DEF Untouched
<1>5. CASE ~Guarded /\ Clean
  <2>1. Exit("ok")
    BY <1>5 DEF Apply, Stop
  <2>2. CourseInv' /\ last'.kind = "hard" /\ last'.how = "ok"
    BY <1>1, <1>5, <2>1, Ended
  <2>3. ASSUME NEW p \in Paths, TreeOf(head)'[p] # NONE PROVE worktree'[p] = TreeOf(head)'[p]
    BY <1>3, <1>4, <1>5, <2>3 DEF Clean, Files, Untouched
  <2>4. index' = TreeOf(head)'
    BY <1>4, <1>5 DEF Clean
  <2> QED BY <2>2, <2>3, <2>4 DEF Undisturbed, Tracked
<1>6. CASE Guarded \/ ~Clean
  <2> DEFINE t == IF Guarded THEN target ELSE TreeOf(head)
  <2>1. /\ pc' = "check" /\ target' = t /\ todo' = Plan(Names(t), t) /\ known' = Names(t)
        /\ cand' = [NoCandidate EXCEPT !.base = index]
        /\ UNCHANGED <<cmd, guard, goal, last>>
    BY <1>2, <1>6 DEF Apply, Goto, Names
  <2> HIDE DEF t
  <2>2. ASSUME NEW p \in known' PROVE Pending(p)'
    <3> DEFINE s == IF t[p] = NONE THEN Deletion(p) ELSE Write(p)
    <3>1. s \in todo'
      BY <2>1 DEF Plan
    <3>2. s.path = p
      BY DEF Deletion, Write
    <3> HIDE DEF s
    <3> QED BY <3>1, <3>2 DEF Pending
  <2>3. cand'.base = index
    BY <2>1, Nothing DEF Candidate
  <2>4. Names(target)' = Names(t)
    BY <1>3, <2>1 DEF Names, PathsOf, Untouched
  <2>5. Guarded' = Guarded
    BY <2>1 DEF Guarded
  <2>6. ASSUME Guarded
        PROVE  /\ \A p \in Paths : Files(worktree)'[p] = index[p]
               /\ \A q \in Paths \ known' : Files(worktree)'[q] = NONE
    <3>1. Files(worktree)' = index
      BY <1>1, <1>4, <2>6 DEF Clean
    <3> QED BY <2>1, <3>1 DEF Names, PathsOf
  <2>7. PlanCourse'
    BY <1>3, <1>4, <2>1, <2>2, <2>3, <2>4, <2>5, <2>6 DEF PlanCourse, Untouched, t
  <2>8. Guarded => Guarding'
    BY <1>1, <1>3, <1>4, <2>1 DEF Guarding, Untouched
  <2>9. NextCourse'
    BY <2>1 DEF NextCourse
  <2>10. CourseInv'
    BY <1>1, <1>3, <1>4, <2>1, <2>5, <2>7, <2>8, <2>9, AtLoop DEF Looping, Untouched
  <2> QED BY <1>1, <2>1, <2>10, GoesOnWell
<1> QED BY <1>5, <1>6

(* A hard restore that stops found something untracked in its way.         *)
LEMMA RefusedHard ==
    ASSUME ~Guarded, InTheWay, Stop("refused")
    PROVE  CourseInv' /\ Undisturbed'
<1>1. CourseInv' /\ last'.kind = "hard" /\ last'.how = "refused"
  BY Ended DEF Stop, Guarded
<1>2. UNCHANGED <<commits, head, index, worktree>>
  BY DEF Stop, repo
<1>3. Files(worktree)' = Files(worktree) /\ TreeOf(head)' = TreeOf(head)
  BY <1>2, SameStore
<1>4. InTheWay'
  BY <1>2, <1>3 DEF InTheWay, Tracked
<1> QED BY <1>1, <1>4 DEF Undisturbed

(* Undisturbed, every check of a guarded path finds what it expects.       *)
LEMMA CheckWell ==
    ASSUME BaseInv, UInv, Alone, CheckNext
    PROVE  CourseInv' /\ Undisturbed'
<1>1. PICK s \in todo : /\ pc = "check" /\ IsNext(s)
        /\ LET w == IF s.del THEN worktree ELSE MkdirAbove(s.path) IN
           IF Settled(s)
           THEN /\ todo' = todo \ {s}
                /\ UNCHANGED <<repo, worktree, pc, cmd, loaded, job, cand, guard, target, goal,
                               known, moved, late, calm, last, ghost>>
           ELSE IF ~s.del /\ FileAbove(worktree, s.path) THEN Stop("refused")
           ELSE /\ worktree' = w
                /\ IF Approved(w, s.path)
                   THEN Goto("rewrite") /\ late' = {}
                        /\ UNCHANGED <<cmd, loaded, job, cand, guard, target, goal, todo, known,
                                       moved, last>>
                   ELSE Exit("refused")
                /\ UNCHANGED <<repo, calm, ghost>>
  BY DEF CheckNext
<1> DEFINE p == s.path
           w == IF s.del THEN worktree ELSE MkdirAbove(p)
<1>2. pc \in Looping
  BY <1>1 DEF Looping
<1>3. /\ pc # "idle" /\ LastInv /\ WellFiled(worktree) /\ target \in Tree
      /\ p \in Paths /\ p \in known /\ (s.del <=> target[p] = NONE)
      /\ known = Names(target)
      /\ Guarded => /\ Guarding
                    /\ \A q \in Paths : Pending(q) => Files(worktree)[q] = index[q]
      /\ cmd.kind = "pull" => goal = tracking /\ tracking \notin Chain[head]
  BY <1>2, LoopFacts DEF Todo
<1>4. CASE Settled(s)
  <2>1. /\ todo' = todo \ {s} /\ Untouched /\ pc' = "check"
        /\ UNCHANGED <<tracking, cmd, cand, guard, target, goal, known, last>>
    BY <1>1, <1>4 DEF repo, Untouched
  <2>2. Files(worktree)' = Files(worktree) /\ Chain' = Chain
    BY <2>1, SameStore DEF Untouched
  <2>3. Files(worktree)[p] = target[p]
    <3>1. CASE s.del
      BY <1>3, <1>4, <3>1 DEF Settled, Files
    <3>2. CASE ~s.del
      <4>1. target[p] \in Stored \cup {NONE} /\ worktree[p] = target[p]
        BY <1>3, <1>4, <3>2 DEF Settled, Tree
      <4> QED BY <1>3, <4>1, Contents DEF Files
    <3> QED BY <3>1, <3>2
  <2>4. PlanCourse'
    BY <1>2, <2>1, <2>2, <2>3, StepDone DEF Untouched
  <2>5. Guarding => Guarding'
    BY <2>1, <2>2 DEF Guarding, Untouched
  <2>6. CourseInv'
    BY <1>3, <2>1, <2>2, <2>4, <2>5, AtLoop DEF Looping, Guarded, NextCourse, Untouched
  <2> QED BY <1>3, <2>1, <2>6, GoesOnWell
<1>5. CASE ~Settled(s) /\ ~s.del /\ FileAbove(worktree, p)
  <2>1. ~Guarded /\ InTheWay
    BY <1>1, <1>2, <1>5, FileInTheWay
  <2>2. Stop("refused")
    BY <1>1, <1>5
  <2> QED BY <2>1, <2>2, RefusedHard
<1>6. CASE ~Settled(s) /\ ~(~s.del /\ FileAbove(worktree, p))
  <2>1. /\ \A q \in Paths : Files(w)[q] = Files(worktree)[q]
        /\ w[p] = worktree[p]
        /\ ~s.del /\ Parent[p] # TOP => w[Parent[p]] = DIR
    BY <1>3, <1>6, MkdirShows
  <2>2. Approved(w, p)
    <3> SUFFICES ASSUME Guarded PROVE CheckPath(w, p)
      BY DEF Approved
    <3>1. Guarding /\ guard.expected = Files(worktree)
      BY <1>3 DEF Guarding
    <3>2. CASE guard.expected[p] # NONE
      <4>1. worktree[p] = guard.expected[p]
        BY <1>3, <3>1, <3>2 DEF Files
      <4> QED BY <2>1, <3>1, <3>2, <4>1 DEF CheckPath, Guarding
    <3>3. CASE guard.expected[p] = NONE
      <4>1. Files(worktree)[p] = NONE /\ worktree[p] \in {NONE, DIR}
        BY <1>3, <3>1, <3>3 DEF Files
      <4>2. ~s.del
        <5>1. Pending(p)
          BY DEF Pending
        <5> QED BY <1>3, <4>1, <5>1 DEF Names, PathsOf
      <4>3. ~FileAbove(w, p)
        BY <2>1, <4>2 DEF FileAbove
      <4> QED BY <2>1, <3>1, <3>3, <4>1, <4>3 DEF CheckPath, Guarding
    <3> QED BY <3>2, <3>3
  <2>3. /\ worktree' = w /\ pc' = "rewrite"
        /\ UNCHANGED <<commits, head, index, tracking, cmd, cand,
                       guard, target, goal, todo, known, last>>
    BY <1>1, <1>6, <2>2 DEF Goto, repo
  <2>4. Files(worktree)' = Files(worktree)
    <3>1. Files(worktree)' = Files(w)
      BY <2>3, FilesNext
    <3>2. Files(w) = Files(worktree)
      BY <2>1, SameFiles
    <3> QED BY <3>1, <3>2
  <2>5. Chain' = Chain /\ TreeOf(head)' = TreeOf(head)
    BY <2>3, ChainIs, ChainIsNext DEF TreeOf
  <2>6. PlanCourse'
    <3>1. Names(target)' = Names(target) /\ \A q : Pending(q)' = Pending(q)
      BY <2>3 DEF Names, PathsOf, Pending
    <3>2. PlanCourse
      BY DEF UInv, CourseInv
    <3> QED BY <1>2, <2>3, <2>4, <2>5, <3>1, <3>2 DEF PlanCourse, Guarded
  <2>7. Guarding => Guarding'
    BY <2>3, <2>4 DEF Guarding
  <2>8. \A r : IsNext(r)' = IsNext(r)
    BY <2>3 DEF IsNext
  <2>9. ~Settled(s)'
    BY <1>6, <2>1, <2>3 DEF Settled
  <2>10. NextCourse'
    <3> SUFFICES ASSUME NEW r \in todo, IsNext(r)
                 PROVE  /\ ~Settled(r)'
                        /\ r.del \/ Parent[r.path] = TOP \/ worktree'[Parent[r.path]] = DIR
      BY <2>3, <2>8 DEF NextCourse
    <3>1. r = s
      BY <1>1, <1>2, LoopFacts, OneNext
    <3> QED BY <2>1, <2>3, <2>9, <3>1
  <2>11. CourseInv'
    BY <1>3, <2>3, <2>5, <2>6, <2>7, <2>10, AtLoop DEF Looping, Guarded
  <2> QED BY <1>3, <2>3, <2>11, GoesOnWell
<1> QED BY <1>4, <1>5, <1>6

(* A path rewritten shows its target, and every other what it showed.      *)
LEMMA RewriteWell ==
    ASSUME BaseInv, UInv, Alone, Rewrite
    PROVE  CourseInv' /\ Undisturbed'
<1>1. PICK next \in todo : IsNext(next) /\
       LET p == next.path IN
        IF There(p) /\ worktree[p] = DIR /\ Occupied(worktree, p) THEN Stop("refused")
        ELSE IF ~next.del /\ Parent[p] # TOP /\ worktree[Parent[p]] # DIR THEN Stop("refused")
        ELSE
        /\ worktree' = IF next.del THEN (IF There(p) THEN Pruned(Removed(p), p) ELSE worktree)
                       ELSE [worktree EXCEPT ![p] = target[p]]
        /\ guard' = IF Guarded /\ (next.del => There(p))
                     THEN [guard EXCEPT !.expected[p] = IF next.del THEN NONE ELSE target[p]]
                     ELSE guard
        /\ todo' = todo \ {next}
        /\ Goto("check")
        /\ UNCHANGED <<repo, cmd, loaded, job, cand, target, goal, known, calm, last>>
  BY DEF Rewrite
<1> DEFINE p == next.path
<1>2. pc \in Looping /\ pc = "rewrite"
  BY DEF Looping, Rewrite
<1>3. /\ pc # "idle" /\ LastInv /\ WellFiled(worktree) /\ target \in Tree /\ guard \in Guard
      /\ p \in Paths /\ p \in known /\ (next.del <=> target[p] = NONE)
      /\ known = Names(target)
      /\ Guarded => /\ Guarding
                    /\ \A q \in Paths : Pending(q) => Files(worktree)[q] = index[q]
      /\ cmd.kind = "pull" => goal = tracking /\ tracking \notin Chain[head]
  BY <1>2, LoopFacts DEF Todo
<1>4. ~Settled(next) /\ (next.del \/ Parent[p] = TOP \/ worktree[Parent[p]] = DIR)
  BY <1>1, <1>2 DEF UInv, CourseInv, NextCourse
<1>5. There(p) <=> worktree[p] # NONE
  BY <1>3, Contents DEF There, FileAbove, WellFiled
<1>6. CASE There(p) /\ worktree[p] = DIR /\ Occupied(worktree, p)
  <2>1. ~Guarded /\ InTheWay
    BY <1>1, <1>2, <1>4, <1>6, EntryInTheWay
  <2> QED BY <1>1, <1>6, <2>1, RefusedHard
<1>7. CASE ~(There(p) /\ worktree[p] = DIR /\ Occupied(worktree, p))
  <2>1. /\ worktree' = IF next.del THEN (IF There(p) THEN Pruned(Removed(p), p) ELSE worktree)
                       ELSE [worktree EXCEPT ![p] = target[p]]
        /\ guard' = IF Guarded /\ (next.del => There(p))
                     THEN [guard EXCEPT !.expected[p] = IF next.del THEN NONE ELSE target[p]]
                     ELSE guard
        /\ todo' = todo \ {next} /\ pc' = "check"
        /\ UNCHANGED <<commits, head, index, tracking, cmd, cand, target, goal, known, last>>
    BY <1>1, <1>4, <1>7 DEF Goto, repo
  <2>2. /\ \A q \in Paths : q # p => Files(worktree)'[q] = Files(worktree)[q]
        /\ Files(worktree)'[p] = target[p]
    <3>1. Files(worktree)' = Files(worktree')
      BY DEF Files
    <3>2. CASE next.del /\ There(p)
      <4>1. worktree' = Pruned(Removed(p), p) /\ target[p] = NONE
        BY <1>3, <2>1, <3>2
      <4> QED BY <1>3, <1>5, <3>1, <3>2, <4>1, RemoveShows
    <3>3. CASE next.del /\ ~There(p)
      <4>1. worktree' = worktree /\ target[p] = NONE /\ worktree[p] = NONE
        BY <1>3, <1>5, <2>1, <3>3
      <4>2. Files(worktree)[p] = NONE
        BY <1>3, <4>1 DEF Files
      <4> QED BY <3>1, <4>1, <4>2
    <3>4. CASE ~next.del
      <4>1. worktree' = [worktree EXCEPT ![p] = target[p]] /\ target[p] \in Stored
        BY <1>3, <2>1, <3>4 DEF Tree
      <4> HIDE DEF p
      <4> QED BY <1>3, <3>1, <4>1, WriteShows
    <3> QED BY <3>2, <3>3, <3>4
  <2>3. PlanCourse'
    BY <1>2, <2>1, <2>2, StepDone
  <2>4. ASSUME Guarded PROVE Guarding'
    <3>1. next.del => There(p)
      <4>1. ASSUME next.del PROVE worktree[p] # NONE
        <5>1. Pending(p)
          BY DEF Pending
        <5>2. Files(worktree)[p] # NONE
          BY <1>3, <2>4, <4>1, <5>1 DEF Names, PathsOf
        <5> QED BY <1>3, <5>2 DEF Files
      <4> QED BY <1>5, <4>1
    <3>2. guard' = [guard EXCEPT !.expected[p] = target[p]]
      BY <1>3, <2>1, <2>4, <3>1
    <3>3. guard.ref = head /\ guard.index = index /\ guard.expected = Files(worktree)
      BY <1>3, <2>4 DEF Guarding
    <3>4. guard'.ref = head /\ guard'.index = index
          /\ guard'.expected = [Files(worktree) EXCEPT ![p] = target[p]]
      BY <1>3, <3>2, <3>3 DEF Guard
    <3>5. [Files(worktree) EXCEPT ![p] = target[p]] = Files(worktree)'
      <4> DEFINE f == Files(worktree)
                 g == Files(worktree)'
      <4>1. f = [q \in Paths |-> f[q]] /\ g = [q \in Paths |-> g[q]]
        BY DEF Files
      <4>2. \A q \in Paths : g[q] = IF q = p THEN target[p] ELSE f[q]
        BY <2>2
      <4> HIDE DEF f, g, p
      <4>3. [f EXCEPT ![p] = target[p]] = g
        BY <4>1, <4>2
      <4> QED BY <4>3 DEF f, g
    <3> QED BY <2>1, <3>4, <3>5 DEF Guarding
  <2>5. Chain' = Chain
    BY <2>1, ChainIs, ChainIsNext
  <2>6. CourseInv'
    BY <1>3, <2>1, <2>3, <2>4, <2>5, AtLoop DEF Looping, Guarded, NextCourse
  <2> QED BY <1>3, <2>1, <2>6, GoesOnWell
<1> QED BY <1>6, <1>7

(* When every path is done the files are the target's, and then the index  *)
(* is.                                                                     *)
LEMMA RebuildWell ==
    ASSUME BaseInv, UInv, Alone, Rebuild
    PROVE  CourseInv' /\ Undisturbed'
<1>1. pc \in Looping /\ pc = "check" /\ todo = {}
  BY DEF Rebuild, Looping
<1>2. /\ cmd.kind \in {"revert", "pull", "hard"} /\ (Guarded <=> cmd.kind # "hard")
      /\ pc # "idle" /\ LastInv /\ guard \in Guard /\ target \in Tree
      /\ known = Names(target) /\ cand.base = index
      /\ Guarded => Guarding /\ \A q \in Paths \ known : Files(worktree)[q] = NONE
      /\ ~Guarded => target = TreeOf(head)
      /\ cmd.kind = "pull" => goal = tracking /\ tracking \notin Chain[head]
  BY <1>1, LoopFacts
<1>3. \A p \in known : Files(worktree)[p] = target[p]
  BY <1>1, LoopFacts DEF Pending
<1>4. Guarded => CheckAll
  BY <1>2 DEF CheckAll, Guarding
<1>5. Guarded => Files(worktree) = target
  <2> SUFFICES ASSUME Guarded PROVE Files(worktree) = target
    OBVIOUS
  <2>1. \A p \in Paths : Files(worktree)[p] = target[p]
    BY <1>2, <1>3 DEF Names, PathsOf
  <2>2. Files(worktree) = [q \in Paths |-> Files(worktree)[q]]
    BY DEF Files
  <2>3. target = [q \in Paths |-> target[q]]
    BY <1>2 DEF Tree
  <2> HIDE DEF Files
  <2> QED BY <2>1, <2>2, <2>3
<1>6. gitlock = "free"
  BY DEF Alone
<1>7. /\ index' = target /\ UNCHANGED <<commits, head, tracking, worktree>>
      /\ guard' = guard \/ guard' = [guard EXCEPT !.index = target]
         \/ cmd.kind = "hard"
      /\ index = target \/ guard' = [guard EXCEPT !.index = target] \/ cmd.kind = "hard"
      /\ Applied \/ (cmd.kind = "hard" /\ Exit("ok"))
  BY <1>2, <1>4, <1>6 DEF Rebuild, repo
<1>8. CASE cmd.kind = "hard"
  <2>1. Exit("ok")
    BY <1>1, <1>7, <1>8, AppliedIs
  <2>2. CourseInv' /\ last'.kind = "hard" /\ last'.how = "ok"
    BY <1>8, <2>1, Ended
  <2>3. TreeOf(head)' = TreeOf(head) /\ target = TreeOf(head)
    BY <1>2, <1>7, <1>8 DEF TreeOf
  <2>4. ASSUME NEW p \in Paths, target[p] # NONE PROVE worktree'[p] = target[p]
    <3>1. p \in known
      BY <1>2, <2>4 DEF Names, PathsOf
    <3> QED BY <1>3, <1>7, <2>4, <3>1 DEF Files
  <2> QED BY <1>7, <2>2, <2>3, <2>4 DEF Undisturbed, Tracked
<1>9. CASE cmd.kind # "hard"
  <2>1. Guarded /\ Guarding /\ Files(worktree) = target /\ Applied
    BY <1>2, <1>5, <1>7, <1>9
  <2>2. Files(worktree)' = Files(worktree) /\ Chain' = Chain
    BY <1>7, ChainIs, ChainIsNext DEF Files
  <2>3. guard'.ref = head /\ guard'.index = target /\ guard'.expected = Files(worktree)
    BY <1>2, <1>7, <1>9, <2>1 DEF Guard, Guarding
  <2>4. Guarding'
    BY <1>7, <2>2, <2>3 DEF Guarding
  <2>5. CASE cmd.kind = "revert"
    <3>1. pc' = "parent" /\ UNCHANGED <<cmd, target, last>>
      BY <1>1, <2>1, <2>5, AppliedIs DEF Prepare, Goto
    <3>2. OnTarget'
      BY <1>7, <2>1, <2>2, <3>1 DEF OnTarget
    <3>3. job' = "revert"
      BY <1>1, <2>1, <2>5, AppliedIs DEF Prepare, Goto
    <3>4. CourseInv'
      BY <2>4, <3>1, <3>2, <3>3, AtParent
    <3> QED BY <1>2, <3>1, <3>4, GoesOnWell
  <2>6. CASE cmd.kind = "pull"
    <3>1. pc' = "agree" /\ UNCHANGED <<cmd, target, goal, last>>
      BY <1>1, <2>1, <2>6, AppliedIs
    <3>2. OnTarget'
      BY <1>7, <2>1, <2>2, <3>1 DEF OnTarget
    <3>3. CourseInv'
      BY <1>2, <1>7, <2>2, <2>4, <2>6, <3>1, <3>2, AtWay
    <3> QED BY <1>2, <3>1, <3>3, GoesOnWell
  <2> QED BY <1>2, <1>9, <2>5, <2>6
<1> QED BY <1>8, <1>9

(* The course of a command nobody disturbs, step by step.                  *)
LEMMA CourseStep ==
    ASSUME BaseInv, UInv, [Next]_vars
    PROVE  CourseInv' /\ Undisturbed'
<1>1. CASE ~Alone'
  BY <1>1 DEF CourseInv, Undisturbed, Alone
<1>2. CASE BeginCommand \/ BeginPush
  BY <1>2, BeginWell
<1>3. CASE Alone /\ Crash
  BY <1>3, Crashes
<1>4. CASE Alone /\ (Push \/ UNCHANGED vars)
  BY <1>4, StillWell
<1>5. CASE Alone /\ Step
  <2>1. CASE cmd.kind = "commit"
    BY <1>5, <2>1, CommitWell
  <2>2. CASE cmd.kind # "commit" /\ (Sweep \/ CaptureParent \/ CaptureIndex \/ Freeze
                                   \/ Vet \/ Publish \/ SyncIndex)
    BY <1>5, <2>2, SweepWell, ParentWell, IndexWell, FreezeWell, VetWell, PublishWell, SyncWell
  <2>3. CASE PushSwept \/ NewGuard \/ Resolve \/ Relate \/ Apply
    BY <1>5, <2>3, SweptWell, GuardWell, ResolveWell, RelateWell, ApplyWell
  <2>4. CASE CheckNext \/ Rewrite \/ Rebuild \/ Agree \/ Advance
    BY <1>5, <2>4, CheckWell, RewriteWell, RebuildWell, AgreeWell, AdvanceWell
  <2> QED BY <1>5, <2>1, <2>2, <2>3, <2>4 DEF Step
<1> QED BY <1>1, <1>2, <1>3, <1>4, <1>5, AloneSteps

(* At the start no command has run.                                        *)
LEMMA CourseBegins == Init => UInv
<1> SUFFICES ASSUME Init PROVE UInv
  OBVIOUS
<1>1. BaseInv
  BY Starting DEF IInv
<1>2. pc = "idle" /\ last = NothingYet /\ tracking = head
  BY DEF Init
<1>3. DirsInv
  <2> SUFFICES ASSUME NEW p \in Paths, worktree[p] = DIR PROVE Children(p) # {}
    BY DEF DirsInv
  <2>1. index[p] # DIR
    BY <1>1, Contents DEF BaseInv, StoreTyped, Tree
  <2> QED BY <2>1 DEF Init
<1>4. TrackInv
  BY <1>1, <1>2, OwnChain DEF TrackInv, BaseInv, StoreTyped
<1>5. LastInv
  BY <1>2 DEF LastInv
<1>6. CourseInv
  BY <1>2 DEF CourseInv, SweepCourse, CandCourse, GuardCourse, PlanCourse, NextCourse, Preparing,
         Rewriting, Looping
<1>7. Undisturbed
  BY <1>2 DEF Undisturbed, NothingYet, NONE
<1> QED BY <1>3, <1>4, <1>5, <1>6, <1>7 DEF UInv

(* A command nobody disturbs does what it is for, over every history and   *)
(* every tree of paths two levels deep: a hard restore leaves every        *)
(* tracked path and the index as HEAD has them, a pull ends at the         *)
(* remote's commit and a revert at the tree it names, with nothing left    *)
(* to record; and it stops only where it has to.                           *)
THEOREM DoesWhatItIsFor == Spec => []Undisturbed
<1>1. IInv /\ UInv /\ [Next]_vars => UInv'
  BY DirsStep, TrackStep, LastStep, CourseStep DEF IInv, UInv
<1>2. UInv => Undisturbed
  BY DEF UInv
<1> QED BY Invariance, CourseBegins, <1>1, <1>2, PTL DEF Spec
=============================================================================
