------------------------------- MODULE StoreHistory -------------------------------
(***************************************************************************)
(* What fu promises of the store's Git history.  The branch only grows.  A *)
(* commit that carries a command's message is that command and nothing     *)
(* else: other skills and the user's part of fu.yaml are as its parent had *)
(* them, so that what other programs wrote is never attributed to it.  A   *)
(* recovery commit undoes the last install.  Whatever else the branch      *)
(* holds was written by somebody else, and says so.                        *)
(***************************************************************************)
EXTENDS Integers, Sequences

CONSTANTS Names, Contents, NONE

VARIABLE branch

Tip == branch[Len(branch)].snap
Extend(kind, op, n, snap) ==
    branch' = Append(branch, [msg |-> [kind |-> kind, op |-> op, name |-> n], snap |-> snap])

Register(snap, n, digest, content) ==
    [snap EXCEPT !.cfg.reg[n] = digest, !.tree[n] = content]

InitHistory ==
    /\ Len(branch) = 1
    /\ branch[1].msg.kind = "init"

(* Registered already only if somebody committed fu.yaml by hand while the *)
(* command was between saving it and committing.                           *)
Install(n, c) ==
    /\ Tip.cfg.reg[n] \in {NONE, c}
    /\ Extend("op", "install", n, Register(Tip, n, c, c))

Update(n, c) ==
    /\ Tip.cfg.reg[n] # NONE
    /\ Extend("op", "update", n, Register(Tip, n, c, c))

Remove(n) ==
    /\ Tip.cfg.reg[n] # NONE
    /\ Extend("op", "rm", n, Register(Tip, n, NONE, NONE))

(* The install undone is the last command's commit, and it is undone once; *)
(* only commits made by hand while it was being undone can lie between.    *)
UndoInstall(n) ==
    /\ \E k \in DOMAIN branch :
        /\ branch[k].msg = [kind |-> "op", op |-> "install", name |-> n]
        /\ \A j \in k + 1 .. Len(branch) : branch[j].msg.kind = "direct"
    /\ Extend("recover", "install", n, Register(Tip, n, NONE, NONE))

(* Never an empty commit.                                                  *)
Foreign(kind) ==
    /\ Len(branch') = Len(branch) + 1
    /\ branch'[Len(branch')].snap # Tip
    /\ Extend(kind, NONE, NONE, branch'[Len(branch')].snap)

NextHistory ==
    \/ \E n \in Names, c \in Contents : Install(n, c) \/ Update(n, c)
    \/ \E n \in Names : Remove(n) \/ UndoInstall(n)
    \/ Foreign("external") \/ Foreign("direct")

HistorySpec == InitHistory /\ [][NextHistory]_branch
================================================================================
