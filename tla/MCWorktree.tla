----------------------------- MODULE MCWorktree -----------------------------
(* A store of fu.yaml and one skill whose directory the remote has turned  *)
(* into a file.  The branch holds an operation that was rolled back.       *)
EXTENDS Worktree

PathOrder == <<"fu.yaml", "skills/a", "skills/a/f">>
ParentOf == [p \in {"fu.yaml", "skills/a", "skills/a/f"} |->
                IF p = "skills/a/f" THEN "skills/a" ELSE TOP]
SkillPaths == {"skills/a", "skills/a/f"}

T(y, d, f) == [p \in {"fu.yaml", "skills/a", "skills/a/f"} |->
    CASE p = "fu.yaml" -> y [] p = "skills/a" -> d [] OTHER -> f]
C(parent, kind, of, y, d, f) == [parent |-> parent, msg |-> Msg(kind, of, 0), tree |-> T(y, d, f)]

Commits ==
    << C(0, "init", "", "y0", NONE, NONE),
       C(1, "op", "new a", "y1", NONE, "a"),
       C(2, "op", "add b", "y2", NONE, "a"),
       C(3, "recover", "add b", "y1", NONE, "a"),
       C(4, "op", "update a", "y1", NONE, "b"),
       C(5, "op", "update a", "y1", "c", NONE) >>
=============================================================================
