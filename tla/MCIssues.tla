------------------------------- MODULE MCIssues -------------------------------
(* Small instances of Issues for TLC. *)
EXTENDS Issues, TLC

Op(kind, priv, status, repeat) == [kind |-> kind, private |-> priv, status |-> status, repeat |-> repeat]
Update(priv, status, repeat) == Op("update", priv, status, repeat)
Plain(kind) == Op(kind, "keep", "keep", "keep")

\* Parents and sub-issues change visibility while sub-issues are added,
\* deleted, restored and completed as repetitions.
PrivacyOperations ==
    {Plain("create"), Plain("delete"), Plain("restore"),
     Op("sub", "keep", "keep", "set"), Op("sub", "yes", "keep", "keep"),
     Update("yes", "keep", "keep"), Update("no", "keep", "keep"),
     Update("keep", "done", "keep"), Update("no", "done", "keep")}

\* Repeats are set, stopped, completed, closed as duplicates and reopened.
RepeatOperations ==
    {Op("create", "keep", "keep", "set"), Plain("create"), Plain("delete"), Plain("restore"),
     Op("duplicate", "keep", "done", "keep"),
     Update("keep", "done", "keep"), Update("keep", "open", "keep"),
     Update("keep", "keep", "set"), Update("keep", "keep", "stop"),
     Update("keep", "done", "set"), Update("keep", "open", "set")}

\* Whole trees are deleted and restored.
TreeOperations == {Plain("create"), Plain("sub"), Plain("delete"), Plain("restore")}

Symmetry == Permutations(Tx) \cup Permutations(Series)

===============================================================================
