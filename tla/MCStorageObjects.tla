--------------------------- MODULE MCStorageObjects ---------------------------
(* Small instances of StorageObjects for TLC. *)
EXTENDS StorageObjects, TLC

\* Rows and requests are interchangeable, and workers set up alike (the runs
\* that use this state no fairness).
Identity == [w \in Worker |-> w]
Symmetry == Permutations(Object) \cup Permutations(Request) \cup (IF Misconfigured = {} THEN Permutations(Worker) ELSE {Identity})

===============================================================================
