----------------------------- MODULE LeasedQueue -----------------------------
(* What a job table promises its workers: a job is leased to one worker at a   *)
(* time, whoever else still thinks it has it; a lease that runs out passes the *)
(* job on; only the worker with the lease puts a job back or settles it; and   *)
(* an end is final.                                                            *)
CONSTANTS
    Job,
    Worker,
    NoWorker,
    Cancellable     \* jobs that can also be called off, by anyone

VARIABLES
    phase,          \* "absent", "open", "settled" or "cancelled"
    lease,          \* the worker an open job is leased to
    claims          \* the jobs each worker works through, under a lease or not

vars == <<phase, lease, claims>>

Init ==
    /\ phase = [j \in Job |-> "absent"]
    /\ lease = [j \in Job |-> NoWorker]
    /\ claims = [w \in Worker |-> {}]

Become(J, p) == phase' = [j \in Job |-> IF j \in J THEN p ELSE phase[j]]
LeaseTo(J, w) == lease' = [j \in Job |-> IF j \in J THEN w ELSE lease[j]]
Drop(w, J) == claims' = [claims EXCEPT ![w] = @ \ J]

Enqueue(J) ==
    /\ \A j \in J : phase[j] = "absent"
    /\ Become(J, "open")
    /\ UNCHANGED <<lease, claims>>

\* A lease can run out while its worker still works.
Claim(w, J) ==
    /\ \A j \in J : phase[j] = "open"
    /\ LeaseTo(J, w)
    /\ claims' = [claims EXCEPT ![w] = @ \cup J]
    /\ UNCHANGED phase

\* A worker puts jobs back, to retry one or because it stops; a job it has no
\* lease of any more is not touched.
Leave(w, J) ==
    /\ J \subseteq claims[w]
    /\ LeaseTo({j \in J : lease[j] = w}, NoWorker)
    /\ Drop(w, J)
    /\ UNCHANGED phase

Settle(w, j) ==
    /\ j \in claims[w] /\ lease[j] = w
    /\ Become({j}, "settled")
    /\ LeaseTo({j}, NoWorker)
    /\ Drop(w, {j})

\* Jobs are called off, by a worker that drops some of its own or by others.
Cancel(w, J, own) ==
    /\ \A j \in J : phase[j] = "open" /\ j \in Cancellable
    /\ own \subseteq claims[w] /\ \A j \in own : lease[j] = w => j \in J
    /\ Become(J, "cancelled")
    /\ LeaseTo(J, NoWorker)
    /\ Drop(w, own)

Next ==
    \/ \E J \in SUBSET Job : Enqueue(J)
    \/ \E w \in Worker, J \in SUBSET Job :
         Claim(w, J) \/ Leave(w, J) \/ \E own \in SUBSET Job : Cancel(w, J, own)
    \/ \E w \in Worker, j \in Job : Settle(w, j)

Spec == Init /\ [][Next]_vars

==============================================================================
