---------------------------- MODULE MCExecution ----------------------------
(***************************************************************************)
(* The composed system on small instances.                                 *)
(***************************************************************************)
EXTENDS ExecutionSystem, TLC

CONSTANTS t1, t2, s1, cap1

MCTwoTasksOneSession == (t1 :> s1) @@ (t2 :> s1)
MCOneTask == (t1 :> s1)
MCCapabilityOf == [t \in Task |-> cap1]
MCRank == [t \in Task |-> IF t = t1 THEN 1 ELSE 2]

\* Threads and handlers are interchangeable (safety runs only).
Symmetry == Permutations(Handler) \cup Permutations(Thread)
=============================================================================
