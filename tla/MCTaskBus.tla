----------------------------- MODULE MCTaskBus -----------------------------
(***************************************************************************)
(* TaskBus on its own, with clients that call any operation at any time,   *)
(* checked against its invariants and against TaskLifecycle.               *)
(***************************************************************************)
EXTENDS TaskBusRefinement, TLC

CONSTANTS t1, t2, t3, s1, s2, cap1, cap2

\* t1 and t2 share a session and t3 lives in another, so that parents, ranks
\* and the session scoping of every lookup matter.
MCSessionOf == (t1 :> s1) @@ (t2 :> s1) @@ (t3 :> s2)
MCCapabilityOf == (t1 :> cap1) @@ (t2 :> cap2) @@ (t3 :> cap1)
MCRank == (t1 :> 2) @@ (t2 :> 1) @@ (t3 :> 3)
=============================================================================
