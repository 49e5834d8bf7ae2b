----------------------------- MODULE MCAskStore -----------------------------
(***************************************************************************)
(* The ASK store with clients that send any command with any key.          *)
(***************************************************************************)
EXTENDS AskStore, TLC

CONSTANTS t1, t2, s1, s2

MCSessionOf == (t1 :> s1) @@ (t2 :> s2)
=============================================================================
