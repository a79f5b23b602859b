----------------------------- MODULE MCCheckpointer -----------------------------
(* Instances of Checkpointer: sessions with ids of their own, or with one id.   *)
EXTENDS Checkpointer, TLC
CONSTANTS s1, s2, a, b, f1, f2

OneSession == s1 :> a
OwnIds == (s1 :> a) @@ (s2 :> b)
OneId  == (s1 :> a) @@ (s2 :> a)
================================================================================
