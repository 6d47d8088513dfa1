----------------------------- MODULE MCKubePods -----------------------------
(* Small instances of KubePods for TLC. *)
EXTENDS KubePods, TLC

CONSTANTS u1, u2, u3, n1, n2

\* u1 and u2 are replicas of a StatefulSet: one after the other, same name.
MCNameOf == (u1 :> n1) @@ (u2 :> n1) @@ (u3 :> n2)
=============================================================================
