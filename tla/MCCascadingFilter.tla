-------------------------- MODULE MCCascadingFilter --------------------------
EXTENDS CascadingFilter, TLC

CONSTANTS g1, g2, g3, t1, t2, t3

\* Two groups of one trace and one group of another.
MCTraceOf == (g1 :> t1) @@ (g2 :> t1) @@ (g3 :> t2)

\* A group of each of three traces.
ApartTraceOf == (g1 :> t1) @@ (g2 :> t2) @@ (g3 :> t3)

Perms == Permutations(Consumers)
==============================================================================
