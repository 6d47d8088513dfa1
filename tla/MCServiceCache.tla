--------------------------- MODULE MCServiceCache ---------------------------
(* ServiceCache by itself, for Endpoints that list one pod once. *)
EXTENDS ServiceCache

CONSTANT p1

OneListing == {<<p1>>}

Spec == ServicesInit /\ [][ServicesNext]_servicesVars
=============================================================================
