----------------------------- MODULE ServiceCache -----------------------------
(***************************************************************************)
(* k8sprocessor/kube/owner.go: which services list a pod.  The informer of *)
(* Endpoints applies its events one after another; it takes and releases   *)
(* the lock of podServices for every pod of an object, so GetServices may  *)
(* see the pods of one event one by one.  A panic in a handler ends the    *)
(* process: client-go raises it again.                                     *)
(*                                                                         *)
(* A service is named by its place in the order of the names.              *)
(***************************************************************************)
EXTENDS Naturals, Sequences, FiniteSets, SequencesExt

CONSTANTS Pods,
          Services,     \* a set of numbers
          Listings,     \* what an Endpoints object may list: sequences of pods
          Nothing

VARIABLES
  crashed,
  endpoints,     \* external: service -> what the last event listed, or Nothing
  calls,         \* calls of addEndpointToPod and deleteEndpointFromPod to come
  podServices,   \* pod -> services in order; <<>> for no entry
  surprised      \* history: a deletion was missed, or a pod was listed twice

servicesVars == <<crashed, endpoints, calls, podServices, surprised>>

ServicesInit ==
  /\ crashed = FALSE
  /\ endpoints = [s \in Services |-> Nothing]
  /\ calls = <<>>
  /\ podServices = [p \in Pods |-> <<>>]
  /\ surprised = FALSE

-----------------------------------------------------------------------------
sortStrings(s) == SetToSortSeq(ToSet(s), <)

\* genericEndpointOp: one call for each pod the object lists.
genericEndpointOp(op, s, listing) ==
  calls' = [k \in DOMAIN listing |-> [op |-> op, pod |-> listing[k], endpoint |-> s]]

\* cacheEndpoint: an Endpoints object was added or changed.
CacheEndpoint(s, listing) ==
  /\ ~crashed /\ calls = <<>>
  /\ endpoints' = [endpoints EXCEPT ![s] = listing]
  /\ genericEndpointOp("add", s, listing)
  /\ surprised' = (surprised \/ ~IsInjective(listing))
  /\ UNCHANGED <<crashed, podServices>>

\* deleteEndpoint
DeleteEndpoint(s) ==
  /\ ~crashed /\ calls = <<>>
  /\ endpoints[s] # Nothing
  /\ endpoints' = [endpoints EXCEPT ![s] = Nothing]
  /\ genericEndpointOp("delete", s, endpoints[s])
  /\ UNCHANGED <<crashed, podServices, surprised>>

\* A deletion that the informer missed comes as a DeletedFinalStateUnknown;
\* the type assertion of genericEndpointOp panics.
MissedDelete(s) ==
  /\ ~crashed /\ calls = <<>>
  /\ endpoints[s] # Nothing
  /\ crashed' = TRUE
  /\ surprised' = TRUE
  /\ UNCHANGED <<endpoints, calls, podServices>>

\* The services of a pod after addEndpointToPod.
added(services, e) ==
  IF Contains(services, e) THEN services ELSE sortStrings(Append(services, e))

\* Mutant: the last entry is dropped instead of being moved.
RECURSIVE truncated(_, _, _)
truncated(services, i, e) ==
  LET l == Len(services)
  IN IF l = 0 THEN services
     ELSE IF i >= l THEN Nothing
     ELSE LET rest == IF services[i + 1] = e THEN SubSeq(services, 1, l - 1) ELSE services
              j    == IF services[i + 1] = e THEN i ELSE i + 1
          IN IF j + 1 = Len(rest) THEN rest ELSE truncated(rest, j, e)

\* The loop of deleteEndpointFromPod from index i on: an entry that matches is
\* swapped with the last one and cut off; Nothing if the index is out of range.
RECURSIVE removed(_, _, _)
removed(services, i, e) ==
  LET l == Len(services)
  IN IF l = 0 THEN services
     ELSE IF i >= l THEN Nothing
     ELSE LET match == services[i + 1] = e
              rest  == IF match
                       THEN SubSeq([services EXCEPT ![i + 1] = services[l]], 1, l - 1)
                       ELSE services
              j     == IF match THEN i ELSE i + 1
          IN IF j + 1 = Len(rest) THEN rest ELSE removed(rest, j, e)

addEndpointToPod(p, e) ==
  /\ podServices' = [podServices EXCEPT ![p] = added(@, e)]
  /\ UNCHANGED crashed

deleteEndpointFromPod(p, e) ==
  LET rest == removed(podServices[p], 0, e)
  IN IF rest = Nothing
     THEN crashed' = TRUE /\ UNCHANGED podServices
     ELSE podServices' = [podServices EXCEPT ![p] = sortStrings(rest)] /\ UNCHANGED crashed

EndpointCall ==
  /\ ~crashed /\ calls # <<>>
  /\ LET c == Head(calls)
     IN \/ c.op = "add" /\ addEndpointToPod(c.pod, c.endpoint)
        \/ c.op = "delete" /\ deleteEndpointFromPod(c.pod, c.endpoint)
  /\ calls' = Tail(calls)
  /\ UNCHANGED <<endpoints, surprised>>

-----------------------------------------------------------------------------

ServicesNext == \/ \E s \in Services : \/ DeleteEndpoint(s) \/ MissedDelete(s)
                               \/ \E l \in Listings : CacheEndpoint(s, l)
        \/ EndpointCall

-----------------------------------------------------------------------------
(* Properties. *)

Listed(p) == {s \in Services : endpoints[s] # Nothing /\ Contains(endpoints[s], p)}

\* Between events, GetServices lists every service whose Endpoints list the
\* pod: no deletion of another service, and no event for another pod, takes
\* it away.  And the process goes on: deleteEndpointFromPod runs out of its
\* slice only for a pod that an Endpoints object lists twice (ready in one
\* subset and not in another), and the type assertion fails only on a deletion
\* that the informer missed.
ListedServicesKept ==
  /\ crashed => surprised
  /\ (~crashed /\ calls = <<>>) =>
       \A p \in Pods : Listed(p) \subseteq ToSet(podServices[p])

-----------------------------------------------------------------------------
(* What a test says and the code does not do. *)

\* "deleting endpoints": a service whose Endpoints were deleted is not listed
\* for its pods any more.  Here for objects that list a pod once and whose
\* listing never changes; the loop does not look at the last entry.
DeletedServiceGone ==
  (~crashed /\ calls = <<>>) =>
    \A p \in Pods : \A s \in ToSet(podServices[p]) : endpoints[s] # Nothing
=============================================================================
