----------------------------- MODULE OwnerCache -----------------------------
(***************************************************************************)
(* k8sprocessor/kube/owner.go: which objects own a pod.  The informers, a  *)
(* goroutine for each kind, change objectOwners while a processor walks    *)
(* the owners of a pod in GetOwners.  The walk takes and releases the lock *)
(* for every owner, so each is a step.                                     *)
(*                                                                         *)
(* Kinds, names and namespaces of owners are left out.  Deletions that an  *)
(* informer missed end the process as in ServiceCache.                     *)
(***************************************************************************)
EXTENDS Naturals, Sequences, FiniteSets, SequencesExt

CONSTANTS Objects,      \* uids of owners
          References,   \* what ownerReferences may be: sequences of uids
          PodReferences,\* the ownerReferences of the pod that is looked up
          MaxChanges,   \* bound on the changes of owners
          NotCached

VARIABLES
  objectOwners,  \* uid -> ownerUIDs, or NotCached
  changes,       \* changes of owners so far
  pc, queue, visited, found,  \* GetOwners and its variables
  touched        \* history: uids that changed while GetOwners runs

walkVars == <<pc, queue, visited, found>>
ownersVars == <<objectOwners, changes, walkVars, touched>>

OwnersInit ==
  /\ objectOwners = [o \in Objects |-> NotCached]
  /\ changes = 0
  /\ pc = "idle" /\ queue = <<>> /\ visited = {} /\ found = <<>>
  /\ touched = {}

-----------------------------------------------------------------------------

\* cacheObject (refs are ownerUIDs) and deleteObject (NotCached).
ChangeObject(o, refs) ==
  /\ changes < MaxChanges
  /\ objectOwners[o] # refs
  /\ objectOwners' = [objectOwners EXCEPT ![o] = refs]
  /\ changes' = changes + 1
  /\ touched' = IF pc = "idle" THEN {} ELSE touched \cup {o}
  /\ UNCHANGED walkVars

\* Mutant: an owner is queued again when another object refers to it.
freshEveryTime(refs, seen) ==
  FoldLeft(LAMBDA acc, o : IF Contains(acc, o) THEN acc ELSE Append(acc, o), <<>>, refs)

\* The uids of refs that were not visited yet, in order and once each.
fresh(refs, seen) ==
  FoldLeft(LAMBDA acc, o : IF o \in seen \cup ToSet(acc) THEN acc ELSE Append(acc, o),
           <<>>, refs)

\* Mutant: the pod's own owners only.
VisitOne ==
  /\ pc = "walk" /\ queue # <<>>
  /\ LET uid == Head(queue)
     IN /\ found' = IF objectOwners[uid] = NotCached THEN found ELSE Append(found, uid)
        /\ queue' = Tail(queue)
  /\ UNCHANGED <<objectOwners, changes, pc, visited, touched>>

\* GetOwners: the owners the pod refers to, ...
GetOwners ==
  /\ pc = "idle"
  /\ pc' = "walk"
  /\ queue' = fresh(PodReferences, {})
  /\ visited' = ToSet(PodReferences)
  /\ found' = <<>>
  /\ touched' = {}
  /\ UNCHANGED <<objectOwners, changes>>

\* ... the owners of the next one in the queue, if it is cached, ...
Visit ==
  /\ pc = "walk" /\ queue # <<>>
  /\ LET uid    == Head(queue)
         owners == IF objectOwners[uid] = NotCached THEN <<>> ELSE fresh(objectOwners[uid], visited)
     IN /\ found' = IF objectOwners[uid] = NotCached THEN found ELSE Append(found, uid)
        /\ queue' = Tail(queue) \o owners
        /\ visited' = visited \cup ToSet(owners)
  /\ UNCHANGED <<objectOwners, changes, pc, touched>>

\* ... until the queue is empty.
Return ==
  /\ pc = "walk" /\ queue = <<>>
  /\ pc' = "idle"
  /\ UNCHANGED <<objectOwners, changes, queue, visited, found, touched>>

-----------------------------------------------------------------------------

OwnersNext ==
  \/ \E o \in Objects, refs \in References \cup {NotCached} : ChangeObject(o, refs)
  \/ GetOwners \/ Visit \/ Return

-----------------------------------------------------------------------------
(* Properties. *)

\* What GetOwners is to return if only the uids in ok are followed: the
\* cached ones that can be reached from the references of the pod.
RECURSIVE Reach(_, _)
Reach(from, ok) ==
  LET more == from \cup {o \in Objects : \E f \in from \cap ok :
                           objectOwners[f] # NotCached /\ Contains(objectOwners[f], o)}
  IN IF more = from THEN {o \in from \cap ok : objectOwners[o] # NotCached} ELSE Reach(more, ok)

\* When GetOwners is done it has found the owners that can be
\* reached through objects that did not change while it ran, whatever other
\* objects appeared, disappeared or changed owners between two of its locks;
\* and, if nothing changed at all, no others.
OwnersFound ==
  (pc = "walk" /\ queue = <<>>) =>
    /\ Reach(ToSet(PodReferences), Objects \ touched) \subseteq ToSet(found)
    /\ touched = {} => ToSet(found) = Reach(ToSet(PodReferences), Objects)

\* The owners that GetOwners has still to look at, at most.
Ahead == Cardinality(Objects \ visited) + Len(queue)

\* GetOwners comes nearer to its end with every owner it visits, although owners
\* may refer to one another in a circle and may change under the walk: it takes
\* the lock once for each owner at most.
WalkEnds == [][pc = "walk" /\ walkVars' # walkVars => pc' = "idle" \/ Ahead' < Ahead]_ownersVars
=============================================================================
