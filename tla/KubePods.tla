------------------------------- MODULE KubePods -------------------------------
(***************************************************************************)
(* k8sprocessor/kube/client.go: the table that leads from an address, a    *)
(* uid or a name.namespace to a pod.  The informer's goroutine applies the *)
(* events of the watch one after another; deleteLoop removes what was      *)
(* asked to be deleted once the grace period is over; processors look pods *)
(* up meanwhile.                                                           *)
(*                                                                         *)
(* The cluster is external: pods are created, run at an address, finish    *)
(* (another pod may then have the address while the object still exists    *)
(* and changes), and are deleted, after which the name may be used again.  *)
(* A pod is named by its uid.  The attributes of a pod are stood for by    *)
(* the phase they were taken in.                                           *)
(***************************************************************************)
EXTENDS Naturals, Sequences, FiniteSets

CONSTANTS PodUIDs,
          Names,         \* name.namespace of a pod, and so its Name
          NameOf,
          Addresses,
          MayBeIgnored,  \* pods that shouldIgnorePod may ignore
          GracePeriod,
          MaxTime,       \* bound on the clock
          MaxEvents,     \* bound on the events the informer is behind
          None

\* What is known of a pod at some time.
Entries ==
  [pod : PodUIDs, addr : Addresses \cup {None}, start : Nat \cup {None},
   phase : {"pending", "running", "finished", "gone"}]

\* Uids, names and addresses are told apart.
ASSUME PodsAssumption ==
  /\ NameOf \in [PodUIDs -> Names]
  /\ MayBeIgnored \subseteq PodUIDs
  /\ GracePeriod \in Nat /\ MaxTime \in Nat /\ MaxEvents \in Nat
  /\ None \notin PodUIDs \cup Names \cup Addresses \cup Nat \cup Entries
  /\ PodUIDs \cap Names = {} /\ PodUIDs \cap Addresses = {} /\ Names \cap Addresses = {}

VARIABLES
  now,
  phase, addr, start,   \* external: the pods of the cluster
  ignored,              \* external: pods with the ignore annotation
  missed,               \* external: pods whose deletion the informer missed
  watch,                \* external: events on their way to the informer
  store,                \* external: what the informer knows of a pod, or None
  pods,                 \* Pods: identifier -> entry, or None
  deleteQueue,
  forgetting,           \* the pod that forgetPod is at, or None, and
  lookups,              \* the identifiers it is still to look up
  toDelete              \* what deleteLoop took off the queue

clusterVars == <<phase, addr, start, ignored, missed, watch>>
vars == <<now, clusterVars, store, pods, deleteQueue, forgetting, lookups, toDelete>>

Identifiers == PodUIDs \cup Names \cup Addresses

Here == {u \in PodUIDs : phase[u] \in {"pending", "running", "finished"}}

Entry(u) == [pod |-> u, addr |-> addr[u], start |-> start[u], phase |-> phase[u]]

Init ==
  /\ now = 0
  /\ phase = [u \in PodUIDs |-> "absent"]
  /\ addr = [u \in PodUIDs |-> None]
  /\ start = [u \in PodUIDs |-> None]
  /\ ignored \in SUBSET MayBeIgnored
  /\ missed = {}
  /\ watch = <<>>
  /\ store = [u \in PodUIDs |-> None]
  /\ pods = [i \in Identifiers |-> None]
  /\ deleteQueue = <<>>
  /\ forgetting = None /\ lookups = <<>>
  /\ toDelete = <<>>

-----------------------------------------------------------------------------
(* The cluster. *)

Changed(u, type) ==
  /\ Len(watch) < MaxEvents
  /\ watch' = Append(watch, [type |-> type, entry |-> Entry(u)'])
  /\ UNCHANGED <<now, store, pods, deleteQueue, forgetting, lookups, toDelete>>

Create(u) ==
  /\ phase[u] = "absent"
  /\ \A v \in Here : NameOf[v] # NameOf[u]
  /\ phase' = [phase EXCEPT ![u] = "pending"]
  /\ UNCHANGED <<addr, start, ignored, missed>>
  /\ Changed(u, "add")

Run(u, a) ==
  /\ phase[u] = "pending"
  /\ \A v \in PodUIDs : phase[v] = "running" => addr[v] # a
  /\ phase' = [phase EXCEPT ![u] = "running"]
  /\ addr' = [addr EXCEPT ![u] = a]
  /\ start' = [start EXCEPT ![u] = now]
  /\ UNCHANGED <<ignored, missed>>
  /\ Changed(u, "update")

Finish(u) ==
  /\ phase[u] = "running"
  /\ phase' = [phase EXCEPT ![u] = "finished"]
  /\ UNCHANGED <<addr, start, ignored, missed>>
  /\ Changed(u, "update")

\* The informer may miss the deletion and find out when it lists the pods
\* again: it then delivers a DeletedFinalStateUnknown.
Delete(u) ==
  /\ u \in Here
  /\ phase' = [phase EXCEPT ![u] = "gone"]
  /\ UNCHANGED <<addr, start, ignored>>
  /\ \/ Changed(u, "delete") /\ UNCHANGED missed
     \/ Changed(u, "unknown") /\ missed' = missed \cup {u}

Tick ==
  /\ now < MaxTime
  /\ now' = now + 1
  /\ UNCHANGED <<clusterVars, store, pods, deleteQueue, forgetting, lookups, toDelete>>

-----------------------------------------------------------------------------
(* The informer's goroutine. *)

\* Mutant: whichever event came last wins.
AddedAnyway(e) ==
  [i \in Identifiers |-> IF i \in {e.pod, e.addr, NameOf[e.pod]} THEN e ELSE pods[i]]

\* addOrUpdatePod: under each identifier unless a pod that started later is
\* there.
Added(e) ==
  [i \in Identifiers |->
     IF /\ i \in {e.pod, e.addr, NameOf[e.pod]}
        /\ ~ /\ pods[i] # None
             /\ pods[i].start # None
             /\ e.start # None
             /\ e.start < pods[i].start
     THEN e ELSE pods[i]]

\* handlePodAdd and handlePodUpdate.
HandleChange ==
  /\ forgetting = None
  /\ watch # <<>>
  /\ Head(watch).type \in {"add", "update"}
  /\ watch' = Tail(watch)
  /\ store' = [store EXCEPT ![Head(watch).entry.pod] = Head(watch).entry]
  /\ pods' = Added(Head(watch).entry)
  /\ UNCHANGED <<now, phase, addr, start, ignored, missed, deleteQueue, forgetting, lookups, toDelete>>

\* Every watchSyncPeriod the informer hands out what it knows once more.
Resync(u) ==
  /\ forgetting = None
  /\ store[u] # None
  /\ pods' = Added(store[u])
  /\ UNCHANGED <<now, clusterVars, store, deleteQueue, forgetting, lookups, toDelete>>

\* Mutant: the name is left out.
AddressAndUid(e) == <<e.addr, e.pod>>

\* The identifiers forgetPod looks up, in its order.
ForgottenIds(e) == <<e.addr, e.pod, NameOf[e.pod]>>

\* handlePodDelete: a DeletedFinalStateUnknown is logged and dropped.
HandleDelete ==
  /\ forgetting = None
  /\ watch # <<>>
  /\ Head(watch).type \in {"delete", "unknown"}
  /\ LET e == Head(watch).entry
     IN /\ store' = [store EXCEPT ![e.pod] = None]
        /\ IF Head(watch).type = "delete"
           THEN forgetting' = e.pod /\ lookups' = ForgottenIds(e)
           ELSE UNCHANGED <<forgetting, lookups>>
  /\ watch' = Tail(watch)
  /\ UNCHANGED <<now, phase, addr, start, ignored, missed, pods, deleteQueue, toDelete>>

\* getPod
GetPod(i) ==
  IF i = None THEN None
  ELSE IF pods[i] # None /\ pods[i].pod \notin ignored THEN pods[i] ELSE None

\* appendDeleteQueue
Enqueue(d) == Append(deleteQueue, d)

\* forgetPod: look up one identifier after another and, if it leads to a pod
\* of that name, ask for its deletion.  The uid in a request is history.
Forget ==
  /\ forgetting # None
  /\ LET i == Head(lookups)
         p == GetPod(i)
     IN deleteQueue' = IF p # None /\ NameOf[p.pod] = NameOf[forgetting]
                       THEN Enqueue([id |-> i, name |-> NameOf[forgetting],
                                     ts |-> now, pod |-> forgetting])
                       ELSE deleteQueue
  /\ lookups' = Tail(lookups)
  /\ forgetting' = IF Tail(lookups) = <<>> THEN None ELSE forgetting
  /\ UNCHANGED <<now, clusterVars, store, pods, toDelete>>

-----------------------------------------------------------------------------
(* deleteLoop. *)

Expired(d) == d.ts + GracePeriod <= now

\* Mutant: the request the scan stopped at is taken too.
DeleteTakeOneMore ==
  /\ toDelete = <<>>
  /\ deleteQueue # <<>>
  /\ \E n \in 1..Len(deleteQueue) :
       /\ \A k \in 1..(n - 1) : Expired(deleteQueue[k])
       /\ toDelete' = SubSeq(deleteQueue, 1, n)
       /\ deleteQueue' = SubSeq(deleteQueue, n + 1, Len(deleteQueue))
  /\ UNCHANGED <<now, clusterVars, store, pods, forgetting, lookups>>

\* The requests at the front of the queue whose grace period is over.
DeleteTake ==
  /\ toDelete = <<>>
  /\ deleteQueue # <<>> /\ Expired(deleteQueue[1])
  /\ \E n \in 1..Len(deleteQueue) :
       /\ \A k \in 1..n : Expired(deleteQueue[k])
       /\ n < Len(deleteQueue) => ~Expired(deleteQueue[n + 1])
       /\ toDelete' = SubSeq(deleteQueue, 1, n)
       /\ deleteQueue' = SubSeq(deleteQueue, n + 1, Len(deleteQueue))
  /\ UNCHANGED <<now, clusterVars, store, pods, forgetting, lookups>>

DeleteApply ==
  /\ toDelete # <<>>
  /\ pods' = [i \in Identifiers |->
                IF /\ pods[i] # None
                   /\ \E k \in DOMAIN toDelete : /\ toDelete[k].id = i
                                                 /\ toDelete[k].name = NameOf[pods[i].pod]
                THEN None ELSE pods[i]]
  /\ toDelete' = <<>>
  /\ UNCHANGED <<now, clusterVars, store, deleteQueue, forgetting, lookups>>

-----------------------------------------------------------------------------

Next == \/ \E u \in PodUIDs : \/ Create(u) \/ Finish(u) \/ Delete(u) \/ Resync(u)
                              \/ \E a \in Addresses : Run(u, a)
        \/ Tick
        \/ HandleChange \/ HandleDelete \/ Forget
        \/ DeleteTake \/ DeleteApply

Spec == Init /\ [][Next]_vars

-----------------------------------------------------------------------------
(* Properties. *)

\* The informer has caught up and its goroutine is between events.
CaughtUp == watch = <<>> /\ forgetting = None

\* No other pod, past or present, has the name of u.
NameUnique(u) == \A v \in PodUIDs : NameOf[v] = NameOf[u] => v = u

\* Once the informer has caught up, a running pod is found under its uid, with
\* the attributes of its last change; and, if it is the only pod that ever had
\* its name, under its name too, and under its address, whatever pods had
\* that address before (unless one started in the same second), whatever
\* they do afterwards, and whatever deleteLoop is in the middle of.
RunningPodFound ==
  CaughtUp =>
    \A u \in PodUIDs \ ignored :
      phase[u] = "running" =>
        /\ GetPod(u) = Entry(u)
        /\ NameUnique(u) =>
             /\ GetPod(NameOf[u]) = Entry(u)
             /\ (\A v \in PodUIDs \ {u} : addr[v] = addr[u] => start[v] < start[u])
                  => GetPod(addr[u]) = Entry(u)

\* Once the informer has caught up and deleteLoop has nothing left to do, the
\* table holds only pods that still exist, whatever the order in which pods
\* that shared a name or an address were added and forgotten.  Exceptions:
\* pods whose deletion the informer missed, which handlePodDelete drops, and
\* ignored pods, which getPod hides from forgetPod as well.
NothingLeaks ==
  (CaughtUp /\ deleteQueue = <<>> /\ toDelete = <<>>) =>
    \A i \in Identifiers : pods[i] # None => pods[i].pod \in Here \cup ignored \cup missed

\* deleteLoop takes a pod out of the table only after the grace period of a
\* request for that identifier, so that data which is late still finds its
\* pod; and, if no other pod has its name, only once the pod is gone.
GracePeriodKept ==
  [][\A i \in Identifiers :
       (pods[i] # None /\ pods'[i] = None) =>
         /\ \E k \in DOMAIN toDelete : toDelete[k].id = i /\ Expired(toDelete[k])
         /\ NameUnique(pods[i].pod) => phase[pods[i].pod] = "gone"]_vars

-----------------------------------------------------------------------------
(* What a comment says and the code does not do. *)

\* "make sure we are deleting the same pod and the underlying state (ip<>pod
\* mapping) has not changed": what deleteLoop takes out of the table is the
\* pod for which the deletion was asked.  It compares names, and a pod that
\* replaces a deleted one may have its name (and its address).
SamePodDeleted ==
  [][\A i \in Identifiers :
       (pods[i] # None /\ pods'[i] = None) =>
         \E k \in DOMAIN toDelete : toDelete[k].id = i /\ toDelete[k].pod = pods[i].pod]_vars
==============================================================================
