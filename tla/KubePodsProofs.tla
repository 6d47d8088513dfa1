--------------------------- MODULE KubePodsProofs ---------------------------
(***************************************************************************)
(* RunningPodFound, NothingLeaks and GracePeriodKept for any pods, names,  *)
(* addresses, grace period and number of events on their way.              *)
(***************************************************************************)
EXTENDS KubePods, TLAPS

Phases == {"absent", "pending", "running", "finished", "gone"}
Changes == {"add", "update"}
Deletions == {"delete", "unknown"}
Events == [type : Changes \cup Deletions, entry : Entries]
Requests == [id : Identifiers, name : Names, ts : Nat, pod : PodUIDs]

Elements(s) == {s[k] : k \in DOMAIN s}

PodsTypeOK ==
  /\ now \in Nat
  /\ phase \in [PodUIDs -> Phases]
  /\ addr \in [PodUIDs -> Addresses \cup {None}]
  /\ start \in [PodUIDs -> Nat \cup {None}]
  /\ watch \in Seq(Events)
  /\ store \in [PodUIDs -> Entries \cup {None}]
  /\ pods \in [Identifiers -> Entries \cup {None}]
  /\ deleteQueue \in Seq(Requests) /\ toDelete \in Seq(Requests)
  /\ forgetting \in PodUIDs \cup {None} /\ lookups \in Seq(Identifiers \cup {None})

\* A pod gets an address and a start when it runs, and keeps them.
Placed ==
  \A u \in PodUIDs :
    /\ IF addr[u] = None THEN start[u] = None ELSE start[u] \in Nat
    /\ phase[u] \in {"absent", "pending"} => addr[u] = None
    /\ phase[u] = "running" => addr[u] # None

\* What was said of a pod is still true of it, as far as it goes.
Told(e) ==
  /\ phase[e.pod] # "absent"
  /\ IF e.addr = None THEN e.start = None
     ELSE e.addr = addr[e.pod] /\ e.start = start[e.pod]

IdsOfPod(u) == {addr[u], u, NameOf[u]}

AllTold ==
  /\ \A k \in DOMAIN watch : Told(watch[k].entry)
  /\ \A u \in PodUIDs : store[u] # None => store[u].pod = u /\ Told(store[u])
  /\ \A i \in Identifiers :
       pods[i] # None => /\ Told(pods[i])
                         /\ i \in {pods[i].addr, pods[i].pod, NameOf[pods[i].pod]}

Deleting(u) == \E k \in DOMAIN watch : watch[k].type = "delete" /\ watch[k].entry.pod = u

\* The deletion is the last event of a pod.
DeletionsLast ==
  \A k \in DOMAIN watch : watch[k].type \in Deletions =>
    LET e == watch[k].entry
    IN /\ phase[e.pod] = "gone" /\ e.addr = addr[e.pod]
       /\ watch[k].type = "unknown" => e.pod \in missed
       /\ \A j \in DOMAIN watch : j > k => watch[j].entry.pod # e.pod

\* Nothing is said of a pod once the informer has handled its deletion.
Expected(u) == u \in Here \cup missed \/ Deleting(u)
NothingStale ==
  /\ \A k \in DOMAIN watch : Expected(watch[k].entry.pod)
  /\ \A u \in PodUIDs : store[u] # None => Expected(u)

Pending == Elements(deleteQueue) \cup Elements(toDelete)

\* Deletions are asked for after the pod is gone, under its own identifiers.
RequestsTrue ==
  /\ forgetting # None => /\ phase[forgetting] = "gone" /\ lookups # <<>>
                          /\ Elements(lookups) \subseteq IdsOfPod(forgetting)
  /\ \A r \in Pending : /\ phase[r.pod] = "gone" /\ r.name = NameOf[r.pod]
                        /\ r.id \in IdsOfPod(r.pod)
  /\ \A r \in Elements(toDelete) : Expired(r)

\* What leads to a pod that is gone is about to be deleted.
OnItsWay(i, u) ==
  \/ Expected(u) \/ u \in ignored
  \/ forgetting = u /\ i \in Elements(lookups)
  \/ \E r \in Pending : r.id = i /\ r.name = NameOf[u]
NoLeak == \A i \in Identifiers : pods[i] # None => OnItsWay(i, pods[i].pod)

\* No pod that was at the address of u started as late.
Latest(u) == \A v \in PodUIDs \ {u} : addr[v] = addr[u] => start[v] < start[u]

\* The table has what the informer knows of a pod that is not gone, ...
Tabled(u) ==
  phase[u] # "gone" =>
    /\ pods[u] = store[u]
    /\ NameUnique(u) => pods[NameOf[u]] = store[u]
    /\ NameUnique(u) /\ store[u] # None =>
         (store[u].addr # None /\ Latest(u) => pods[store[u].addr] = store[u])

\* ... and the informer knows, or is about to be told, its last change.
LastKnown(u) ==
  u \in Here =>
    \/ store[u] = Entry(u) /\ \A k \in DOMAIN watch : watch[k].entry.pod # u
    \/ \E k \in DOMAIN watch :
         watch[k].entry = Entry(u) /\ \A j \in DOMAIN watch : j > k => watch[j].entry.pod # u

KubeInv ==
  /\ PodsTypeOK /\ Placed /\ AllTold /\ DeletionsLast /\ NothingStale /\ RequestsTrue /\ NoLeak
  /\ \A u \in PodUIDs : Tabled(u) /\ LastKnown(u)

-----------------------------------------------------------------------------
(* Sequences                                                               *)

LEMMA AppendIndices ==
  ASSUME NEW S, NEW s \in Seq(S), NEW x \in S
  PROVE  /\ Append(s, x) \in Seq(S)
         /\ Len(s) + 1 \in DOMAIN Append(s, x) /\ Append(s, x)[Len(s) + 1] = x
         /\ \A k \in DOMAIN s : k \in DOMAIN Append(s, x) /\ Append(s, x)[k] = s[k] /\ k < Len(s) + 1
         /\ \A k \in DOMAIN Append(s, x) : k \in DOMAIN s \/ k = Len(s) + 1
         /\ \A k \in DOMAIN Append(s, x) : ~(k > Len(s) + 1)
         /\ Elements(Append(s, x)) = Elements(s) \cup {x}
<1>2. /\ Len(s) + 1 \in DOMAIN Append(s, x)
      /\ \A k \in DOMAIN s : k \in DOMAIN Append(s, x) /\ k < Len(s) + 1
      /\ \A k \in DOMAIN Append(s, x) : k \in DOMAIN s \/ k = Len(s) + 1
      /\ \A k \in DOMAIN Append(s, x) : ~(k > Len(s) + 1)
  OBVIOUS
<1>3. Elements(Append(s, x)) = Elements(s) \cup {x}
  BY <1>2 DEF Elements
<1> QED BY <1>3

LEMMA TailIndices ==
  ASSUME NEW S, NEW s \in Seq(S), s # <<>>
  PROVE  /\ Head(s) \in S /\ Tail(s) \in Seq(S) /\ 1 \in DOMAIN s /\ Head(s) = s[1]
         /\ \A k \in DOMAIN Tail(s) : k + 1 \in DOMAIN s /\ Tail(s)[k] = s[k + 1] /\ k + 1 > 1
         /\ \A k \in DOMAIN s : k = 1 \/ (k - 1 \in DOMAIN Tail(s) /\ Tail(s)[k - 1] = s[k])
         /\ \A j, k \in DOMAIN Tail(s) : j > k => j + 1 > k + 1
         /\ \A j \in DOMAIN Tail(s), k \in DOMAIN s : j > k - 1 => j + 1 > k
         /\ Elements(s) = Elements(Tail(s)) \cup {Head(s)}
<1>1. /\ Head(s) \in S /\ Tail(s) \in Seq(S) /\ Head(s) = s[1] /\ Len(s) >= 1
      /\ DOMAIN Tail(s) = 1..(Len(s) - 1) /\ DOMAIN s = 1..Len(s)
      /\ \A k \in 1..(Len(s) - 1) : Tail(s)[k] = s[k + 1]
  OBVIOUS
<1>3. \A k \in DOMAIN s : k = 1 \/ (k - 1 \in DOMAIN Tail(s) /\ Tail(s)[k - 1] = s[k])
  OBVIOUS
<1>4. /\ 1 \in DOMAIN s
      /\ \A j, k \in DOMAIN Tail(s) : j > k => j + 1 > k + 1
      /\ \A j \in DOMAIN Tail(s), k \in DOMAIN s : j > k - 1 => j + 1 > k
  OBVIOUS
<1>5. Elements(s) = Elements(Tail(s)) \cup {Head(s)}
  <2>1. Elements(s) \subseteq Elements(Tail(s)) \cup {Head(s)}
    BY <1>1, <1>3 DEF Elements
  <2>2. Elements(Tail(s)) \cup {Head(s)} \subseteq Elements(s)
    BY DEF Elements
  <2> QED BY <2>1, <2>2
<1> QED BY <1>4, <1>5

LEMMA Cut ==
  ASSUME NEW S, NEW s \in Seq(S), NEW n \in 1..Len(s)
  PROVE  /\ SubSeq(s, 1, n) \in Seq(S) /\ SubSeq(s, n + 1, Len(s)) \in Seq(S)
         /\ Elements(s) = Elements(SubSeq(s, 1, n)) \cup Elements(SubSeq(s, n + 1, Len(s)))
         /\ Elements(SubSeq(s, 1, n)) \subseteq {s[k] : k \in 1..n}
<1>4. \A k \in DOMAIN s : s[k] \in Elements(SubSeq(s, 1, n)) \cup Elements(SubSeq(s, n + 1, Len(s)))
  <2> SUFFICES ASSUME NEW k \in DOMAIN s
               PROVE  s[k] \in Elements(SubSeq(s, 1, n)) \cup Elements(SubSeq(s, n + 1, Len(s)))
    OBVIOUS
  <2>1. CASE k \in 1..n
    BY <2>1 DEF Elements
  <2>2. CASE k - n \in 1..(Len(s) - n) /\ s[k] = s[n + (k - n)]
    BY <2>2 DEF Elements
  <2> QED BY <2>1, <2>2
<1>5. Elements(SubSeq(s, 1, n)) \subseteq {s[k] : k \in 1..n}
  BY DEF Elements
<1>6. Elements(SubSeq(s, n + 1, Len(s))) \subseteq Elements(s)
  BY DEF Elements
<1>7. {s[k] : k \in 1..n} \subseteq Elements(s)
  BY DEF Elements
<1>8. Elements(s) \subseteq Elements(SubSeq(s, 1, n)) \cup Elements(SubSeq(s, n + 1, Len(s)))
  BY <1>4, Zenon DEF Elements
<1> QED BY <1>5, <1>6, <1>7, <1>8

LEMMA NothingIn == Elements(<<>>) = {}
BY DEF Elements

LEMMA TypedElements ==
  ASSUME PodsTypeOK
  PROVE  /\ \A k \in DOMAIN watch : watch[k] \in Events /\ watch[k].entry \in Entries
         /\ \A k \in DOMAIN watch : watch[k].entry.pod \in PodUIDs
         /\ \A r \in Elements(deleteQueue) \cup Elements(toDelete) : r \in Requests /\ r.pod \in PodUIDs
         /\ Elements(lookups) \subseteq Identifiers \cup {None}
<1>1. \A k \in DOMAIN watch : watch[k] \in Events
  BY DEF PodsTypeOK
<1>2. \A r \in Elements(deleteQueue) \cup Elements(toDelete) : r \in Requests
  BY DEF PodsTypeOK, Elements
<1>3. Elements(lookups) \subseteq Identifiers \cup {None}
  BY DEF PodsTypeOK, Elements
<1>4. \A d \in Events : d.entry \in Entries
  BY DEF Events
<1>5. \A d \in Entries : d.pod \in PodUIDs
  BY DEF Entries
<1>6. \A r \in Requests : r.pod \in PodUIDs
  BY DEF Requests
<1> QED BY <1>1, <1>2, <1>3, <1>4, <1>5, <1>6, Zenon

-----------------------------------------------------------------------------
(* One lemma for each kind of step.                                        *)

\* Uids, names, addresses and None are told apart.
LEMMA Kinds ==
  /\ \A u \in PodUIDs : u # None /\ u \in Identifiers /\ u \notin Names /\ u \notin Addresses
  /\ \A u \in PodUIDs : /\ NameOf[u] \in Names /\ NameOf[u] # None /\ NameOf[u] \in Identifiers
                        /\ NameOf[u] \notin PodUIDs /\ NameOf[u] \notin Addresses
  /\ \A a \in Addresses : a # None /\ a \in Identifiers /\ a \notin PodUIDs /\ a \notin Names
  /\ \A e \in Entries : e # None
  /\ \A n \in Nat : n # None
  /\ None \notin Identifiers
BY PodsAssumption DEF Identifiers

LEMMA InitKube == Init => KubeInv
<1> SUFFICES ASSUME Init PROVE KubeInv
  OBVIOUS
<1>1. PodsTypeOK
  BY DEF Init, PodsTypeOK, Phases
<1>2. Placed /\ AllTold /\ DeletionsLast /\ NothingStale /\ NoLeak
  BY DEF Init, Placed, AllTold, DeletionsLast, NothingStale, NoLeak
<1>3. RequestsTrue
  BY NothingIn, Zenon DEF Init, RequestsTrue, Pending
<1>4. \A u \in PodUIDs : Tabled(u) /\ LastKnown(u)
  BY Kinds, Zenon DEF Init, Tabled, LastKnown, Here
<1> QED BY <1>1, <1>2, <1>3, <1>4 DEF KubeInv

\* Create, Run, Finish and Delete: u changes and the informer is to be told.
Moves(u, type) ==
  /\ Changed(u, type) /\ Placed'
  /\ phase' \in [PodUIDs -> Phases]
  /\ addr' \in [PodUIDs -> Addresses \cup {None}] /\ start' \in [PodUIDs -> Nat \cup {None}]
  /\ \A v \in PodUIDs \ {u} : phase'[v] = phase[v] /\ addr'[v] = addr[v] /\ start'[v] = start[v]
  /\ addr[u] # None => addr'[u] = addr[u] /\ start'[u] = start[u]
  /\ phase[u] # "gone" /\ phase'[u] # "absent" /\ (type \in Deletions <=> phase'[u] = "gone")
  /\ ignored' = ignored /\ missed \subseteq missed' /\ (type = "unknown" => u \in missed')

LEMMA MovesRequests ==
  ASSUME PodsTypeOK, RequestsTrue, NEW u \in PodUIDs, NEW type, Moves(u, type)
  PROVE  RequestsTrue' /\ Pending' = Pending /\ Elements(lookups)' = Elements(lookups)
<1>1. /\ Pending' = Pending /\ Elements(toDelete)' = Elements(toDelete) /\ now' = now
      /\ Elements(lookups)' = Elements(lookups) /\ forgetting' = forgetting /\ lookups' = lookups
  BY Zenon DEF Moves, Changed, Pending
<1>2. \A v \in PodUIDs : phase[v] = "gone" => phase'[v] = "gone" /\ IdsOfPod(v)' = IdsOfPod(v)
  BY Zenon DEF Moves, IdsOfPod
<1>3. forgetting # None => forgetting \in PodUIDs
  BY Zenon DEF PodsTypeOK
<1>4. \A r \in Pending : r.pod \in PodUIDs
  BY TypedElements, Zenon DEF Pending
<1> QED BY <1>1, <1>2, <1>3, <1>4, Zenon DEF RequestsTrue, Expired

LEMMA MovesTabled ==
  ASSUME NEW u \in PodUIDs, NEW type, Moves(u, type), NEW v \in PodUIDs, AllTold, Tabled(v)
  PROVE  Tabled(v)'
<1>1. store' = store /\ pods' = pods
  BY Zenon DEF Moves, Changed
<1>2. phase'[v] # "gone" => phase[v] # "gone"
  BY Zenon DEF Moves
<1>3. ASSUME store[v] # None, store[v].addr # None, Latest(v)' PROVE Latest(v)
  <2>1. addr[v] # None
    BY <1>3, Zenon DEF AllTold, Told
  <2>2. /\ addr'[v] = addr[v] /\ start'[v] = start[v]
        /\ \A w \in PodUIDs : addr[w] # None => addr'[w] = addr[w] /\ start'[w] = start[w]
    BY <2>1, Zenon DEF Moves
  <2> QED BY <1>3, <2>1, <2>2, Zenon DEF Latest
<1> QED BY <1>1, <1>2, <1>3, Zenon DEF Tabled

LEMMA MovesKube ==
  ASSUME KubeInv, NEW u \in PodUIDs, NEW type \in Changes \cup Deletions, Moves(u, type)
  PROVE  KubeInv'
<1>1. /\ phase' \in [PodUIDs -> Phases] /\ Placed'
      /\ addr' \in [PodUIDs -> Addresses \cup {None}] /\ start' \in [PodUIDs -> Nat \cup {None}]
  BY Zenon DEF Moves
<1>2. \A v \in PodUIDs \ {u} : phase'[v] = phase[v] /\ addr'[v] = addr[v] /\ start'[v] = start[v]
  BY Zenon DEF Moves
<1>3. addr[u] # None => addr'[u] = addr[u] /\ start'[u] = start[u]
  BY Zenon DEF Moves
<1>4. phase[u] # "gone" /\ phase'[u] # "absent" /\ (type \in Deletions <=> phase'[u] = "gone")
  BY Zenon DEF Moves
<1>5. ignored' = ignored /\ missed \subseteq missed' /\ (type = "unknown" => u \in missed')
  BY Zenon DEF Moves
<1>6. PICK e \in Entries, x \in Events :
        /\ e = Entry(u)' /\ x = [type |-> type, entry |-> Entry(u)']
        /\ x.type = type /\ x.entry = e
        /\ e.pod = u /\ e.addr = addr'[u] /\ e.start = start'[u]
  <2>1. Entry(u)' \in Entries
    BY <1>1, <1>4, Zenon DEF Entry, Entries, Phases
  <2>2. [type |-> type, entry |-> Entry(u)'] \in Events
    BY <2>1 DEF Events
  <2> QED BY <2>1, <2>2, Zenon DEF Entry
<1>7. /\ watch' = Append(watch, x) /\ now' = now /\ store' = store /\ pods' = pods
      /\ deleteQueue' = deleteQueue /\ forgetting' = forgetting /\ lookups' = lookups
      /\ toDelete' = toDelete
  BY <1>6, Zenon DEF Moves, Changed
<1>8. e.pod = u /\ e.addr = addr'[u] /\ e.start = start'[u]
  BY <1>6, Zenon
<1>9. x.type = type /\ x.entry = e
  BY <1>6, Zenon
<1>11. PICK n : /\ watch' \in Seq(Events) /\ n \in DOMAIN watch' /\ watch'[n] = x
                /\ \A k \in DOMAIN watch : k \in DOMAIN watch' /\ watch'[k] = watch[k]
                /\ \A k \in DOMAIN watch' : k \in DOMAIN watch \/ k = n
                /\ \A k \in DOMAIN watch' : ~(k > n)
  <2>1. watch \in Seq(Events)
    BY Zenon DEF KubeInv, PodsTypeOK
  <2>2. PICK n : n = Len(watch) + 1
    OBVIOUS
  <2>3. /\ watch' \in Seq(Events) /\ n \in DOMAIN watch' /\ watch'[n] = x
        /\ \A k \in DOMAIN watch : k \in DOMAIN watch' /\ watch'[k] = watch[k]
        /\ \A k \in DOMAIN watch' : k \in DOMAIN watch \/ k = n
        /\ \A k \in DOMAIN watch' : ~(k > n)
    BY <1>7, <2>1, <2>2
  <2> QED BY <2>3
<1>12. /\ \A k \in DOMAIN watch : watch[k] \in Events /\ watch[k].entry \in Entries
      /\ \A k \in DOMAIN watch : watch[k].entry.pod \in PodUIDs
  BY TypedElements, Zenon DEF KubeInv
<1>13. PodsTypeOK'
  BY <1>1, <1>7 DEF KubeInv, PodsTypeOK
<1>14. ASSUME NEW d \in Entries, Told(d) PROVE Told(d)'
  BY <1>2, <1>3, <1>4, <1>14 DEF Entries, Told
<1>15. Told(e)'
  BY <1>1, <1>4, <1>8, Zenon DEF Told, Placed
<1>16. AllTold'
  <2>2. \A k \in DOMAIN watch' : Told(watch[k].entry)'
    BY <1>9, <1>11, <1>12, <1>14, <1>15, Zenon DEF KubeInv, AllTold
  <2> QED BY <1>7, <1>14, <2>2 DEF KubeInv, AllTold, PodsTypeOK
<1>17. DeletionsLast'
  BY <1>2, <1>4, <1>8, <1>9, <1>11, <1>12, <1>5 DEF KubeInv, DeletionsLast
<1>18. Expected(u)'
  BY <1>1, <1>4, <1>8, <1>9, <1>11, <1>5 DEF Expected, Here, Phases, Deleting, Deletions
<1>19. ASSUME NEW v \in PodUIDs, Expected(v) PROVE Expected(v)'
  BY <1>2, <1>11, <1>18, <1>19, <1>5, Zenon DEF Expected, Here, Deleting
<1>20. NothingStale'
  BY <1>7, <1>8, <1>9, <1>12, <1>18, <1>19 DEF KubeInv, NothingStale
<1>21. RequestsTrue' /\ Pending' = Pending /\ Elements(lookups)' = Elements(lookups)
  BY MovesRequests DEF KubeInv
<1>22. NoLeak'
  <2>1. NoLeak /\ forgetting' = forgetting /\ pods' = pods
    BY <1>7 DEF KubeInv
  <2>2. \A i \in Identifiers : pods[i] # None => pods[i].pod \in PodUIDs
    BY Zenon DEF KubeInv, PodsTypeOK, Entries
  <2> QED BY <1>5, <1>19, <1>21, <2>1, <2>2, Zenon DEF NoLeak, OnItsWay
<1>23. ASSUME NEW v \in PodUIDs PROVE Tabled(v)'
  BY MovesTabled DEF KubeInv
<1>24. ASSUME NEW v \in PodUIDs PROVE LastKnown(v)'
  <2> SUFFICES ASSUME v \in Here' PROVE LastKnown(v)'
    BY Zenon DEF LastKnown
  <2>1. CASE v = u
    <3>1. watch'[n].entry = Entry(v)'
      BY <1>6, <1>11, <2>1, Zenon
    <3> QED BY <1>11, <3>1, Zenon DEF LastKnown
  <2>2. CASE v # u
    <3>1. v \in Here /\ LastKnown(v) /\ Entry(v)' = Entry(v)
      BY <1>2, <2>2, Zenon DEF KubeInv, Here, Entry
    <3>2. \A k \in DOMAIN watch' : k \in DOMAIN watch \/ watch'[k].entry.pod # v
      BY <1>8, <1>9, <1>11, <2>2, Zenon
    <3>3. CASE store[v] = Entry(v) /\ \A k \in DOMAIN watch : watch[k].entry.pod # v
      BY <1>7, <3>1, <3>2, <3>3 DEF LastKnown
    <3>4. CASE \E k \in DOMAIN watch : watch[k].entry = Entry(v) /\
                 \A j \in DOMAIN watch : j > k => watch[j].entry.pod # v
      BY <1>11, <3>1, <3>2, <3>4 DEF LastKnown
    <3> QED BY <3>1, <3>3, <3>4, Zenon DEF LastKnown
  <2> QED BY <2>1, <2>2
<1> QED BY <1>1, <1>13, <1>16, <1>17, <1>20, <1>21, <1>22, <1>23, <1>24, Zenon DEF KubeInv

LEMMA ClusterKube ==
  ASSUME KubeInv, NEW u \in PodUIDs,
         Create(u) \/ Finish(u) \/ Delete(u) \/ \E a \in Addresses : Run(u, a)
  PROVE  KubeInv'
<1>2. /\ phase \in [PodUIDs -> Phases] /\ addr \in [PodUIDs -> Addresses \cup {None}]
      /\ start \in [PodUIDs -> Nat \cup {None}] /\ now \in Nat
  BY Zenon DEF KubeInv, PodsTypeOK
<1>3. CASE Create(u)
  BY <1>2, <1>3, MovesKube, Zenon DEF KubeInv, Moves, Create, Placed, Phases, Changes, Deletions
<1>4. CASE Finish(u)
  BY <1>2, <1>4, MovesKube, Zenon DEF KubeInv, Moves, Finish, Placed, Phases, Changes, Deletions
<1>5. CASE Delete(u)
  BY <1>2, <1>5, MovesKube, Zenon DEF KubeInv, Moves, Delete, Here, Deletions, Placed, Phases
<1>6. ASSUME NEW a \in Addresses, Run(u, a) PROVE KubeInv'
  BY <1>2, <1>6, MovesKube, Kinds DEF KubeInv, Moves, Run, Placed, Phases, Changes, Deletions
<1> QED BY <1>3, <1>4, <1>5, <1>6

\* What addOrUpdatePod does to the table when what it is told is true.
LEMMA AddedTable ==
  ASSUME KubeInv, NEW e \in Entries, Told(e)
  PROVE  /\ Added(e) \in [Identifiers -> Entries \cup {None}]
         /\ \A i \in Identifiers : Added(e)[i] # pods[i] =>
              Added(e)[i] = e /\ i \in {e.addr, e.pod, NameOf[e.pod]}
         /\ Added(e)[e.pod] = e
         /\ NameUnique(e.pod) => Added(e)[NameOf[e.pod]] = e
         /\ e.addr # None /\ Latest(e.pod) => Added(e)[e.addr] = e
         /\ \A u \in PodUIDs \ {e.pod} :
              /\ Added(e)[u] = pods[u]
              /\ NameUnique(u) => Added(e)[NameOf[u]] = pods[NameOf[u]]
              /\ \A d \in Entries : /\ d.pod = u /\ Told(d) /\ d.addr # None
                                    /\ Latest(u) /\ pods[d.addr] = d
                                    => Added(e)[d.addr] = d
<1>1. /\ pods \in [Identifiers -> Entries \cup {None}] /\ start \in [PodUIDs -> Nat \cup {None}]
      /\ \A i \in Identifiers : pods[i] # None =>
           /\ Told(pods[i]) /\ i \in {pods[i].addr, pods[i].pod, NameOf[pods[i].pod]}
      /\ Placed
  BY Zenon DEF KubeInv, PodsTypeOK, AllTold
<1>2. /\ e.pod \in PodUIDs /\ e.addr \in Addresses \cup {None} /\ e.start \in Nat \cup {None}
      /\ \A d \in Entries : d.pod \in PodUIDs /\ d.addr \in Addresses \cup {None}
  BY DEF Entries
<1>3. /\ e.addr # None => e.addr = addr[e.pod] /\ e.start = start[e.pod] /\ e.start \in Nat
      /\ e.addr = None => e.start = None
  BY <1>2, Zenon DEF KubeInv, Told, Placed
<1>4. Added(e) \in [Identifiers -> Entries \cup {None}]
  BY <1>1 DEF Added
<1>5. \A i \in Identifiers : Added(e)[i] = e \/ Added(e)[i] = pods[i]
  BY Zenon DEF Added
<1>6. \A i \in Identifiers : i \notin {e.addr, e.pod, NameOf[e.pod]} => Added(e)[i] = pods[i]
  BY DEF Added
\* The entry of the same pod is replaced.
<1>7. ASSUME NEW i \in Identifiers, i \in {e.addr, e.pod, NameOf[e.pod]},
             pods[i] # None => pods[i].pod = e.pod
      PROVE  Added(e)[i] = e
  BY <1>1, <1>3, <1>7 DEF Added, Told
<1>8. Added(e)[e.pod] = e
  BY <1>1, <1>2, <1>7, Kinds
<1>9. NameUnique(e.pod) => Added(e)[NameOf[e.pod]] = e
  BY <1>1, <1>2, <1>7, Kinds DEF NameUnique
<1>10. e.addr # None /\ Latest(e.pod) => Added(e)[e.addr] = e
  <2> SUFFICES ASSUME e.addr # None, Latest(e.pod) PROVE Added(e)[e.addr] = e
    OBVIOUS
  <2>1. e.addr \in Identifiers /\ e.addr \in Addresses
    BY <1>2, Kinds, Zenon
  <2>2. CASE pods[e.addr] # None /\ pods[e.addr].pod # e.pod
    <3> DEFINE d == pods[e.addr]
    <3>1. d \in Entries /\ d.pod \in PodUIDs
      BY <1>1, <1>2, <2>1, <2>2, Zenon
    <3>2. d.addr = e.addr /\ Told(d)
      BY <1>1, <2>1, <3>1, Kinds, Zenon
    <3>3. d.start = start[d.pod] /\ addr[d.pod] = addr[e.pod]
      BY <3>2, Zenon DEF Told
    <3>4. start[d.pod] < start[e.pod]
      BY <2>2, <3>1, <3>3, Zenon DEF Latest
    <3>5. start[d.pod] \in Nat
      BY <3>1, <3>3, <1>3, Zenon DEF KubeInv, Placed
    <3>6. ~(e.start < d.start)
      BY <1>3, <3>3, <3>4, <3>5
    <3> HIDE DEF d
    <3> QED BY <2>1, <3>6, Zenon DEF Added, d
  <2> QED BY <1>7, <2>1, <2>2, Zenon
<1>11. ASSUME NEW u \in PodUIDs \ {e.pod} PROVE Added(e)[u] = pods[u]
  BY <1>2, <1>6, Kinds
<1>12. ASSUME NEW u \in PodUIDs \ {e.pod}, NameUnique(u) PROVE Added(e)[NameOf[u]] = pods[NameOf[u]]
  BY <1>2, <1>6, <1>12, Kinds, Zenon DEF NameUnique
<1>13. ASSUME NEW u \in PodUIDs \ {e.pod}, NEW d \in Entries, d.pod = u, Told(d), d.addr # None,
              Latest(u), pods[d.addr] = d
       PROVE  Added(e)[d.addr] = d
  BY <1>2, <1>13, Kinds DEF KubeInv, Told, Latest, Placed, Added
<1> QED BY <1>4, <1>5, <1>6, <1>8, <1>9, <1>10, <1>11, <1>12, <1>13, Zenon

\* forgetPod and deleteLoop leave the cluster, the informer's events and its
\* store alone: what they keep needs no further look.
LEMMA InformerUnchanged ==
  ASSUME KubeInv, UNCHANGED <<phase, addr, start, ignored, missed, watch, store>>
  PROVE  /\ Placed' /\ DeletionsLast' /\ NothingStale' /\ \A v \in PodUIDs : LastKnown(v)'
         /\ \A d : Told(d)' <=> Told(d)
         /\ \A v : Expected(v)' <=> Expected(v)
         /\ \A v : Latest(v)' <=> Latest(v)
         /\ \A v : IdsOfPod(v)' = IdsOfPod(v)
<1>1. Placed' /\ DeletionsLast'
  BY DEF KubeInv, Placed, DeletionsLast
<1>2. (\A d : Told(d)' <=> Told(d)) /\ (\A v : Latest(v)' <=> Latest(v)) /\ \A v : IdsOfPod(v)' = IdsOfPod(v)
  BY Zenon DEF Told, Latest, IdsOfPod
<1>3. \A v : Expected(v)' <=> Expected(v)
  BY DEF Expected, Deleting, Here
<1>4. NothingStale'
  BY <1>3 DEF KubeInv, NothingStale
<1>5. \A v \in PodUIDs : LastKnown(v)'
  BY DEF KubeInv, LastKnown, Here, Entry
<1> QED BY <1>1, <1>2, <1>3, <1>4, <1>5, Zenon

\* Neither do the entries, as long as the table stays as it is.
LEMMA TableUnchanged ==
  ASSUME KubeInv, UNCHANGED <<phase, addr, start, ignored, missed, watch, store, pods>>
  PROVE  AllTold' /\ \A v \in PodUIDs : Tabled(v)'
<1>1. (\A d : Told(d)' <=> Told(d)) /\ \A v : Latest(v)' <=> Latest(v)
  BY InformerUnchanged, Zenon
<1>2. AllTold'
  BY <1>1, Zenon DEF KubeInv, AllTold
<1>3. \A v \in PodUIDs : Tabled(v)'
  BY <1>1, Zenon DEF KubeInv, Tabled
<1> QED BY <1>2, <1>3

\* The invariants on requests depend on nothing that the informer changes.
LEMMA RequestsKept ==
  ASSUME RequestsTrue, UNCHANGED <<now, phase, addr, deleteQueue, forgetting, lookups, toDelete>>
  PROVE  RequestsTrue' /\ Pending' = Pending /\ Elements(lookups)' = Elements(lookups)
<1>1. Pending' = Pending /\ Elements(lookups)' = Elements(lookups) /\ Elements(toDelete)' = Elements(toDelete)
  BY DEF Pending
<1>2. \A r : Expired(r)' = Expired(r)
  BY DEF Expired
<1>3. IdsOfPod(forgetting)' = IdsOfPod(forgetting) /\ \A u : IdsOfPod(u)' = IdsOfPod(u)
  BY DEF IdsOfPod
<1> QED BY <1>1, <1>2, <1>3, Zenon DEF RequestsTrue

\* The table and what the informer knows of a pod go together.
LEMMA TabledAfterAdded ==
  ASSUME KubeInv, NEW e \in Entries, Told(e), pods' = Added(e),
         phase' = phase, addr' = addr, start' = start,
         store'[e.pod] = e, \A v \in PodUIDs \ {e.pod} : store'[v] = store[v]
  PROVE  \A v \in PodUIDs : Tabled(v)'
<1> SUFFICES ASSUME NEW v \in PodUIDs, phase[v] # "gone" PROVE Tabled(v)'
  BY Zenon DEF Tabled
<1>1. Tabled(v) /\ store \in [PodUIDs -> Entries \cup {None}] /\ e.pod \in PodUIDs /\ e # None
  BY Kinds, Zenon DEF KubeInv, PodsTypeOK, Entries
<1>2. Latest(v)' <=> Latest(v)
  BY DEF Latest
<1>3. CASE v = e.pod
  BY <1>2, <1>3, AddedTable DEF Tabled
<1>4. CASE v # e.pod
  BY <1>1, <1>2, AddedTable DEF KubeInv, AllTold, Tabled
<1> QED BY <1>3, <1>4

\* The informer hands out its first event, about e, and keeps x of the pod.
Handled(e, x) ==
  /\ watch # <<>> /\ e = watch[1].entry /\ watch' = Tail(watch)
  /\ store' = [store EXCEPT ![e.pod] = x]
  /\ phase' = phase /\ addr' = addr /\ start' = start /\ missed' = missed

LEMMA HandledKube ==
  ASSUME KubeInv, NEW e \in Entries, NEW x, Handled(e, x),
         IF watch[1].type \in Deletions THEN x = None ELSE x = e
  PROVE  /\ watch' \in Seq(Events) /\ store' \in [PodUIDs -> Entries \cup {None}]
         /\ store'[e.pod] = x /\ \A v \in PodUIDs \ {e.pod} : store'[v] = store[v]
         /\ Placed' /\ DeletionsLast' /\ NothingStale' /\ \A v \in PodUIDs : LastKnown(v)'
         /\ \A k \in DOMAIN watch' : Told(watch[k].entry)'
         /\ \A v \in PodUIDs : store'[v] # None => store'[v].pod = v /\ Told(store[v])'
         /\ \A d : Told(d)' <=> Told(d)
         /\ Told(e) /\ Expected(e.pod) /\ e.pod \in PodUIDs
         /\ x # e => phase[e.pod] = "gone" /\ e.addr = addr[e.pod]
         /\ \A v : v # e.pod \/ watch[1].type # "delete" => (Expected(v) => Expected(v)')
<1>1. /\ AllTold /\ NothingStale /\ watch \in Seq(Events) /\ watch # <<>>
      /\ store \in [PodUIDs -> Entries \cup {None}]
  BY Zenon DEF KubeInv, PodsTypeOK, Handled
<1>2. /\ watch' \in Seq(Events) /\ 1 \in DOMAIN watch
      /\ \A k \in DOMAIN watch' : k + 1 \in DOMAIN watch /\ watch'[k] = watch[k + 1] /\ k + 1 > 1
      /\ \A k \in DOMAIN watch : k = 1 \/ (k - 1 \in DOMAIN watch' /\ watch'[k - 1] = watch[k])
      /\ \A j, k \in DOMAIN watch' : j > k => j + 1 > k + 1
      /\ \A j \in DOMAIN watch', k \in DOMAIN watch : j > k - 1 => j + 1 > k
  BY <1>1, TailIndices DEF Handled
<1>3. phase' = phase /\ addr' = addr /\ start' = start /\ missed' = missed /\ e = watch[1].entry
  BY Zenon DEF Handled
<1>4. Here' = Here /\ (\A v : Entry(v)' = Entry(v)) /\ (\A d : Told(d)' <=> Told(d))
  BY <1>3, Zenon DEF Here, Entry, Told
<1>5. Told(e) /\ Expected(e.pod) /\ e.pod \in PodUIDs
  BY <1>2, <1>3, Zenon DEF KubeInv, AllTold, NothingStale, Entries
<1>6. /\ store' \in [PodUIDs -> Entries \cup {None}] /\ store'[e.pod] = x
      /\ \A v \in PodUIDs \ {e.pod} : store'[v] = store[v]
  BY <1>1, <1>5, Zenon DEF Handled
<1>8. x # e => /\ phase[e.pod] = "gone" /\ e.addr = addr[e.pod]
               /\ \A j \in DOMAIN watch : j > 1 => watch[j].entry.pod # e.pod
  BY <1>2, <1>3 DEF KubeInv, DeletionsLast
<1>9. Placed' /\ DeletionsLast'
  BY <1>2, <1>3 DEF KubeInv, Placed, DeletionsLast
<1>10. /\ \A k \in DOMAIN watch' : Told(watch[k].entry)'
       /\ \A v \in PodUIDs : store'[v] # None => store'[v].pod = v /\ Told(store[v])'
  <2>1. \A k \in DOMAIN watch' : Told(watch[k].entry)'
    BY <1>2, <1>4 DEF KubeInv, AllTold
  <2>2. \A v \in PodUIDs : store'[v] # None => store'[v].pod = v /\ Told(store[v])'
    BY <1>4, <1>5, <1>6, Zenon DEF KubeInv, AllTold
  <2> QED BY <2>1, <2>2
<1>11. \A v : v # e.pod \/ watch[1].type # "delete" => (Expected(v) => Expected(v)')
  <2>1. ASSUME NEW v, v # e.pod \/ watch[1].type # "delete", Deleting(v) PROVE Deleting(v)'
    BY <1>2, <1>3, <2>1 DEF Deleting
  <2> QED BY <1>3, <1>4, <2>1, Zenon DEF Expected
<1>12. NothingStale'
  <2>1. \A k \in DOMAIN watch' : watch'[k].entry.pod # e.pod \/ watch[1].type # "delete"
    BY <1>2, <1>3 DEF KubeInv, DeletionsLast, Deletions
  <2>2. \A k \in DOMAIN watch' : Expected(watch[k].entry.pod)'
    BY <1>2, <1>11, <2>1, Zenon DEF KubeInv, NothingStale
  <2>3. \A v \in PodUIDs : store'[v] # None => Expected(v)'
    BY <1>5, <1>6, <1>11, Zenon DEF KubeInv, NothingStale, Deletions
  <2> QED BY <2>2, <2>3 DEF NothingStale
<1>13. ASSUME NEW v \in PodUIDs PROVE LastKnown(v)'
  <2> SUFFICES ASSUME v \in Here PROVE LastKnown(v)'
    BY <1>4, Zenon DEF LastKnown
  <2>1. LastKnown(v) /\ Entry(v)' = Entry(v) /\ Entry(v).pod = v /\ phase[v] # "gone"
    BY <1>4, Zenon DEF KubeInv, Entry, Here
  <2>2. v # e.pod => store'[v] = store[v]
    BY <1>6
  <2>3. CASE store[v] = Entry(v) /\ \A k \in DOMAIN watch : watch[k].entry.pod # v
    BY <1>2, <1>3, <2>1, <2>2, <2>3 DEF LastKnown
  <2>4. ASSUME NEW k \in DOMAIN watch, watch[k].entry = Entry(v),
               \A j \in DOMAIN watch : j > k => watch[j].entry.pod # v
        PROVE  LastKnown(v)'
    <3>1. \A j \in DOMAIN watch' : j > k - 1 => watch'[j].entry.pod # v
      BY <1>2, <2>4
    <3>2. CASE k = 1
      <4>1. store'[v] = Entry(v)
        BY <1>3, <1>6, <1>8, <2>1, <2>4, <3>2, Zenon
      <4>2. \A j \in DOMAIN watch' : watch'[j].entry.pod # v
        BY <1>2, <2>4, <3>2
      <4> QED BY <2>1, <4>1, <4>2, Zenon DEF LastKnown
    <3>3. CASE k # 1
      BY <1>2, <2>1, <2>4, <3>1, <3>3, Zenon DEF LastKnown
    <3> QED BY <3>2, <3>3
  <2> QED BY <2>3, <2>4, Zenon DEF KubeInv, LastKnown
<1> QED BY <1>2, <1>4, <1>5, <1>6, <1>8, <1>9, <1>10, <1>11, <1>12, <1>13, Zenon

\* addOrUpdatePod with an entry that is true of a pod that is still expected.
Recorded(e) ==
  /\ pods' = Added(e) /\ store'[e.pod] = e /\ \A v \in PodUIDs \ {e.pod} : store'[v] = store[v]
  /\ now' = now /\ phase' = phase /\ addr' = addr /\ start' = start /\ ignored' = ignored
  /\ UNCHANGED <<deleteQueue, forgetting, lookups, toDelete>>

LEMMA RecordedKube ==
  ASSUME KubeInv, NEW e \in Entries, Recorded(e), Told(e), Expected(e.pod),
         watch' \in Seq(Events), store' \in [PodUIDs -> Entries \cup {None}],
         \A k \in DOMAIN watch' : Told(watch[k].entry)',
         \A v \in PodUIDs : store'[v] # None => store'[v].pod = v /\ Told(store[v])',
         \A v : Expected(v) => Expected(v)'
  PROVE  PodsTypeOK' /\ AllTold' /\ RequestsTrue' /\ NoLeak' /\ \A v \in PodUIDs : Tabled(v)'
<1>1. /\ pods' \in [Identifiers -> Entries \cup {None}]
      /\ \A i \in Identifiers : pods'[i] # pods[i] => pods'[i] = e /\ i \in {e.addr, e.pod, NameOf[e.pod]}
  BY AddedTable, Zenon DEF Recorded
<1>2. PodsTypeOK'
  BY <1>1, Zenon DEF KubeInv, PodsTypeOK, Recorded
<1>3. \A d : Told(d)' <=> Told(d)
  BY Zenon DEF Recorded, Told
<1>4. AllTold'
  BY <1>1, <1>3, Zenon DEF KubeInv, AllTold
<1>5. RequestsTrue' /\ Pending' = Pending /\ Elements(lookups)' = Elements(lookups)
  BY RequestsKept, Zenon DEF KubeInv, Recorded
<1>6. ignored' = ignored /\ forgetting' = forgetting
  BY Zenon DEF Recorded
<1>7. NoLeak'
  BY <1>1, <1>5, <1>6 DEF KubeInv, NoLeak, OnItsWay
<1>8. \A v \in PodUIDs : Tabled(v)'
  BY TabledAfterAdded, Zenon DEF Recorded
<1> QED BY <1>2, <1>4, <1>5, <1>7, <1>8, Zenon

LEMMA HandleChangeKube ==
  ASSUME KubeInv, HandleChange
  PROVE  KubeInv'
<1>1. watch # <<>> /\ watch[1].type \in {"add", "update"}
  BY DEF HandleChange
<1>2. PICK e \in Entries : e = watch[1].entry /\ Head(watch) = watch[1]
  BY <1>1, TypedElements DEF KubeInv, PodsTypeOK
<1>3. Handled(e, e) /\ watch[1].type # "delete" /\ watch[1].type \notin Deletions
  <2>1. Handled(e, e)
    BY <1>2, Zenon DEF HandleChange, Handled
  <2> QED BY <1>1, <2>1 DEF Deletions
<1>4. /\ watch' \in Seq(Events) /\ store' \in [PodUIDs -> Entries \cup {None}]
      /\ store'[e.pod] = e /\ \A v \in PodUIDs \ {e.pod} : store'[v] = store[v]
      /\ Placed' /\ DeletionsLast' /\ NothingStale' /\ \A v \in PodUIDs : LastKnown(v)'
  BY <1>3, HandledKube, Zenon
<1>5. /\ \A k \in DOMAIN watch' : Told(watch[k].entry)'
      /\ \A v \in PodUIDs : store'[v] # None => store'[v].pod = v /\ Told(store[v])'
  BY <1>3, HandledKube, Zenon
<1>6. Told(e) /\ Expected(e.pod) /\ \A v : Expected(v) => Expected(v)'
  BY <1>3, HandledKube, Zenon
<1>7. Recorded(e)
  BY <1>2, <1>4, Zenon DEF HandleChange, Recorded
<1> QED BY <1>4, <1>5, <1>6, <1>7, RecordedKube, Zenon DEF KubeInv

\* resync hands the store to the handler again.
LEMMA ResyncKube ==
  ASSUME KubeInv, NEW u \in PodUIDs, Resync(u)
  PROVE  KubeInv'
<1>1. UNCHANGED <<phase, addr, start, ignored, missed, watch, store>> /\ store[u] # None
  BY Zenon DEF Resync, clusterVars
<1>2. PICK e \in Entries : e = store[u]
  BY <1>1, Zenon DEF KubeInv, PodsTypeOK
<1>3. e.pod = u /\ Told(e) /\ Expected(e.pod)
  BY <1>1, <1>2 DEF KubeInv, AllTold, NothingStale
<1>4. Recorded(e)
  BY <1>2, <1>3, Zenon DEF Resync, Recorded, clusterVars
<1>5. /\ Placed' /\ DeletionsLast' /\ NothingStale' /\ \A v \in PodUIDs : LastKnown(v)'
      /\ \A d : Told(d)' <=> Told(d)
      /\ \A v : Expected(v)' <=> Expected(v)
  BY <1>1, InformerUnchanged, Zenon
<1>6. /\ watch' \in Seq(Events) /\ store' \in [PodUIDs -> Entries \cup {None}]
      /\ \A k \in DOMAIN watch' : Told(watch[k].entry)'
      /\ \A v \in PodUIDs : store'[v] # None => store'[v].pod = v /\ Told(store[v])'
  BY <1>1, <1>5, Zenon DEF KubeInv, PodsTypeOK, AllTold
<1> QED BY <1>3, <1>4, <1>5, <1>6, RecordedKube, Zenon DEF KubeInv

-----------------------------------------------------------------------------
(* The deletion of a pod, forgetPod and deleteLoop. *)

LEMMA HandleDeleteKube ==
  ASSUME KubeInv, HandleDelete
  PROVE  KubeInv'
<1>1. PodsTypeOK /\ watch \in Seq(Events) /\ watch # <<>> /\ forgetting = None
  BY Zenon DEF KubeInv, PodsTypeOK, HandleDelete
<1>2. PICK e \in Entries : e = watch[1].entry /\ Head(watch) = watch[1]
  BY <1>1, TypedElements
<1>3. Handled(e, None) /\ watch[1].type \in Deletions
  BY <1>2, Zenon DEF HandleDelete, Handled, Deletions
<1>4. IF watch[1].type = "delete" THEN forgetting' = e.pod /\ lookups' = <<e.addr, e.pod, NameOf[e.pod]>>
      ELSE forgetting' = forgetting /\ lookups' = lookups
  BY <1>2, Zenon DEF HandleDelete, ForgottenIds
<1>5. /\ watch' \in Seq(Events) /\ store' \in [PodUIDs -> Entries \cup {None}]
      /\ \A v \in PodUIDs \ {e.pod} : store'[v] = store[v]
      /\ Placed' /\ DeletionsLast' /\ NothingStale' /\ \A v \in PodUIDs : LastKnown(v)'
  BY <1>3, HandledKube, Zenon
<1>6. /\ \A k \in DOMAIN watch' : Told(watch[k].entry)'
      /\ \A v \in PodUIDs : store'[v] # None => store'[v].pod = v /\ Told(store[v])'
      /\ \A d : Told(d)' <=> Told(d)
  BY <1>3, HandledKube, Zenon
<1>7. /\ e.pod \in PodUIDs /\ phase[e.pod] = "gone" /\ e.addr = addr[e.pod]
      /\ \A v : v # e.pod \/ watch[1].type # "delete" => (Expected(v) => Expected(v)')
  BY <1>3, Kinds, HandledKube, Zenon
<1>8. now' = now /\ phase' = phase /\ addr' = addr /\ start' = start
  BY Zenon DEF HandleDelete
<1>9. ignored' = ignored /\ pods' = pods
  BY Zenon DEF HandleDelete
<1>10. missed' = missed /\ deleteQueue' = deleteQueue /\ toDelete' = toDelete
  BY Zenon DEF HandleDelete
<1>11. /\ forgetting' \in PodUIDs \cup {None} /\ lookups' \in Seq(Identifiers \cup {None})
       /\ watch[1].type = "delete" => Elements(lookups)' = IdsOfPod(e.pod) /\ lookups' # <<>>
  <2>1. CASE watch[1].type = "delete"
    <3>1. e.addr \in Identifiers \cup {None}
      BY Kinds, Zenon DEF Entries
    <3>2. forgetting' = e.pod /\ lookups' = <<e.addr, e.pod, NameOf[e.pod]>>
      BY <1>4, <2>1
    <3>3. lookups' \in Seq(Identifiers \cup {None}) /\ lookups' # <<>>
      BY <1>7, <3>1, <3>2, Kinds
    <3>4. Elements(lookups)' = {e.addr, e.pod, NameOf[e.pod]}
      BY <3>2 DEF Elements
    <3> QED BY <1>7, <3>2, <3>3, <3>4, Zenon DEF IdsOfPod
  <2>2. CASE watch[1].type # "delete"
    BY <1>4, <2>2, Zenon DEF KubeInv, PodsTypeOK
  <2> QED BY <2>1, <2>2, Zenon
<1>12. PodsTypeOK'
  BY <1>5, <1>8, <1>9, <1>10, <1>11, Zenon DEF KubeInv, PodsTypeOK
<1>13. AllTold'
  BY <1>6, <1>9, Zenon DEF KubeInv, AllTold
<1>14. Pending' = Pending /\ Elements(toDelete)' = Elements(toDelete)
  BY <1>10 DEF Pending
<1>15. RequestsTrue'
  <2>2. \A v : IdsOfPod(v)' = IdsOfPod(v)
    BY <1>8 DEF IdsOfPod
  <2>3. forgetting' # None => /\ forgetting' = e.pod /\ lookups' # <<>>
                              /\ Elements(lookups)' \subseteq IdsOfPod(e.pod)
    BY <1>1, <1>4, <1>11
  <2>4. (forgetting # None => /\ phase[forgetting] = "gone" /\ lookups # <<>>
                              /\ Elements(lookups) \subseteq IdsOfPod(forgetting))'
    BY <1>7, <1>8, <2>3, Zenon DEF IdsOfPod
  <2> QED BY <1>8, <1>14, <2>2, <2>4, Zenon DEF KubeInv, RequestsTrue, Expired
\* What leads to the pod is to be looked up.
<1>16. NoLeak'
  <2> SUFFICES ASSUME NEW i \in Identifiers, pods[i] # None PROVE OnItsWay(i, pods[i].pod)'
    BY <1>9 DEF NoLeak
  <2>1. PICK d \in Entries : d = pods[i] /\ d = pods'[i]
    BY <1>9, Zenon DEF KubeInv, PodsTypeOK
  <2>3. OnItsWay(i, d.pod) /\ i \in {d.addr, d.pod, NameOf[d.pod]} /\ Told(d)
    BY <2>1, Zenon DEF KubeInv, NoLeak, AllTold
  <2>4. CASE d.pod = e.pod /\ watch[1].type = "delete"
    <3>1. i \in IdsOfPod(e.pod)
      BY <2>3, <2>4, Kinds, Zenon DEF Told, IdsOfPod
    <3> QED BY <1>4, <1>11, <2>1, <2>4, <3>1, Zenon DEF OnItsWay
  <2>5. CASE d.pod # e.pod \/ watch[1].type # "delete"
    <3>1. forgetting # d.pod
      BY <1>1, Kinds, Zenon DEF Entries
    <3> QED BY <1>7, <1>9, <1>14, <2>1, <2>3, <2>5, <3>1, Zenon DEF OnItsWay
  <2> QED BY <2>4, <2>5
<1>17. ASSUME NEW v \in PodUIDs PROVE Tabled(v)'
  <2>1. Tabled(v) /\ (v # e.pod => store'[v] = store[v]) /\ (Latest(v)' <=> Latest(v))
    BY <1>5, <1>8, Zenon DEF KubeInv, Latest
  <2> QED BY <1>7, <1>8, <1>9, <2>1, Zenon DEF Tabled
<1> QED BY <1>5, <1>12, <1>13, <1>15, <1>16, <1>17, Zenon DEF KubeInv

LEMMA ForgetKube ==
  ASSUME KubeInv, Forget
  PROVE  KubeInv'
<1>1. /\ PodsTypeOK /\ RequestsTrue /\ forgetting # None
      /\ UNCHANGED <<now, phase, addr, start, ignored, missed, watch, store, pods, toDelete>>
      /\ lookups' = Tail(lookups) /\ forgetting' = IF Tail(lookups) = <<>> THEN None ELSE forgetting
  BY Zenon DEF KubeInv, Forget, clusterVars
<1>2. PICK f \in PodUIDs : f = forgetting
  BY <1>1, Zenon DEF PodsTypeOK
<1>3. phase[f] = "gone" /\ lookups # <<>> /\ Elements(lookups) \subseteq IdsOfPod(f)
  BY <1>1, <1>2, Zenon DEF RequestsTrue
<1>4. lookups \in Seq(Identifiers \cup {None}) /\ deleteQueue \in Seq(Requests) /\ now \in Nat
  BY DEF KubeInv, PodsTypeOK
<1>5. PICK i : i = Head(lookups)
  OBVIOUS
<1>6. Tail(lookups) \in Seq(Identifiers \cup {None}) /\ Elements(lookups) = Elements(lookups)' \cup {i}
  <2>1. Elements(lookups)' = Elements(Tail(lookups))
    BY <1>1
  <2> QED BY <1>3, <1>4, <1>5, <2>1, TailIndices, Zenon
<1> DEFINE q == [id |-> i, name |-> NameOf[f], ts |-> now, pod |-> f]
           Asked == GetPod(i) # None /\ NameOf[GetPod(i).pod] = NameOf[f]
<1>7. deleteQueue' = IF Asked THEN Append(deleteQueue, q) ELSE deleteQueue
  BY <1>2, <1>5, Zenon DEF Forget, Enqueue
<1>8. Asked => q \in Requests
  BY <1>3, <1>4, <1>5, Kinds DEF GetPod, Requests
<1>9. q.id = i /\ q.name = NameOf[f] /\ q.pod = f
  OBVIOUS
<1> HIDE DEF q, Asked
<1>10. /\ deleteQueue' \in Seq(Requests)
       /\ Elements(deleteQueue)' = IF Asked THEN Elements(deleteQueue) \cup {q} ELSE Elements(deleteQueue)
  BY <1>4, <1>7, <1>8, AppendIndices DEF Elements
<1>11. Elements(toDelete)' = Elements(toDelete)
  BY <1>1
<1>12. Pending' = IF Asked THEN Pending \cup {q} ELSE Pending
  BY <1>10, <1>11 DEF Pending
<1>13. PodsTypeOK'
  BY <1>1, <1>6, <1>10, Zenon DEF PodsTypeOK
<1>14. /\ Placed' /\ DeletionsLast' /\ NothingStale' /\ \A v \in PodUIDs : LastKnown(v)'
       /\ \A d : Told(d)' <=> Told(d)
       /\ \A v : Expected(v)' <=> Expected(v)
       /\ \A v : Latest(v)' <=> Latest(v)
       /\ \A v : IdsOfPod(v)' = IdsOfPod(v)
  BY <1>1, InformerUnchanged, Zenon
<1>15. AllTold' /\ \A v \in PodUIDs : Tabled(v)'
  BY <1>1, TableUnchanged
<1>16. RequestsTrue'
  <2>1. (forgetting # None => /\ phase[forgetting] = "gone" /\ lookups # <<>>
                              /\ Elements(lookups) \subseteq IdsOfPod(forgetting))'
    <3> SUFFICES ASSUME forgetting' # None
                 PROVE  (/\ phase[forgetting] = "gone" /\ lookups # <<>>
                         /\ Elements(lookups) \subseteq IdsOfPod(forgetting))'
      OBVIOUS
    <3>1. forgetting' = f /\ lookups' # <<>>
      BY <1>1, <1>2, Zenon
    <3>2. IdsOfPod(forgetting)' = IdsOfPod(f)
      BY <1>1, <3>1, Zenon DEF IdsOfPod
    <3>3. phase'[forgetting'] = "gone"
      BY <1>1, <1>3, <3>1, Zenon
    <3> QED BY <1>3, <1>6, <3>1, <3>2, <3>3
  <2>2. \A r \in Pending' : /\ phase'[r.pod] = "gone" /\ r.name = NameOf[r.pod]
                            /\ r.id \in IdsOfPod(r.pod)'
    BY <1>1, <1>3, <1>6, <1>9, <1>12, <1>14, Zenon DEF RequestsTrue
  <2>3. \A r \in Elements(toDelete)' : Expired(r)'
    BY <1>1, Zenon DEF RequestsTrue, Expired
  <2> QED BY <2>1, <2>2, <2>3 DEF RequestsTrue
\* What was to be looked up has been asked for, or is still to be looked up.
<1>17. NoLeak'
  <2> SUFFICES ASSUME NEW j \in Identifiers, pods[j] # None PROVE OnItsWay(j, pods[j].pod)'
    BY <1>1, Zenon DEF NoLeak
  <2>1. PICK d \in Entries : d = pods[j] /\ d = pods'[j]
    BY <1>1, Zenon DEF PodsTypeOK
  <2>2. OnItsWay(j, d.pod)
    <3>2. OnItsWay(j, pods[j].pod)
      BY DEF KubeInv, NoLeak
    <3> QED BY <2>1, <3>2
  <2>3. CASE forgetting = d.pod /\ j \in Elements(lookups) /\ d.pod \notin ignored
    <3>1. CASE j = i
      BY <1>1, <1>2, <1>9, <1>12, <2>1, <2>3, <3>1, Kinds, Zenon DEF GetPod, Asked, OnItsWay
    <3>2. CASE j # i
      <4>1. j \in Elements(lookups)'
        BY <1>6, <2>3, <3>2
      <4>2. lookups' # <<>>
        BY <4>1 DEF Elements
      <4>3. forgetting' = d.pod
        BY <1>1, <2>3, <4>2, Zenon
      <4> QED BY <2>1, <4>1, <4>3, Zenon DEF OnItsWay
    <3> QED BY <3>1, <3>2
  <2>4. CASE Expected(d.pod) \/ d.pod \in ignored \/ \E r \in Pending : r.id = j /\ r.name = NameOf[d.pod]
    BY <1>1, <1>12, <1>14, <2>1, <2>4, Zenon DEF OnItsWay
  <2> QED BY <2>2, <2>3, <2>4, Zenon DEF OnItsWay
<1> QED BY <1>13, <1>14, <1>15, <1>16, <1>17, Zenon DEF KubeInv

LEMMA DeleteTakeKube ==
  ASSUME KubeInv, DeleteTake
  PROVE  KubeInv'
<1>1. /\ PodsTypeOK /\ RequestsTrue /\ toDelete = <<>>
      /\ UNCHANGED <<now, phase, addr, start, ignored, missed, watch, store, pods, forgetting, lookups>>
  BY Zenon DEF KubeInv, DeleteTake, clusterVars
<1>2. deleteQueue \in Seq(Requests)
  BY Zenon DEF KubeInv, PodsTypeOK
<1>3. PICK n \in 1..Len(deleteQueue) :
        /\ \A k \in 1..n : Expired(deleteQueue[k])
        /\ toDelete' = SubSeq(deleteQueue, 1, n)
        /\ deleteQueue' = SubSeq(deleteQueue, n + 1, Len(deleteQueue))
  BY Zenon DEF DeleteTake
<1>4. /\ toDelete' \in Seq(Requests) /\ deleteQueue' \in Seq(Requests)
      /\ Elements(deleteQueue) = Elements(toDelete') \cup Elements(deleteQueue')
      /\ Elements(toDelete') \subseteq {deleteQueue[k] : k \in 1..n}
  BY <1>2, <1>3, Cut, Zenon
<1>6. Pending' = Pending
  BY <1>1, <1>4, NothingIn DEF Pending
<1>7. PodsTypeOK'
  BY <1>1, <1>4, Zenon DEF PodsTypeOK
<1>8. /\ Placed' /\ DeletionsLast' /\ NothingStale' /\ \A v \in PodUIDs : LastKnown(v)'
      /\ \A d : Told(d)' <=> Told(d)
      /\ \A v : Expected(v)' <=> Expected(v)
      /\ \A v : Latest(v)' <=> Latest(v)
      /\ \A v : IdsOfPod(v)' = IdsOfPod(v)
  BY <1>1, InformerUnchanged, Zenon
<1>9. AllTold' /\ \A v \in PodUIDs : Tabled(v)'
  BY <1>1, TableUnchanged
<1>10. RequestsTrue'
  <2>1. (forgetting # None => /\ phase[forgetting] = "gone" /\ lookups # <<>>
                              /\ Elements(lookups) \subseteq IdsOfPod(forgetting))'
    BY <1>1, Zenon DEF RequestsTrue, IdsOfPod
  <2>2. \A r \in Pending' : /\ phase'[r.pod] = "gone" /\ r.name = NameOf[r.pod]
                            /\ r.id \in IdsOfPod(r.pod)'
    BY <1>1, <1>6, <1>8, Zenon DEF RequestsTrue
  <2>3. \A r \in Elements(toDelete)' : Expired(r)'
    BY <1>1, <1>3, <1>4, Zenon DEF Expired
  <2> QED BY <2>1, <2>2, <2>3 DEF RequestsTrue
<1>11. NoLeak'
  BY <1>1, <1>6, <1>8, Zenon DEF KubeInv, NoLeak, OnItsWay
<1> QED BY <1>7, <1>8, <1>9, <1>10, <1>11, Zenon DEF KubeInv

\* Which entries deleteLoop takes out: those of a request whose time is over,
\* and none of a pod that is not gone and has its name for itself; nothing at
\* all under the uid of a pod that is not gone.
LEMMA AppliedTable ==
  ASSUME KubeInv, DeleteApply
  PROVE  /\ pods' \in [Identifiers -> Entries \cup {None}]
         /\ \A i \in Identifiers : pods'[i] = None \/ pods'[i] = pods[i]
         /\ \A i \in Identifiers : pods'[i] # None =>
              ~\E r \in Elements(toDelete) : r.id = i /\ r.name = NameOf[pods[i].pod]
         /\ \A i \in Identifiers : pods[i] # None /\ pods'[i] = None =>
              /\ \E k \in DOMAIN toDelete : toDelete[k].id = i /\ Expired(toDelete[k])
              /\ NameUnique(pods[i].pod) => phase[pods[i].pod] = "gone"
         /\ \A u \in PodUIDs : phase[u] # "gone" => pods'[u] = pods[u]
<1>2. pods \in [Identifiers -> Entries \cup {None}] /\ addr \in [PodUIDs -> Addresses \cup {None}]
  BY Zenon DEF KubeInv, PodsTypeOK
<1>3. pods' \in [Identifiers -> Entries \cup {None}]
  BY <1>2, Zenon DEF DeleteApply
<1>4. \A i \in Identifiers : pods'[i] = None \/ pods'[i] = pods[i]
  BY Zenon DEF DeleteApply
<1>5. ASSUME NEW i \in Identifiers, pods'[i] # None
      PROVE  ~\E r \in Elements(toDelete) : r.id = i /\ r.name = NameOf[pods[i].pod]
  BY <1>5, Zenon DEF DeleteApply, Elements
<1>6. ASSUME NEW i \in Identifiers, pods[i] # None, pods'[i] = None
      PROVE  /\ \E k \in DOMAIN toDelete : toDelete[k].id = i /\ Expired(toDelete[k])
             /\ NameUnique(pods[i].pod) => phase[pods[i].pod] = "gone"
             /\ \A u \in PodUIDs : i = u => phase[u] = "gone"
  BY <1>2, <1>6, Kinds, TypedElements
    DEF KubeInv, DeleteApply, Elements, RequestsTrue, Pending, NameUnique, IdsOfPod
<1>7. \A u \in PodUIDs : phase[u] # "gone" => pods'[u] = pods[u]
  BY <1>4, <1>6, Kinds, Zenon
<1> QED BY <1>3, <1>4, <1>5, <1>6, <1>7, Zenon

LEMMA DeleteApplyKube ==
  ASSUME KubeInv, DeleteApply
  PROVE  KubeInv'
<1>1. /\ PodsTypeOK /\ RequestsTrue /\ toDelete' = <<>>
      /\ UNCHANGED <<now, phase, addr, start, ignored, missed, watch, store, deleteQueue, forgetting, lookups>>
  BY Zenon DEF KubeInv, DeleteApply, clusterVars
<1>2. /\ pods' \in [Identifiers -> Entries \cup {None}]
      /\ \A i \in Identifiers : pods'[i] = None \/ pods'[i] = pods[i]
      /\ \A i \in Identifiers : pods'[i] # None =>
           ~\E r \in Elements(toDelete) : r.id = i /\ r.name = NameOf[pods[i].pod]
  BY AppliedTable, Zenon
<1>3. /\ \A i \in Identifiers : pods[i] # None /\ pods'[i] = None =>
           (NameUnique(pods[i].pod) => phase[pods[i].pod] = "gone")
      /\ \A u \in PodUIDs : phase[u] # "gone" => pods'[u] = pods[u]
  BY AppliedTable, Zenon
<1>6. PodsTypeOK'
  BY <1>1, <1>2 DEF PodsTypeOK
<1>7. /\ Placed' /\ DeletionsLast' /\ NothingStale' /\ \A v \in PodUIDs : LastKnown(v)'
      /\ \A d : Told(d)' <=> Told(d)
      /\ \A v : Expected(v)' <=> Expected(v)
      /\ \A v : Latest(v)' <=> Latest(v)
      /\ \A v : IdsOfPod(v)' = IdsOfPod(v)
  BY <1>1, InformerUnchanged, Zenon
<1>8. AllTold'
  BY <1>1, <1>2, <1>7, Zenon DEF KubeInv, AllTold
<1>9. RequestsTrue'
  BY <1>1 DEF RequestsTrue, IdsOfPod, Elements, Pending
<1>10. NoLeak'
  BY <1>1, <1>2, <1>7 DEF KubeInv, NoLeak, Pending, OnItsWay
<1>11. ASSUME NEW v \in PodUIDs PROVE Tabled(v)'
  <2> SUFFICES ASSUME phase[v] # "gone" PROVE Tabled(v)'
    BY <1>1, Zenon DEF Tabled
  <2>1. Tabled(v) /\ pods'[v] = pods[v]
    BY <1>3, Zenon DEF KubeInv
  <2>2. store[v] # None => store[v] \in Entries /\ store[v].pod = v
    BY DEF KubeInv, AllTold, PodsTypeOK
  <2>3. ASSUME NEW i \in Identifiers, NameUnique(v), pods[i] = store[v] PROVE pods'[i] = store[v]
    BY <1>2, <1>3, <2>2, <2>3
  <2>4. NameUnique(v) => pods'[NameOf[v]] = store[v]
    BY <2>3, Kinds, Zenon DEF KubeInv, Tabled
  <2>5. ASSUME NameUnique(v), store[v] # None, store[v].addr # None, Latest(v)
        PROVE  pods'[store[v].addr] = store[v]
    <3>1. store[v].addr \in Identifiers
      BY <2>2, <2>5, Kinds, Zenon DEF Entries
    <3> QED BY <2>3, <2>5, <3>1, Zenon DEF KubeInv, Tabled
  <2> QED BY <1>1, <1>7, <2>1, <2>4, <2>5, Zenon DEF Tabled
<1> QED BY <1>6, <1>7, <1>8, <1>9, <1>10, <1>11, Zenon DEF KubeInv

LEMMA TickKube ==
  ASSUME KubeInv, Tick
  PROVE  KubeInv'
<1>1. /\ now \in Nat /\ now' = now + 1 /\ PodsTypeOK /\ RequestsTrue
      /\ UNCHANGED <<phase, addr, start, ignored, missed, watch, store, pods, deleteQueue, forgetting,
                     lookups, toDelete>>
  BY Zenon DEF KubeInv, PodsTypeOK, Tick, clusterVars
<1>2. Pending' = Pending /\ Elements(toDelete)' = Elements(toDelete) /\ Elements(lookups)' = Elements(lookups)
  BY <1>1 DEF Pending
<1>3. PodsTypeOK'
  BY <1>1 DEF PodsTypeOK
<1>4. /\ Placed' /\ DeletionsLast' /\ NothingStale' /\ \A v \in PodUIDs : LastKnown(v)'
      /\ \A d : Told(d)' <=> Told(d)
      /\ \A v : Expected(v)' <=> Expected(v)
      /\ \A v : Latest(v)' <=> Latest(v)
      /\ \A v : IdsOfPod(v)' = IdsOfPod(v)
  BY <1>1, InformerUnchanged, Zenon
<1>5. \A r \in Elements(toDelete) : Expired(r) => Expired(r)'
  BY <1>1, PodsAssumption, TypedElements DEF Requests, Expired
<1>6. RequestsTrue'
  BY <1>1, <1>2, <1>5, Zenon DEF RequestsTrue, IdsOfPod
<1>7. NoLeak'
  BY <1>1, <1>2, <1>4, Zenon DEF KubeInv, NoLeak, OnItsWay
<1>8. AllTold' /\ \A v \in PodUIDs : Tabled(v)'
  BY <1>1, TableUnchanged
<1> QED BY <1>3, <1>4, <1>6, <1>7, <1>8, Zenon DEF KubeInv

LEMMA StutterKube ==
  ASSUME KubeInv, UNCHANGED vars
  PROVE  KubeInv'
<1>1. UNCHANGED <<now, phase, addr, start, ignored, missed, watch, store, pods, deleteQueue, forgetting,
                  lookups, toDelete>> /\ PodsTypeOK /\ RequestsTrue
  BY Zenon DEF KubeInv, vars, clusterVars
<1>2. RequestsTrue' /\ Pending' = Pending /\ Elements(lookups)' = Elements(lookups)
  BY <1>1, RequestsKept
<1>3. PodsTypeOK'
  BY <1>1, Zenon DEF PodsTypeOK
<1>4. /\ Placed' /\ DeletionsLast' /\ NothingStale' /\ \A v \in PodUIDs : LastKnown(v)'
      /\ \A d : Told(d)' <=> Told(d)
      /\ \A v : Expected(v)' <=> Expected(v)
      /\ \A v : Latest(v)' <=> Latest(v)
  BY <1>1, InformerUnchanged, Zenon
<1>5. AllTold' /\ \A v \in PodUIDs : Tabled(v)'
  BY <1>1, TableUnchanged
<1>6. NoLeak'
  BY <1>1, <1>2, <1>4, Zenon DEF KubeInv, NoLeak, OnItsWay
<1> QED BY <1>2, <1>3, <1>4, <1>5, <1>6, Zenon DEF KubeInv

LEMMA NextKube == KubeInv /\ [Next]_vars => KubeInv'
<1> SUFFICES ASSUME KubeInv, [Next]_vars PROVE KubeInv'
  OBVIOUS
<1>1. ASSUME NEW u \in PodUIDs, Create(u) \/ Finish(u) \/ Delete(u) \/ \E a \in Addresses : Run(u, a)
      PROVE  KubeInv'
  BY <1>1, ClusterKube
<1>2. ASSUME NEW u \in PodUIDs, Resync(u) PROVE KubeInv'
  BY <1>2, ResyncKube
<1>3. CASE Tick
  BY <1>3, TickKube
<1>4. CASE HandleChange
  BY <1>4, HandleChangeKube
<1>5. CASE HandleDelete
  BY <1>5, HandleDeleteKube
<1>6. CASE Forget
  BY <1>6, ForgetKube
<1>7. CASE DeleteTake
  BY <1>7, DeleteTakeKube
<1>8. CASE DeleteApply
  BY <1>8, DeleteApplyKube
<1>9. CASE UNCHANGED vars
  BY <1>9, StutterKube
<1> QED BY <1>1, <1>2, <1>3, <1>4, <1>5, <1>6, <1>7, <1>8, <1>9 DEF Next

\* The inductive invariant of the pod table, the informer and deleteLoop.
THEOREM KubeInvariant == Spec => []KubeInv
BY InitKube, NextKube, PTL DEF Spec

-----------------------------------------------------------------------------
(* What follows.                                                           *)

\* Once the informer has caught up, getPod finds a running pod under its uid
\* and, if no other pod ever had its name, under its name and its address:
\* addOrUpdatePod never lets an older pod displace a younger one, and what
\* deleteLoop removes by name is never a running pod's.
THEOREM RunningPodsFound == Spec => []RunningPodFound
<1>1. KubeInv => RunningPodFound
  <2> SUFFICES ASSUME KubeInv, CaughtUp, NEW u \in PodUIDs \ ignored, phase[u] = "running"
               PROVE  /\ GetPod(u) = Entry(u)
                      /\ NameUnique(u) =>
                           /\ GetPod(NameOf[u]) = Entry(u)
                           /\ Latest(u) => GetPod(addr[u]) = Entry(u)
    BY Zenon DEF RunningPodFound, Latest
  <2>1. u \in Here /\ phase[u] # "gone" /\ LastKnown(u) /\ Tabled(u) /\ Placed /\ PodsTypeOK
    BY DEF KubeInv, Here
  <2>2. store[u] = Entry(u)
    BY <2>1 DEF CaughtUp, LastKnown
  <2>3. Entry(u) \in Entries /\ Entry(u).pod = u /\ Entry(u).addr = addr[u] /\ Entry(u) # None
    BY Kinds, Zenon DEF KubeInv, PodsTypeOK, Entry, Entries
  <2>4. addr[u] # None /\ addr[u] \in Identifiers
    BY Kinds, Zenon DEF KubeInv, Placed, PodsTypeOK
  <2>5. \A i \in Identifiers : pods[i] = Entry(u) => GetPod(i) = Entry(u)
    BY <2>3, Kinds, Zenon DEF GetPod
  <2>6. pods[u] = Entry(u) /\ (NameUnique(u) => pods[NameOf[u]] = Entry(u))
    BY <2>2, Zenon DEF KubeInv, Tabled
  <2>7. NameUnique(u) /\ Latest(u) => pods[addr[u]] = Entry(u)
    BY <2>2, <2>3, <2>4 DEF KubeInv, Tabled
  <2> QED BY <2>4, <2>5, <2>6, <2>7, Kinds
<1> QED BY <1>1, KubeInvariant, PTL

\* Once the informer has caught up and deleteLoop is idle, every entry of the
\* table is that of a pod which exists, is ignored, or was deleted unseen:
\* forgetPod asks for the deletion of everything that still leads to a pod.
THEOREM TableDoesNotLeak == Spec => []NothingLeaks
<1>1. KubeInv => NothingLeaks
  <2> SUFFICES ASSUME KubeInv, CaughtUp, deleteQueue = <<>>, toDelete = <<>>,
                      NEW i \in Identifiers, pods[i] # None
               PROVE  pods[i].pod \in Here \cup ignored \cup missed
    BY DEF NothingLeaks
  <2>1. OnItsWay(i, pods[i].pod) /\ pods[i].pod \in PodUIDs
    BY Zenon DEF KubeInv, NoLeak, PodsTypeOK, Entries
  <2>2. Pending = {}
    BY NothingIn DEF Pending
  <2>3. ~Deleting(pods[i].pod) /\ forgetting # pods[i].pod
    BY <2>1, Kinds DEF CaughtUp, Deleting
  <2> QED BY <2>1, <2>2, <2>3 DEF OnItsWay, Expected
<1> QED BY <1>1, KubeInvariant, PTL

\* deleteLoop takes an entry out only when the grace period of a request for
\* its identifier is over, and never that of a pod which exists and has its
\* name for itself; addOrUpdatePod only replaces entries.
THEOREM GracePeriodIsKept == Spec => GracePeriodKept
<1> DEFINE Kept == \A i \in Identifiers :
             (pods[i] # None /\ pods'[i] = None) =>
               /\ \E k \in DOMAIN toDelete : toDelete[k].id = i /\ Expired(toDelete[k])
               /\ NameUnique(pods[i].pod) => phase[pods[i].pod] = "gone"
<1>1. KubeInv /\ [Next]_vars => [Kept]_vars
  <2> SUFFICES ASSUME KubeInv, Next PROVE Kept
    BY Zenon
  <2>1. CASE DeleteApply
    BY <2>1, AppliedTable, Zenon
  <2>2. CASE pods' = pods
    BY <2>2
  <2>3. ASSUME NEW e \in Entries, pods' = Added(e) PROVE Kept
    BY <2>3, Kinds, Zenon DEF Added
  <2>4. HandleChange => \E e \in Entries : pods' = Added(e)
    <3> SUFFICES ASSUME HandleChange PROVE \E e \in Entries : pods' = Added(e)
      OBVIOUS
    <3>1. PodsTypeOK /\ watch \in Seq(Events) /\ watch # <<>> /\ pods' = Added(Head(watch).entry)
      BY Zenon DEF KubeInv, PodsTypeOK, HandleChange
    <3>2. Head(watch) \in Events
      BY <3>1
    <3> QED BY <3>1, <3>2 DEF Events
  <2>5. ASSUME NEW u \in PodUIDs, Resync(u) PROVE \E e \in Entries : pods' = Added(e)
    BY <2>5, Zenon DEF KubeInv, PodsTypeOK, Resync
  <2>6. ASSUME NEW u \in PodUIDs, Create(u) \/ Finish(u) \/ Delete(u) \/ \E a \in Addresses : Run(u, a)
        PROVE  pods' = pods
    BY <2>6, Zenon DEF Create, Finish, Delete, Run, Changed
  <2>7. Tick \/ HandleDelete \/ Forget \/ DeleteTake => pods' = pods
    BY Zenon DEF Tick, HandleDelete, Forget, DeleteTake
  <2> HIDE DEF Kept
  <2> QED BY <2>1, <2>2, <2>3, <2>4, <2>5, <2>6, <2>7 DEF Next
<1>2. Spec => [][Kept]_vars
  BY <1>1, KubeInvariant, PTL DEF Spec
<1> QED BY <1>2 DEF GracePeriodKept
=============================================================================
