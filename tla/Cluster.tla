------------------------------ MODULE Cluster ------------------------------
(***************************************************************************)
(* What surrounds the controller: the API server that stores one Browser   *)
(* and one Pod per name, the watch streams that lag behind it, the kubelet *)
(* and the garbage collector, and the people and tools that create and     *)
(* delete objects.  None of it is code of this repository; it is modelled  *)
(* from how controllers/browser/browser_reconciler.go uses it.             *)
(*                                                                         *)
(* An object is a record; an absent object is the record with uid 0.  A    *)
(* name can be used again: every incarnation gets a fresh uid.             *)
(***************************************************************************)
EXTENDS Naturals, Sequences

CONSTANTS
  Names,              \* Browser names, which are also the Pods' names
  Containers,         \* containers of a pod, numbered in the order of containerStatuses
  Own,                \* browserPodFinalizer
  ForeignFinalizers,  \* finalizers that other controllers put on a Browser
  Reported,           \* bound: the container states that kubelets report
  MaxBrowsers,        \* bound: incarnations of one Browser name
  MaxPods,            \* bound: incarnations of one Pod name
  MaxLosses,          \* bound: pods evicted or deleted from outside, per name
  MaxLag              \* bound: versions an informer can be behind, per object

ASSUME ClusterAssumption ==
  /\ Containers \subseteq Nat
  /\ Reported \subseteq {"creating", "backoff", "running", "terminated"}
  /\ Own \notin ForeignFinalizers
  /\ MaxBrowsers \in Nat /\ MaxPods \in Nat /\ MaxLosses \in Nat
  /\ MaxLag \in Nat \ {0}

VARIABLES
  browser,  \* browser[n]: the Browser stored under n
  pod,      \* pod[n]: the Pod stored under n
  born,     \* born[n]: uid of the latest Browser created under n
  made,     \* made[n]: uid of the latest Pod created under n
  bWatch,   \* bWatch[n]: committed versions of the Browser not yet delivered
  pWatch,   \* pWatch[n]: the same for the Pod
  late,     \* late[n]: the pods up to this uid are older than podCreationTimeout
  overdue,  \* overdue[n]: those up to this uid were deleted over podDeletionTimeout ago
  losses    \* losses[n]: evictions and outside deletions so far

browserVars == <<browser, bWatch>>
podVars     == <<pod, pWatch>>
clusterVars == <<browserVars, podVars, born, made, late, overdue, losses>>

-----------------------------------------------------------------------------
(* Objects *)

Finalizers == ForeignFinalizers \cup {Own}
CStates    == {"creating", "backoff", "running", "terminated"}
Statuses   == UNION {[C -> CStates] : C \in {{}, Containers}}
NoStatuses == [c \in {} |-> "creating"]
PodPhases  == {"Pending", "Running", "Succeeded", "Failed"}

Browsers == [uid : Nat, phase : PodPhases \cup {""}, ip : Nat, cs : Statuses,
             fins : SUBSET Finalizers, labelled : BOOLEAN, deleting : BOOLEAN]
Pods     == [uid : Nat, owner : Nat, phase : PodPhases, cs : Statuses,
             deleting : BOOLEAN]

NewBrowser(u) == [uid |-> u, phase |-> "", ip |-> 0, cs |-> NoStatuses,
                  fins |-> {}, labelled |-> FALSE, deleting |-> FALSE]
NewPod(u, o)  == [uid |-> u, owner |-> o, phase |-> "Pending", cs |-> NoStatuses,
                  deleting |-> FALSE]

NoBrowser == NewBrowser(0)
NoPod     == NewPod(0, 0)
Exists(o) == o.uid # 0

(* The pod's address and start time, known once a container has started;   *)
(* 0 while it is not.                                                      *)
PodIP(p) ==
  IF \E c \in DOMAIN p.cs : p.cs[c] \in {"running", "terminated"} THEN p.uid ELSE 0

-----------------------------------------------------------------------------
(* The API server *)

(* The watch stream after an object went from old to new: a write that     *)
(* changes nothing sends nothing, and a full stream keeps the latest.      *)
Logged(log, old, new) ==
  IF new = old THEN log
  ELSE IF Len(log) < MaxLag THEN Append(log, new)
  ELSE [log EXCEPT ![Len(log)] = new]

StoreBrowser(n, b) ==
  /\ browser' = [browser EXCEPT ![n] = b]
  /\ bWatch'  = [bWatch EXCEPT ![n] = Logged(@, browser[n], b)]

StorePod(n, p) ==
  /\ pod'    = [pod EXCEPT ![n] = p]
  /\ pWatch' = [pWatch EXCEPT ![n] = Logged(@, pod[n], p)]

(* A delete only marks an object that has finalizers, and a marked object  *)
(* disappears with its last finalizer.                                     *)
DeletedBrowser(b) ==
  IF ~Exists(b) \/ b.fins = {} THEN NoBrowser ELSE [b EXCEPT !.deleting = TRUE]

Swept(b) == IF b.deleting /\ b.fins = {} THEN NoBrowser ELSE b

(* The outcomes of a graceful pod delete: a pod that is over, or that no   *)
(* node has accepted yet, goes at once, the others wait for the kubelet.   *)
GracefullyDeleted(p) ==
  IF ~Exists(p) \/ p.phase \in {"Succeeded", "Failed"} THEN {NoPod}
  ELSE {[p EXCEPT !.deleting = TRUE]} \cup {q \in {NoPod} : p.cs = NoStatuses}

-----------------------------------------------------------------------------
(* Users and other controllers *)

CreateBrowser(n) ==
  /\ ~Exists(browser[n]) /\ born[n] < MaxBrowsers
  /\ born' = [born EXCEPT ![n] = @ + 1]
  /\ StoreBrowser(n, NewBrowser(born[n] + 1))
  /\ UNCHANGED <<podVars, made, late, overdue, losses>>

DeleteRequest(n) ==
  /\ Exists(browser[n]) /\ ~browser[n].deleting
  /\ StoreBrowser(n, DeletedBrowser(browser[n]))
  /\ UNCHANGED <<podVars, born, made, late, overdue, losses>>

AddForeignFinalizer(n) ==
  /\ Exists(browser[n]) /\ ~browser[n].deleting
  /\ \E f \in ForeignFinalizers \ browser[n].fins :
       StoreBrowser(n, [browser[n] EXCEPT !.fins = @ \cup {f}])
  /\ UNCHANGED <<podVars, born, made, late, overdue, losses>>

(* A foreign controller lets go of a Browser once it is being deleted. *)
DropForeignFinalizer(n) ==
  /\ browser[n].deleting
  /\ \E f \in ForeignFinalizers \cap browser[n].fins :
       StoreBrowser(n, Swept([browser[n] EXCEPT !.fins = @ \ {f}]))
  /\ UNCHANGED <<podVars, born, made, late, overdue, losses>>

-----------------------------------------------------------------------------
(* Kubelet, nodes and garbage collector *)

Rank(s) == CASE s = "creating" -> 0 [] s = "backoff" -> 1
             [] s = "running" -> 2  [] s = "terminated" -> 3

(* The pod's phase with restartPolicy Never: Pending while a container     *)
(* waits, over once all have terminated.                                   *)
PhasesOf(cs) ==
  IF \E c \in Containers : cs[c] \in {"creating", "backoff"} THEN {"Pending"}
  ELSE IF \E c \in Containers : cs[c] = "running" THEN {"Running"}
  ELSE {"Succeeded", "Failed"}

KubeletReports(n) ==
  LET p == pod[n] IN
  /\ Exists(p) /\ p.phase \in {"Pending", "Running"}
  /\ \E cs \in [Containers -> Reported] :
       /\ \A c \in DOMAIN p.cs : p.cs[c] = cs[c] \/ Rank(p.cs[c]) < Rank(cs[c])
       /\ \E ph \in PhasesOf(cs) : StorePod(n, [p EXCEPT !.cs = cs, !.phase = ph])
  /\ UNCHANGED <<browserVars, born, made, late, overdue, losses>>

KubeletRemoves(n) ==
  /\ pod[n].deleting
  /\ StorePod(n, NoPod)
  /\ UNCHANGED <<browserVars, born, made, late, overdue, losses>>

Evict(n) ==
  /\ Exists(pod[n]) /\ pod[n].phase \in {"Pending", "Running"} /\ losses[n] < MaxLosses
  /\ losses' = [losses EXCEPT ![n] = @ + 1]
  /\ StorePod(n, [pod[n] EXCEPT !.phase = "Failed"])
  /\ UNCHANGED <<browserVars, born, made, late, overdue>>

(* A drain, a preemption or a person deletes the pod. *)
OutsideDelete(n) ==
  /\ Exists(pod[n]) /\ ~pod[n].deleting /\ losses[n] < MaxLosses
  /\ losses' = [losses EXCEPT ![n] = @ + 1]
  /\ \E p \in GracefullyDeleted(pod[n]) : StorePod(n, p)
  /\ UNCHANGED <<browserVars, born, made, late, overdue>>

(* The owner reference of a pod names one incarnation of its Browser; the  *)
(* collector deletes the pod once that incarnation is gone.                *)
CollectGarbage(n) ==
  /\ Exists(pod[n]) /\ ~pod[n].deleting /\ pod[n].owner # browser[n].uid
  /\ \E p \in GracefullyDeleted(pod[n]) : StorePod(n, p)
  /\ UNCHANGED <<browserVars, born, made, late, overdue, losses>>

-----------------------------------------------------------------------------
(* Time: five minutes pass since the creation or the deletion of a pod.    *)
(* A cached copy ages like the pod itself, whatever has become of the pod  *)
(* meanwhile; of a pod without container statuses nobody asks the age.     *)

CreationDeadline(n) ==
  /\ Exists(pod[n]) /\ pod[n].cs # NoStatuses /\ late[n] < pod[n].uid
  /\ late' = [late EXCEPT ![n] = pod[n].uid]
  /\ UNCHANGED <<browserVars, podVars, born, made, overdue, losses>>

DeletionDeadline(n) ==
  /\ pod[n].deleting /\ overdue[n] < pod[n].uid
  /\ overdue' = [overdue EXCEPT ![n] = pod[n].uid]
  /\ UNCHANGED <<browserVars, podVars, born, made, late, losses>>

ClusterInit ==
  /\ browser = [n \in Names |-> NoBrowser] /\ pod = [n \in Names |-> NoPod]
  /\ bWatch = [n \in Names |-> <<>>] /\ pWatch = [n \in Names |-> <<>>]
  /\ born = [n \in Names |-> 0] /\ made = [n \in Names |-> 0]
  /\ late = [n \in Names |-> 0] /\ overdue = [n \in Names |-> 0]
  /\ losses = [n \in Names |-> 0]

ClusterNext(n) ==
  \/ CreateBrowser(n) \/ DeleteRequest(n)
  \/ AddForeignFinalizer(n) \/ DropForeignFinalizer(n)
  \/ KubeletReports(n) \/ KubeletRemoves(n) \/ Evict(n) \/ OutsideDelete(n)
  \/ CollectGarbage(n)
  \/ CreationDeadline(n) \/ DeletionDeadline(n)

=============================================================================
