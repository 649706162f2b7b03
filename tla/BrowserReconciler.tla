-------------------------- MODULE BrowserReconciler --------------------------
(***************************************************************************)
(* The Browser controller, controllers/browser/browser_reconciler.go, with *)
(* the informer caches it reads and the work queue that drives it.         *)
(*                                                                         *)
(* A reconcile pass is a walk through the labels of pc, one label for each *)
(* call to the API server or read of a cache, so that every other actor    *)
(* can move in between.  The pass keeps the Browser it read first (lb) and *)
(* the Pod it read later (lp) until it ends: the code never refreshes      *)
(* them, and its patches go to copies of their own.                        *)
(***************************************************************************)
EXTENDS Cluster

CONSTANTS
  Critical,        \* the containers "browser" and "seleniferous"
  LookupOutcomes,  \* what handleMissingPod may find: "found", "noConfig", "badOptions"
  Fresh,           \* TRUE: a pass begins only when the caches have caught up
  MaxFaults,       \* bound: calls that fail or whose answer is lost
  MaxCrashes       \* bound: restarts of the manager

ASSUME ReconcilerAssumption ==
  /\ Critical \subseteq Containers
  /\ LookupOutcomes \subseteq {"found", "noConfig", "badOptions"}
  /\ Fresh \in BOOLEAN
  /\ MaxFaults \in Nat /\ MaxCrashes \in Nat

VARIABLES
  bCache,   \* bCache[n]: the Browser in the informer's cache
  pCache,   \* pCache[n]: the Pod in the informer's cache
  queue,    \* the names that a pass is due for: in the work queue or in its delay heap
  pc,       \* where the pass stands, "idle" between passes
  req,      \* the name of the current or the latest pass
  lb,       \* the pass's Browser
  lp,       \* the pass's Pod
  faults,   \* failed calls so far
  crashes,  \* restarts so far
  retired   \* ghost: the latest uid of n that a pass has seen being deleted

cacheVars == <<bCache, pCache>>
passVars  == <<pc, req, lb, lp>>
vars == <<clusterVars, cacheVars, queue, passVars, faults, crashes, retired>>

Labels == {"idle", "finalizer", "label", "setPending", "getPod", "lookupConfig",
           "failConfig", "createPod", "killFailed", "failPod", "killBackoff",
           "failPending", "failCritical", "mirror", "release", "deleteBrowser",
           "releaseFailed", "podForDeletion", "deletePod", "forceDelete",
           "releaseDeleted"}

(* A pass that has nothing left to do ends as one of these. *)
Endings == {"done", "requeueAfter"}

-----------------------------------------------------------------------------
(* The decisions of Reconcile: each yields the label, or ending, to go to. *)

AfterLabel(b)     == IF b.phase = "" THEN "setPending" ELSE "getPod"
AfterFinalizer(b) == IF b.labelled THEN AfterLabel(b) ELSE "label"

(* Mutant: a Browser being deleted is treated as any other. *)
RouteIgnoringDeletion(b) ==
  IF b.phase = "Failed" THEN IF Own \in b.fins THEN "releaseFailed" ELSE "done"
  ELSE IF Own \in b.fins THEN AfterFinalizer(b) ELSE "finalizer"

(* Mutant: a Failed Browser is treated as any other. *)
RouteIgnoringFailure(b) ==
  IF b.deleting THEN IF Own \in b.fins THEN "podForDeletion" ELSE "done"
  ELSE IF Own \in b.fins THEN AfterFinalizer(b) ELSE "finalizer"

Route(b) ==
  IF b.deleting
    THEN IF Own \in b.fins THEN "podForDeletion" ELSE "done"
  ELSE IF b.phase = "Failed"
    THEN IF Own \in b.fins THEN "releaseFailed" ELSE "done"
  ELSE IF Own \in b.fins THEN AfterFinalizer(b) ELSE "finalizer"

AfterFailure(b) == IF Own \in b.fins THEN "release" ELSE "deleteBrowser"

StatusChanged(b, p) == b.phase # p.phase \/ b.ip # PodIP(p)

(* Mutant: only the number of container statuses is compared. *)
ContainersCounted(b, p) == p.cs # NoStatuses /\ DOMAIN b.cs # DOMAIN p.cs

ContainersChanged(b, p) == p.cs # NoStatuses /\ b.cs # p.cs

(* Mutant: the terminated critical containers are not looked for. *)
UpdateIgnoringCritical(b, p) ==
  IF StatusChanged(b, p) \/ ContainersChanged(b, p) THEN "mirror" ELSE "requeueAfter"

UpdateStatus(b, p) ==
  IF \E c \in DOMAIN p.cs \cap Critical : p.cs[c] = "terminated"
    THEN IF b.phase = "Failed" THEN AfterFailure(b) ELSE "failCritical"
  ELSE IF StatusChanged(b, p) \/ ContainersChanged(b, p) THEN "mirror"
  ELSE "requeueAfter"

(* Mutant: a waiting container is given all the time it wants. *)
OffendersWithoutTimeout(n, p) == {c \in DOMAIN p.cs : p.cs[c] \in {"terminated", "backoff"}}

(* The containers of a Pending pod that stop the loop over the statuses;   *)
(* the first of them decides.                                              *)
Offenders(n, p) ==
  {c \in DOMAIN p.cs : \/ p.cs[c] \in {"terminated", "backoff"}
                       \/ p.cs[c] = "creating" /\ p.uid <= late[n]}

JudgePending(n, b, p) ==
  IF Offenders(n, p) = {} THEN UpdateStatus(b, p)
  ELSE LET c == CHOOSE x \in Offenders(n, p) : \A y \in Offenders(n, p) : x <= y
       IN  IF p.cs[c] = "backoff" /\ late[n] < p.uid THEN "killBackoff"
           ELSE "failPending"

JudgePod(n, b, p) ==
  IF p.deleting THEN AfterFailure(b)
  ELSE IF p.phase = "Failed" THEN "killFailed"
  ELSE IF p.phase = "Pending" THEN JudgePending(n, b, p)
  ELSE UpdateStatus(b, p)

(* Mutant: a pod that does not finish is waited for. *)
JudgeDeletionWithoutTimeout(n, p) ==
  IF ~Exists(p) THEN "releaseDeleted" ELSE IF ~p.deleting THEN "deletePod" ELSE "requeueAfter"

(* Mutant: a pod that is on its way out counts as gone. *)
JudgeDeletionWithoutWait(n, p) ==
  IF ~Exists(p) \/ p.deleting THEN "releaseDeleted" ELSE "deletePod"

JudgeDeletion(n, p) ==
  IF ~Exists(p) THEN "releaseDeleted"
  ELSE IF ~p.deleting THEN "deletePod"
  ELSE IF p.uid <= overdue[n] THEN "forceDelete"
  ELSE "requeueAfter"

-----------------------------------------------------------------------------
(* How a pass moves on and ends *)

EndPass == pc' = "idle" /\ lb' = NoBrowser /\ lp' = NoPod /\ UNCHANGED req

(* Mutant: a failed call ends the pass as if it had succeeded. *)
SwallowError == EndPass /\ UNCHANGED queue

(* A requeue with a delay only says when the next pass comes; the delay    *)
(* ends at a moment of its own choosing, as the wait in the queue does.    *)
Done         == EndPass /\ UNCHANGED queue
Requeue      == EndPass /\ queue' = queue \cup {req}
RequeueAfter == Requeue

Goto(l) ==
  \/ l = "done" /\ Done
  \/ l = "requeueAfter" /\ RequeueAfter
  \/ l \notin Endings /\ pc' = l /\ UNCHANGED <<req, lb, lp, queue>>

(* Goes on to l with the Pod just read, kept only where it is used again. *)
Take(l, p) ==
  /\ pc' = l
  /\ lp' = IF l \in {"killFailed", "mirror", "deletePod"} THEN p ELSE NoPod
  /\ UNCHANGED <<req, lb, queue>>

(* What no step of a pass changes. *)
Undisturbed == UNCHANGED <<born, late, overdue, losses, cacheVars, crashes>>

Fault   == faults < MaxFaults /\ faults' = faults + 1
NoFault == UNCHANGED faults

(* retryUpdate and retryStatusUpdate: the patch is the difference between  *)
(* the cached Browser c and what the update function makes of it, d.  It   *)
(* carries no resource version, so it lands on whatever s the server has   *)
(* under the name, field by field, the finalizers as one list.             *)
Merged(s, c, d) ==
  Swept([s EXCEPT !.phase    = IF d.phase = c.phase THEN @ ELSE d.phase,
                  !.ip       = IF d.ip = c.ip THEN @ ELSE d.ip,
                  !.cs       = IF d.cs = c.cs THEN @ ELSE d.cs,
                  !.fins     = IF d.fins = c.fins THEN @ ELSE d.fins,
                  !.labelled = IF d.labelled = c.labelled THEN @ ELSE d.labelled])

(* The patch is refused when the cache or the server has no such Browser,  *)
(* or when it would add a finalizer to one that is being deleted.          *)
Patchable(d) ==
  LET s == browser[req]  c == bCache[req] IN
  /\ Exists(c) /\ Exists(s)
  /\ s.deleting => Merged(s, c, d).fins \subseteq s.fins

WritePatch(d) == StoreBrowser(req, Merged(browser[req], bCache[req], d))

(* A patch to d and, when it succeeds, the step Rest.  A refusal and a     *)
(* fault both make the pass return an error; a fault can hit the request   *)
(* or the answer.                                                          *)
Patch(d, Rest) ==
  /\ \/ Patchable(d) /\ WritePatch(d) /\ Rest /\ NoFault
     \/ ~Patchable(d) /\ Requeue /\ NoFault /\ UNCHANGED browserVars
     \/ Patchable(d) /\ WritePatch(d) /\ Requeue /\ Fault
     \/ Requeue /\ Fault /\ UNCHANGED browserVars
  /\ Undisturbed /\ UNCHANGED <<podVars, made, retired>>

(* A pod delete with the given outcomes, "not found" being no error.  The  *)
(* name is the only precondition.                                          *)
RemovePod(outcomes, Rest, OnFault) ==
  /\ \/ (\E p \in outcomes : StorePod(req, p)) /\ Rest /\ NoFault
     \/ (\E p \in outcomes : StorePod(req, p)) /\ OnFault /\ Fault
     \/ OnFault /\ Fault /\ UNCHANGED podVars
  /\ Undisturbed /\ UNCHANGED <<browserVars, made, retired>>

Cached == bCache[req]
WithPhase(ph) == [Cached EXCEPT !.phase = ph]

(* Mutant: the list of finalizers is emptied. *)
WithoutFinalizers == [Cached EXCEPT !.fins = {}]

WithoutOwn == [Cached EXCEPT !.fins = @ \ {Own}]

-----------------------------------------------------------------------------
(* Reconcile *)

(* Mutant: "not found" is not noticed. *)
BeginUnchecked(n) ==
  /\ pc = "idle" /\ n \in queue
  /\ Fresh => bWatch[n] = <<>> /\ pWatch[n] = <<>>
  /\ queue' = queue \ {n}
  /\ req' = n /\ lb' = bCache[n]
  /\ pc' = IF Route(bCache[n]) = "done" THEN pc ELSE Route(bCache[n])
  /\ UNCHANGED <<clusterVars, cacheVars, lp, faults, crashes, retired>>

(* Reads the Browser and chooses the route.  There is one worker.  A read  *)
(* that fails does nothing but queue the name again, as if the pass had    *)
(* not begun, and is left out.                                             *)
Begin(n) ==
  /\ pc = "idle" /\ n \in queue
  /\ Fresh => bWatch[n] = <<>> /\ pWatch[n] = <<>>
  /\ queue' = queue \ {n}
  /\ req' = n
  /\ LET b == bCache[n]  l == Route(b) IN
     /\ IF Exists(b) /\ l # "done"
          THEN pc' = l /\ lb' = b
          ELSE UNCHANGED <<pc, lb>>
     /\ retired' = [retired EXCEPT ![n] = IF b.deleting THEN b.uid ELSE @]
  /\ UNCHANGED <<clusterVars, cacheVars, lp, faults, crashes>>

ReleaseFailed == pc = "releaseFailed" /\ Patch(WithoutOwn, Done)

AddFinalizer ==
  pc = "finalizer" /\ Patch([Cached EXCEPT !.fins = @ \cup {Own}], Goto(AfterFinalizer(lb)))

AssignLabels ==
  pc = "label" /\ Patch([Cached EXCEPT !.labelled = TRUE], Goto(AfterLabel(lb)))

SetPending == pc = "setPending" /\ Patch(WithPhase("Pending"), Goto("getPod"))

(* Reads the Pod and judges it.  That the Browser is Failed is not asked   *)
(* again here: a pass that has read so took the route to releaseFailed.    *)
GetPod ==
  /\ pc = "getPod"
  /\ \/ LET p == pCache[req]
            l == IF Exists(p) THEN JudgePod(req, lb, p) ELSE "lookupConfig"
        IN  /\ NoFault
            /\ IF l \in Endings THEN Goto(l)
               ELSE Take(l, p)
     \/ Fault /\ Requeue
  /\ Undisturbed /\ UNCHANGED <<browserVars, podVars, made, retired>>

(* Mutant: the failed pod is deleted and its Browser left as it is. *)
KillFailedSilently ==
  pc = "killFailed" /\ RemovePod({NoPod}, RequeueAfter, Requeue)

KillFailed ==
  pc = "killFailed" /\ RemovePod({NoPod}, Goto("failPod"), Requeue)

(* After the status is Failed this branch falls through to the update.     *)
FailPod == pc = "failPod" /\ Patch(WithPhase("Failed"), Goto(UpdateStatus(lb, lp)))

KillBackoff ==
  pc = "killBackoff" /\ RemovePod({NoPod}, Goto("failPending"), Requeue)

FailPending == pc = "failPending" /\ Patch(WithPhase("Failed"), Done)

(* handleMissingPod *)

LookupConfig ==
  /\ pc = "lookupConfig"
  /\ \E o \in LookupOutcomes : Goto(IF o = "found" THEN "createPod" ELSE "failConfig")
  /\ Undisturbed /\ NoFault /\ UNCHANGED <<browserVars, podVars, made, retired>>

(* Mutant: a missing configuration is logged only. *)
FailConfigSilently ==
  /\ pc = "failConfig" /\ Done
  /\ Undisturbed /\ NoFault /\ UNCHANGED <<browserVars, podVars, made, retired>>

FailConfig == pc = "failConfig" /\ Patch(WithPhase("Failed"), Done)

MakePod ==
  /\ made' = [made EXCEPT ![req] = @ + 1]
  /\ StorePod(req, NewPod(made[req] + 1, lb.uid))

(* "Already exists" is answered by a requeue; a quota refuses to create    *)
(* more than MaxPods pods.                                                 *)
CreatePod ==
  LET free == ~Exists(pod[req])  room == made[req] < MaxPods IN
  /\ pc = "createPod"
  /\ \/ free /\ room /\ MakePod /\ RequeueAfter /\ NoFault
     \/ ~free /\ RequeueAfter /\ NoFault /\ UNCHANGED <<podVars, made>>
     \/ free /\ ~room /\ Requeue /\ NoFault /\ UNCHANGED <<podVars, made>>
     \/ free /\ room /\ MakePod /\ Requeue /\ Fault
     \/ Requeue /\ Fault /\ UNCHANGED <<podVars, made>>
  /\ Undisturbed /\ UNCHANGED <<browserVars, retired>>

(* updateBrowserStatus *)

FailCritical == pc = "failCritical" /\ Patch(WithPhase("Failed"), Goto(AfterFailure(lb)))

Mirror ==
  /\ pc = "mirror"
  /\ Patch([Cached EXCEPT !.phase = lp.phase,
                          !.ip = IF StatusChanged(lb, lp) THEN PodIP(lp) ELSE @,
                          !.cs = IF ContainersChanged(lb, lp) THEN lp.cs ELSE @],
           RequeueAfter)

(* deleteBrowser *)

Release == pc = "release" /\ Patch(WithoutOwn, Goto("deleteBrowser"))

DeleteBrowser ==
  /\ pc = "deleteBrowser"
  /\ \/ StoreBrowser(req, DeletedBrowser(browser[req])) /\ Done /\ NoFault
     \/ StoreBrowser(req, DeletedBrowser(browser[req])) /\ Requeue /\ Fault
     \/ Requeue /\ Fault /\ UNCHANGED browserVars
  /\ Undisturbed /\ UNCHANGED <<podVars, made, retired>>

(* handleDeletion *)

(* A failed read of the Pod counts as "no pod". *)
PodForDeletion ==
  /\ pc = "podForDeletion"
  /\ \/ LET p == pCache[req]  l == JudgeDeletion(req, p) IN
        /\ NoFault
        /\ IF l \in Endings THEN Goto(l)
           ELSE Take(l, p)
     \/ Fault /\ Goto("releaseDeleted")
  /\ Undisturbed /\ UNCHANGED <<browserVars, podVars, made, retired>>

(* Mutant: the finalizer goes as soon as the delete is accepted. *)
DeletePodAndRelease ==
  /\ pc = "deletePod"
  /\ RemovePod(IF lp.phase = "Failed" THEN {NoPod} ELSE GracefullyDeleted(pod[req]),
               Goto("releaseDeleted"), Requeue)

DeletePod ==
  /\ pc = "deletePod"
  /\ RemovePod(IF lp.phase = "Failed" THEN {NoPod} ELSE GracefullyDeleted(pod[req]),
               RequeueAfter, Requeue)

ForceDelete ==
  pc = "forceDelete" /\ RemovePod({NoPod}, Goto("releaseDeleted"), Goto("releaseDeleted"))

ReleaseDeleted == pc = "releaseDeleted" /\ Patch(WithoutOwn, Done)

-----------------------------------------------------------------------------
(* The manager: informers, restarts *)

(* An informer applies the next version and its event enqueues the name. *)
SyncBrowser(n) ==
  /\ bWatch[n] # <<>>
  /\ bCache' = [bCache EXCEPT ![n] = Head(bWatch[n])]
  /\ bWatch' = [bWatch EXCEPT ![n] = Tail(@)]
  /\ queue' = queue \cup {n}
  /\ UNCHANGED <<browser, podVars, born, made, late, overdue, losses, pCache, passVars,
                 faults, crashes, retired>>

SyncPod(n) ==
  /\ pWatch[n] # <<>>
  /\ pCache' = [pCache EXCEPT ![n] = Head(pWatch[n])]
  /\ pWatch' = [pWatch EXCEPT ![n] = Tail(@)]
  /\ queue' = queue \cup {n}
  /\ UNCHANGED <<browserVars, pod, born, made, late, overdue, losses, bCache, passVars,
                 faults, crashes, retired>>

(* The manager dies anywhere in a pass; its successor lists every object   *)
(* anew and enqueues what it finds.                                        *)
CrashRestart ==
  /\ crashes < MaxCrashes
  /\ crashes' = crashes + 1
  /\ bCache' = browser /\ pCache' = pod
  /\ bWatch' = [n \in Names |-> <<>>] /\ pWatch' = [n \in Names |-> <<>>]
  /\ queue' = {n \in Names : Exists(browser[n]) \/ Exists(pod[n])}
  /\ EndPass
  /\ UNCHANGED <<browser, pod, born, made, late, overdue, losses, faults, retired>>

-----------------------------------------------------------------------------
Init ==
  /\ ClusterInit
  /\ bCache = [n \in Names |-> NoBrowser] /\ pCache = [n \in Names |-> NoPod]
  /\ queue = {}
  /\ pc = "idle" /\ req \in Names /\ lb = NoBrowser /\ lp = NoPod
  /\ faults = 0 /\ crashes = 0
  /\ retired = [n \in Names |-> 0]

(* TypeOK: the variables have their types, and a pass works on a Browser   *)
(* it has found (browser_reconciler.go:82-89).                             *)
TypeOK ==
  /\ browser \in [Names -> Browsers] /\ pod \in [Names -> Pods]
  /\ bCache \in [Names -> Browsers] /\ pCache \in [Names -> Pods]
  /\ bWatch \in [Names -> Seq(Browsers)] /\ pWatch \in [Names -> Seq(Pods)]
  /\ born \in [Names -> Nat] /\ made \in [Names -> Nat]
  /\ late \in [Names -> Nat] /\ overdue \in [Names -> Nat]
  /\ losses \in [Names -> Nat] /\ retired \in [Names -> Nat]
  /\ queue \subseteq Names
  /\ pc \in Labels /\ req \in Names /\ lb \in Browsers /\ lp \in Pods
  /\ pc = "idle" <=> ~Exists(lb)
  /\ faults \in Nat /\ crashes \in Nat

Environment(n) ==
  /\ ClusterNext(n)
  /\ UNCHANGED <<cacheVars, queue, passVars, faults, crashes, retired>>

(* The steps of a pass that has begun. *)
PassStep ==
  \/ ReleaseFailed \/ AddFinalizer \/ AssignLabels \/ SetPending
  \/ GetPod \/ KillFailed \/ FailPod \/ KillBackoff \/ FailPending
  \/ LookupConfig \/ FailConfig \/ CreatePod
  \/ FailCritical \/ Mirror \/ Release \/ DeleteBrowser
  \/ PodForDeletion \/ DeletePod \/ ForceDelete \/ ReleaseDeleted

Next ==
  \/ PassStep
  \/ CrashRestart
  \/ \E n \in Names : \/ Begin(n)
                      \/ SyncBrowser(n) \/ SyncPod(n)
                      \/ Environment(n)

Spec == Init /\ [][Next]_vars

=============================================================================
