------------------------- MODULE LifecycleRefinement -------------------------
(***************************************************************************)
(* BrowserReconciler implements BrowserLifecycle.  The cluster forgets a   *)
(* pod that is gone, so the mapping needs to be told which Browser has had *)
(* one: the history variable served.                                       *)
(***************************************************************************)
EXTENDS BrowserProperties

VARIABLE served  \* served[n]: uid of the Browser that the latest pod of n was made for

Record ==
  served' = [n \in Names |-> IF made'[n] > made[n] THEN pod'[n].owner ELSE served[n]]

HInit == Init /\ served = [n \in Names |-> 0]
HNext == Next /\ Record
HSpec == HInit /\ [][HNext]_<<vars, served>>

-----------------------------------------------------------------------------
(* The refinement mapping *)

HasFailed(n) == Exists(browser[n]) /\ browser[n].phase = "Failed"

DeletionOf(n) ==
  IF ~Exists(browser[n]) \/ ~browser[n].deleting THEN "none"
  ELSE IF retired[n] = browser[n].uid THEN "seen" ELSE "asked"

ServiceOf(n) ==
  IF ~Exists(browser[n]) THEN "none"
  ELSE IF HasPod(n) THEN "present"
  ELSE IF served[n] = browser[n].uid THEN "lost" ELSE "none"

L == INSTANCE BrowserLifecycle WITH
       issued   <- born,
       holder   <- [n \in Names |-> browser[n].uid],
       failed   <- {n \in Names : HasFailed(n)},
       deletion <- [n \in Names |-> DeletionOf(n)],
       service  <- [n \in Names |-> ServiceOf(n)]

(* KeepsItsPromise: the controller and its cluster implement               *)
(* BrowserLifecycle, when each pass begins with caches that have caught up *)
(* and nothing is lost on the way (browser_reconciler.go:75-327).          *)
KeepsItsPromise == L!Spec

-----------------------------------------------------------------------------
(* What KeepsItsPromise rests on *)

(* Pods are made one for each Browser, in the order of the Browsers.       *)
OneByOne(n) ==
  /\ made[n] <= served[n] /\ served[n] <= born[n]
  /\ Exists(pod[n]) => pod[n].owner = served[n]
  /\ Exists(browser[n]) => browser[n].uid = born[n]

(* A Browser that has its pod is guarded by the finalizer, its pod is not  *)
(* deleted before it is, and one that has lost its pod is over.            *)
PodGuarded(n) ==
  /\ HasPod(n) => Own \in browser[n].fins \/ browser[n].phase = "Failed"
  /\ HasPod(n) /\ pod[n].deleting => browser[n].deleting
  /\ Exists(browser[n]) /\ served[n] = browser[n].uid /\ ~HasPod(n)
       => \/ browser[n].deleting \/ browser[n].phase = "Failed"
          \/ pc \in {"failPod", "failPending"} /\ req = n

(* What the pass knows of versions that it may still come to read.         *)
PassVersions ==
  /\ served[req] <= lb.uid /\ lb.uid <= born[req]
  /\ Same => \A v \in BrowserVersions(req) : v.uid = lb.uid
  /\ \A v \in PodVersions(req) : ~Exists(v) => ~Exists(pod[req])
  /\ pc \in Serving /\ Same => \A v \in PodVersions(req) : v.deleting => ~HasPod(req)
  /\ pc = "finalizer" => \A v \in BrowserVersions(req) : v.uid = lb.uid => Own \notin v.fins
  /\ \A v \in BrowserVersions(req) :
       pc \in Serving /\ v.phase = "Failed"
         => \/ pc \in {"failCritical", "release", "deleteBrowser"}
            \/ pc = "mirror" /\ lp.phase = "Failed"

(* What it has achieved where it stands.                                   *)
PassStands ==
  /\ pc \in Guarding \cup {"finalizer"} /\ served[req] = lb.uid
       => pc \in {"label", "setPending", "getPod"} /\ HasPod(req)
  /\ pc \in Guarding /\ Same => Own \in browser[req].fins
  /\ pc \in {"killFailed", "failPod"} => lp.phase = "Failed"
  /\ pc \in {"release", "deleteBrowser"} /\ Same => ~HasPod(req) \/ browser[req].phase = "Failed"
  /\ pc = "releaseFailed" /\ Same => browser[req].phase = "Failed"
  /\ pc \in Deleting /\ Same => browser[req].deleting
  /\ pc = "releaseDeleted" => ~Exists(pod[req])

LifecycleInv ==
  /\ DeletionInv
  /\ served \in [Names -> Nat]
  /\ PodWatchEndsInTruth
  /\ \A n \in Names : OneByOne(n) /\ FailureStays(n) /\ PodGuarded(n)
  /\ pc # "idle" => PassVersions /\ PassStands
=============================================================================
