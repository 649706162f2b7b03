-------------------------- MODULE BrowserProperties --------------------------
(***************************************************************************)
(* What the Browser controller owes its users, stated over                 *)
(* BrowserReconciler.  Which of these hold depends on how stale the caches *)
(* may be and on what fails; the runs of MCBrowser say which and when.     *)
(***************************************************************************)
EXTENDS BrowserReconciler

-----------------------------------------------------------------------------
(* Safety *)

(* Nothing is left for the controller to do: the Browser is gone, or it is *)
(* failed or being deleted and the controller's finalizer is off it.       *)
Settled(b) ==
  \/ ~Exists(b)
  \/ (b.deleting \/ b.phase = "Failed") /\ Own \notin b.fins

(* NeverForgotten: a Browser that still needs the controller is on its way *)
(* to another pass: it is queued, in a pass, or has news in a watch.  Each *)
(* early return of Reconcile without a requeue (browser_reconciler.go:109, *)
(* 159, 214, 231, 251, 370, 386, 643) relies on it, whatever the caches    *)
(* lag, whichever call fails and whenever the manager restarts.            *)
NeverForgotten ==
  \A n \in Names :
    \/ Settled(browser[n])
    \/ n \in queue
    \/ pc # "idle" /\ req = n
    \/ bWatch[n] # <<>>

(* What NeverForgotten rests on.  The watch ends in the server's version,  *)
(* and a cache with no news is that version; so a pass that no event has   *)
(* overtaken decides by the truth, and it ends without a requeue only when *)
(* it has just changed the Browser, which is news.                         *)
Leaving == {"releaseFailed", "podForDeletion", "deletePod", "forceDelete", "releaseDeleted"}
Serving == Labels \ (Leaving \cup {"idle"})

WatchEndsInTruth ==
  \A n \in Names :
    IF bWatch[n] = <<>> THEN bCache[n] = browser[n]
                        ELSE bWatch[n][Len(bWatch[n])] = browser[n]

PassKnowsBrowser ==
  /\ pc \in Serving => ~lb.deleting /\ lb.phase # "Failed"
  /\ pc \in Leaving => Own \in lb.fins
  /\ pc # "idle" /\ req \notin queue => lb = bCache[req]

NothingForgottenInv == TypeOK /\ WatchEndsInTruth /\ PassKnowsBrowser /\ NeverForgotten

(* DeletionIsFinal: once a pass has seen a Browser being deleted           *)
(* (browser_reconciler.go:92), no later pass creates a pod for that        *)
(* incarnation, though every pass reads a cache that may be stale and the  *)
(* pod's own cache lags separately.                                        *)
DeletionIsFinal ==
  [][\A n \in Names : made'[n] > made[n] => pod'[n].owner > retired[n]]_vars

(* What DeletionIsFinal rests on.  The versions of a Browser that an       *)
(* informer has or will get are in order: no version leads back from a     *)
(* deletion to the same incarnation alive or with more finalizers, and     *)
(* none is older than what retired has noted.                              *)
Version(n, i) == IF i = 0 THEN bCache[n] ELSE bWatch[n][i]

Follows(v, w) ==
  ~Exists(w) \/ w.uid > v.uid \/ (w.uid = v.uid /\ (v.deleting => w.deleting /\ w.fins \subseteq v.fins))

NotBefore(r, v) == ~Exists(v) \/ v.uid > r \/ (v.uid = r /\ v.deleting)

VersionsInOrder ==
  \A n \in Names : \A i \in 0 .. Len(bWatch[n]) :
    /\ Version(n, i).uid <= born[n]
    /\ NotBefore(retired[n], Version(n, i))
    /\ \A j \in 0 .. Len(bWatch[n]) : i < j => Follows(Version(n, i), Version(n, j))

DeletionInv ==
  /\ NothingForgottenInv /\ VersionsInOrder
  /\ \A n \in Names : retired[n] <= born[n]
  /\ pc \in Serving => lb.uid > retired[req]

(* ForeignCleanupKept: once a pass has seen a Browser being deleted, the    *)
(* controller leaves the finalizers of others alone, so that their cleanup *)
(* is not cut short.  Its patches replace the list of finalizers by that of *)
(* a cached copy (browser_reconciler.go:578), which may be stale.          *)
ForeignCleanupKept ==
  [][\A n \in Names :
       pc' # pc /\ Exists(browser[n]) /\ retired[n] = browser[n].uid
         => browser[n].fins \ {Own} \subseteq browser'[n].fins]_vars

(* What ForeignCleanupKept rests on: the cached copies of a deleted        *)
(* Browser have every finalizer that is left (VersionsInOrder), and a pass *)
(* holds no Browser later than the one that has the name.                  *)
NameKnown ==
  /\ \A n \in Names : Exists(browser[n]) => browser[n].uid = born[n]
  /\ pc # "idle" => lb.uid <= born[req]

CleanupInv == DeletionInv /\ NameKnown

-----------------------------------------------------------------------------
(* Safety of passes that begin with caches that have caught up (Fresh) *)

(* FailedIsTerminal: a Browser whose status says Failed never says         *)
(* anything else (README.md:314).  Every pass patches the status of a      *)
(* fresh copy by what it decided from the copy it read first.              *)
FailedIsTerminal ==
  [][\A n \in Names :
       Exists(browser[n]) /\ browser[n].phase = "Failed" /\ browser'[n].uid = browser[n].uid
         => browser'[n].phase = "Failed"]_vars

(* The versions of an object that its informer has or has still to get.    *)
BrowserVersions(n) == {browser[n], bCache[n]} \cup {bWatch[n][i] : i \in 1 .. Len(bWatch[n])}
PodVersions(n)     == {pod[n], pCache[n]} \cup {pWatch[n][i] : i \in 1 .. Len(pWatch[n])}

(* What FailedIsTerminal rests on.  A failure that some version tells of   *)
(* is still there; and a pass that serves a Browser meets one only where   *)
(* it has written it itself, or is about to write Failed once more.        *)
FailureStays(n) ==
  \A v \in BrowserVersions(n) :
    /\ v.uid <= born[n]
    /\ Exists(v) /\ v.uid = browser[n].uid /\ v.phase = "Failed" => browser[n].phase = "Failed"

PassMeetsFailure ==
  /\ pc \in {"killFailed", "failPod"} => lp.phase = "Failed"
  /\ \A v \in BrowserVersions(req) :
       pc \in Serving /\ v.phase = "Failed"
         => \/ pc \in {"failCritical", "release", "deleteBrowser"}
            \/ pc = "mirror" /\ lp.phase = "Failed"

FailureInv == NothingForgottenInv /\ (\A n \in Names : FailureStays(n)) /\ PassMeetsFailure

(* CleanupBeforeRelease: when handleDeletion takes the finalizer off, the  *)
(* pod of the Browser is gone (browser_reconciler.go:274-323).             *)
CleanupBeforeRelease ==
  pc = "releaseDeleted" /\ browser[req].uid = lb.uid
    => ~Exists(pod[req]) \/ pod[req].owner # lb.uid

(* What CleanupBeforeRelease rests on, while no call fails.  An informer   *)
(* that has no news of a pod knows it as it is, and no pod comes back      *)
(* during a pass, which alone could make one.                              *)
PodWatchEndsInTruth ==
  \A n \in Names :
    IF pWatch[n] = <<>> THEN pCache[n] = pod[n] ELSE pWatch[n][Len(pWatch[n])] = pod[n]

GoneInv ==
  /\ TypeOK /\ PodWatchEndsInTruth
  /\ pc # "idle" => \A v \in PodVersions(req) : ~Exists(v) => ~Exists(pod[req])
  /\ pc = "releaseDeleted" => ~Exists(pod[req])

(* OnePodPerBrowser: a Browser gets one Pod in its life (README.md:16),    *)
(* which is not restarted (README.md:313), although the pod is deleted     *)
(* before the status that ends the Browser is written                      *)
(* (browser_reconciler.go:179-184, 239-243).                               *)
OnePodPerBrowser == \A n \in Names : made[n] <= born[n]

(* PodsAccountedFor: every pod beyond one for each Browser is owed to      *)
(* something that went wrong, a failed call, a restart or a pod taken away *)
(* from outside, and to each of these at most one: the controller itself   *)
(* never makes a pod too many (browser_reconciler.go:153-255, 344-413).    *)
Disturbances(n) == faults + crashes + losses[n]

PodsAccountedFor == \A n \in Names : made[n] <= born[n] + Disturbances(n)

(* What PodsAccountedFor rests on.  Spent(n): with one pod more there would *)
(* be one too many.  A Browser then has its pod and is guarded, unless it  *)
(* is going or Failed or its pass is about to write that.                  *)
HasPod(n) == Exists(browser[n]) /\ Exists(pod[n]) /\ pod[n].owner = browser[n].uid

Spent(n) == made[n] = born[n] + Disturbances(n)

SpentIsServed(n) ==
  Spent(n) /\ Exists(browser[n]) /\ ~browser[n].deleting /\ browser[n].phase # "Failed"
    => \/ HasPod(n) /\ ~pod[n].deleting /\ Own \in browser[n].fins
       \/ pc \in {"failPod", "failPending"} /\ req = n

Guarding == {"label", "setPending", "getPod", "lookupConfig", "createPod"}
Deleting == {"podForDeletion", "deletePod", "forceDelete", "releaseDeleted"}

(* The Browser that the pass works on has not made room for another one. *)
Same == Exists(browser[req]) /\ browser[req].uid = lb.uid

(* What a pass knows of its own Browser, *)
PassGuards ==
  /\ Same => \A v \in BrowserVersions(req) : v.uid = lb.uid
  /\ pc = "finalizer" => \A v \in BrowserVersions(req) : v.uid = lb.uid => Own \notin v.fins
  /\ pc \in Guarding /\ Same => Own \in browser[req].fins
  /\ pc \in Deleting /\ Same => browser[req].deleting

(* how many pods it leaves to a Browser that has taken the name meanwhile, *)
PassLeavesRoom ==
  pc \in Guarding \cup {"finalizer"} /\ lb.uid < born[req]
    => made[req] + 1 < born[req] + Disturbances(req)

(* and that it comes to make none when the pods are spent.                 *)
PassWhenSpent ==
  Spent(req) =>
    /\ lb.uid = born[req]
    /\ pc \notin {"finalizer", "lookupConfig", "createPod", "failConfig"}
    /\ pc \in {"label", "setPending", "getPod"}
         => HasPod(req) /\ \A v \in PodVersions(req) : Exists(v) /\ ~v.deleting
    /\ pc \in {"release", "deleteBrowser", "releaseFailed"} /\ Exists(browser[req])
         => browser[req].phase = "Failed"

AccountInv ==
  /\ CleanupInv /\ FailureInv /\ PodWatchEndsInTruth /\ PodsAccountedFor
  /\ \A n \in Names : SpentIsServed(n)
  /\ pc # "idle" => PassGuards /\ PassLeavesRoom /\ PassWhenSpent

-----------------------------------------------------------------------------
(* Liveness *)

(* Go runs a pass that has begun; the work queue is first in, first out,   *)
(* so that a queued name's turn comes again and again; the informers       *)
(* deliver what the server committed.                                      *)
ControllerFairness ==
  /\ WF_vars(PassStep)
  /\ \A n \in Names :
       SF_vars(Begin(n)) /\ WF_vars(SyncBrowser(n)) /\ WF_vars(SyncPod(n))

(* Time passes, and the other owners of finalizers let go of a Browser     *)
(* that is being deleted.  Nothing is asked of kubelets or of users.       *)
WorldFairness ==
  \A n \in Names :
    /\ WF_vars(Environment(n) /\ late' # late)
    /\ WF_vars(Environment(n) /\ overdue' # overdue)
    /\ WF_vars(Environment(n) /\ DropForeignFinalizer(n))

FairSpec == Spec /\ ControllerFairness /\ WorldFairness

(* DeletionCompletes: a Browser that is being deleted is gone in the end,  *)
(* even if no kubelet ever confirms the end of its pod: after              *)
(* podDeletionTimeout the pod is deleted by force and the finalizer goes   *)
(* (browser_reconciler.go:291-323).                                        *)
DeletionCompletes ==
  \A n \in Names : \A u \in 1..MaxBrowsers :
    (browser[n].uid = u /\ browser[n].deleting) ~> (browser[n].uid # u)

(* Over(n, u): incarnation u of the Browser is gone, going or Failed. *)
Over(n, u) ==
  browser[n].uid # u \/ browser[n].deleting \/ browser[n].phase = "Failed"

(* CrashesNoticed: when a critical container of a Browser's pod has        *)
(* terminated, the Browser is declared Failed or deleted, unless the pod   *)
(* is gone before the controller sees it (browser_reconciler.go:420-450).  *)
CrashesNoticed ==
  \A n \in Names : \A u \in 1..MaxBrowsers : \A v \in 1..MaxPods :
    (/\ browser[n].uid = u /\ pod[n].uid = v
     /\ \E c \in DOMAIN pod[n].cs \cap Critical : pod[n].cs[c] = "terminated")
      ~> (Over(n, u) \/ pod[n].uid # v)

(* StartsOrFails: a container of a Browser's pod that waits does not keep  *)
(* the Browser waiting forever: the pod leaves Pending, or is gone, or     *)
(* after podCreationTimeout the Browser is over                            *)
(* (browser_reconciler.go:217-232).                                        *)
StartsOrFails ==
  \A n \in Names : \A u \in 1..MaxBrowsers : \A v \in 1..MaxPods :
    (/\ browser[n].uid = u /\ pod[n].uid = v
     /\ pod[n].phase = "Pending" /\ pod[n].cs # NoStatuses)
      ~> (Over(n, u) \/ pod[n].uid # v \/ pod[n].phase # "Pending")

(* StatusConverges: the status of a Browser whose pod keeps running comes  *)
(* to show that pod, or the Browser is over (README.md:146).               *)
Steady(n) ==
  Exists(browser[n]) /\ Exists(pod[n]) /\ ~pod[n].deleting /\ pod[n].phase = "Running"

Shown(n) ==
  browser[n].phase = "Running" /\ browser[n].ip = PodIP(pod[n]) /\ browser[n].cs = pod[n].cs

StatusConverges ==
  \A n \in Names :
    <>[]Steady(n) => <>[](Shown(n) \/ Over(n, browser[n].uid))

(* EveryBrowserAnswered: a new Browser gets a pod under its name or is     *)
(* over; no stale cache, failed call or restart leaves it with neither     *)
(* (browser_reconciler.go:344-403).                                        *)
EveryBrowserAnswered ==
  \A n \in Names : \A u \in 1..MaxBrowsers :
    (browser[n].uid = u) ~> (Over(n, u) \/ Exists(pod[n]))

=============================================================================
