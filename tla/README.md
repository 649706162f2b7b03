# Browser controller: specification, model checking and proofs

This directory holds TLA+ modules for the controller of this repository, the
TLC configurations that check them on small instances, and TLAPS proofs that
hold for every instance. File and line references are to the repository's Go
code.

## 1. The system

The manager (`cmd/manager/main.go`) is one process that runs two controllers
and a store next to each other. They share the informer caches, which follow
the API server with a delay, and meet only through the API server and the store.

| part | state | operations | who calls it |
|---|---|---|---|
| Browser controller, `controllers/browser/browser_reconciler.go` | none but a work queue and the two caches it reads | `Reconcile` and what it calls: `handleDeletion`, `handleMissingPod`, `createPod`, `updateBrowserStatus`, `deleteBrowser`, `retryUpdate`, `retryStatusUpdate` | events of Browsers and of the Pods they own, requeues |
| pod construction, the same file from line 646 | none | `buildBrowserPod`, `parseSelenosisOptions`, `applySelenosisOptions`, `mergeEnvVars` | `handleMissingPod` |
| BrowserConfig controller, `controllers/browserconfig/` | none but a work queue | `Reconcile`: keeps its finalizer on live BrowserConfigs and takes it off deleted ones | events of BrowserConfigs |
| store, `store/browserconfig_store.go` | a map from lower-cased `namespace/browser:version` to a merged configuration, under a lock | `Start`, `onAddOrUpdate`, `onDelete`, `Get` | the informer; `handleMissingPod` |
| merge, `apis/browserconfig/v1/browser_config.go` | none | `MergeWithTemplate` and its helpers | `onAddOrUpdate` |
| manager start-up, `cmd/manager/main.go` | - | builds and starts the others | the process |

What is hard about it:

- **Staleness.** A pass reads the Browser from one cache and the Pod from
  another, decides, and acts on whatever the server holds by then. Patches are
  made from a fresh copy but decided from the first one, and they carry no
  `resourceVersion`.
- **Partial failure.** One pass makes up to four calls; after a failed one, or
  a stop of the process, the next pass starts over from what is stored and may
  take another branch.
- **Quiet returns.** Many branches return without a requeue and count on the
  event that their own write causes.
- **Time.** Two five-minute deadlines race with kubelets.
- **Names are used again**, and Pods are found by name.
- **Events as the only input of the store**, which keeps no record of who
  declared a key.
- **Two parts of one process that nothing synchronises**: the Browser controller
  asks the store from the start, the store hears of configurations later.
- **Two processes**: leader election is off by default (`main.go:43`, 68), so a
  rolling update has two managers at work on the same Browsers.
- **Merging by name through Go maps**, and slices shared between the store and
  the pods made from it.

`PROJECT.json` lists these hazards line by line with the properties that watch
them. What makes each part correct, in one sentence each:

- Browser controller: every Browser gets one pod or is Failed; what dies is
  noticed; what is deleted disappears after its pod; Failed is final; nothing
  is forgotten on the way; the finalizers of others are left alone.
- BrowserConfig controller: a deleted BrowserConfig disappears, and nothing the
  controller writes undoes an edit.
- Store: what is declared is served, what is served is declared, and never an
  older edit after a newer one.
- Manager: a Browser whose version is in place is not failed for want of it, and
  its pod is not made from an older edit; an update of the manager loses nothing.
- Merge and pod construction: merged by name; options before the version before
  the template; one browser's options never reach another.

## 2. The modules

```
BrowserLifecycle                 what a user of a Browser is promised (abstract)

Cluster                          API server, watches, kubelets, users, time (external)
  BrowserReconciler              the Browser controller in that cluster
    BrowserProperties            its properties and fairness
      MCBrowser                  instances for TLC
      LifecycleRefinement        BrowserReconciler implements BrowserLifecycle
      BrowserProofs              theorems for any lag, failures and restarts
        FreshProofs              theorems for passes from caches that have caught up
          LifecycleProofs        the theorem about the refinement
        RollingUpdate            two managers on one cluster
          RollingProofs          a theorem about the update
      Manager                    composed with BrowserConfigStore (StoreProofs)
        MCManager                instances for TLC
        ManagerProofs            theorems about the lookups

BrowserConfigReconciler          the BrowserConfig controller
  BrowserConfigStore             composed with the store, over one informer
    MCBrowserConfigStore         instances for TLC
    StoreProofs                  theorems about both

ConfigMerge                      MergeWithTemplate (operators)
  PodBuild                       store entry -> pods, composed with the merge
    PodProperties                its properties
      MCPodBuild                 instances for TLC
      PodProofs                  theorems for inputs of any size
```

### Cluster

One Browser and one Pod per name, each with a `uid` that is fresh for every
incarnation (0: no object). `bWatch`/`pWatch` hold the versions that an
informer has not seen yet. A stream holds at most `MaxLag` versions; a write to
a full one replaces its last version, as a re-list does. Finalizers, graceful
deletion, owner references, `restartPolicy: Never`, evictions and drains
(`MaxLosses`) are as Kubernetes defines them where the controller can tell.
Time is two steps: five minutes have passed since a pod was created
(`CreationDeadline`, whatever phase the pod is in by now, as a stale copy of it
ages too; the code asks for the age only of pods with container statuses) or
deleted (`DeletionDeadline`).

### BrowserReconciler

A pass walks through the labels of `pc`, one per call to the API server or read
of a cache, and any other actor may step between two labels.

| label | code | label | code |
|---|---|---|---|
| `Begin` | 75-121 | `lookupConfig`, `failConfig` | 344-388 |
| `releaseFailed` | 97-110 | `createPod` | 390-413 |
| `finalizer` | 112-121 | `failCritical` | 420-449 |
| `label` | 123-137 | `mirror` | 488-508 |
| `setPending` | 139-149 | `release`, `deleteBrowser` | 628-644 |
| `getPod` | 153-174 | `podForDeletion` | 261-313 |
| `killFailed`, `failPod` | 176-192 | `deletePod` | 273-288 |
| `killBackoff`, `failPending` | 194-251 | `forceDelete`, `releaseDeleted` | 290-327 |

`lb` and `lp` are the Browser and the Pod that the pass read; the code never
refreshes them (its patch helpers work on copies). The branching between labels
is in operators without state (`Route`, `JudgePod`, `UpdateStatus`,
`JudgeDeletion`, ...), so that a reader can lay them beside the code.
`Patch` is `retryUpdate`/`retryStatusUpdate`: a merge patch from the cached
object to the wanted one, applied to what the server has, without a
`resourceVersion`. Its Get and its Patch are one step: the cache moving in
between is the same as its moving just after. `Fault` is a call that fails or
whose answer is lost although it took effect. `CrashRestart` ends a pass
anywhere; the successor lists everything anew. There is one worker, the default
of `MaxConcurrentReconciles`.

`retired` is a ghost: the latest incarnation that some pass has seen being
deleted. Nothing reads it but the property.

Operators marked `Mutant` are the plausible bugs that the properties are tested
against; no specification uses them.

### BrowserLifecycle and LifecycleRefinement

`BrowserLifecycle` is what the documents promise the user of a Browser and
nothing of how: a Browser is requested, gets a pod at most once, may fail for
good, may be asked to leave; it leaves only when its pod is gone or it has
failed. `LifecycleRefinement` maps the cluster and the controller to it: the
holder of a name is the `uid` of its Browser, its pod counts when its owner is
that Browser, a deletion is *seen* when a pass has seen it (`retired`). The
cluster forgets a pod that is gone, so the mapping needs a history variable,
`served`: the Browser that the latest pod of a name was made for. `HSpec` is
`Spec` with that variable, and the property is `KeepsItsPromise`, `L!Spec`.

### RollingUpdate

The variables of `BrowserReconciler` are the new manager; the instance `Old` has
watches, caches, a queue and a pass of its own. Both act on the one cluster, and
each hears of the other's writes through its watches (`NewHears`, `OldHears`).
`StartNew` lists everything, `StopOld` ends the old one wherever its pass is.
`Old` is an instance of `BrowserProofs`, which adds nothing to the model and
lets `RollingProofs` cite the lemmas for the old manager too.

### Manager

`Manager` is `cmd/manager/main.go`: the Browser controller and the instance
`Store` of `StoreProofs`, that is `BrowserConfigStore` with its theorems, in one
process. The lookup, a choice in
`BrowserReconciler` (`LookupOutcomes`), is what the store serves at that moment
under the lower-cased key (`LooksUp`), and a restart hits both (`Restart`). Two
history variables serve the properties: `owed`, what was in place when a Browser
was created, and `used`, the edit that its pass has found. A Browser may be
replaced by another of its name during a pass, so the properties are about
passes that work on the latest one (`OnLatest`).

### BrowserConfigReconciler and BrowserConfigStore

Here updates send the whole object with its `resourceVersion`, so a stale cache
shows up as a conflict (`Current`), and a pass is one step. The store hears of
changes through its own queue (`events`): `Told` appends what the informer
knows, `Start` replays the objects present when the handler registers, `Handle`
takes one event under the lock. An entry records the configuration and the edit
it came from (`config`, `edit`), and the spelling (`as`) whose value won.
Namespaces are left out: keys of two namespaces never meet.

### ConfigMerge and PodBuild

The merge is a set of operators; those that go through a Go map return the set
of all orders its iteration may yield. Of the fields that are merged alike one
stands for all: `labels` and `annotations` for the maps, `volumes` for
concatenated lists, `resources` for fields taken whole. The working directory and
the pull policy have fields of their own, because in a sidecar neither is treated
like the others (`WithTemplate`); `FieldsInherited` states what happens to each,
and `JoinedOnce` counts the items of joined lists. `PodBuild` is the
store's entry and the pods made from it: `Load` merges a fresh copy
(`onAddOrUpdate`), `Create` is a pass that comes to `createPod`, `Replace` gives
a name to another browser. `MergeEnvVars` also says what it leaves in the slice
it was given, because that slice belongs to the store. The server refuses a pod
whose containers are called alike (`Accepted`); by then the pod has been built,
and what building it did to the store's slice is done. What configurations and
requests may look like is in `SourcesAssumption` and `RequestsAssumption`, the
types of the Go fields and nothing more: lists may be of any length and hold a
name more than once.

## 3. The runs

Every run checks a question of its own. `CHECK_DEADLOCK FALSE` is said for the
controllers and the store because they come to rest: no Browser is left to
serve, or everybody has heard of the last edit, while the users' bounds are
used up. `pods_from_config` never rests.

| run | shows | bounds |
|---|---|---|
| `stale_caches` | `TypeOK`, `NeverForgotten`, `DeletionIsFinal`, `ForeignCleanupKept` hold with lagging caches, a foreign finalizer, and one failed call, one loss of a pod and one restart in any order | 1 name, 1 incarnation, 1 container, whose end is all that is reported, 1 pod, lag 1 |
| `fresh_caches` | `KeepsItsPromise`: the controller implements `BrowserLifecycle`; `OnePodPerBrowser`, `CleanupBeforeRelease`. Each pass starts from caches that have caught up, nothing fails | 2 incarnations, 3 pods, 2 containers of which 1 critical, back-off, running and terminated containers |
| `browsers_answered` | `EveryBrowserAnswered`, `CrashesNoticed`, `DeletionCompletes`, `PodsAccountedFor`, `FailedIsTerminal`: what is left of the promise when things go wrong. Each pass starts from caches that have caught up | 1 incarnation, 4 pods, 1 container, whose end is all that is reported; 1 failed call, 1 restart, 1 lost pod, in any order |
| `status_converges` | `CrashesNoticed`, `StartsOrFails`, `StatusConverges` with lagging caches | 1 pod, all container states |
| `rolling_update` | `NewNeverForgets`, `DeletionCompletes` with two managers: the new one keeps in view what still needs it, and a deleted Browser disappears, wherever the old one is stopped | 1 name, 1 incarnation, 1 pod that starts late or never; each pass from caches that have caught up |
| `store_serves` | `StoreTypeOK`, `DeclaredServed`, `FoundStaysFound`, `NoRollback`, `EditsKept`, `EventuallyServed`, `ConfigDeletionCompletes` | 2 configurations, 2 edits, 1 failed update, 1 restart; an edit may drop a version or write it in two spellings |
| `manager_resolves` | `PlacedConfigFound`, `NeverOlderConfig`: lookups race with edits, events and handler calls | 1 Browser, 1 configuration asked for in another spelling, 2 edits, 1 failed call, 1 restart |
| `pods_from_config` | `EnvMergedByName`, `SidecarsMergedByName`, `FieldsInherited`, `JoinedOnce`, `EnvByPrecedence`, `LabelsByPrecedence` | 160 pairs of template and version, among them containers called alike and a volume given twice, 2 browsers, 5 requests |
| `failed_not_terminal` | a pass that begins with a copy from before the failure, with the phase still empty, writes Pending over Failed (140) | lag 1, 1 name |
| `manager_cold` | after a restart a Browser is failed although its version is declared | 1 Browser, 1 configuration, 1 restart |
| `store_stale_version` | a version that was taken out is still served | 2 edits |
| `merge_init_containers` | the template's init container wins | 1 init container |

The last four disagree with what the repository says of itself; the findings in
`PROJECT.json` quote the lines.

### Why the bounds are enough

- *One name.* Passes of different names touch different objects; they share only
  the worker, and its fairness is assumed, not derived. Two names were tried
  while the model was written and showed nothing new.
- *`MaxLag` 1.* The latest version is never lost, only those in between, so lag
  1 already gives "seen", "one behind" and "any number skipped". Longer streams
  are covered by the proofs.
- *`MaxPods`* is a quota of the cluster: the server refuses pods beyond it, and
  `CreatePod` then requeues for ever. A Browser can need one pod more
  than there are disturbances, and `browsers_answered` gives just that, so that
  what it says of the number of pods is not the quota's doing. In `stale_caches` the quota is 1 and makes refusals
  part of the run.
- *Reported states.* A waiting container is `creating` or `backoff`; runs that
  are not about starting leave these out of what kubelets report, which keeps
  pods Pending without statuses and then running or terminated. With liveness,
  three disturbances and four pods `browsers_answered` has room for `terminated`
  only; so `CrashesNoticed` is checked in `status_converges` too, where the pod
  runs before its container ends.
- *Two managers.* Two caches, queues and passes on one cluster have far more
  states than one, so the run has one Browser and pods
  whose containers report nothing; deletions, force deletes, releases and the
  return of a name from either manager are all there. What they leave out is the
  failure of a pod between two managers, and passes of stale caches, which the
  theorem covers for `NewNeverForgets`.
- *One configuration in `manager_resolves`.* Two that share a key are a
  disagreement of their own (section 5); two that do not meet nowhere.
- *Two incarnations* are enough for one to be mistaken for the other.
- *Two edits* make a difference between old and new, and the handling of the
  first races with the second. Safety for more of them, and for any number of
  failures and restarts, is proved.

### What "fresh" means

Five properties are claimed only for passes that begin with caches that have
caught up (`Fresh`); events may still arrive while the pass is under way. How much
else each of them needs differs:

- `FailedIsTerminal` and `PodsAccountedFor` need nothing more, and
  `browsers_answered` checks them with all that can go wrong, for one Browser;
  that a name is used again meanwhile is left to the proof.
  `failed_not_terminal` shows that the first one needs `Fresh`.
- `CleanupBeforeRelease` needs that no call fails, since an error of the pod
  lookup is taken for the absence of the pod (`browser_reconciler.go:309-313`)
  and one of the force delete for its success (295).
  It does not need the absence of restarts and lost pods.
- `OnePodPerBrowser` and `KeepsItsPromise` also need that nothing restarts and no
  pod is lost: the pod that failed is deleted before the status says so
  (179, 184 and 239-243), and a stop in between leaves a Browser
  that looks new and gets a second pod; so does one whose pod is deleted from
  outside. With `MaxCrashes`, `MaxFaults` or `MaxLosses` at 1 TLC finds that
  within seconds; no document promises one pod across a crash, so no run claims
  it. `PodsAccountedFor` says how bad it gets: a failed call, a restart or a lost
  pod costs at most one pod more, however long the controller runs.

### Fairness

`ControllerFairness`: Go runs a pass that has begun (weak fairness of
`PassStep`); the work queue is first in, first out, so a name that is due again
and again has its turn again and again (strong fairness of `Begin`, because
with `Fresh` news may disable it in between, and because another name's pass
does); informers deliver (weak fairness of the two Sync steps).
`WorldFairness`: time passes, and other owners of finalizers let go of a Browser
that is being deleted. Nothing is asked of kubelets, of the garbage collector or
of users, which is why `DeletionCompletes` is about the force delete. Faults and
restarts are bounded, never fair. In `RollingUpdate` the update gets done (the
new manager starts, the old one stops), the new manager and the world are as
fair as above, and nothing is asked of the old one. `Manager` claims safety only
and has no fairness. The store's `FairSpec` is the same for its
parts: the manager starts the store, the handler works off its queue, the work
queue returns to every name (strong, because conflicts and restarts take turns
with it).

## 4. The proofs

Twenty-three theorems hold for all values of the constants that meet the stated
assumptions (`ClusterAssumption`, `ReconcilerAssumption`, `ConfigsAssumption`,
`StoreAssumption`, `ManagerAssumption`, `SourcesAssumption`,
`RequestsAssumption`, all of which TLC evaluates in the runs). Every safety
property of a passing run is among them.

| module | theorem | states | also assumes |
|---|---|---|---|
| `BrowserProofs` | `TypeCorrect` | `Spec => []TypeOK` | |
| | `NothingForgotten` | `Spec => []NeverForgotten` | |
| | `DeletionIsFinalHolds` | `Spec => DeletionIsFinal` | |
| | `ForeignCleanupIsKept` | `Spec => ForeignCleanupKept` | |
| `FreshProofs` | `FailureIsTerminal` | `Spec => FailedIsTerminal` | `Fresh` |
| | `PodsAreAccountedFor` | `Spec => []PodsAccountedFor` | `Fresh` |
| | `CleanedUpBeforeRelease` | `Spec => []CleanupBeforeRelease` | `Fresh`, `MaxFaults = 0` |
| | `OnePodOnly` | `Spec => []OnePodPerBrowser` | `Quiet` |
| `LifecycleProofs` | `Implementation` | `HSpec => KeepsItsPromise` | `Quiet` |
| `StoreProofs` | `EditsAreKept` | `Spec => EditsKept` | |
| | `StoreTypeCorrect` | `Spec => []StoreTypeOK` | |
| | `NoRollbackHolds` | `Spec => NoRollback` | |
| | `FoundStaysFoundHolds` | `Spec => FoundStaysFound` | `Separate` |
| | `DeclaredServedHolds` | `Spec => []DeclaredServed` | `Separate` |
| `ManagerProofs` | `PlacedConfigIsFound` | `ManagerSpec => []PlacedConfigFound` | `Separate` |
| | `ConfigIsNeverOlder` | `ManagerSpec => []NeverOlderConfig` | `Separate` |
| `RollingProofs` | `NothingForgottenInUpdates` | `UpdateSpec => []NewNeverForgets` | |
| `PodProofs` | `EnvironmentMergedByName` | `Spec => []EnvMergedByName` | `NilIsNoFunction` |
| | `SidecarListsMergedByName` | `Spec => []SidecarsMergedByName` | `NilIsNoFunction` |
| | `FieldsAreInherited` | `Spec => []FieldsInherited` | `NilIsNoFunction` |
| | `ListsAreJoinedOnce` | `Spec => []JoinedOnce` | `NilIsNoFunction` |
| | `EnvironmentByPrecedence` | `Spec => []EnvByPrecedence` | `NilIsNoFunction` |
| | `MetadataByPrecedence` | `Spec => []LabelsByPrecedence` | `NilIsNoFunction` |

`Fresh` is the constant of that name at `TRUE`; `Quiet` adds that no call fails,
nothing restarts and no pod is lost (`MaxFaults`, `MaxCrashes` and `MaxLosses`
at 0).
`Separate` says that no two BrowserConfigs may declare the same key: with a
shared key the theorems that ask for it are false (section 5).
`NilIsNoFunction` says that `Nil` is told from every list and every map, as a nil
pointer is from a pointer; TLC gives `Nil` a model value, which differs from all
of them, but cannot evaluate the formula, which speaks of all functions.

### The Browser controller

**Frames.** The twenty steps of a pass and the eleven of the cluster are first
reduced to what they have in common (`PassStepFrame`, `EnvironmentStepFrame`):
the Browser under `req` continues as the same incarnation, or is gone; a pod is
made only by `createPod`; the watch ends in what the server has. The invariants
are then proved from the frames and not action by action.

**NeverForgotten** is not inductive: a pass may end quietly, so one must know
that its own write is on its way. `NothingForgottenInv` adds

- `WatchEndsInTruth`: a watch ends in the server's version, and a cache whose
  watch is empty is that version;
- `PassKnowsBrowser`: a pass that no event has overtaken (`req \notin queue`)
  holds exactly what the cache holds, a pass that serves a Browser began with
  one that is neither deleted nor Failed, and one that leaves it holds the
  finalizer.

Then a pass ends without a requeue only after a write (`QuietEndings`), and
after it there is news in the watch: that write changed the Browser, or another
writer had changed it before (`QuietEndingIsNews`).

**DeletionIsFinal** needs that versions come in order: `VersionsInOrder` says
that along cache and watch no version leads from a deletion back to the same
incarnation alive, and none is older than what `retired` has noted. With it a
pass that serves a Browser holds one newer than any that was seen deleted
(`DeletionInv`), and `createPod` makes a pod for just that one.

**ForeignCleanupKept.** A patch replaces the list of finalizers by that of a
cached copy (578), which may be stale. The server adds no finalizer to an object
that is being deleted, so along cache and watch the finalizers of a deleted
Browser only become fewer (`VersionsInOrder` again): the copy of one whose
deletion was seen has every finalizer that is left. `CleanupInv` adds that names
are given in order (`NameKnown`), so that the copy is of no later Browser.

### Passes from caches that have caught up

A pass looks at an object several times, and between two looks the informer may
deliver, so what matters is not what a pass holds but what it may still come to
hold: all versions in cache, watch and server (`BrowserVersions`, `PodVersions`).
The steps are reduced to what they do to these, those of the surroundings to a
move of the Browser or of the pod (`EnvironmentMoves`), those of a pass to one
write (`PassWrites`) and a way on (`PassLeads`). Three invariants use that.

**FailedIsTerminal.** `FailureInv` adds to `NothingForgottenInv` that a failure
of the present Browser that any version tells of is still there (`FailureStays`),
and that a pass which serves a Browser meets one only where it has written it
itself or is about to write Failed once more (`PassMeetsFailure`). A fresh pass
begins with the truth, so a Browser that is Failed never gets into the branches
that write another phase; and between two passes failures are not lost, as
`FailureStays` does not speak of passes at all and survives their end anywhere.

**CleanupBeforeRelease.** `GoneInv`: pods are created by `createPod` only, which
ends the pass, so once any version the pass may read says that there is no pod,
there is none for the rest of the pass. With `PodWatchEndsInTruth` a fresh pass
begins so. Only a failed lookup and a failed force delete lead to
`releaseDeleted` without that (295, 309), and therefore the hypothesis.

**PodsAccountedFor** is a bound on a counter, and the invariant has to say why
the counter stands still when the bound is reached. `AccountInv`:

- `SpentIsServed`: when one more pod would be too many (`Spent`), a live Browser
  that has not failed has its pod, not being deleted, and the finalizer, unless
  its pass is at the label that writes Failed;
- `PassWhenSpent`: a pass that goes on then is not on the way to `createPod`, and
  all versions of the pod that it may still read exist;
- `PassLeavesRoom`: while a pass works on a Browser that has made room for
  another, there is a pod to spare for each of the two. This is what covers
  Browsers that get their name during a pass (`browser_reconciler.go:602`, 639);
- `PassGuards`: what a pass knows of its own Browser: the versions it may read
  are of that one, and it holds the finalizer where a pod may be made.

A failed call, a restart or a lost pod takes a pass or a pod away in the middle,
and raises the bound by one in the same step, so nothing is spent any more
(`Spending`, `LossLeavesRoom`, `RestartLeavesRoom`). Without disturbances the
bound is one pod for each Browser, which is `OnePodOnly`.

### The refinement

`Implementation` shows that initial states map to initial states and that each
step of `HNext` maps to a step of `BrowserLifecycle` or to a stutter. It rests
on `LifecycleInv`, because what a pass does depends on what it read some steps
before, and the promise is about what is there when it acts:

- `PodWatchEndsInTruth` and `FailureStays`, as above; with `Fresh` a pass begins
  with the truth, and `PassVersions` says what remains of it: any version that the
  pass may still come to read is of its own Browser, no older than its own, and
  tells of no failure that the pass has not written itself;
- `OneByOne`: pods are made in the order of the Browsers, one for each; so the
  pod under a name belongs to the Browser that `served` names;
- `PodGuarded`: a Browser with a pod has the finalizer or is Failed, its pod is
  deleted only after it, and one that has lost its pod is on its way out;
- `PassStands`: what the pass has achieved at its label, such as that at
  `createPod` the finalizer is on and no pod was made, and at `releaseDeleted`
  the pod is gone.

Each step of a pass is then reduced to its effect on the Browser and the pod
under `req` (the definition `PassEffect`), and each effect to one action of
`BrowserLifecycle` or to none.

### The store

- `ConfigsInv`: a cached object is never newer than the server's, and one with
  the server's `resourceVersion` has the server's content. So an update that the
  server accepts sends back what users wrote (`EditsAreKept`).
- `EventsInv`: the events of a BrowserConfig wait in the order of its edits, and
  no entry of the map is newer than an event that waits. So the map never goes
  back (`NoRollbackHolds`), and its entries are well formed.
- `DeliveryInv`: the last event that waits for a BrowserConfig tells what the
  informer holds of it, and when none waits the map shows it. When nothing is
  under way that is `DeclaredServed`.

### The lookups

`ManagerInv` puts the invariants of the two parts side by side (`CleanupInv`,
`DeliveryInv`): a step of one part is a step or a stutter of the other
(`BrowserSideKeeps`, `StoreSideKeeps`), and a restart is a step of both. It adds
what the history means to the store, for every name `n` and its key:

- `NoneOlder`: no place from which the map is still to be fed, be it the server,
  the informer, an event or the map itself, has an edit of the key older than
  the one that is owed. It begins at a moment when the store has heard of
  everything, and no step brings an older edit (`NoneOlderOnServer`,
  `NoneOlderInStore`), so that the pod comes from none;
- `Kept`: what is owed is still declared and, in the same run of the manager, is
  served, and no event that waits takes it out. An event that did would be that
  of another BrowserConfig with the same key, which `Separate` rules out.

A pass comes to `createPod` and `failConfig` only by a lookup (`OnlyByLookup`),
and a Browser that gets the name meanwhile is not the one it works on
(`StandingPass`, from `NameKnown`).

### Two managers

For the new manager the old one is one more writer whose writes it hears.
`UpdateInv` is `NothingForgottenInv` of the new manager, once it has started
(`Waiting` before that), and `TypeOK` of the old one while it runs. What the old
manager does to a Browser comes to the new one as news (`OldWorksKeeps`), so
`WatchEndsInTruth` survives, and a pass that the news overtakes is queued again;
steps of the new manager and of the world are those of `BrowserProofs`.
Nothing is needed of the old one but that it writes Browsers, and so the theorem
holds for stale passes, failures and any stop.

### Merge and pods

None of these operators is recursive, so what they yield can be proved for lists
of any length without induction. Two facts about finite sets carry it:

- positions can be counted off (`CountedOff`): every set of positions has a first
  and a last one (`FirstAndLast`), which is what `Named` and `LastNamed` pick, and
  what `Without` keeps of a list is in bijection with the positions that are free
  (`WithoutIs`), so that names are counted right even where a list has one twice;
- a sequence of all keys of a map has each just once (`OrderIs`): however Go
  iterates, a merged list has one variable of each name.

A list of variables is then known by the last position of each name
(`EnvironmentIs`, `EnvironmentFrom`), two lists in a row by `EnvironmentOfJoined`.
Items of joined lists are counted by their positions, those of the second list
shifted behind the first (`OccursInJoined`). `MergeEnvIs`, `MergeSidecarsIs`,
`CompletedIs`, `MergeMapIs` and `JoinIs` say what the merge's functions do,
`MergeWithTemplateIs` what they make of a whole version,
`ExtendedIs`, `ApplyOptionsIs` and `BuiltIs` what a pass makes of that.

`PodInv` is the invariant. `StoredAsMerged`: what the store keeps is, at every
moment, what the merge made of the declaration. That is the point about the
shared slice: it is inductive only because a pass leaves the slice as it was,
also for a pod that the server refuses (`CreateLeavesStored`). `PodsAsBuilt`: a
pod was made of such an entry and of its browser's request, and was accepted.
`EnvByPrecedence` needs the latter: two sidecars of one name have two lists of
variables, and only where no container is called like another does a name stand
for one of them (`OnlyOne`, `SidecarDeclares`).

### Only model-checked

All liveness: the prover has no `ENABLED` and no fairness.

## 5. Disagreements with the documents

The four violation runs are in `PROJECT.json`. Reading the code for the models
brought up others, which no run claims:

- After the status of a Browser with a dead critical container is Failed, two
  more calls delete it (426-449). If one fails, the next pass takes the branch
  for Failed Browsers (98-110), which only removes the finalizer: the Browser
  stays, against the comment at 447.
- A Browser that takes the name of a deleted one whose pod still runs publishes
  the old pod's address (155, 490-501).
- A merge patch that changes the finalizers replaces the list by what the cache
  had (578): a finalizer that another controller has just added is lost, unless
  a pass has already seen the Browser being deleted (`ForeignCleanupKept`).
- The pod that failed is deleted before the status says Failed (179 and 184,
  239-243). A stop in between makes a second pod, against README.md:16; there are
  no more of these than there were disturbances (`PodsAccountedFor`).
- A Browser that fails for a reason other than its pod's phase keeps its pod,
  which goes on using its node until somebody deletes the Browser (197-231).
- With two managers at work a Failed Browser may be taken back, and a second pod
  made: each writes from what it read before the other one acted.
- With lagging caches, and after any error of the pod lookup (309-313), the
  finalizer goes while the pod exists.
- `deleteBrowser` deletes by name, without a UID precondition (639), and patches
  land by name (602): a pass whose Browser was deleted and created anew before it
  had the finalizer writes what it decides about the first one to the second.
- A pod without container statuses, as an unschedulable one, is seen neither by
  the loops nor by the timeout (194-255) and stays Pending.
- The first pass makes the pod from the copy it read before it patched the
  `selenosis.io` labels in (124-137, 789): that pod lacks them.
- Two BrowserConfigs of a namespace that declare one key share an entry, and the
  deletion of one takes it from the other (`browserconfig_store.go:121`).
- Writing Pending (140) is not the only way to lose a failure: a pass that judged
  the pod before the failure was written may write the pod's phase over it (496),
  by a longer course of events than the one TLC shows.
- README.md:252 says that nil fields inherit. The pull policy of a sidecar that
  version and template both name does not: `mergeWithTemplate`
  (`browser_config.go:435-448`) does not look at it. No run claims it;
  `FieldsInherited` states it as an exception.
- An init container that both name is the template's, completed by itself: its
  ports and mounts are there twice (`browser_config.go:227`).
- A sidecar's own working directory is overwritten by the template's, without a
  nil check (`browser_config.go:440`), and an init container's by the browser's
  (`browser_reconciler.go:688`).
- The order of merged variables is that of a Go map's iteration
  (`browser_config.go:301`), and a value may refer to one listed before it.
- Concatenated lists keep both items of a name: a version that gives a volume of
  the template again has it twice, and the server refuses the pod.

## 6. Not modelled

Generated code (clients, deep copies), scheme registration, flags, probes,
metrics, the leader election of the library
(off by default, as `RollingUpdate` has it), logging, the manifests under `config/` (the RBAC rules
are not compared with the calls), and the text of status messages. Fields of a
pod that are copied whole are represented by `resources`. Several workers are
not modelled: the manager does not configure them.

## 7. Plan

Done so far, in this order: the Browser controller with its cluster; its proofs;
the BrowserConfig controller and the store; merge and pods; the abstract
lifecycle and its refinement, checked and proved; the manager as the composition
of controllers and store; the proofs about the store and the lookups; two
managers, checked and proved; the proofs about merge and pods; what the Browser
controller keeps when a fresh pass is disturbed, checked and proved. What is left:

1. **Labels.** `PodBuild` under the passes of `BrowserReconciler`, for the labels
   of a pod made by the first pass (391).
2. **Stale passes.** `FailedIsTerminal` fails for them; whether the number of
   pods stays bounded there, and by what, is not written down yet.
3. **Other incarnations**: a property for `deleteBrowser` without a UID (639),
   once it is written down which Browser a delete may hit.
