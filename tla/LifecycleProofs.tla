--------------------------- MODULE LifecycleProofs ---------------------------
(***************************************************************************)
(* The Browser controller implements BrowserLifecycle, for every value of  *)
(* the other constants, when every pass begins with caches that have       *)
(* caught up and nothing is lost on the way.  The inductive invariant is   *)
(* LifecycleInv of LifecycleRefinement.                                    *)
(***************************************************************************)
EXTENDS LifecycleRefinement, FreshProofs

USE ClusterAssumption, ReconcilerAssumption

(* The conditions: no stale cache at the start of a pass, no failed call,  *)
(* no restart, and no pod that the outside takes away.                     *)
Quiet == Fresh /\ MaxFaults = 0 /\ MaxCrashes = 0 /\ MaxLosses = 0

-----------------------------------------------------------------------------
(* The steps of the surroundings *)

(* While no pod is lost they are those of EnvironmentMove.                 *)
LEMMA QuietMoves ==
  ASSUME TypeOK, Quiet, NEW n \in Names, ClusterNext(n)
  PROVE  EnvironmentMove(n)
<1>1. losses[n] \in Nat /\ MaxLosses = 0
  BY DEF TypeOK, Quiet
<1> QED
  BY <1>1, EnvironmentMoves DEF PodLost

(* Nothing is served while no pod is made.                                 *)
LEMMA ServedStays ==
  ASSUME TypeOK, served \in [Names -> Nat], Record, made' = made
  PROVE  served' = served
<1>1. \A n \in Names : made[n] \in Nat /\ ~(made[n] > made[n])
  BY DEF TypeOK
<1> QED
  BY <1>1 DEF Record

(* The surroundings keep the invariant's parts about Browsers and Pods.    *)
LEMMA EnvironmentKeepsObjects ==
  ASSUME LifecycleInv, NEW n \in Names, EnvironmentMove(n), served' = served,
         bCache' = bCache, pCache' = pCache, pc' = pc, req' = req
  PROVE  /\ PodWatchEndsInTruth'
         /\ \A m \in Names : (OneByOne(m) /\ FailureStays(m) /\ PodGuarded(m))'
         /\ HasPod(n)' => HasPod(n) /\ Stays(browser[n], browser'[n])
         /\ pod'[n].deleting /\ HasPod(n)' => pod[n].deleting
<1>0. /\ TypeOK /\ served \in [Names -> Nat] /\ born \in [Names -> Nat] /\ born[n] \in Nat
      /\ made[n] \in Nat /\ browser[n] \in Browsers /\ pod[n] \in Pods /\ served[n] \in Nat
      /\ OneByOne(n) /\ FailureStays(n) /\ PodGuarded(n) /\ PodWatchEndsInTruth
      /\ browser[n].uid \in Nat
  BY DEF LifecycleInv, DeletionInv, NothingForgottenInv, TypeOK, Browsers
<1>1. PICK b \in Browsers, p \in Pods :
        /\ StoreBrowser(n, b) /\ StorePod(n, p) /\ made' = made
        /\ BrowserMoves(n, browser[n], b) /\ PodMoves(browser[n], pod[n], p)
        /\ p = pod[n] \/ (b = browser[n] /\ born' = born)
  BY DEF EnvironmentMove
<1>2. /\ browser'[n] = b /\ BrowserVersions(n)' \subseteq BrowserVersions(n) \cup {b}
      /\ \A m \in Names : m # n =>
           browser'[m] = browser[m] /\ BrowserVersions(m)' = BrowserVersions(m)
  BY <1>0, <1>1, BrowserWritten
<1>3. /\ pod'[n] = p /\ PodWatchEndsInTruth'
      /\ \A m \in Names : m # n => pod'[m] = pod[m]
  BY <1>0, <1>1, PodWritten
<1>4. \/ born'[n] = born[n] + 1 /\ b.uid = born[n] + 1 /\ b.phase = "" /\ ~Exists(browser[n])
      \/ born'[n] = born[n] /\ Stays(browser[n], b)
      \/ born'[n] = born[n] /\ ~Exists(b)
  <2>1. CASE born' = [born EXCEPT ![n] = @ + 1] /\ b = NewBrowser(born[n] + 1)
             /\ ~Exists(browser[n])
    <3>1. born'[n] = born[n] + 1
      BY <1>0, <2>1
    <3>2. b.uid = born[n] + 1 /\ b.phase = ""
      BY <2>1 DEF NewBrowser
    <3> QED
      BY <2>1, <3>1, <3>2
  <2>2. CASE ~(born' = [born EXCEPT ![n] = @ + 1] /\ b = NewBrowser(born[n] + 1)
             /\ ~Exists(browser[n]))
    BY <1>1, <2>2, ObjectTypes DEF BrowserMoves
  <2> QED
    BY <2>1, <2>2
<1>g. born'[n] = born[n] \/ born'[n] = born[n] + 1
  BY <1>4
<1>h. born[n] <= born'[n] /\ born'[n] \in Nat
  BY <1>0, <1>g
<1>5. \A m \in Names : m # n => born'[m] = born[m]
  BY <1>0, <1>1 DEF BrowserMoves
<1>6. Exists(p) => Exists(pod[n]) /\ p.owner = pod[n].owner
  BY <1>1 DEF PodMoves, Exists
<1>7. ASSUME HasPod(n)'
      PROVE  HasPod(n) /\ Stays(browser[n], b)
  <2>1. Exists(b) /\ Exists(p) /\ p.owner = b.uid
    BY <1>2, <1>3, <1>7 DEF HasPod
  <2>2. Exists(pod[n]) /\ pod[n].owner = b.uid /\ b.uid = served[n] /\ served[n] <= born[n]
    BY <1>0, <1>6, <2>1 DEF OneByOne
  <2>3. b.uid # born[n] + 1
    <3>1. served[n] # born[n] + 1
      BY <1>0, <2>2
    <3> QED
      BY <2>2, <3>1
  <2>4. Stays(browser[n], b)
    BY <1>4, <2>1, <2>3
  <2> QED
    BY <2>1, <2>2, <2>4 DEF HasPod, Stays, Exists
<1>8. p.deleting /\ HasPod(n)' => pod[n].deleting
  BY <1>1, <1>2, <1>3, <1>7 DEF PodMoves, HasPod
<1>9. ASSUME Exists(b), served[n] = b.uid, ~HasPod(n)'
      PROVE  b.deleting \/ b.phase = "Failed" \/ (pc \in {"failPod", "failPending"} /\ req = n)
  <2>1. Stays(browser[n], b)
    <3>1. served[n] # born[n] + 1
      BY <1>0 DEF OneByOne
    <3> QED
      BY <1>4, <1>9, <3>1
  <2>2. CASE ~HasPod(n)
    BY <1>0, <1>9, <2>1, <2>2 DEF PodGuarded, Stays, Exists
  <2>3. CASE HasPod(n)
    <3>1. pod[n].deleting
      BY <1>1, <1>2, <1>3, <1>9, <2>1, <2>3 DEF PodMoves, HasPod, Stays, Exists
    <3> QED
      BY <1>0, <2>1, <2>3, <3>1 DEF PodGuarded, Stays
  <2> QED
    BY <2>2, <2>3
<1>10. OneByOne(n)'
  <2>1. made[n] <= served[n] /\ served[n] <= born'[n]
    <3>1. made[n] <= served[n] /\ served[n] <= born[n]
      BY <1>0 DEF OneByOne
    <3> QED
      BY <1>0, <1>h, <3>1
  <2>2. Exists(b) => b.uid = born'[n]
    BY <1>0, <1>4 DEF OneByOne, Stays, Exists
  <2>3. Exists(p) => p.owner = served[n]
    BY <1>0, <1>6 DEF OneByOne
  <2> QED
    BY <1>1, <1>2, <1>3, <2>1, <2>2, <2>3 DEF OneByOne, Exists
<1>11. FailureStays(n)'
  <2>1. SUFFICES ASSUME NEW v \in BrowserVersions(n) \cup {b}
        PROVE  /\ v.uid <= born'[n]
               /\ Exists(v) /\ v.uid = b.uid /\ v.phase = "Failed" => b.phase = "Failed"
    BY <1>2 DEF FailureStays, Exists
  <2>2. CASE v = b
    <3>1. b.uid = born'[n] \/ ~Exists(b)
      BY <1>0, <1>4 DEF OneByOne, Stays, Exists
    <3> QED
      BY <1>h, <2>2, <3>1 DEF Exists
  <2>3. CASE v \in BrowserVersions(n)
    <3>1. /\ v.uid <= born[n] /\ v.uid \in Nat
          /\ Exists(v) /\ v.uid = browser[n].uid /\ v.phase = "Failed"
               => browser[n].phase = "Failed"
      <4>1. v \in Browsers
        BY <1>0, <2>3, VersionTypes
      <4> QED
        BY <1>0, <2>3, <4>1 DEF FailureStays, Browsers
    <3>2. v.uid <= born'[n]
      BY <1>0, <1>h, <3>1
    <3>3. v.uid # born[n] + 1
      BY <1>0, <3>1
    <3>4. Exists(v) /\ v.uid = b.uid => Stays(browser[n], b)
      BY <1>4, <3>3 DEF Exists
    <3> QED
      BY <3>1, <3>2, <3>4 DEF Stays, Exists
  <2> QED
    BY <2>1, <2>2, <2>3
<1>12. PodGuarded(n)'
  <2>1. HasPod(n)' => Own \in b.fins \/ b.phase = "Failed"
    BY <1>0, <1>7 DEF PodGuarded, Stays
  <2>2. HasPod(n)' /\ p.deleting => b.deleting
    BY <1>0, <1>7, <1>8 DEF PodGuarded, Stays
  <2> QED
    BY <1>2, <1>3, <1>9, <2>1, <2>2 DEF PodGuarded, Exists
<1>13. ASSUME NEW m \in Names, m # n
       PROVE  (OneByOne(m) /\ FailureStays(m) /\ PodGuarded(m))'
  <2>1. OneByOne(m) /\ FailureStays(m) /\ PodGuarded(m)
    BY DEF LifecycleInv
  <2> QED
    BY <1>1, <1>2, <1>3, <1>5, <1>13, <2>1
       DEF OneByOne, FailureStays, PodGuarded, HasPod, Exists
<1> QED
  BY <1>2, <1>3, <1>7, <1>8, <1>10, <1>11, <1>12, <1>13

(* They keep what a pass relies on.                                        *)
LEMMA EnvironmentKeepsPass ==
  ASSUME LifecycleInv, NEW n \in Names, EnvironmentMove(n), served' = served,
         bCache' = bCache, pCache' = pCache, UNCHANGED passVars, pc # "idle"
  PROVE  (PassVersions /\ PassStands)'
<1>0. /\ TypeOK /\ req \in Names /\ born \in [Names -> Nat] /\ born[n] \in Nat
      /\ browser[n] \in Browsers /\ pod[n] \in Pods /\ served[req] \in Nat
      /\ lb.uid \in Nat /\ lb.uid # 0 /\ born[req] \in Nat
      /\ OneByOne(n) /\ PassVersions /\ PassStands
      /\ pc' = pc /\ req' = req /\ lb' = lb /\ lp' = lp
  <2>1. TypeOK /\ lb \in Browsers /\ Exists(lb)
    BY DEF LifecycleInv, DeletionInv, NothingForgottenInv, TypeOK
  <2> QED
    BY <2>1 DEF LifecycleInv, TypeOK, Browsers, Exists, passVars
<1>1. PICK b \in Browsers, p \in Pods :
        /\ StoreBrowser(n, b) /\ StorePod(n, p) /\ made' = made
        /\ BrowserMoves(n, browser[n], b) /\ PodMoves(browser[n], pod[n], p)
        /\ p = pod[n] \/ (b = browser[n] /\ born' = born)
  BY DEF EnvironmentMove
<1>2. /\ browser'[n] = b /\ BrowserVersions(n)' \subseteq BrowserVersions(n) \cup {b}
      /\ \A m \in Names : m # n =>
           browser'[m] = browser[m] /\ BrowserVersions(m)' = BrowserVersions(m)
  BY <1>0, <1>1, BrowserWritten
<1>3. /\ pod'[n] = p /\ PodVersions(n)' \subseteq PodVersions(n) \cup {p}
      /\ \A m \in Names : m # n => pod'[m] = pod[m] /\ PodVersions(m)' = PodVersions(m)
  BY <1>0, <1>1, PodWritten
<1>4. \A m \in Names : born'[m] = born[m] \/ (m = n /\ born'[m] = born[m] + 1)
  BY <1>0, <1>1 DEF BrowserMoves
<1>b. \/ b.uid = born[n] + 1 /\ b.phase = "" /\ ~Exists(browser[n])
      \/ Stays(browser[n], b)
      \/ ~Exists(b) /\ b.phase = "" /\ Own \notin browser[n].fins
  <2>1. ASSUME NEW u \in Nat PROVE NewBrowser(u).uid = u /\ NewBrowser(u).phase = ""
    BY DEF NewBrowser
  <2>2. NoBrowser.phase = ""
    BY DEF NoBrowser, NewBrowser
  <2>3. CASE b = NewBrowser(born[n] + 1) /\ ~Exists(browser[n])
    <3>1. born[n] + 1 \in Nat
      BY <1>0
    <3> QED
      BY <2>1, <2>3, <3>1
  <2>4. CASE Stays(browser[n], b)
    BY <2>4
  <2>5. CASE b = NoBrowser /\ Own \notin browser[n].fins
    BY <2>2, <2>5, ObjectTypes
  <2> QED
    BY <1>1, <2>3, <2>4, <2>5 DEF BrowserMoves
<1>5. /\ HasPod(n)' => HasPod(n) /\ Stays(browser[n], b)
      /\ p.deleting /\ HasPod(n)' => pod[n].deleting
  BY <1>0, <1>2, <1>3, EnvironmentKeepsObjects
<1>6. CASE n # req
  <2>1. /\ browser'[req] = browser[req] /\ pod'[req] = pod[req] /\ born'[req] = born[req]
        /\ BrowserVersions(req)' = BrowserVersions(req)
        /\ PodVersions(req)' = PodVersions(req)
    BY <1>0, <1>2, <1>3, <1>4, <1>6
  <2>2. PassVersions' = PassVersions
    BY <1>0, <2>1 DEF PassVersions, Same, HasPod, Exists
  <2>3. PassStands' = PassStands
    BY <1>0, <2>1 DEF PassStands, Same, HasPod, Exists
  <2> QED
    BY <1>0, <2>2, <2>3
<1>7. CASE n = req
  <2>1. Same' => Same /\ Stays(browser[req], b)
    <3>1. SUFFICES ASSUME Exists(b), b.uid = lb.uid
                   PROVE  Same /\ Stays(browser[req], b)
      BY <1>0, <1>2, <1>7 DEF Same, Exists
    <3>2. b.uid # born[n] + 1
      BY <1>0, <1>7, <3>1 DEF PassVersions
    <3>3. Stays(browser[n], b)
      BY <1>b, <3>1, <3>2
    <3> QED
      BY <1>7, <3>1, <3>3 DEF Stays, Same, Exists
  <2>2. Exists(p) => Exists(pod[n])
    BY <1>1 DEF PodMoves, Exists
  <2>3. /\ \A v \in BrowserVersions(req)' : v \in BrowserVersions(req) \/ v = b
        /\ \A v \in PodVersions(req)' : v \in PodVersions(req) \/ v = p
        /\ browser[req] \in BrowserVersions(req) /\ pod[req] \in PodVersions(req)
        /\ browser'[req] = b /\ pod'[req] = p
    <3>1. browser[req] \in BrowserVersions(req) /\ pod[req] \in PodVersions(req)
      BY DEF BrowserVersions, PodVersions
    <3>2. browser'[req] = b /\ pod'[req] = p
      BY <1>2, <1>3, <1>7
    <3>3. BrowserVersions(req)' \subseteq BrowserVersions(req) \cup {b}
      BY <1>0, <1>2, <1>7
    <3>4. PodVersions(req)' \subseteq PodVersions(req) \cup {p}
      BY <1>0, <1>3, <1>7
    <3> QED
      BY <3>1, <3>2, <3>3, <3>4
  <2>4. b.phase = "Failed" => browser[req].phase = "Failed"
    BY <1>7, <1>b DEF Stays
  <2>5. PassVersions'
    <3>1. served[req] <= lb.uid /\ lb.uid <= born'[req]
      BY <1>0, <1>4 DEF PassVersions
    <3>2. Same' => \A v \in BrowserVersions(req)' : v.uid = lb.uid
      BY <1>0, <2>1, <2>3 DEF PassVersions, Same, Stays
    <3>3. \A v \in PodVersions(req)' : ~Exists(v) => ~Exists(p)
      BY <1>0, <1>7, <2>2, <2>3 DEF PassVersions
    <3>4. pc \in Serving /\ Same'
            => \A v \in PodVersions(req)' : v.deleting => ~HasPod(req)'
      BY <1>0, <1>5, <1>7, <2>1, <2>3 DEF PassVersions
    <3>5. pc = "finalizer"
            => \A v \in BrowserVersions(req)' : v.uid = lb.uid => Own \notin v.fins
      <4>1. b.uid = lb.uid => Same'
        BY <1>0, <2>3 DEF Same, Exists
      <4>2. pc = "finalizer" /\ b.uid = lb.uid => Own \notin b.fins
        BY <1>0, <2>1, <2>3, <4>1 DEF PassVersions, Stays, Same
      <4> QED
        BY <1>0, <2>3, <4>2 DEF PassVersions
    <3>6. \A v \in BrowserVersions(req)' :
            pc \in Serving /\ v.phase = "Failed"
              => \/ pc \in {"failCritical", "release", "deleteBrowser"}
                 \/ pc = "mirror" /\ lp.phase = "Failed"
      BY <1>0, <2>3, <2>4 DEF PassVersions
    <3> QED
      BY <1>0, <2>3, <3>1, <3>2, <3>3, <3>4, <3>5, <3>6 DEF PassVersions, Serving, Exists
  <2>6. PassStands'
    <3>1. ASSUME pc \in Guarding \cup {"finalizer"}, served[req] = lb.uid
          PROVE  pc \in {"label", "setPending", "getPod"} /\ HasPod(req)'
      <4>1. pc \in {"label", "setPending", "getPod"} /\ HasPod(req)
        BY <1>0, <3>1 DEF PassStands
      <4>2. Same /\ pod[req].owner = lb.uid /\ Exists(pod[req])
        BY <1>0, <1>7, <3>1, <4>1 DEF HasPod, OneByOne, Same, Exists
      <4>3. Own \in browser[req].fins
        BY <1>0, <4>1, <4>2 DEF PassStands, Guarding
      <4>4. Stays(browser[req], b)
        BY <1>7, <1>b, <4>2, <4>3 DEF Same
      <4>5. ~pod[req].deleting
        BY <1>0, <2>3, <4>1, <4>2 DEF PassVersions, Serving, Labels, Leaving
      <4>6. Exists(p) /\ p.owner = pod[req].owner
        BY <1>1, <1>7, <4>2, <4>5 DEF PodMoves, Same, Exists
      <4> QED
        BY <1>0, <2>3, <4>1, <4>2, <4>4, <4>6 DEF HasPod, Same, Stays, Exists
    <3>2. pc \in Guarding /\ Same' => Own \in b.fins
      BY <1>0, <2>1 DEF PassStands, Stays
    <3>3. pc \in {"release", "deleteBrowser"} /\ Same' => ~HasPod(req)' \/ b.phase = "Failed"
      BY <1>0, <1>5, <1>7, <2>1 DEF PassStands, Stays
    <3>4. pc = "releaseFailed" /\ Same' => b.phase = "Failed"
      BY <1>0, <2>1 DEF PassStands, Stays
    <3>5. pc \in Deleting /\ Same' => b.deleting
      BY <1>0, <2>1 DEF PassStands, Stays
    <3>6. pc = "releaseDeleted" => ~Exists(p)
      BY <1>0, <1>7, <2>2 DEF PassStands
    <3>7. pc \in {"killFailed", "failPod"} => lp.phase = "Failed"
      BY <1>0 DEF PassStands
    <3> QED
      BY <1>0, <2>3, <3>1, <3>2, <3>3, <3>4, <3>5, <3>6, <3>7
         DEF PassStands, Guarding, Deleting, Exists
  <2> QED
    BY <2>5, <2>6
<1> QED
  BY <1>6, <1>7

-----------------------------------------------------------------------------
(* The informers, and the beginning of a pass *)

(* The delivery of a version keeps what the invariant says beyond          *)
(* DeletionInv.                                                            *)
LEMMA SyncKeeps ==
  ASSUME LifecycleInv, NEW n \in Names, SyncBrowser(n) \/ SyncPod(n), served' = served
  PROVE  /\ PodWatchEndsInTruth'
         /\ \A m \in Names : (OneByOne(m) /\ FailureStays(m) /\ PodGuarded(m))'
         /\ (pc # "idle" => PassVersions /\ PassStands)'
<1>0. /\ TypeOK /\ req \in Names /\ PodWatchEndsInTruth
      /\ \A m \in Names : OneByOne(m) /\ FailureStays(m) /\ PodGuarded(m)
      /\ pc # "idle" => PassVersions /\ PassStands
  BY DEF LifecycleInv, DeletionInv, NothingForgottenInv, TypeOK
<1>1. /\ browser' = browser /\ pod' = pod /\ made' = made /\ born' = born
      /\ pc' = pc /\ req' = req /\ lb' = lb /\ lp' = lp
  BY DEF SyncBrowser, SyncPod, browserVars, podVars, passVars
<1>2. /\ \A m \in Names : BrowserVersions(m)' \subseteq BrowserVersions(m)
      /\ \A m \in Names : PodVersions(m)' \subseteq PodVersions(m)
      /\ PodWatchEndsInTruth'
  <2>1. CASE SyncBrowser(n)
    <3>1. pCache' = pCache /\ pWatch' = pWatch
      BY <2>1 DEF SyncBrowser, podVars
    <3> QED
      BY <1>0, <1>1, <2>1, <3>1, VersionsDelivered DEF PodVersions, PodWatchEndsInTruth
  <2>2. CASE SyncPod(n)
    <3>1. bCache' = bCache /\ bWatch' = bWatch
      BY <2>2 DEF SyncPod, browserVars
    <3> QED
      BY <1>0, <1>1, <2>2, <3>1, VersionsDelivered DEF BrowserVersions
  <2> QED
    BY <2>1, <2>2
<1>3. ASSUME NEW m \in Names PROVE (OneByOne(m) /\ FailureStays(m) /\ PodGuarded(m))'
  BY <1>0, <1>1, <1>2 DEF OneByOne, FailureStays, PodGuarded, HasPod
<1>4. ASSUME pc' # "idle" PROVE (PassVersions /\ PassStands)'
  <2>1. /\ BrowserVersions(req)' \subseteq BrowserVersions(req)
        /\ PodVersions(req)' \subseteq PodVersions(req)
    BY <1>0, <1>1, <1>2
  <2>2. PassVersions /\ PassStands
    BY <1>0, <1>1, <1>4
  <2>3. PassVersions'
    BY <1>1, <2>1, <2>2 DEF PassVersions, Same, HasPod
  <2>4. PassStands'
    BY <1>1, <2>2 DEF PassStands, Same, HasPod
  <2> QED
    BY <2>3, <2>4
<1> QED
  BY <1>2, <1>3, <1>4

(* So does the beginning of a pass, which reads what the server has.       *)
LEMMA BeginKeeps ==
  ASSUME LifecycleInv, Quiet, NEW n \in Names, Begin(n), served' = served
  PROVE  /\ PodWatchEndsInTruth'
         /\ \A m \in Names : (OneByOne(m) /\ FailureStays(m) /\ PodGuarded(m))'
         /\ (pc # "idle" => PassVersions /\ PassStands)'
<1>0. /\ TypeOK /\ PodWatchEndsInTruth /\ WatchEndsInTruth
      /\ \A m \in Names : OneByOne(m) /\ FailureStays(m) /\ PodGuarded(m)
      /\ served[n] \in Nat
  BY DEF LifecycleInv, DeletionInv, NothingForgottenInv
<1>1. /\ browser' = browser /\ pod' = pod /\ made' = made /\ born' = born
      /\ bCache' = bCache /\ pCache' = pCache /\ bWatch' = bWatch /\ pWatch' = pWatch
      /\ pc = "idle" /\ req' = n /\ bWatch[n] = <<>> /\ pWatch[n] = <<>>
  BY DEF Begin, Quiet, clusterVars, browserVars, podVars, cacheVars
<1>2. bCache[n] = browser[n] /\ pCache[n] = pod[n]
  BY <1>0, <1>1 DEF WatchEndsInTruth, PodWatchEndsInTruth
<1>3. PodWatchEndsInTruth'
  BY <1>0, <1>1 DEF PodWatchEndsInTruth
<1>4. ASSUME NEW m \in Names PROVE (OneByOne(m) /\ FailureStays(m) /\ PodGuarded(m))'
  <2>1. BrowserVersions(m)' = BrowserVersions(m)
    BY <1>1 DEF BrowserVersions
  <2> QED
    BY <1>0, <1>1, <2>1 DEF OneByOne, FailureStays, PodGuarded, HasPod
<1>5. ASSUME pc' # "idle" PROVE (PassVersions /\ PassStands)'
  <2>1. Exists(browser[n]) /\ pc' = Route(browser[n]) /\ lb' = browser[n]
        /\ Route(browser[n]) # "done"
    BY <1>1, <1>2, <1>5 DEF Begin
  <2>2. \A i \in 1 .. Len(<<>>) : FALSE
    OBVIOUS
  <2>3. BrowserVersions(req)' = {browser[n]} /\ PodVersions(req)' = {pod[n]}
    BY <1>1, <1>2, <2>2 DEF BrowserVersions, PodVersions
  <2>4. /\ browser[n].uid = born[n] /\ served[n] <= born[n] /\ browser[n].uid \in Nat
        /\ Exists(pod[n]) => pod[n].owner = served[n]
    BY <1>0, <2>1 DEF OneByOne, TypeOK, Browsers
  <2>5. Route(browser[n]) \in Serving
          => ~browser[n].deleting /\ browser[n].phase # "Failed"
    BY RouteFacts
  <2>6. /\ browser'[req'] = browser[n] /\ pod'[req'] = pod[n] /\ served'[req'] = served[n]
        /\ born'[req'] = born[n] /\ HasPod(req)' = HasPod(n)
    BY <1>1 DEF HasPod
  <2>7. PassVersions'
    <3>1. served[n] <= browser[n].uid /\ browser[n].uid <= born[n]
      BY <1>0, <2>4 DEF TypeOK
    <3>2. pc' \in Serving => (pod[n].deleting => ~HasPod(n))
      BY <1>0, <2>1, <2>5 DEF PodGuarded
    <3>3. pc' = "finalizer" => Own \notin browser[n].fins
      BY <2>1, RouteTells
    <3>4. pc' \in Serving => browser[n].phase # "Failed"
      BY <2>1, <2>5
    <3> QED
      BY <2>1, <2>3, <2>6, <3>1, <3>2, <3>3, <3>4 DEF PassVersions, Serving, Exists
  <2>8. PassStands'
    <3>1. ASSUME pc' \in Guarding \cup {"finalizer"}, served[n] = browser[n].uid
          PROVE  pc' \in {"label", "setPending", "getPod"} /\ HasPod(n)
      <4>1. pc' \in Serving /\ pc' \in {"finalizer", "label", "setPending", "getPod"}
        BY <2>1, <3>1, RouteTells DEF Serving, Labels, Leaving, Guarding
      <4>2. HasPod(n)
        BY <1>0, <1>1, <2>1, <2>5, <3>1, <4>1 DEF PodGuarded
      <4>3. pc' # "finalizer"
        BY <1>0, <2>1, <2>5, <4>1, <4>2, RouteTells DEF PodGuarded
      <4> QED
        BY <4>1, <4>2, <4>3
    <3>2. /\ pc' \in Guarding => Own \in browser[n].fins
          /\ pc' = "releaseFailed" => browser[n].phase = "Failed"
          /\ pc' \in Deleting => browser[n].deleting
          /\ pc' \notin {"killFailed", "failPod", "release", "deleteBrowser", "releaseDeleted"}
      BY <2>1, RouteTells DEF Guarding, Deleting
    <3> QED
      BY <2>1, <2>6, <3>1, <3>2 DEF PassStands
  <2> QED
    BY <2>7, <2>8
<1> QED
  BY <1>3, <1>4, <1>5

-----------------------------------------------------------------------------
(* The steps of a pass *)

(* What the invariant says of a pass.  A Browser that has been served is   *)
(* the pass's own, since the pass's is not older than the latest served.   *)
LEMMA PassFacts ==
  ASSUME LifecycleInv, pc # "idle"
  PROVE  /\ TypeOK /\ req \in Names /\ PassVersions /\ PassStands
         /\ OneByOne(req) /\ FailureStays(req) /\ PodGuarded(req)
         /\ browser[req] \in Browsers /\ bCache[req] \in Browsers /\ lb \in Browsers
         /\ pod[req] \in Pods /\ pCache[req] \in Pods /\ lp \in Pods
         /\ browser[req] \in BrowserVersions(req) /\ bCache[req] \in BrowserVersions(req)
         /\ pod[req] \in PodVersions(req) /\ pCache[req] \in PodVersions(req)
         /\ Exists(browser[req]) /\ served[req] = browser[req].uid => Same
         /\ HasPod(req) => Same /\ served[req] = lb.uid
         /\ pc \in Serving => lb.phase # "Failed"
         /\ pc \in Serving /\ Exists(browser[req]) => browser[req].uid # retired[req]
         /\ Exists(lb)
<1>1. /\ TypeOK /\ req \in Names /\ PassVersions /\ PassStands
      /\ OneByOne(req) /\ FailureStays(req) /\ PodGuarded(req)
      /\ pc \in Serving => lb.phase # "Failed" /\ lb.uid > retired[req]
      /\ Exists(lb)
  BY DEF LifecycleInv, DeletionInv, NothingForgottenInv, TypeOK, PassKnowsBrowser
<1>2. /\ browser[req] \in Browsers /\ bCache[req] \in Browsers /\ lb \in Browsers
      /\ pod[req] \in Pods /\ pCache[req] \in Pods /\ lp \in Pods
      /\ served[req] \in Nat /\ born[req] \in Nat /\ retired[req] \in Nat
  BY <1>1 DEF TypeOK, LifecycleInv
<1>3. /\ served[req] <= lb.uid /\ lb.uid <= born[req] /\ lb.uid \in Nat
      /\ browser[req].uid \in Nat /\ Exists(browser[req]) => browser[req].uid = born[req]
  BY <1>1, <1>2 DEF PassVersions, OneByOne, Browsers
<1>4. Exists(browser[req]) /\ served[req] = browser[req].uid => Same
  BY <1>2, <1>3 DEF Same
<1>5. HasPod(req) => Same /\ served[req] = lb.uid
  BY <1>1, <1>4 DEF HasPod, OneByOne, Same
<1>6. pc \in Serving /\ Exists(browser[req]) => browser[req].uid # retired[req]
  BY <1>1, <1>2, <1>3
<1> QED
  BY <1>1, <1>2, <1>4, <1>5, <1>6 DEF BrowserVersions, PodVersions

(* What a step of a pass does to its Browser s,                            *)
Changes(s, b) ==
  \/ ~Exists(b) /\ (Exists(s) => s.phase = "Failed" \/ ~HasPod(req))
  \/ /\ Exists(b) /\ b.uid = s.uid
     /\ s.phase = "Failed" => b.phase = "Failed"
     /\ \/ b.deleting = s.deleting
           /\ (b.phase = "Failed" => s.phase = "Failed" \/ pc \in Serving)
        \/ b.deleting /\ ~s.deleting /\ b.phase = s.phase

(* and to the objects as a whole.                                          *)
PassEffect ==
  /\ Undisturbed /\ retired' = retired /\ req' = req
  /\ PodGuarded(req)'
  /\ \/ /\ served' = served /\ made' = made /\ UNCHANGED podVars
        /\ \E b \in Browsers : StoreBrowser(req, b) /\ Changes(browser[req], b)
     \/ /\ served' = served /\ made' = made /\ UNCHANGED browserVars
        /\ \E p \in Pods :
             /\ StorePod(req, p)
             /\ Exists(p) => Exists(pod[req]) /\ p.owner = pod[req].owner /\ pc \notin Serving
     \/ /\ UNCHANGED browserVars /\ MakePod /\ pc = "createPod" /\ ~Exists(pod[req])
        /\ served' = [served EXCEPT ![req] = lb.uid]

(* Such an effect keeps the invariant's parts about Browsers and Pods.     *)
LEMMA EffectKeepsObjects ==
  ASSUME LifecycleInv, pc # "idle", PassEffect
  PROVE  /\ PodWatchEndsInTruth'
         /\ \A m \in Names : (OneByOne(m) /\ FailureStays(m) /\ PodGuarded(m))'
<1>0. /\ TypeOK /\ req \in Names /\ OneByOne(req) /\ FailureStays(req) /\ PodWatchEndsInTruth
      /\ browser[req] \in Browsers /\ pod[req] \in Pods /\ served \in [Names -> Nat]
      /\ made \in [Names -> Nat] /\ made[req] \in Nat /\ lb.uid \in Nat
      /\ bCache' = bCache /\ pCache' = pCache /\ born' = born /\ PassVersions /\ PassStands
      /\ req' = req /\ PodGuarded(req)' /\ born[req] \in Nat
  BY PassFacts DEF LifecycleInv, PassEffect, Undisturbed, cacheVars, TypeOK, Browsers
<1>1. ASSUME NEW m \in Names, m # req, browser'[m] = browser[m], pod'[m] = pod[m],
             BrowserVersions(m)' = BrowserVersions(m), made'[m] = made[m],
             served'[m] = served[m]
      PROVE  (OneByOne(m) /\ FailureStays(m) /\ PodGuarded(m))'
  <2>1. OneByOne(m) /\ FailureStays(m) /\ PodGuarded(m)
    BY DEF LifecycleInv
  <2> QED
    BY <1>0, <1>1, <2>1 DEF OneByOne, FailureStays, PodGuarded, HasPod, Exists
<1>2. CASE /\ served' = served /\ made' = made /\ UNCHANGED podVars
           /\ \E b \in Browsers : StoreBrowser(req, b) /\ Changes(browser[req], b)
  <2>1. PICK b \in Browsers : StoreBrowser(req, b) /\ Changes(browser[req], b)
    BY <1>2
  <2>2. /\ browser'[req] = b /\ BrowserVersions(req)' \subseteq BrowserVersions(req) \cup {b}
        /\ \A m \in Names : m # req =>
             browser'[m] = browser[m] /\ BrowserVersions(m)' = BrowserVersions(m)
    BY <1>0, <2>1, BrowserWritten
  <2>3. pod' = pod /\ PodWatchEndsInTruth'
    BY <1>0, <1>2, NothingWritten
  <2>4. Exists(b) => /\ b.uid = browser[req].uid /\ Exists(browser[req])
                     /\ browser[req].phase = "Failed" => b.phase = "Failed"
    BY <2>1 DEF Changes, Exists
  <2>5. OneByOne(req)'
    BY <1>0, <1>2, <2>2, <2>3, <2>4 DEF OneByOne, Exists
  <2>6. FailureStays(req)'
    <3>1. b.uid <= born[req]
      BY <1>0, <2>4 DEF OneByOne, Exists
    <3> QED
      BY <1>0, <2>2, <2>4, <3>1 DEF FailureStays, Exists
  <2> QED
    BY <1>0, <1>1, <1>2, <2>2, <2>3, <2>5, <2>6
<1>3. CASE /\ served' = served /\ made' = made /\ UNCHANGED browserVars
           /\ \E p \in Pods :
                /\ StorePod(req, p)
                /\ Exists(p) => Exists(pod[req]) /\ p.owner = pod[req].owner
                                /\ pc \notin Serving
  <2>1. PICK p \in Pods : /\ StorePod(req, p)
                          /\ Exists(p) => Exists(pod[req]) /\ p.owner = pod[req].owner
    BY <1>3
  <2>2. /\ pod'[req] = p /\ PodWatchEndsInTruth'
        /\ \A m \in Names : m # req => pod'[m] = pod[m]
    BY <1>0, <2>1, PodWritten
  <2>3. browser' = browser /\ \A m \in Names : BrowserVersions(m)' = BrowserVersions(m)
    BY <1>0, <1>3, NothingWritten
  <2>4. OneByOne(req)'
    BY <1>0, <1>3, <2>1, <2>2, <2>3 DEF OneByOne, Exists
  <2>5. FailureStays(req)'
    BY <1>0, <2>3 DEF FailureStays, Exists
  <2> QED
    BY <1>0, <1>1, <1>3, <2>2, <2>3, <2>4, <2>5
<1>4. CASE /\ UNCHANGED browserVars /\ MakePod /\ pc = "createPod" /\ ~Exists(pod[req])
           /\ served' = [served EXCEPT ![req] = lb.uid]
  <2> DEFINE p == NewPod(made[req] + 1, lb.uid)
  <2>1. p \in Pods /\ p.owner = lb.uid
    <3>1. made[req] + 1 \in Nat
      BY <1>0
    <3> QED
      BY <1>0, <3>1, ObjectTypes DEF NewPod
  <2>2. StorePod(req, p) /\ made' = [made EXCEPT ![req] = made[req] + 1]
    BY <1>4 DEF MakePod
  <2> HIDE DEF p
  <2>3. /\ pod'[req] = p /\ PodWatchEndsInTruth'
        /\ \A m \in Names : m # req => pod'[m] = pod[m]
    BY <1>0, <2>1, <2>2, PodWritten
  <2>4. browser' = browser /\ \A m \in Names : BrowserVersions(m)' = BrowserVersions(m)
    BY <1>0, <1>4, NothingWritten
  <2>5. /\ made'[req] = made[req] + 1 /\ served'[req] = lb.uid
        /\ \A m \in Names : m # req => made'[m] = made[m] /\ served'[m] = served[m]
    BY <1>0, <1>4, <2>2
  <2>6. made[req] + 1 <= lb.uid /\ lb.uid <= born[req]
    <3>1. served[req] # lb.uid
      BY <1>0, <1>4 DEF PassStands, Guarding
    <3>2. made[req] <= served[req] /\ served[req] <= lb.uid /\ served[req] \in Nat
          /\ lb.uid <= born[req]
      BY <1>0 DEF OneByOne, PassVersions
    <3> QED
      BY <1>0, <3>1, <3>2
  <2>7. OneByOne(req)'
    BY <1>0, <2>1, <2>3, <2>4, <2>5, <2>6 DEF OneByOne, Exists
  <2>8. FailureStays(req)'
    BY <1>0, <2>4 DEF FailureStays, Exists
  <2> QED
    BY <1>0, <1>1, <2>3, <2>4, <2>5, <2>7, <2>8
<1> QED
  BY <1>2, <1>3, <1>4 DEF PassEffect

(* A pass that goes on still knows what it knew of the versions, when its  *)
(* route tells what has to be known of failures.                           *)
LEMMA EffectKeepsVersions ==
  ASSUME LifecycleInv, pc # "idle", PassEffect, pc' # "idle", lb' = lb, pc' # "finalizer",
         pc # "createPod", pc' \in Serving => pc \in Serving,
         \A v \in BrowserVersions(req) \cup {browser'[req]} :
           pc' \in Serving /\ v.phase = "Failed"
             => \/ pc' \in {"failCritical", "release", "deleteBrowser"}
                \/ pc' = "mirror" /\ lp'.phase = "Failed"
  PROVE  PassVersions'
<1>0. /\ TypeOK /\ req \in Names /\ req' = req /\ born' = born
      /\ bCache' = bCache /\ pCache' = pCache /\ PassVersions
      /\ served' = served /\ \E b \in Browsers : b = browser'[req]
      /\ browser[req] \in BrowserVersions(req) /\ pod[req] \in PodVersions(req)
  <2>1. \E b \in Browsers : b = browser'[req]
    <3>1. TypeOK /\ req \in Names
      BY PassFacts
    <3>2. ASSUME NEW b \in Browsers, StoreBrowser(req, b) PROVE browser'[req] = b
      BY <3>1, <3>2 DEF StoreBrowser, TypeOK
    <3>3. UNCHANGED browserVars => browser'[req] \in Browsers
      BY <3>1 DEF browserVars, TypeOK
    <3> QED
      BY <3>2, <3>3 DEF PassEffect
  <2> QED
    BY <2>1, PassFacts DEF PassEffect, Undisturbed, cacheVars
<1>1. /\ BrowserVersions(req)' \subseteq BrowserVersions(req) \cup {browser'[req]}
      /\ Same' => Same
      /\ Exists(browser'[req]) => browser'[req].uid = browser[req].uid
  <2>1. CASE UNCHANGED browserVars
    <3>1. browser' = browser /\ BrowserVersions(req)' = BrowserVersions(req)
      BY <1>0, <2>1, NothingWritten
    <3> QED
      BY <1>0, <3>1 DEF Same
  <2>2. CASE \E b \in Browsers : StoreBrowser(req, b) /\ Changes(browser[req], b)
    <3>1. PICK b \in Browsers : StoreBrowser(req, b) /\ Changes(browser[req], b)
      BY <2>2
    <3>2. browser'[req] = b /\ BrowserVersions(req)' \subseteq BrowserVersions(req) \cup {b}
      BY <1>0, <3>1, BrowserWritten
    <3>3. Exists(b) => b.uid = browser[req].uid /\ Exists(browser[req])
      BY <3>1 DEF Changes, Exists
    <3> QED
      BY <1>0, <3>2, <3>3 DEF Same
  <2> QED
    BY <2>1, <2>2 DEF PassEffect
<1>2. /\ Exists(pod'[req]) => Exists(pod[req]) /\ pod'[req].owner = pod[req].owner
      /\ PodVersions(req)' \subseteq PodVersions(req) \cup {pod'[req]}
      /\ pc \in Serving => pod'[req] = pod[req] \/ ~Exists(pod'[req])
  <2>1. CASE UNCHANGED podVars
    <3>1. pod' = pod /\ PodVersions(req)' = PodVersions(req)
      BY <1>0, <2>1, NothingWritten
    <3> QED
      BY <3>1
  <2>2. CASE \E p \in Pods :
                /\ StorePod(req, p)
                /\ Exists(p) => Exists(pod[req]) /\ p.owner = pod[req].owner
                                /\ pc \notin Serving
    <3>1. PICK p \in Pods :
                /\ StorePod(req, p)
                /\ Exists(p) => Exists(pod[req]) /\ p.owner = pod[req].owner
                                /\ pc \notin Serving
      BY <2>2
    <3>2. pod'[req] = p /\ PodVersions(req)' \subseteq PodVersions(req) \cup {p}
      BY <1>0, <3>1, PodWritten
    <3> QED
      BY <3>1, <3>2
  <2> QED
    BY <2>1, <2>2 DEF PassEffect
<1>3. HasPod(req)' => HasPod(req)
  BY <1>0, <1>1, <1>2 DEF HasPod, Exists
<1>4. served'[req] <= lb.uid /\ lb.uid <= born'[req]
  BY <1>0 DEF PassVersions
<1>5. Same' => \A v \in BrowserVersions(req)' : v.uid = lb.uid
  BY <1>0, <1>1 DEF PassVersions, Same
<1>6. \A v \in PodVersions(req)' : ~Exists(v) => ~Exists(pod'[req])
  BY <1>0, <1>2 DEF PassVersions
<1>7. pc' \in Serving /\ Same' => \A v \in PodVersions(req)' : v.deleting => ~HasPod(req)'
  BY <1>0, <1>1, <1>2, <1>3 DEF PassVersions, HasPod
<1>8. \A v \in BrowserVersions(req)' :
        pc' \in Serving /\ v.phase = "Failed"
          => \/ pc' \in {"failCritical", "release", "deleteBrowser"}
             \/ pc' = "mirror" /\ lp'.phase = "Failed"
  BY <1>1
<1> QED
  BY <1>0, <1>4, <1>5, <1>6, <1>7, <1>8 DEF PassVersions, Exists, Serving

(* Without faults a patch is made or refused, and a delete is made.        *)
LEMMA NoFaults ==
  ASSUME TypeOK, Quiet
  PROVE  ~Fault
  BY DEF TypeOK, Quiet, Fault

(* What a step of a pass leaves alone, whatever it writes.                 *)
Elsewhere == Undisturbed /\ retired' = retired /\ served' = served /\ made' = made /\ req' = req

(* A step that only reads.                                                 *)
LEMMA ReadEffect ==
  ASSUME LifecycleInv, pc # "idle", Elsewhere, UNCHANGED <<browserVars, podVars>>,
         pc \notin {"failPod", "failPending"}
           \/ ~(Exists(browser[req]) /\ served[req] = browser[req].uid)
  PROVE  PassEffect
<1>0. /\ TypeOK /\ req \in Names /\ browser[req] \in Browsers /\ PodGuarded(req)
      /\ browser' = browser /\ pod' = pod /\ req' = req /\ served' = served
  BY PassFacts DEF Elsewhere, browserVars, podVars
<1>1. PodGuarded(req)'
  BY <1>0 DEF PodGuarded, HasPod, Exists
<1>2. StoreBrowser(req, browser[req])
  BY <1>0 DEF StoreBrowser, Logged, browserVars, TypeOK
<1>3. Changes(browser[req], browser[req])
  BY DEF Changes
<1> QED
  BY <1>0, <1>1, <1>2, <1>3 DEF PassEffect, Elsewhere

(* A refused patch finds no Browser, or one that is being deleted.         *)
LEMMA RefusedEffect ==
  ASSUME LifecycleInv, pc # "idle", NEW d \in Browsers, ~Patchable(d), Elsewhere,
         UNCHANGED <<browserVars, podVars>>,
         pc \in {"failPod", "failPending"} => d.fins = Cached.fins
  PROVE  PassEffect
<1>0. /\ TypeOK /\ req \in Names /\ browser[req] \in Browsers /\ bCache[req] \in Browsers
      /\ PassVersions /\ bCache[req] \in BrowserVersions(req)
      /\ Exists(browser[req]) /\ served[req] = browser[req].uid => Same
      /\ lb.uid # 0
  BY PassFacts DEF Exists
<1>1. ASSUME d.fins = Cached.fins, Same
      PROVE  Patchable(d)
  <2>1. Exists(bCache[req]) /\ Exists(browser[req])
    BY <1>0, <1>1 DEF PassVersions, Same, Exists
  <2>2. Merged(browser[req], bCache[req], d).fins = browser[req].fins
    BY <1>0, <1>1, MergedDetail DEF Cached
  <2> QED
    BY <2>1, <2>2 DEF Patchable
<1> QED
  BY <1>0, <1>1, ReadEffect

(* A patch of the status or the labels that does not take a failure back.  *)
LEMMA StatusEffect ==
  ASSUME LifecycleInv, pc \in Serving, NEW d \in Browsers, NEW b \in Browsers,
         PatchWrites(d, b), Elsewhere, UNCHANGED podVars, d.fins = Cached.fins,
         Exists(b) /\ browser[req].phase = "Failed" => b.phase = "Failed",
         Exists(b) /\ pc \in {"failPod", "failPending"} => b.phase = "Failed"
  PROVE  PassEffect
<1>0. pc # "idle"
  BY DEF Serving
<1>1. /\ browser'[req] = b /\ pod' = pod /\ req' = req /\ served' = served
      /\ StoreBrowser(req, b) /\ Exists(browser[req]) /\ b.fins = browser[req].fins
      /\ Exists(b) => b.uid = browser[req].uid /\ b.deleting = browser[req].deleting
      /\ ~Exists(b) => browser[req].fins = {}
  BY DEF PatchWrites, Elsewhere, podVars
<1>2. PodGuarded(req)
  BY <1>0, PassFacts
<1>3. PodGuarded(req)'
  BY <1>1, <1>2 DEF PodGuarded, HasPod, Exists
<1>4. ~Exists(b) => browser[req].phase = "Failed" \/ ~HasPod(req)
  BY <1>1, <1>2 DEF PodGuarded
<1>5. Changes(browser[req], b)
  BY <1>1, <1>4 DEF Changes
<1> QED
  BY <1>1, <1>3, <1>5 DEF PassEffect, Elsewhere

(* A patch that takes the finalizer off a Browser whose pod is gone or     *)
(* that has failed.                                                        *)
LEMMA ReleaseEffect ==
  ASSUME LifecycleInv, pc \in {"releaseFailed", "release", "releaseDeleted"},
         NEW b \in Browsers, PatchWrites(WithoutOwn, b), Elsewhere, UNCHANGED podVars,
         HasPod(req) => browser[req].phase = "Failed"
  PROVE  PassEffect
<1>1. /\ browser'[req] = b /\ pod' = pod /\ req' = req /\ served' = served
      /\ StoreBrowser(req, b) /\ Exists(browser[req])
      /\ Exists(b) => /\ b.uid = browser[req].uid /\ b.deleting = browser[req].deleting
                      /\ b.phase = browser[req].phase
  <2>1. WithoutOwn.phase = Cached.phase
    <3>1. Cached \in Browsers
      BY PassFacts DEF Cached
    <3> QED
      BY <3>1 DEF WithoutOwn, Browsers
  <2> QED
    BY <2>1 DEF PatchWrites, Elsewhere, podVars
<1>2. PodGuarded(req)
  BY PassFacts
<1>3. PodGuarded(req)'
  BY <1>1, <1>2 DEF PodGuarded, HasPod, Exists
<1>4. Changes(browser[req], b)
  BY <1>1 DEF Changes
<1> QED
  BY <1>1, <1>3, <1>4 DEF PassEffect, Elsewhere

(* A step of a pass that leaves its objects and itself in order.           *)
PassKept == PassEffect /\ (pc' # "idle" => (PassVersions /\ PassStands)')

(* A step that goes on with the pass keeps what the pass knows of          *)
(* versions, if the Browser says Failed only where the pass may meet       *)
(* that.                                                                   *)
LEMMA Onward ==
  ASSUME LifecycleInv, PassStep, PassEffect, pc' # "idle", pc' # "finalizer",
         pc # "createPod",
         \A v \in BrowserVersions(req) \cup {browser'[req]} :
           pc' \in Serving /\ v.phase = "Failed"
             => \/ pc' \in {"failCritical", "release", "deleteBrowser"}
                \/ pc' = "mirror" /\ lp'.phase = "Failed"
  PROVE  PassVersions' /\ lb' = lb
<1>1. pc # "idle" /\ TypeOK /\ (pc' \in Serving => pc \in Serving)
  <2>1. KeepsKind /\ TypeOK
    BY StepLabels DEF LifecycleInv, DeletionInv, NothingForgottenInv
  <2>2. pc \in Labels /\ Labels = Serving \cup Leaving \cup {"idle"}
        /\ Serving \cap (Leaving \cup {"idle"}) = {}
    BY <2>1 DEF TypeOK, Serving, Leaving, Labels
  <2> QED
    BY <2>1, <2>2 DEF KeepsKind
<1>2. lb' = lb
  BY <1>1, PassStepFrame DEF PassFrame, PassMove
<1> QED
  BY <1>1, <1>2, EffectKeepsVersions

(* The steps that prepare a Browser: its finalizer, its labels and the     *)
(* status Pending.                                                         *)
LEMMA PreparingKeeps ==
  ASSUME LifecycleInv, Quiet, served' = served, PassStep,
         AddFinalizer \/ AssignLabels \/ SetPending
  PROVE  PassKept
<1>0. /\ pc \in {"finalizer", "label", "setPending"} /\ pc # "idle" /\ TypeOK /\ pc \in Serving
  BY DEF LifecycleInv, DeletionInv, NothingForgottenInv, AddFinalizer, AssignLabels, SetPending,
         Serving, Labels, Leaving
<1>1. /\ PassVersions /\ PassStands /\ PodGuarded(req) /\ OneByOne(req)
      /\ Exists(browser[req]) /\ served[req] = browser[req].uid => Same
      /\ HasPod(req) => Same /\ served[req] = lb.uid
      /\ browser[req] \in BrowserVersions(req) /\ bCache[req] \in BrowserVersions(req)
      /\ browser[req] \in Browsers /\ bCache[req] \in Browsers
      /\ Exists(lb)
  BY <1>0, PassFacts
<1>2. \A v \in BrowserVersions(req) : v.phase # "Failed"
  BY <1>0, <1>1 DEF PassVersions
<1>3. req' = req
  BY <1>0, PassStepFrame DEF PassFrame, PassMove
<1>n. ~Fault
  BY <1>0, NoFaults
<1>4. ASSUME NEW d \in Browsers, ~Patchable(d), Elsewhere, UNCHANGED <<browserVars, podVars>>,
             pc' = "idle"
      PROVE  PassKept
  BY <1>0, <1>4, RefusedEffect DEF PassKept
<1>5. ASSUME PassEffect, pc' \in {"label", "setPending", "getPod"},
             NEW b \in Browsers, browser'[req] = b, b.phase # "Failed", pod' = pod,
             served[req] = lb.uid => HasPod(req)', served' = served,
             Same' => Own \in b.fins
      PROVE  PassKept
  <2>1. PassVersions' /\ lb' = lb
    BY <1>0, <1>2, <1>5, Onward
  <2>2. PassStands'
    BY <1>3, <1>5, <2>1 DEF PassStands, Guarding, Deleting, Same
  <2> QED
    BY <1>5, <2>1, <2>2 DEF PassKept
<1>6. \A B : AfterLabel(B) \in {"setPending", "getPod"}
             /\ AfterFinalizer(B) \in {"label", "setPending", "getPod"}
  BY DEF AfterLabel, AfterFinalizer
<1>7. ASSUME NEW l \in {"label", "setPending", "getPod"}, Goto(l) PROVE pc' = l
  BY <1>7 DEF Goto, Endings
<1>8. CASE AddFinalizer
  <2> DEFINE d == [Cached EXCEPT !.fins = @ \cup {Own}]
  <2>1. /\ pc = "finalizer" /\ Elsewhere /\ UNCHANGED podVars
        /\ \/ Patchable(d) /\ WritePatch(d) /\ Goto(AfterFinalizer(lb))
           \/ ~Patchable(d) /\ UNCHANGED browserVars /\ pc' = "idle"
    BY <1>3, <1>8, <1>n DEF AddFinalizer, Patch, Requeue, EndPass, Elsewhere
  <2>2. /\ d \in Browsers /\ d.phase = Cached.phase /\ d.fins = Cached.fins \cup {Own}
    BY <1>0, PatchTypes, PatchShapes
  <2> HIDE DEF d
  <2>3. CASE Patchable(d) /\ WritePatch(d) /\ Goto(AfterFinalizer(lb))
    <3>1. PICK b \in Browsers : PatchWrites(d, b)
      BY <1>0, <2>2, <2>3, AcceptedWrites
    <3>2. /\ pc' \in {"label", "setPending", "getPod"} /\ browser'[req] = b /\ pod' = pod
          /\ StoreBrowser(req, b) /\ Exists(browser[req])
          /\ Own \in Cached.fins \/ Own \in b.fins
          /\ Exists(b) => /\ b.uid = browser[req].uid /\ b.deleting = browser[req].deleting
                          /\ b.phase = browser[req].phase
      BY <1>6, <1>7, <2>1, <2>2, <2>3, <3>1 DEF PatchWrites, podVars
    <3>3. served[req] # lb.uid
      BY <1>1, <2>1 DEF PassStands
    <3>4. ~HasPod(req) /\ (Exists(b) => served[req] # b.uid)
      BY <1>1, <3>2, <3>3 DEF Same
    <3>5. Same' => Own \in b.fins
      <4>1. Same' => Same
        BY <1>3, <3>2, PassStepFrame, <1>0 DEF Same, PassFrame, PassMove, Exists
      <4>2. Same => Own \notin Cached.fins
        BY <1>1, <2>1 DEF PassVersions, Cached
      <4> QED
        BY <3>2, <4>1, <4>2
    <3>6. PodGuarded(req)'
      <4>1. ~HasPod(req)'
        BY <1>3, <3>2, <3>4 DEF HasPod, Exists
      <4>2. served'[req'] = served[req] /\ browser'[req'] = b
        BY <1>3, <3>2
      <4> QED
        BY <3>4, <4>1, <4>2 DEF PodGuarded
    <3>7. Changes(browser[req], b)
      BY <3>2, <3>4 DEF Changes
    <3>8. PassEffect
      BY <2>1, <3>2, <3>6, <3>7 DEF PassEffect, Elsewhere
    <3>9. b.phase # "Failed"
      <4>1. NoBrowser.phase # "Failed" /\ browser[req].phase # "Failed"
        BY <1>1, <1>2 DEF NoBrowser, NewBrowser
      <4> QED
        BY <3>1, <3>2, <4>1 DEF PatchWrites
    <3> QED
      BY <1>5, <3>2, <3>3, <3>5, <3>8, <3>9
  <2> QED
    BY <1>4, <2>1, <2>2, <2>3
<1>9. ASSUME pc \in {"label", "setPending"}, Elsewhere, UNCHANGED podVars,
             NEW d \in Browsers, d.fins = Cached.fins,
             d.phase \in {Cached.phase, "Pending"},
             NEW l \in {"label", "setPending", "getPod"},
             \/ Patchable(d) /\ WritePatch(d) /\ Goto(l)
             \/ ~Patchable(d) /\ UNCHANGED browserVars /\ pc' = "idle"
      PROVE  PassKept
  <2>1. CASE Patchable(d) /\ WritePatch(d) /\ Goto(l)
    <3>1. PICK b \in Browsers : PatchWrites(d, b)
      BY <1>0, <1>9, <2>1, AcceptedWrites
    <3>2. /\ pc' \in {"label", "setPending", "getPod"} /\ browser'[req] = b /\ pod' = pod
          /\ b.fins = browser[req].fins /\ served' = served
          /\ Exists(b) => b.uid = browser[req].uid
          /\ ~Exists(b) => b.fins = {}
      BY <1>7, <1>9, <2>1, <3>1 DEF PatchWrites, podVars, Elsewhere
    <3>3. b.phase # "Failed"
      <4>1. NoBrowser.phase # "Failed" /\ browser[req].phase # "Failed"
        BY <1>1, <1>2 DEF NoBrowser, NewBrowser
      <4> QED
        BY <1>9, <3>1, <4>1 DEF PatchWrites
    <3>4. PassEffect
      BY <1>0, <1>1, <1>2, <1>9, <3>1, StatusEffect
    <3>5. Same' => Same /\ Own \in b.fins
      BY <1>0, <1>1, <1>3, <1>9, <3>2, PassStepFrame
         DEF Same, PassFrame, PassMove, Exists, PassStands, Guarding
    <3>6. served[req] = lb.uid => HasPod(req)'
      <4>1. SUFFICES ASSUME served[req] = lb.uid PROVE HasPod(req)'
        OBVIOUS
      <4>2. HasPod(req) /\ Same
        BY <1>1, <1>9, <4>1 DEF PassStands, Guarding
      <4>3. Own \in b.fins
        BY <1>1, <1>9, <3>2, <4>2 DEF PassStands, Guarding
      <4> QED
        BY <1>3, <3>2, <4>2, <4>3 DEF HasPod, Exists
    <3> QED
      BY <1>5, <3>2, <3>3, <3>4, <3>5, <3>6
  <2>2. CASE ~Patchable(d) /\ UNCHANGED browserVars /\ pc' = "idle"
    BY <1>4, <1>9, <2>2
  <2> QED
    BY <1>9, <2>1, <2>2
<1>10. CASE AssignLabels
  <2> DEFINE d == [Cached EXCEPT !.labelled = TRUE]
  <2>1. /\ pc = "label" /\ Elsewhere /\ UNCHANGED podVars
        /\ \/ Patchable(d) /\ WritePatch(d) /\ Goto(AfterLabel(lb))
           \/ ~Patchable(d) /\ UNCHANGED browserVars /\ pc' = "idle"
    BY <1>3, <1>10, <1>n DEF AssignLabels, Patch, Requeue, EndPass, Elsewhere
  <2>2. d \in Browsers /\ d.phase = Cached.phase /\ d.fins = Cached.fins
    BY <1>0, PatchTypes, PatchShapes
  <2> HIDE DEF d
  <2> QED
    BY <1>6, <1>9, <2>1, <2>2
<1>11. CASE SetPending
  <2>1. /\ pc = "setPending" /\ Elsewhere /\ UNCHANGED podVars
        /\ \/ Patchable(WithPhase("Pending")) /\ WritePatch(WithPhase("Pending"))
              /\ Goto("getPod")
           \/ ~Patchable(WithPhase("Pending")) /\ UNCHANGED browserVars /\ pc' = "idle"
    BY <1>3, <1>11, <1>n DEF SetPending, Patch, Requeue, EndPass, Elsewhere
  <2>2. /\ WithPhase("Pending") \in Browsers /\ WithPhase("Pending").phase = "Pending"
        /\ WithPhase("Pending").fins = Cached.fins
    BY <1>0, PatchTypes, PatchShapes DEF PodPhases
  <2> QED
    BY <1>9, <2>1, <2>2
<1> QED
  BY <1>8, <1>10, <1>11

(* The steps that write a failure, or the Pod's state, into the status.    *)
LEMMA ReportingKeeps ==
  ASSUME LifecycleInv, Quiet, served' = served, PassStep,
         FailPod \/ FailPending \/ FailConfig \/ FailCritical \/ Mirror
  PROVE  PassKept
<1>0. /\ pc \in {"failPod", "failPending", "failConfig", "failCritical", "mirror"}
      /\ pc # "idle" /\ TypeOK /\ pc \in Serving
  BY DEF LifecycleInv, DeletionInv, NothingForgottenInv, FailPod, FailPending, FailConfig,
         FailCritical, Mirror, Serving, Labels, Leaving
<1>1. /\ PassVersions /\ PassStands /\ FailureStays(req)
      /\ bCache[req] \in BrowserVersions(req) /\ browser[req] \in BrowserVersions(req)
      /\ lb.phase # "Failed"
  BY <1>0, PassFacts
<1>3. req' = req /\ (pc' # "idle" => lb' = lb)
  BY <1>0, PassStepFrame DEF PassFrame, PassMove
<1>n. ~Fault
  BY <1>0, NoFaults
<1>4. ASSUME NEW d \in Browsers, ~Patchable(d), Elsewhere, UNCHANGED <<browserVars, podVars>>,
             pc' = "idle", d.fins = Cached.fins
      PROVE  PassKept
  BY <1>0, <1>4, RefusedEffect DEF PassKept
<1> DEFINE f == WithPhase("Failed")
<1>5. f \in Browsers /\ f.phase = "Failed" /\ f.fins = Cached.fins
  BY <1>0, PatchTypes, PatchShapes DEF PodPhases
<1> HIDE DEF f
<1>6. ASSUME pc # "mirror", Patchable(f), WritePatch(f), Elsewhere, UNCHANGED podVars
      PROVE  /\ PassEffect
             /\ Same /\ Exists(browser'[req]) => browser'[req].phase = "Failed"
             /\ Exists(browser'[req]) => Exists(browser[req]) /\ browser'[req].uid = browser[req].uid
  <2>1. PICK b \in Browsers : PatchWrites(f, b)
    BY <1>0, <1>5, <1>6, AcceptedWrites
  <2>2. Exists(b) => b.phase = IF Cached.phase = "Failed" THEN browser[req].phase ELSE "Failed"
    BY <1>5, <2>1 DEF PatchWrites
  <2>3. pc # "failCritical" => Cached.phase # "Failed"
    BY <1>0, <1>1, <1>6 DEF PassVersions, Cached
  <2>4. Same /\ Cached.phase = "Failed" => browser[req].phase = "Failed"
    BY <1>1, <2>1 DEF PassVersions, FailureStays, Same, Cached, PatchWrites
  <2>5. PassEffect
    BY <1>0, <1>5, <1>6, <2>1, <2>2, <2>3, StatusEffect
  <2> QED
    BY <2>1, <2>2, <2>4, <2>5 DEF PatchWrites, Exists
<1>7. CASE FailPending \/ FailConfig
  <2>1. /\ pc \in {"failPending", "failConfig"} /\ Elsewhere /\ UNCHANGED podVars /\ pc' = "idle"
        /\ \/ Patchable(f) /\ WritePatch(f)
           \/ ~Patchable(f) /\ UNCHANGED browserVars
    BY <1>3, <1>7, <1>n DEF f, FailPending, FailConfig, Patch, Requeue, Done, EndPass, Elsewhere
  <2> QED
    BY <1>4, <1>5, <1>6, <2>1 DEF PassKept
<1>8. CASE FailPod
  <2>1. /\ pc = "failPod" /\ Elsewhere /\ UNCHANGED podVars
        /\ \/ Patchable(f) /\ WritePatch(f) /\ Goto(UpdateStatus(lb, lp))
           \/ ~Patchable(f) /\ UNCHANGED browserVars /\ pc' = "idle"
    BY <1>3, <1>8, <1>n DEF f, FailPod, Patch, Requeue, EndPass, Elsewhere
  <2>2. lp.phase = "Failed"
    BY <1>1, <2>1 DEF PassStands
  <2>3. UpdateStatus(lb, lp) \in {"failCritical", "mirror"}
    BY <1>1, <2>2 DEF UpdateStatus, StatusChanged
  <2>4. CASE Patchable(f) /\ WritePatch(f) /\ Goto(UpdateStatus(lb, lp))
    <3>1. pc' \in {"failCritical", "mirror"} /\ lp' = lp
      BY <2>3, <2>4 DEF Goto, Endings
    <3>2. PassEffect
      BY <1>6, <2>1, <2>4
    <3>3. PassVersions'
      BY <2>2, <3>1, <3>2, Onward, <2>1
    <3>4. PassStands'
      BY <3>1 DEF PassStands, Guarding, Deleting
    <3> QED
      BY <3>2, <3>3, <3>4 DEF PassKept
  <2> QED
    BY <1>4, <1>5, <2>1, <2>4
<1>9. CASE FailCritical
  <2>1. /\ pc = "failCritical" /\ Elsewhere /\ UNCHANGED podVars
        /\ \/ Patchable(f) /\ WritePatch(f) /\ Goto(AfterFailure(lb))
           \/ ~Patchable(f) /\ UNCHANGED browserVars /\ pc' = "idle"
    BY <1>3, <1>9, <1>n DEF f, FailCritical, Patch, Requeue, EndPass, Elsewhere
  <2>2. AfterFailure(lb) \in {"release", "deleteBrowser"}
    BY DEF AfterFailure
  <2>3. CASE Patchable(f) /\ WritePatch(f) /\ Goto(AfterFailure(lb))
    <3>1. pc' \in {"release", "deleteBrowser"}
      BY <2>2, <2>3 DEF Goto, Endings
    <3>2. PassEffect
      BY <1>6, <2>1, <2>3
    <3>3. PassVersions' /\ lb' = lb
      BY <2>1, <3>1, <3>2, Onward
    <3>4. Same' => browser'[req].phase = "Failed"
      BY <1>3, <1>6, <2>1, <2>3, <3>3 DEF Same
    <3>5. PassStands'
      BY <1>3, <3>1, <3>4 DEF PassStands, Guarding, Deleting
    <3> QED
      BY <3>2, <3>3, <3>5 DEF PassKept
  <2> QED
    BY <1>4, <1>5, <2>1, <2>3
<1>10. CASE Mirror
  <2> DEFINE d == [Cached EXCEPT !.phase = lp.phase,
                                 !.ip = IF StatusChanged(lb, lp) THEN PodIP(lp) ELSE @,
                                 !.cs = IF ContainersChanged(lb, lp) THEN lp.cs ELSE @]
  <2>1. /\ pc = "mirror" /\ Elsewhere /\ UNCHANGED podVars /\ pc' = "idle"
        /\ \/ Patchable(d) /\ WritePatch(d)
           \/ ~Patchable(d) /\ UNCHANGED browserVars
    BY <1>3, <1>10, <1>n DEF Mirror, Patch, Requeue, RequeueAfter, EndPass, Elsewhere
  <2>2. d \in Browsers /\ d.phase = lp.phase /\ d.fins = Cached.fins
    <3>1. Cached \in Browsers
      BY <1>0 DEF TypeOK, Cached
    <3> QED
      BY <1>0, <3>1, PatchTypes DEF Browsers
  <2> HIDE DEF d
  <2>3. CASE Patchable(d) /\ WritePatch(d)
    <3>1. PICK b \in Browsers : PatchWrites(d, b)
      BY <1>0, <2>2, <2>3, AcceptedWrites
    <3>2. browser[req].phase = "Failed" => lp.phase = "Failed"
      BY <1>0, <1>1, <2>1 DEF PassVersions
    <3>3. Exists(b) /\ browser[req].phase = "Failed" => b.phase = "Failed"
      BY <2>2, <3>1, <3>2 DEF PatchWrites
    <3> QED
      BY <1>0, <2>1, <2>2, <3>1, <3>3, StatusEffect DEF PassKept
  <2> QED
    BY <1>4, <2>1, <2>2, <2>3
<1> QED
  BY <1>7, <1>8, <1>9, <1>10

(* The steps that only read.                                               *)
LEMMA ReadingKeeps ==
  ASSUME LifecycleInv, Quiet, served' = served, PassStep,
         GetPod \/ LookupConfig \/ PodForDeletion
  PROVE  PassKept
<1>0. /\ pc \in {"getPod", "lookupConfig", "podForDeletion"} /\ pc # "idle" /\ TypeOK
      /\ pc # "podForDeletion" => pc \in Serving
  BY DEF LifecycleInv, DeletionInv, NothingForgottenInv, GetPod, LookupConfig, PodForDeletion,
         Serving, Labels, Leaving
<1>1. /\ PassVersions /\ PassStands /\ OneByOne(req)
      /\ browser[req] \in BrowserVersions(req) /\ pCache[req] \in PodVersions(req)
      /\ pc \in Serving => lb.phase # "Failed"
      /\ HasPod(req) => Same
  BY <1>0, PassFacts
<1>n. ~Fault
  BY <1>0, NoFaults
<1>2. /\ Elsewhere /\ UNCHANGED <<browserVars, podVars>>
      /\ req' = req /\ browser' = browser /\ pod' = pod /\ served' = served
  BY <1>0, PassStepFrame
     DEF PassFrame, PassMove, GetPod, LookupConfig, PodForDeletion, Elsewhere, browserVars, podVars
<1>3. PassEffect
  BY <1>0, <1>2, ReadEffect
<1>4. (Same' <=> Exists(browser[req]) /\ browser[req].uid = lb'.uid)
      /\ (HasPod(req)' <=> HasPod(req))
  BY <1>2 DEF Same, HasPod
<1>5. CASE GetPod
  <2> DEFINE p == pCache[req]
             l == IF Exists(p) THEN JudgePod(req, lb, p) ELSE "lookupConfig"
  <2>1. pc = "getPod" /\ IF l \in Endings THEN Goto(l) ELSE Take(l, p)
    BY <1>5, <1>n DEF GetPod
  <2> HIDE DEF l
  <2>2. /\ l \in {"lookupConfig", "release", "deleteBrowser", "killFailed", "killBackoff",
                  "failPending", "failCritical", "mirror", "requeueAfter"}
        /\ l \in {"release", "deleteBrowser"} => p.deleting
        /\ l = "killFailed" => p.phase = "Failed"
        /\ l = "lookupConfig" => ~Exists(p)
    BY <1>0, <1>1, <2>1, JudgementTells DEF l
  <2>3. CASE l = "requeueAfter"
    BY <1>3, <2>1, <2>3 DEF Goto, Endings, RequeueAfter, Requeue, EndPass, PassKept
  <2>4. CASE l # "requeueAfter"
    <3>1. pc' = l /\ (l = "killFailed" => lp' = p)
      BY <2>1, <2>2, <2>4 DEF Take, Endings
    <3>2. \A v \in BrowserVersions(req) : v.phase # "Failed"
      BY <1>0, <1>1, <2>1 DEF PassVersions
    <3>3. PassVersions' /\ lb' = lb
      BY <1>0, <1>1, <1>2, <1>3, <2>1, <2>2, <2>4, <3>1, <3>2, Onward
    <3>4. l = "lookupConfig" => ~HasPod(req) /\ served[req] # lb.uid
      <4>1. SUFFICES ASSUME l = "lookupConfig" PROVE ~HasPod(req) /\ served[req] # lb.uid
        OBVIOUS
      <4>2. ~Exists(pod[req])
        BY <1>1, <2>2, <4>1 DEF PassVersions
      <4> QED
        BY <1>1, <2>1, <4>2 DEF HasPod, PassStands, Guarding
    <3>5. l \in {"release", "deleteBrowser"} /\ Same => ~HasPod(req)
      BY <1>0, <1>1, <2>1, <2>2 DEF PassVersions
    <3>6. l = "lookupConfig" /\ Same => Own \in browser[req].fins
      BY <1>1, <2>1 DEF PassStands, Guarding
    <3>7. PassStands'
      BY <1>2, <1>4, <2>2, <2>4, <3>1, <3>3, <3>4, <3>5, <3>6
         DEF PassStands, Guarding, Deleting, Same
    <3> QED
      BY <1>3, <3>3, <3>7 DEF PassKept
  <2> QED
    BY <2>3, <2>4
<1>6. CASE LookupConfig
  <2>1. pc = "lookupConfig" /\ pc' \in {"createPod", "failConfig"}
    BY <1>6 DEF LookupConfig, Goto, Endings
  <2>2. \A v \in BrowserVersions(req) : v.phase # "Failed"
    BY <1>0, <1>1, <2>1 DEF PassVersions
  <2>3. PassVersions' /\ lb' = lb
    BY <1>0, <1>1, <1>2, <1>3, <2>1, <2>2, Onward
  <2>4. /\ served[req] # lb.uid
        /\ Same => Own \in browser[req].fins
    BY <1>1, <2>1 DEF PassStands, Guarding
  <2>5. PassStands'
    BY <1>2, <1>4, <2>1, <2>3, <2>4 DEF PassStands, Guarding, Deleting, Same
  <2> QED
    BY <1>3, <2>3, <2>5 DEF PassKept
<1>7. CASE PodForDeletion
  <2> DEFINE p == pCache[req]
             l == JudgeDeletion(req, p)
  <2>1. pc = "podForDeletion" /\ IF l \in Endings THEN Goto(l) ELSE Take(l, p)
    BY <1>7, <1>n DEF PodForDeletion
  <2> HIDE DEF l
  <2>2. /\ l \in {"releaseDeleted", "deletePod", "forceDelete", "requeueAfter"}
        /\ l = "releaseDeleted" => ~Exists(p)
    BY DEF l, JudgeDeletion
  <2>3. CASE l = "requeueAfter"
    BY <1>3, <2>1, <2>3 DEF Goto, Endings, RequeueAfter, Requeue, EndPass, PassKept
  <2>4. CASE l # "requeueAfter"
    <3>1. pc' = l
      BY <2>1, <2>2, <2>4 DEF Take, Endings
    <3>2. PassVersions' /\ lb' = lb
      BY <1>0, <1>2, <1>3, <2>1, <2>2, <2>4, <3>1, Onward DEF Serving, Leaving
    <3>3. l = "releaseDeleted" => ~Exists(pod[req])
      BY <1>1, <2>2 DEF PassVersions
    <3>4. Same => browser[req].deleting
      BY <1>1, <2>1 DEF PassStands, Deleting
    <3>5. PassStands'
      BY <1>2, <1>4, <2>2, <2>4, <3>1, <3>2, <3>3, <3>4
         DEF PassStands, Guarding, Deleting, Same
    <3> QED
      BY <1>3, <3>2, <3>5 DEF PassKept
  <2> QED
    BY <2>3, <2>4
<1> QED
  BY <1>5, <1>6, <1>7

(* The steps that delete the Pod.                                          *)
LEMMA RemovingKeeps ==
  ASSUME LifecycleInv, Quiet, served' = served, PassStep,
         KillFailed \/ KillBackoff \/ DeletePod \/ ForceDelete
  PROVE  PassKept
<1>0. /\ pc \in {"killFailed", "killBackoff", "deletePod", "forceDelete"} /\ pc # "idle" /\ TypeOK
      /\ pc \in {"killFailed", "killBackoff"} <=> pc \in Serving
  BY DEF LifecycleInv, DeletionInv, NothingForgottenInv, KillFailed, KillBackoff, DeletePod,
         ForceDelete, Serving, Labels, Leaving
<1>1. /\ PassVersions /\ PassStands /\ OneByOne(req) /\ PodGuarded(req) /\ req \in Names
      /\ browser[req] \in BrowserVersions(req) /\ pod[req] \in Pods
      /\ HasPod(req) => Same
      /\ Exists(browser[req]) /\ served[req] = browser[req].uid => Same
  BY <1>0, PassFacts
<1>n. ~Fault
  BY <1>0, NoFaults
<1>2. /\ Elsewhere /\ UNCHANGED browserVars
      /\ req' = req /\ browser' = browser /\ served' = served
  BY <1>0, PassStepFrame
     DEF PassFrame, PassMove, KillFailed, KillBackoff, DeletePod, ForceDelete, RemovePod,
         Elsewhere, browserVars
<1>3. ASSUME NEW p \in Pods, StorePod(req, p),
             Exists(p) => Exists(pod[req]) /\ p.owner = pod[req].owner /\ pc \notin Serving,
             Same => browser[req].deleting \/ (pc' \in {"failPod", "failPending"} /\ ~Exists(p))
      PROVE  PassEffect /\ pod'[req] = p
  <2>1. pod'[req] = p
    BY <1>0, <1>1, <1>3 DEF StorePod, TypeOK
  <2>2. PodGuarded(req)'
    <3>1. HasPod(req)' => HasPod(req) /\ Exists(p)
      BY <1>2, <1>3, <2>1 DEF HasPod
    <3>2. HasPod(req)' => Own \in browser[req].fins \/ browser[req].phase = "Failed"
      BY <1>1, <3>1 DEF PodGuarded
    <3>3. HasPod(req)' => browser[req].deleting
      BY <1>1, <1>3, <3>1
    <3>4. Exists(browser[req]) /\ served[req] = browser[req].uid
            => browser[req].deleting \/ pc' \in {"failPod", "failPending"}
      BY <1>1, <1>3
    <3> QED
      BY <1>2, <3>2, <3>3, <3>4 DEF PodGuarded
  <2> QED
    BY <1>2, <1>3, <2>1, <2>2 DEF PassEffect, Elsewhere
<1>4. CASE KillFailed
  <2>1. pc = "killFailed" /\ StorePod(req, NoPod) /\ pc' = "failPod" /\ lp' = lp
    BY <1>4, <1>n DEF KillFailed, RemovePod, Goto, Endings
  <2>2. PassEffect
    BY <1>3, <2>1, ObjectTypes
  <2>3. \A v \in BrowserVersions(req) : v.phase # "Failed"
    BY <1>0, <1>1, <2>1 DEF PassVersions
  <2>4. PassVersions'
    BY <1>1, <1>2, <2>1, <2>2, <2>3, Onward
  <2>5. PassStands'
    BY <1>1, <2>1 DEF PassStands, Guarding, Deleting
  <2> QED
    BY <2>2, <2>4, <2>5 DEF PassKept
<1>5. CASE KillBackoff
  <2>1. pc = "killBackoff" /\ StorePod(req, NoPod) /\ pc' = "failPending"
    BY <1>5, <1>n DEF KillBackoff, RemovePod, Goto, Endings
  <2>2. PassEffect
    BY <1>3, <2>1, ObjectTypes
  <2>3. \A v \in BrowserVersions(req) : v.phase # "Failed"
    BY <1>0, <1>1, <2>1 DEF PassVersions
  <2>4. PassVersions'
    BY <1>1, <1>2, <2>1, <2>2, <2>3, Onward
  <2>5. PassStands'
    BY <2>1 DEF PassStands, Guarding, Deleting
  <2> QED
    BY <2>2, <2>4, <2>5 DEF PassKept
<1>6. CASE DeletePod
  <2>1. pc = "deletePod" /\ pc' = "idle"
        /\ \E p \in GracefullyDeleted(pod[req]) \cup {NoPod} : StorePod(req, p)
    BY <1>6, <1>n DEF DeletePod, RemovePod, RequeueAfter, Requeue, EndPass
  <2>2. PICK p \in GracefullyDeleted(pod[req]) \cup {NoPod} : StorePod(req, p)
    BY <2>1
  <2>3. p \in Pods /\ (Exists(p) => Exists(pod[req]) /\ p.owner = pod[req].owner)
    <3>1. p = NoPod \/ (p = [pod[req] EXCEPT !.deleting = TRUE] /\ Exists(pod[req]))
      BY DEF GracefullyDeleted
    <3>2. /\ [pod[req] EXCEPT !.deleting = TRUE] \in Pods
          /\ [pod[req] EXCEPT !.deleting = TRUE].owner = pod[req].owner
      BY <1>1 DEF Pods
    <3> QED
      BY <3>1, <3>2, ObjectTypes
  <2>4. Same => browser[req].deleting
    BY <1>1, <2>1 DEF PassStands, Deleting
  <2> QED
    BY <1>0, <1>3, <2>1, <2>2, <2>3, <2>4 DEF PassKept
<1>7. CASE ForceDelete
  <2>1. pc = "forceDelete" /\ StorePod(req, NoPod) /\ pc' = "releaseDeleted"
    BY <1>7, <1>n DEF ForceDelete, RemovePod, Goto, Endings
  <2>2. Same => browser[req].deleting
    BY <1>1, <2>1 DEF PassStands, Deleting
  <2>3. PassEffect /\ pod'[req] = NoPod
    BY <1>3, <2>1, <2>2, ObjectTypes
  <2>4. PassVersions' /\ lb' = lb
    BY <2>1, <2>3, Onward DEF Serving, Leaving
  <2>5. PassStands'
    BY <1>2, <2>1, <2>2, <2>3, <2>4, ObjectTypes DEF PassStands, Guarding, Deleting, Same
  <2> QED
    BY <2>3, <2>4, <2>5 DEF PassKept
<1> QED
  BY <1>4, <1>5, <1>6, <1>7

(* The steps that let go of the Browser.                                   *)
LEMMA LeavingKeeps ==
  ASSUME LifecycleInv, Quiet, served' = served, PassStep,
         ReleaseFailed \/ Release \/ ReleaseDeleted \/ DeleteBrowser
  PROVE  PassKept
<1>0. /\ pc \in {"releaseFailed", "release", "releaseDeleted", "deleteBrowser"}
      /\ pc # "idle" /\ TypeOK
  BY DEF LifecycleInv, DeletionInv, NothingForgottenInv, ReleaseFailed, Release, ReleaseDeleted,
         DeleteBrowser
<1>1. /\ PassVersions /\ PassStands /\ PodGuarded(req) /\ req \in Names
      /\ browser[req] \in Browsers
      /\ HasPod(req) => Same
  BY <1>0, PassFacts
<1>n. ~Fault
  BY <1>0, NoFaults
<1>2. /\ Elsewhere /\ UNCHANGED podVars
      /\ req' = req /\ pod' = pod /\ served' = served /\ WithoutOwn \in Browsers
  BY <1>0, PassStepFrame, PatchTypes
     DEF PassFrame, PassMove, ReleaseFailed, Release, ReleaseDeleted, DeleteBrowser, Patch,
         Elsewhere, podVars
<1>3. pc # "deleteBrowser" => (HasPod(req) => browser[req].phase = "Failed")
  BY <1>0, <1>1 DEF PassStands, HasPod
<1>4. ASSUME pc # "deleteBrowser", ~Patchable(WithoutOwn), UNCHANGED browserVars, pc' = "idle"
      PROVE  PassKept
  BY <1>0, <1>2, <1>4, RefusedEffect DEF PassKept
<1>5. ASSUME pc # "deleteBrowser", Patchable(WithoutOwn), WritePatch(WithoutOwn)
      PROVE  /\ PassEffect
             /\ Same /\ Exists(browser'[req]) => browser'[req].phase = browser[req].phase
             /\ Exists(browser'[req]) => Exists(browser[req])
                                         /\ browser'[req].uid = browser[req].uid
  <2>1. PICK b \in Browsers : PatchWrites(WithoutOwn, b)
    BY <1>0, <1>2, <1>5, AcceptedWrites
  <2>2. PassEffect
    BY <1>0, <1>2, <1>3, <1>5, <2>1, ReleaseEffect
  <2> QED
    BY <1>0, <2>1, <2>2, PatchShapes DEF PatchWrites, Exists
<1>6. CASE ReleaseFailed \/ ReleaseDeleted
  <2>1. /\ pc # "deleteBrowser" /\ pc' = "idle"
        /\ \/ Patchable(WithoutOwn) /\ WritePatch(WithoutOwn)
           \/ ~Patchable(WithoutOwn) /\ UNCHANGED browserVars
    BY <1>6, <1>n DEF ReleaseFailed, ReleaseDeleted, Patch, Done, Requeue, EndPass
  <2> QED
    BY <1>4, <1>5, <2>1 DEF PassKept
<1>7. CASE Release
  <2>1. /\ pc = "release"
        /\ \/ Patchable(WithoutOwn) /\ WritePatch(WithoutOwn) /\ pc' = "deleteBrowser"
           \/ ~Patchable(WithoutOwn) /\ UNCHANGED browserVars /\ pc' = "idle"
    BY <1>7, <1>n DEF Release, Patch, Requeue, EndPass, Goto, Endings
  <2>2. CASE Patchable(WithoutOwn) /\ WritePatch(WithoutOwn) /\ pc' = "deleteBrowser"
    <3>1. PassEffect
      BY <1>5, <2>1, <2>2
    <3>2. PassVersions' /\ lb' = lb
      BY <2>1, <2>2, <3>1, Onward
    <3>3. Same' => Same /\ browser'[req].phase = browser[req].phase
      BY <1>2, <1>5, <2>1, <2>2, <3>2 DEF Same
    <3>4. Same' /\ HasPod(req)' => HasPod(req)
      BY <1>2, <1>5, <2>1, <2>2, <3>3 DEF Same, HasPod
    <3>5. PassStands'
      BY <1>1, <1>2, <2>1, <2>2, <3>3, <3>4 DEF PassStands, Guarding, Deleting
    <3> QED
      BY <3>1, <3>2, <3>5 DEF PassKept
  <2> QED
    BY <1>4, <2>1, <2>2
<1>8. CASE DeleteBrowser
  <2> DEFINE b == DeletedBrowser(browser[req])
  <2>1. pc = "deleteBrowser" /\ pc' = "idle" /\ StoreBrowser(req, b)
    BY <1>8, <1>n DEF DeleteBrowser, Done, EndPass
  <2>2. b \in Browsers /\ browser'[req] = b
    BY <1>0, <1>1, <2>1, DeletedFacts DEF StoreBrowser, TypeOK
  <2>3. \/ b = NoBrowser /\ (Exists(browser[req]) => browser[req].fins = {})
        \/ /\ Exists(browser[req]) /\ b.uid = browser[req].uid /\ b.deleting
           /\ b.phase = browser[req].phase /\ b.fins = browser[req].fins
    BY <1>1 DEF DeletedBrowser, Browsers
  <2> HIDE DEF b
  <2>4. PodGuarded(req)'
    BY <1>0, <1>1, <1>2, <2>2, <2>3, ObjectTypes DEF PodGuarded, HasPod, Exists
  <2>5. Changes(browser[req], b)
    <3>1. browser[req].fins = {} => browser[req].phase = "Failed" \/ ~HasPod(req)
      BY <1>1 DEF PodGuarded
    <3>2. browser[req].deleting \in BOOLEAN /\ b.deleting \in BOOLEAN
      BY <1>1, <2>2 DEF Browsers
    <3> QED
      BY <2>3, <3>1, <3>2, ObjectTypes DEF Changes, Exists
  <2>6. PassEffect
    BY <1>2, <2>1, <2>2, <2>4, <2>5 DEF PassEffect, Elsewhere
  <2> QED
    BY <2>1, <2>6 DEF PassKept
<1> QED
  BY <1>6, <1>7, <1>8

(* The creation of the Pod.                                                *)
LEMMA CreatingKeeps ==
  ASSUME LifecycleInv, Quiet, Record, PassStep, CreatePod
  PROVE  PassKept
<1>0. pc = "createPod" /\ pc # "idle" /\ TypeOK /\ served \in [Names -> Nat]
  BY DEF LifecycleInv, DeletionInv, NothingForgottenInv, CreatePod
<1>1. /\ PassStands /\ req \in Names /\ lb \in Browsers
      /\ made \in [Names -> Nat] /\ made[req] \in Nat /\ pod \in [Names -> Pods]
  BY <1>0, PassFacts DEF TypeOK
<1>n. ~Fault
  BY <1>0, NoFaults
<1>2. /\ Undisturbed /\ retired' = retired /\ req' = req /\ UNCHANGED browserVars
      /\ pc' = "idle" /\ browser' = browser
  BY <1>0, PassStepFrame, <1>n
     DEF PassFrame, PassMove, CreatePod, browserVars, RequeueAfter, Requeue, EndPass
<1>3. CASE UNCHANGED <<podVars, made>>
  <2>1. served' = served
    BY <1>0, <1>3, ServedStays
  <2> QED
    BY <1>0, <1>2, <1>3, <2>1, ReadEffect DEF Elsewhere, PassKept
<1>4. CASE MakePod /\ ~Exists(pod[req])
  <2> DEFINE p == NewPod(made[req] + 1, lb.uid)
  <2>1. /\ pod' = [pod EXCEPT ![req] = p] /\ made' = [made EXCEPT ![req] = made[req] + 1]
    BY <1>4 DEF MakePod, StorePod
  <2>2. p.uid = made[req] + 1 /\ p.owner = lb.uid /\ p.deleting = FALSE
    BY DEF NewPod
  <2> HIDE DEF p
  <2>3. pod'[req] = p /\ made'[req] = made[req] + 1
        /\ \A m \in Names : m # req => made'[m] = made[m]
    BY <1>1, <2>1
  <2>4. made[req] + 1 > made[req] /\ Exists(p) /\ \A m \in Names : ~(made[m] > made[m])
    BY <1>1, <2>2 DEF Exists
  <2>5. served' = [served EXCEPT ![req] = lb.uid]
    BY <1>0, <2>2, <2>3, <2>4 DEF Record
  <2>6. served'[req] = lb.uid
    BY <1>0, <1>1, <2>5
  <2>7. PodGuarded(req)'
    BY <1>0, <1>1, <1>2, <2>2, <2>3, <2>4, <2>6
       DEF PodGuarded, HasPod, PassStands, Guarding, Same
  <2> QED
    BY <1>0, <1>2, <1>4, <2>5, <2>7 DEF PassEffect, PassKept
<1> QED
  BY <1>3, <1>4, <1>n DEF CreatePod

(* Every step of a pass leaves things in order.                            *)
LEMMA PassStepKeeps ==
  ASSUME LifecycleInv, Quiet, Record, PassStep
  PROVE  PassKept
<1>1. TypeOK /\ served \in [Names -> Nat]
  BY DEF LifecycleInv, DeletionInv, NothingForgottenInv
<1>2. ~CreatePod => made' = made
  BY DEF PassStep, ReleaseFailed, AddFinalizer, AssignLabels, SetPending, GetPod, KillFailed,
     FailPod, KillBackoff, FailPending, LookupConfig, FailConfig, FailCritical, Mirror, Release,
     DeleteBrowser, PodForDeletion, DeletePod, ForceDelete, ReleaseDeleted, Patch, RemovePod
<1>3. ~CreatePod => served' = served
  BY <1>1, <1>2, ServedStays
<1> QED
  BY <1>3, PreparingKeeps, ReportingKeeps, ReadingKeeps, RemovingKeeps, LeavingKeeps,
     CreatingKeeps DEF PassStep

-----------------------------------------------------------------------------
(* The invariant *)

(* The invariant holds at the start, when there is neither Browser nor     *)
(* Pod.                                                                    *)
LEMMA LifecycleInit == HInit => LifecycleInv
<1> SUFFICES ASSUME HInit PROVE LifecycleInv
  OBVIOUS
<1>1. DeletionInv
  BY DeletionInit DEF HInit
<1>2. /\ \A n \in Names : /\ browser[n] = NoBrowser /\ bCache[n] = NoBrowser /\ bWatch[n] = <<>>
                          /\ pod[n] = NoPod /\ pCache[n] = NoPod /\ pWatch[n] = <<>>
                          /\ served[n] = 0 /\ made[n] = 0 /\ born[n] = 0
      /\ pc = "idle" /\ served = [n \in Names |-> 0]
  BY DEF HInit, Init, ClusterInit
<1>3. \A i \in 1 .. Len(<<>>) : FALSE
  OBVIOUS
<1>4. \A n \in Names : BrowserVersions(n) = {NoBrowser}
  BY <1>2, <1>3 DEF BrowserVersions
<1>5. NoBrowser.uid = 0
  BY DEF NoBrowser, NewBrowser
<1>6. ASSUME NEW n \in Names PROVE OneByOne(n) /\ FailureStays(n) /\ PodGuarded(n)
  BY <1>2, <1>4, <1>5, ObjectTypes DEF OneByOne, FailureStays, PodGuarded, HasPod, Exists
<1>7. PodWatchEndsInTruth /\ served \in [Names -> Nat]
  BY <1>2 DEF PodWatchEndsInTruth
<1> QED
  BY <1>1, <1>2, <1>6, <1>7 DEF LifecycleInv

(* Every step of the controller and of its cluster keeps the invariant.    *)
LEMMA LifecycleStep ==
  ASSUME Quiet, LifecycleInv, [HNext]_<<vars, served>>
  PROVE  LifecycleInv'
<1>0. DeletionInv /\ TypeOK /\ served \in [Names -> Nat]
  BY DEF LifecycleInv, DeletionInv, NothingForgottenInv
<1>1. CASE UNCHANGED <<vars, served>>
  <2>1. /\ browser' = browser /\ pod' = pod /\ bCache' = bCache /\ pCache' = pCache
        /\ bWatch' = bWatch /\ pWatch' = pWatch /\ born' = born /\ made' = made
        /\ pc' = pc /\ req' = req /\ lb' = lb /\ lp' = lp /\ served' = served
    BY <1>1 DEF vars, clusterVars, browserVars, podVars, cacheVars, passVars
  <2>2. DeletionInv'
    BY <1>0, <1>1, DeletionStep
  <2>3. PodWatchEndsInTruth' = PodWatchEndsInTruth
    BY <2>1 DEF PodWatchEndsInTruth
  <2>4. \A n \in Names : /\ OneByOne(n)' = OneByOne(n) /\ FailureStays(n)' = FailureStays(n)
                         /\ PodGuarded(n)' = PodGuarded(n)
    BY <2>1 DEF OneByOne, FailureStays, PodGuarded, HasPod, BrowserVersions, Exists
  <2>5. PassVersions' = PassVersions /\ PassStands' = PassStands
    BY <2>1 DEF PassVersions, PassStands, BrowserVersions, PodVersions, Same, HasPod, Exists
  <2> QED
    BY <2>1, <2>2, <2>3, <2>4, <2>5 DEF LifecycleInv
<1>2. CASE Next /\ Record
  <2>1. DeletionInv'
    BY <1>0, <1>2, DeletionStep
  <2>2. served' \in [Names -> Nat]
    <3>1. \A n \in Names : pod'[n].owner \in Nat
      BY <2>1 DEF DeletionInv, NothingForgottenInv, TypeOK, Pods
    <3> QED
      BY <1>0, <1>2, <3>1 DEF Record
  <2> DEFINE K == /\ PodWatchEndsInTruth'
                  /\ \A m \in Names : (OneByOne(m) /\ FailureStays(m) /\ PodGuarded(m))'
                  /\ (pc # "idle" => PassVersions /\ PassStands)'
  <2>3. ASSUME PassStep PROVE K
    <3>1. pc # "idle"
      BY <2>3, StepLabels DEF KeepsKind
    <3> QED
      BY <1>2, <2>3, <3>1, PassStepKeeps, EffectKeepsObjects DEF PassKept
  <2>4. ASSUME CrashRestart PROVE K
    <3>1. ~(crashes < MaxCrashes)
      BY <1>0 DEF Quiet, TypeOK
    <3> QED
      BY <2>4, <3>1 DEF CrashRestart
  <2>5. ASSUME NEW n \in Names, Begin(n) \/ SyncBrowser(n) \/ SyncPod(n)
        PROVE  K
    <3>1. made' = made
      BY <2>5 DEF Begin, SyncBrowser, SyncPod, clusterVars
    <3>2. served' = served
      BY <1>0, <1>2, <3>1, ServedStays
    <3>3. CASE Begin(n)
      BY <3>2, <3>3, BeginKeeps
    <3>4. CASE SyncBrowser(n) \/ SyncPod(n)
      BY <3>2, <3>4, SyncKeeps
    <3> QED
      BY <2>5, <3>3, <3>4
  <2>6. ASSUME NEW n \in Names, Environment(n)
        PROVE  K
    <3>1. EnvironmentMove(n)
      BY <1>0, <2>6, QuietMoves DEF Environment
    <3>2. served' = served
      BY <1>0, <1>2, <3>1, ServedStays DEF EnvironmentMove
    <3>3. bCache' = bCache /\ pCache' = pCache /\ UNCHANGED passVars /\ pc' = pc /\ req' = req
      BY <2>6 DEF Environment, cacheVars, passVars
    <3>4. /\ PodWatchEndsInTruth'
          /\ \A m \in Names : (OneByOne(m) /\ FailureStays(m) /\ PodGuarded(m))'
      BY <3>1, <3>2, <3>3, EnvironmentKeepsObjects
    <3>5. pc' # "idle" => PassVersions' /\ PassStands'
      BY <3>1, <3>2, <3>3, EnvironmentKeepsPass
    <3> QED
      BY <3>4, <3>5
  <2>7. K
    BY <1>2, <2>3, <2>4, <2>5, <2>6 DEF Next
  <2> QED
    BY <2>1, <2>2, <2>7 DEF LifecycleInv
<1> QED
  BY <1>1, <1>2 DEF HNext

-----------------------------------------------------------------------------
(* The refinement *)

(* What BrowserLifecycle sees of the Browser under a name stays the same.  *)
SeenAs(n) ==
  /\ browser'[n].uid = browser[n].uid /\ (HasFailed(n)' <=> HasFailed(n))
  /\ DeletionOf(n)' = DeletionOf(n) /\ ServiceOf(n)' = ServiceOf(n)

(* What can happen under one name, in the terms of the mapping.            *)
Requested(n) ==
  /\ browser[n].uid = 0 /\ browser'[n].uid = born[n] + 1
  /\ born' = [born EXCEPT ![n] = born[n] + 1]
  /\ HasFailed(n)' <=> HasFailed(n)
  /\ DeletionOf(n)' = DeletionOf(n) /\ ServiceOf(n)' = ServiceOf(n)

Provided(n) ==
  /\ browser[n].uid # 0 /\ ServiceOf(n) = "none" /\ ~HasFailed(n) /\ DeletionOf(n) # "seen"
  /\ ServiceOf(n)' = "present"
  /\ born' = born /\ browser'[n].uid = browser[n].uid
  /\ (HasFailed(n)' <=> HasFailed(n)) /\ DeletionOf(n)' = DeletionOf(n)

LostPod(n) ==
  /\ ServiceOf(n) = "present" /\ ServiceOf(n)' = "lost"
  /\ born' = born /\ browser'[n].uid = browser[n].uid
  /\ (HasFailed(n)' <=> HasFailed(n)) /\ DeletionOf(n)' = DeletionOf(n)

Failing(n) ==
  /\ browser[n].uid # 0 /\ ~HasFailed(n) /\ DeletionOf(n) # "seen" /\ HasFailed(n)'
  /\ born' = born /\ browser'[n].uid = browser[n].uid
  /\ DeletionOf(n)' = DeletionOf(n) /\ ServiceOf(n)' = ServiceOf(n)

AskedDeletion(n) ==
  /\ browser[n].uid # 0 /\ DeletionOf(n) = "none" /\ DeletionOf(n)' = "asked"
  /\ born' = born /\ browser'[n].uid = browser[n].uid
  /\ (HasFailed(n)' <=> HasFailed(n)) /\ ServiceOf(n)' = ServiceOf(n)

SawDeletion(n) ==
  /\ DeletionOf(n) = "asked" /\ DeletionOf(n)' = "seen"
  /\ born' = born /\ browser'[n].uid = browser[n].uid
  /\ (HasFailed(n)' <=> HasFailed(n)) /\ ServiceOf(n)' = ServiceOf(n)

Left(n) ==
  /\ browser[n].uid # 0 /\ browser'[n].uid = 0
  /\ HasFailed(n) \/ ServiceOf(n) # "present"
  /\ ~HasFailed(n)' /\ DeletionOf(n)' = "none" /\ ServiceOf(n)' = "none"
  /\ born' = born

Promised(n) ==
  \/ born' = born /\ SeenAs(n)
  \/ Requested(n) \/ Provided(n) \/ LostPod(n) \/ Failing(n)
  \/ AskedDeletion(n) \/ SawDeletion(n) \/ Left(n)

(* Such an event is a step of BrowserLifecycle, or none.                   *)
LEMMA PromisedStep ==
  ASSUME NEW n \in Names, born \in [Names -> Nat], Promised(n),
         \A m \in Names : m # n => SeenAs(m)
  PROVE  [L!Next]_<<born, L!state>>
<1> DEFINE H == [m \in Names |-> browser[m].uid]
           F == {m \in Names : HasFailed(m)}
           D == [m \in Names |-> DeletionOf(m)]
           S == [m \in Names |-> ServiceOf(m)]
<1>a. \A m \in Names : m # n => browser'[m].uid = browser[m].uid
  BY DEF SeenAs
<1>b. \A m \in Names : m # n => (HasFailed(m)' <=> HasFailed(m))
  BY DEF SeenAs
<1>c. \A m \in Names : m # n => DeletionOf(m)' = DeletionOf(m)
  BY DEF SeenAs
<1>d. \A m \in Names : m # n => ServiceOf(m)' = ServiceOf(m)
  BY DEF SeenAs
<1>1. /\ H' = [H EXCEPT ![n] = browser'[n].uid]
      /\ browser'[n].uid = browser[n].uid => H' = H
  BY <1>a
<1>2. /\ HasFailed(n) <=> n \in F
      /\ HasFailed(n)' => F' = F \cup {n}
      /\ ~HasFailed(n)' => F' = F \ {n}
      /\ (HasFailed(n)' <=> HasFailed(n)) => F' = F
  BY <1>b
<1>3. /\ D' = [D EXCEPT ![n] = DeletionOf(n)'] 
      /\ DeletionOf(n)' = DeletionOf(n) => D' = D
  BY <1>c
<1>e. /\ S' = [S EXCEPT ![n] = ServiceOf(n)'] 
      /\ ServiceOf(n)' = ServiceOf(n) => S' = S
  BY <1>d
<1>f. H[n] = browser[n].uid /\ D[n] = DeletionOf(n) /\ S[n] = ServiceOf(n)
  OBVIOUS
<1>4. CASE born' = born /\ SeenAs(n)
  <2>1. H' = H /\ F' = F /\ D' = D /\ S' = S
    BY <1>1, <1>2, <1>3, <1>e, <1>4 DEF SeenAs
  <2> QED
    BY <1>4, <2>1 DEF L!state
<1>5. CASE Requested(n)
  <2>1. L!Request(n)
    BY <1>1, <1>2, <1>3, <1>e, <1>f, <1>5 DEF L!Request, Requested
  <2> QED
    BY <2>1 DEF L!Next
<1>6. CASE Provided(n)
  <2>1. L!Provide(n)
    BY <1>1, <1>2, <1>3, <1>e, <1>f, <1>6 DEF L!Provide, Provided
  <2> QED
    BY <2>1 DEF L!Next
<1>7. CASE LostPod(n)
  <2>1. L!LosePod(n)
    BY <1>1, <1>2, <1>3, <1>e, <1>f, <1>7 DEF L!LosePod, LostPod
  <2> QED
    BY <2>1 DEF L!Next
<1>8. CASE Failing(n)
  <2>1. L!Fail(n)
    BY <1>1, <1>2, <1>3, <1>e, <1>f, <1>8 DEF L!Fail, Failing
  <2> QED
    BY <2>1 DEF L!Next
<1>9. CASE AskedDeletion(n)
  <2>1. L!AskDeletion(n)
    BY <1>1, <1>2, <1>3, <1>e, <1>f, <1>9 DEF L!AskDeletion, AskedDeletion
  <2> QED
    BY <2>1 DEF L!Next
<1>10. CASE SawDeletion(n)
  <2>1. L!SeeDeletion(n)
    BY <1>1, <1>2, <1>3, <1>e, <1>f, <1>10 DEF L!SeeDeletion, SawDeletion
  <2> QED
    BY <2>1 DEF L!Next
<1>11. CASE Left(n)
  <2>1. L!Leave(n)
    BY <1>1, <1>2, <1>3, <1>e, <1>f, <1>11 DEF L!Leave, Left
  <2> QED
    BY <2>1 DEF L!Next
<1> QED
  BY <1>4, <1>5, <1>6, <1>7, <1>8, <1>9, <1>10, <1>11 DEF Promised

(* The views depend on little.                                             *)
LEMMA SameSights ==
  ASSUME NEW n, browser'[n] = browser[n], HasPod(n)' <=> HasPod(n),
         served'[n] = served[n], retired'[n] = retired[n]
  PROVE  SeenAs(n)
  BY DEF SeenAs, HasFailed, DeletionOf, ServiceOf, Exists

(* A pass notes the deletion of a Browser only when it is being deleted.   *)
LEMMA RetiredIsDeleting ==
  ASSUME LifecycleInv, NEW n \in Names, Exists(browser[n]), ~browser[n].deleting
  PROVE  retired[n] # browser[n].uid
<1>1. TypeOK /\ WatchEndsInTruth /\ VersionsInOrder
  BY DEF LifecycleInv, DeletionInv, NothingForgottenInv
<1>2. NotBefore(retired[n], browser[n])
  BY <1>1, LastVersion DEF VersionsInOrder
<1>3. browser[n].uid \in Nat /\ retired[n] \in Nat
  BY <1>1 DEF TypeOK, Browsers
<1> QED
  BY <1>2, <1>3 DEF NotBefore

(* A Browser that keeps its incarnation is seen to be failed or not, and   *)
(* its deletion to be asked for or not.                                    *)
LEMMA BrowserSights ==
  ASSUME LifecycleInv, NEW n \in Names, NEW b \in Browsers, browser'[n] = b, Exists(browser[n]),
         b.uid = browser[n].uid, HasPod(n)' <=> HasPod(n), born' = born,
         served'[n] = served[n], retired'[n] = retired[n],
         \/ b.deleting = browser[n].deleting
            /\ (browser[n].phase = "Failed" => b.phase = "Failed")
            /\ (b.phase = "Failed" => browser[n].phase = "Failed" \/ retired[n] # browser[n].uid)
         \/ b.deleting /\ ~browser[n].deleting /\ b.phase = browser[n].phase
  PROVE  Promised(n)
<1>1. /\ ServiceOf(n)' = ServiceOf(n) /\ Exists(b) /\ browser[n].uid # 0
      /\ HasFailed(n) <=> browser[n].phase = "Failed"
      /\ HasFailed(n)' <=> b.phase = "Failed"
  BY DEF ServiceOf, HasFailed, Exists
<1>2. CASE /\ b.deleting = browser[n].deleting
           /\ browser[n].phase = "Failed" => b.phase = "Failed"
           /\ b.phase = "Failed" => browser[n].phase = "Failed" \/ retired[n] # browser[n].uid
  <2>1. DeletionOf(n)' = DeletionOf(n)
    BY <1>1, <1>2 DEF DeletionOf
  <2>2. CASE b.phase = "Failed" /\ browser[n].phase # "Failed"
    <3>1. DeletionOf(n) # "seen"
      BY <1>1, <1>2, <2>2 DEF DeletionOf
    <3> QED
      BY <1>1, <2>1, <2>2, <3>1 DEF Promised, Failing
  <2>3. CASE ~(b.phase = "Failed" /\ browser[n].phase # "Failed")
    BY <1>1, <1>2, <2>1, <2>3 DEF Promised, SeenAs
  <2> QED
    BY <2>2, <2>3
<1>3. CASE b.deleting /\ ~browser[n].deleting /\ b.phase = browser[n].phase
  <2>1. DeletionOf(n) = "none" /\ DeletionOf(n)' = "asked"
    BY <1>1, <1>3, RetiredIsDeleting DEF DeletionOf
  <2> QED
    BY <1>1, <1>3, <2>1 DEF Promised, AskedDeletion
<1> QED
  BY <1>2, <1>3

(* A Browser that goes has failed or has no pod.                           *)
LEMMA BrowserGone ==
  ASSUME LifecycleInv, NEW n \in Names, ~Exists(browser'[n]), born' = born,
         Exists(browser[n]) => browser[n].phase = "Failed" \/ ~HasPod(n)
  PROVE  Promised(n)
<1>1. /\ browser'[n].uid = 0 /\ ~HasFailed(n)' /\ DeletionOf(n)' = "none"
      /\ ServiceOf(n)' = "none"
  BY DEF HasFailed, DeletionOf, ServiceOf, Exists
<1>2. CASE Exists(browser[n])
  <2>1. HasFailed(n) \/ ServiceOf(n) # "present"
    BY <1>2 DEF HasFailed, ServiceOf
  <2> QED
    BY <1>1, <1>2, <2>1 DEF Promised, Left, Exists
<1>3. CASE ~Exists(browser[n])
  <2>1. /\ browser[n].uid = 0 /\ ~HasFailed(n) /\ DeletionOf(n) = "none"
        /\ ServiceOf(n) = "none"
    BY <1>3 DEF HasFailed, DeletionOf, ServiceOf, Exists
  <2> QED
    BY <1>1, <2>1 DEF Promised, SeenAs
<1> QED
  BY <1>2, <1>3

(* A Pod that changes may be lost.                                         *)
LEMMA PodSights ==
  ASSUME LifecycleInv, NEW n \in Names, browser'[n] = browser[n], born' = born,
         served'[n] = served[n], retired'[n] = retired[n], HasPod(n)' => HasPod(n)
  PROVE  Promised(n)
<1>1. CASE HasPod(n) => HasPod(n)'
  BY <1>1, SameSights DEF Promised
<1>2. CASE HasPod(n) /\ ~HasPod(n)'
  <2>1. served[n] = browser[n].uid /\ Exists(browser[n])
    BY <1>2 DEF LifecycleInv, OneByOne, HasPod
  <2>2. ServiceOf(n) = "present" /\ ServiceOf(n)' = "lost"
    BY <1>2, <2>1 DEF ServiceOf, Exists
  <2>3. HasFailed(n)' <=> HasFailed(n)
    BY DEF HasFailed, Exists
  <2>4. DeletionOf(n)' = DeletionOf(n)
    BY DEF DeletionOf, Exists
  <2> QED
    BY <2>2, <2>3, <2>4 DEF Promised, LostPod
<1> QED
  BY <1>1, <1>2

(* The surroundings keep the promises,                                     *)
LEMMA EnvironmentPromised ==
  ASSUME LifecycleInv, NEW n \in Names, EnvironmentMove(n), served' = served,
         bCache' = bCache, pCache' = pCache, pc' = pc, req' = req, retired' = retired
  PROVE  Promised(n) /\ \A m \in Names : m # n => SeenAs(m)
<1>0. /\ TypeOK /\ born \in [Names -> Nat] /\ born[n] \in Nat
      /\ browser[n] \in Browsers /\ pod[n] \in Pods /\ served[n] \in Nat
      /\ OneByOne(n) /\ PodGuarded(n)
  BY DEF LifecycleInv, DeletionInv, NothingForgottenInv, TypeOK
<1>1. PICK b \in Browsers, p \in Pods :
        /\ StoreBrowser(n, b) /\ StorePod(n, p) /\ made' = made
        /\ BrowserMoves(n, browser[n], b) /\ PodMoves(browser[n], pod[n], p)
        /\ p = pod[n] \/ (b = browser[n] /\ born' = born)
  BY DEF EnvironmentMove
<1>2. browser'[n] = b /\ \A m \in Names : m # n => browser'[m] = browser[m]
  BY <1>0, <1>1, BrowserWritten
<1>3. pod'[n] = p /\ \A m \in Names : m # n => pod'[m] = pod[m]
  BY <1>0, <1>1, PodWritten
<1>4. HasPod(n)' => HasPod(n) /\ Stays(browser[n], browser'[n])
  BY EnvironmentKeepsObjects
<1>5. ASSUME NEW m \in Names, m # n PROVE SeenAs(m)
  BY <1>2, <1>3, <1>5, SameSights DEF HasPod
<1>6. CASE b = browser[n] /\ born' = born
  BY <1>2, <1>4, <1>5, <1>6, PodSights
<1>7. CASE p = pod[n] /\ born' = [born EXCEPT ![n] = born[n] + 1]
           /\ b = NewBrowser(born[n] + 1) /\ ~Exists(browser[n])
  <2>1. b.uid = born[n] + 1 /\ b.phase = "" /\ b.deleting = FALSE /\ browser[n].uid = 0
    BY <1>7 DEF NewBrowser, Exists
  <2>2. served[n] # born[n] + 1 /\ born[n] + 1 # 0
    BY <1>0 DEF OneByOne
  <2>3. ~HasPod(n) /\ ~HasPod(n)'
    BY <1>4, <1>7 DEF HasPod
  <2>4. ~HasFailed(n) /\ DeletionOf(n) = "none" /\ ServiceOf(n) = "none"
    BY <1>7 DEF HasFailed, DeletionOf, ServiceOf
  <2>5. ~HasFailed(n)' /\ DeletionOf(n)' = "none" /\ ServiceOf(n)' = "none"
    BY <1>2, <2>1, <2>2, <2>3 DEF HasFailed, DeletionOf, ServiceOf
  <2> QED
    BY <1>2, <1>5, <1>7, <2>1, <2>4, <2>5 DEF Promised, Requested
<1>8. CASE p = pod[n] /\ born' = born /\ Stays(browser[n], b)
  <2>1. CASE Exists(browser[n])
    <3>1. HasPod(n)' <=> HasPod(n)
      BY <1>2, <1>3, <1>8 DEF HasPod, Stays, Exists
    <3>2. browser[n].deleting \in BOOLEAN /\ b.deleting \in BOOLEAN
      BY <1>0 DEF Browsers
    <3> QED
      BY <1>2, <1>5, <1>8, <2>1, <3>1, <3>2, BrowserSights DEF Stays
  <2>2. CASE ~Exists(browser[n])
    BY <1>2, <1>5, <1>8, <2>2, BrowserGone DEF Stays, Exists
  <2> QED
    BY <2>1, <2>2
<1>9. CASE p = pod[n] /\ born' = born /\ b = NoBrowser /\ Own \notin browser[n].fins
  <2>1. browser[n].phase = "Failed" \/ ~HasPod(n)
    BY <1>0, <1>9 DEF PodGuarded
  <2> QED
    BY <1>2, <1>5, <1>9, <2>1, BrowserGone, ObjectTypes
<1> QED
  BY <1>1, <1>5, <1>6, <1>7, <1>8, <1>9 DEF BrowserMoves

(* and so do the steps of a pass.                                          *)
LEMMA EffectPromised ==
  ASSUME LifecycleInv, pc # "idle", PassEffect
  PROVE  \E n \in Names : Promised(n) /\ \A m \in Names : m # n => SeenAs(m)
<1> PICK n \in Names : n = req
  BY DEF LifecycleInv, DeletionInv, NothingForgottenInv, TypeOK
<1>0. /\ TypeOK /\ OneByOne(n) /\ PassVersions /\ PassStands
      /\ browser[n] \in Browsers /\ pod[n] \in Pods /\ served \in [Names -> Nat]
      /\ browser[n] \in BrowserVersions(n) /\ retired' = retired
      /\ pc \in Serving /\ Exists(browser[n]) => browser[n].uid # retired[n]
      /\ Exists(browser[n]) /\ served[n] = browser[n].uid => Same
      /\ lb.uid \in Nat /\ lb.uid # 0
  BY PassFacts DEF LifecycleInv, PassEffect, Exists, Browsers
<1>u. bCache' = bCache /\ pCache' = pCache /\ born' = born /\ made[n] \in Nat
  BY <1>0 DEF PassEffect, Undisturbed, cacheVars, TypeOK
<1>1. ASSUME NEW m \in Names, browser'[m] = browser[m], pod'[m] = pod[m],
             served'[m] = served[m]
      PROVE  SeenAs(m)
  BY <1>0, <1>1, SameSights DEF HasPod
<1>2. CASE /\ served' = served /\ made' = made /\ UNCHANGED podVars
           /\ \E b \in Browsers : StoreBrowser(req, b) /\ Changes(browser[req], b)
  <2>1. PICK b \in Browsers : StoreBrowser(n, b) /\ Changes(browser[n], b)
    BY <1>2
  <2>2. /\ browser'[n] = b /\ pod' = pod
        /\ \A m \in Names : m # n => browser'[m] = browser[m]
    BY <1>0, <1>2, <1>u, <2>1, BrowserWritten DEF podVars
  <2>3. \A m \in Names : m # n => SeenAs(m)
    BY <1>1, <1>2, <2>2
  <2>4. CASE ~Exists(b)
    <3>1. Exists(browser[n]) => browser[n].phase = "Failed" \/ ~HasPod(n)
      BY <2>1, <2>4 DEF Changes
    <3> QED
      BY <1>u, <2>2, <2>3, <2>4, <3>1, BrowserGone
  <2>5. CASE Exists(b)
    <3>1. b.uid = browser[n].uid /\ Exists(browser[n])
      BY <2>1, <2>5 DEF Changes, Exists
    <3>2. HasPod(n)' <=> HasPod(n)
      BY <2>2, <2>5, <3>1 DEF HasPod
    <3>3. pc \in Serving => retired[n] # browser[n].uid
      BY <1>0, <3>1
    <3>4. \/ b.deleting = browser[n].deleting
             /\ (browser[n].phase = "Failed" => b.phase = "Failed")
             /\ (b.phase = "Failed" => browser[n].phase = "Failed" \/ retired[n] # browser[n].uid)
          \/ b.deleting /\ ~browser[n].deleting /\ b.phase = browser[n].phase
      BY <2>1, <2>5, <3>3 DEF Changes
    <3> QED
      BY <1>0, <1>2, <1>u, <2>2, <2>3, <3>1, <3>2, <3>4, BrowserSights
  <2> QED
    BY <2>4, <2>5
<1>3. CASE /\ served' = served /\ made' = made /\ UNCHANGED browserVars
           /\ \E p \in Pods :
                /\ StorePod(req, p)
                /\ Exists(p) => Exists(pod[req]) /\ p.owner = pod[req].owner /\ pc \notin Serving
  <2>1. PICK p \in Pods : /\ StorePod(n, p)
                          /\ Exists(p) => Exists(pod[n]) /\ p.owner = pod[n].owner
    BY <1>3
  <2>2. /\ pod'[n] = p /\ browser' = browser
        /\ \A m \in Names : m # n => pod'[m] = pod[m]
    BY <1>0, <1>3, <1>u, <2>1, PodWritten DEF browserVars
  <2>3. \A m \in Names : m # n => SeenAs(m)
    BY <1>1, <1>3, <2>2
  <2>4. HasPod(n)' => HasPod(n)
    BY <2>1, <2>2 DEF HasPod
  <2> QED
    BY <1>0, <1>3, <1>u, <2>2, <2>3, <2>4, PodSights
<1>4. CASE /\ UNCHANGED browserVars /\ MakePod /\ pc = "createPod" /\ ~Exists(pod[req])
           /\ served' = [served EXCEPT ![req] = lb.uid]
  <2> DEFINE p == NewPod(made[n] + 1, lb.uid)
  <2>1. p \in Pods /\ p.owner = lb.uid /\ Exists(p)
    <3>1. made[n] + 1 \in Nat /\ made[n] + 1 # 0
      BY <1>u
    <3> QED
      BY <1>0, <3>1, ObjectTypes DEF NewPod, Exists
  <2>2. StorePod(n, p)
    BY <1>4 DEF MakePod
  <2> HIDE DEF p
  <2>3. /\ pod'[n] = p /\ browser' = browser /\ served'[n] = lb.uid
        /\ \A m \in Names : m # n => pod'[m] = pod[m] /\ served'[m] = served[m]
    BY <1>0, <1>4, <1>u, <2>1, <2>2, PodWritten DEF browserVars
  <2>4. \A m \in Names : m # n => SeenAs(m)
    BY <1>1, <2>3
  <2>5. ~HasPod(n) /\ served[n] # lb.uid
    BY <1>0, <1>4 DEF HasPod, PassStands, Guarding
  <2>6. /\ browser'[n] = browser[n] /\ (HasFailed(n)' <=> HasFailed(n))
        /\ DeletionOf(n)' = DeletionOf(n)
    BY <1>0, <2>3 DEF HasFailed, DeletionOf, Exists
  <2>7. CASE Same
    <3>1. Exists(browser[n]) /\ browser[n].uid = lb.uid
      BY <2>7 DEF Same
    <3>2. ServiceOf(n) = "none" /\ ServiceOf(n)' = "present"
      BY <2>1, <2>3, <2>5, <3>1 DEF ServiceOf, HasPod
    <3>3. pc \in Serving
      BY <1>4 DEF Serving, Labels, Leaving
    <3>4. ~HasFailed(n)
      BY <1>0, <1>4, <3>3 DEF HasFailed, PassVersions
    <3>5. DeletionOf(n) # "seen"
      BY <1>0, <3>1, <3>3 DEF DeletionOf
    <3>6. Provided(n)
      BY <1>u, <2>6, <3>1, <3>2, <3>4, <3>5 DEF Provided, Exists
    <3> QED
      BY <2>4, <3>6 DEF Promised
  <2>8. CASE ~Same
    <3>1. ServiceOf(n) = "none" /\ ServiceOf(n)' = "none"
      BY <1>0, <2>1, <2>3, <2>5, <2>8 DEF ServiceOf, HasPod, Same
    <3>2. SeenAs(n)
      BY <2>6, <3>1 DEF SeenAs
    <3> QED
      BY <1>u, <2>4, <3>2 DEF Promised
  <2> QED
    BY <2>7, <2>8
<1> QED
  BY <1>2, <1>3, <1>4 DEF PassEffect

(* A pass that begins may see a deletion.                                  *)
LEMMA BeginPromised ==
  ASSUME LifecycleInv, Quiet, NEW n \in Names, Begin(n), served' = served
  PROVE  Promised(n) /\ \A m \in Names : m # n => SeenAs(m)
<1>0. /\ TypeOK /\ WatchEndsInTruth /\ retired \in [Names -> Nat] /\ browser[n] \in Browsers
  BY DEF LifecycleInv, DeletionInv, NothingForgottenInv, TypeOK
<1>1. /\ browser' = browser /\ pod' = pod /\ born' = born /\ bCache[n] = browser[n]
      /\ retired' = [retired EXCEPT ![n] = IF bCache[n].deleting THEN bCache[n].uid ELSE retired[n]]
  BY <1>0 DEF Begin, Quiet, clusterVars, browserVars, podVars, WatchEndsInTruth
<1>2. /\ retired'[n] = IF browser[n].deleting THEN browser[n].uid ELSE retired[n]
      /\ \A m \in Names : m # n => retired'[m] = retired[m]
  BY <1>0, <1>1
<1>3. \A m \in Names : m # n => SeenAs(m)
  BY <1>1, <1>2, SameSights DEF HasPod
<1>4. /\ (HasFailed(n)' <=> HasFailed(n)) /\ ServiceOf(n)' = ServiceOf(n)
      /\ browser'[n].uid = browser[n].uid
  BY <1>1 DEF HasFailed, ServiceOf, HasPod
<1>5. CASE DeletionOf(n) = "asked"
  <2>1. DeletionOf(n)' = "seen"
    BY <1>1, <1>2, <1>5 DEF DeletionOf
  <2> QED
    BY <1>1, <1>3, <1>4, <1>5, <2>1 DEF Promised, SawDeletion
<1>6. CASE DeletionOf(n) # "asked"
  <2>1. DeletionOf(n)' = DeletionOf(n)
    BY <1>1, <1>2, <1>6 DEF DeletionOf
  <2> QED
    BY <1>1, <1>3, <1>4, <2>1 DEF Promised, SeenAs
<1> QED
  BY <1>5, <1>6

(* Every step keeps the promises.                                          *)
LEMMA StepPromised ==
  ASSUME Quiet, LifecycleInv, [HNext]_<<vars, served>>
  PROVE  \E n \in Names : Promised(n) /\ \A m \in Names : m # n => SeenAs(m)
<1>0. TypeOK /\ served \in [Names -> Nat]
  BY DEF LifecycleInv, DeletionInv, NothingForgottenInv
<1>1. ASSUME browser' = browser, pod' = pod, born' = born, served' = served, retired' = retired
      PROVE  \E n \in Names : Promised(n) /\ \A m \in Names : m # n => SeenAs(m)
  <2>1. \A n \in Names : SeenAs(n)
    BY <1>1, SameSights DEF HasPod
  <2>2. req \in Names
    BY <1>0 DEF TypeOK
  <2> QED
    BY <1>1, <2>1, <2>2 DEF Promised
<1>2. CASE UNCHANGED <<vars, served>>
  BY <1>1, <1>2 DEF vars, clusterVars, browserVars, podVars
<1>3. CASE Next /\ Record
  <2>1. CASE PassStep
    <3>1. pc # "idle"
      BY <2>1, StepLabels DEF KeepsKind
    <3>2. PassEffect
      BY <1>3, <2>1, PassStepKeeps DEF PassKept
    <3> QED
      BY <3>1, <3>2, EffectPromised
  <2>2. CASE CrashRestart
    <3>1. ~(crashes < MaxCrashes)
      BY <1>0 DEF Quiet, TypeOK
    <3> QED
      BY <2>2, <3>1 DEF CrashRestart
  <2>3. ASSUME NEW n \in Names, Begin(n)
        PROVE  Promised(n) /\ \A m \in Names : m # n => SeenAs(m)
    <3>1. made' = made
      BY <2>3 DEF Begin, clusterVars
    <3>2. served' = served
      BY <1>0, <1>3, <3>1, ServedStays
    <3> QED
      BY <2>3, <3>2, BeginPromised
  <2>4. CASE \E n \in Names : SyncBrowser(n) \/ SyncPod(n)
    <3>1. /\ browser' = browser /\ pod' = pod /\ born' = born /\ made' = made
          /\ retired' = retired
      BY <2>4 DEF SyncBrowser, SyncPod, browserVars, podVars
    <3>2. served' = served
      BY <1>0, <1>3, <3>1, ServedStays
    <3> QED
      BY <1>1, <3>1, <3>2
  <2>5. ASSUME NEW n \in Names, Environment(n)
        PROVE  Promised(n) /\ \A m \in Names : m # n => SeenAs(m)
    <3>1. EnvironmentMove(n)
      BY <1>0, <2>5, QuietMoves DEF Environment
    <3>2. served' = served
      BY <1>0, <1>3, <3>1, ServedStays DEF EnvironmentMove
    <3>3. bCache' = bCache /\ pCache' = pCache /\ pc' = pc /\ req' = req /\ retired' = retired
      BY <2>5 DEF Environment, cacheVars, passVars
    <3> QED
      BY <2>5, <3>1, <3>2, <3>3, EnvironmentPromised
  <2> QED
    BY <1>3, <2>1, <2>2, <2>3, <2>4, <2>5 DEF Next
<1> QED
  BY <1>2, <1>3 DEF HNext

(* Every step is one of BrowserLifecycle for one name, or stutters.        *)
LEMMA Implements ==
  ASSUME Quiet, LifecycleInv, [HNext]_<<vars, served>>
  PROVE  [L!Next]_<<born, L!state>>
<1>1. born \in [Names -> Nat]
  BY DEF LifecycleInv, DeletionInv, NothingForgottenInv, TypeOK
<1>2. PICK n \in Names : Promised(n) /\ \A m \in Names : m # n => SeenAs(m)
  BY StepPromised
<1> QED
  BY <1>1, <1>2, PromisedStep

-----------------------------------------------------------------------------
(* The theorem *)

(* The initial states are those of BrowserLifecycle.                       *)
LEMMA ImplementsInit == HInit => L!Init
<1> SUFFICES ASSUME HInit PROVE L!Init
  OBVIOUS
<1>1. \A n \in Names : browser[n] = NoBrowser /\ born = [m \in Names |-> 0]
  BY DEF HInit, Init, ClusterInit
<1>2. NoBrowser.uid = 0
  BY DEF NoBrowser, NewBrowser
<1>3. \A n \in Names : /\ browser[n].uid = 0 /\ ~HasFailed(n) /\ DeletionOf(n) = "none"
                       /\ ServiceOf(n) = "none"
  BY <1>1, <1>2, ObjectTypes DEF HasFailed, DeletionOf, ServiceOf
<1>4. born = [n \in Names |-> 0]
  BY DEF HInit, Init, ClusterInit
<1> QED
  BY <1>3, <1>4 DEF L!Init

(* The controller and its cluster implement BrowserLifecycle               *)
(* (browser_reconciler.go:75-327), whatever the names, the containers, the *)
(* finalizers and the bounds, when every pass begins with caches that have *)
(* caught up and no call fails, no manager restarts and no pod is lost.    *)
THEOREM Implementation ==
  ASSUME Quiet
  PROVE  HSpec => KeepsItsPromise
<1>1. LifecycleInv /\ [HNext]_<<vars, served>> => LifecycleInv'
  BY LifecycleStep
<1>2. LifecycleInv /\ [HNext]_<<vars, served>> => [L!Next]_<<born, L!state>>
  BY Implements
<1> QED
  BY <1>1, <1>2, LifecycleInit, ImplementsInit, PTL DEF HSpec, KeepsItsPromise, L!Spec

=============================================================================
