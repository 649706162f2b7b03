----------------------------- MODULE FreshProofs -----------------------------
(***************************************************************************)
(* What the Browser controller keeps, for every value of the other         *)
(* constants, when every pass begins with caches that have caught up       *)
(* (Fresh), whichever calls fail, whenever the manager restarts and        *)
(* whatever pods are taken away: a failure is final (FailureInv), no pod   *)
(* is made too many (AccountInv), and while no call fails the finalizer    *)
(* goes after the pod (GoneInv).  The invariants are those of              *)
(* BrowserProperties.                                                      *)
(***************************************************************************)
EXTENDS BrowserProofs

USE ClusterAssumption, ReconcilerAssumption

-----------------------------------------------------------------------------
(* The versions under way *)

(* Whatever an informer holds of a Browser or has still to get is a        *)
(* Browser.                                                                *)
LEMMA VersionTypes ==
  ASSUME TypeOK, NEW n \in Names, NEW v \in BrowserVersions(n)
  PROVE  v \in Browsers
<1>1. browser[n] \in Browsers /\ bCache[n] \in Browsers /\ bWatch[n] \in Seq(Browsers)
  BY DEF TypeOK
<1>2. \A i \in 1 .. Len(bWatch[n]) : bWatch[n][i] \in Browsers
  BY <1>1
<1> QED
  BY <1>1, <1>2 DEF BrowserVersions

(* After a write of the Browser the versions under way are the earlier     *)
(* ones and the new one.                                                   *)
LEMMA BrowserWritten ==
  ASSUME TypeOK, NEW n \in Names, NEW b \in Browsers, StoreBrowser(n, b), bCache' = bCache
  PROVE  /\ browser'[n] = b /\ BrowserVersions(n)' \subseteq BrowserVersions(n) \cup {b}
         /\ \A m \in Names : m # n =>
              browser'[m] = browser[m] /\ BrowserVersions(m)' = BrowserVersions(m)
<1> DEFINE G == Logged(bWatch[n], browser[n], b)
<1>1. /\ bWatch \in [Names -> Seq(Browsers)] /\ bWatch[n] \in Seq(Browsers)
      /\ browser \in [Names -> Browsers]
  BY DEF TypeOK
<1>2. browser' = [browser EXCEPT ![n] = b] /\ bWatch' = [bWatch EXCEPT ![n] = G]
  BY DEF StoreBrowser
<1>3. /\ G \in Seq(Browsers)
      /\ b = browser[n] => G = bWatch[n]
      /\ b # browser[n] => /\ Len(G) \in Nat \ {0} /\ G[Len(G)] = b
                           /\ \A i \in 1 .. Len(G) - 1 :
                                i \in 1 .. Len(bWatch[n]) /\ G[i] = bWatch[n][i]
  BY <1>1, LoggedFacts
<1> HIDE DEF G
<1>4. browser'[n] = b /\ bWatch'[n] = G /\ bCache'[n] = bCache[n]
  BY <1>1, <1>2
<1>5. ASSUME NEW i \in 1 .. Len(G) PROVE G[i] \in BrowserVersions(n) \cup {b}
  <2>1. CASE b = browser[n]
    BY <1>3, <2>1 DEF BrowserVersions
  <2>2. CASE b # browser[n] /\ i = Len(G)
    BY <1>3, <2>2
  <2>3. CASE b # browser[n] /\ i # Len(G)
    <3>1. i \in 1 .. Len(G) - 1
      BY <1>3, <2>3
    <3> QED
      BY <1>3, <2>3, <3>1 DEF BrowserVersions
  <2> QED
    BY <2>1, <2>2, <2>3
<1>6. BrowserVersions(n)' \subseteq BrowserVersions(n) \cup {b}
  BY <1>4, <1>5 DEF BrowserVersions
<1>7. \A m \in Names : m # n =>
        browser'[m] = browser[m] /\ bWatch'[m] = bWatch[m] /\ bCache'[m] = bCache[m]
  BY <1>1, <1>2
<1> QED
  BY <1>4, <1>6, <1>7 DEF BrowserVersions

(* The same for a write of the Pod, after which a watch ends in the truth. *)
LEMMA PodWritten ==
  ASSUME TypeOK, NEW n \in Names, NEW p \in Pods, StorePod(n, p), pCache' = pCache
  PROVE  /\ pod'[n] = p /\ PodVersions(n)' \subseteq PodVersions(n) \cup {p}
         /\ \A m \in Names : m # n => pod'[m] = pod[m] /\ PodVersions(m)' = PodVersions(m)
         /\ PodWatchEndsInTruth => PodWatchEndsInTruth'
<1> DEFINE G == Logged(pWatch[n], pod[n], p)
<1>1. /\ pWatch \in [Names -> Seq(Pods)] /\ pWatch[n] \in Seq(Pods) /\ pod \in [Names -> Pods]
  BY DEF TypeOK
<1>2. pod' = [pod EXCEPT ![n] = p] /\ pWatch' = [pWatch EXCEPT ![n] = G]
  BY DEF StorePod
<1>3. /\ G \in Seq(Pods)
      /\ p = pod[n] => G = pWatch[n]
      /\ p # pod[n] => /\ G # <<>> /\ Len(G) \in Nat \ {0} /\ G[Len(G)] = p
                       /\ \A i \in 1 .. Len(G) - 1 :
                            i \in 1 .. Len(pWatch[n]) /\ G[i] = pWatch[n][i]
  BY <1>1, LoggedFacts
<1> HIDE DEF G
<1>4. pod'[n] = p /\ pWatch'[n] = G /\ pCache'[n] = pCache[n]
  BY <1>1, <1>2
<1>5. ASSUME NEW i \in 1 .. Len(G) PROVE G[i] \in PodVersions(n) \cup {p}
  <2>1. CASE p = pod[n]
    BY <1>3, <2>1 DEF PodVersions
  <2>2. CASE p # pod[n] /\ i = Len(G)
    BY <1>3, <2>2
  <2>3. CASE p # pod[n] /\ i # Len(G)
    <3>1. i \in 1 .. Len(G) - 1
      BY <1>3, <2>3
    <3> QED
      BY <1>3, <2>3, <3>1 DEF PodVersions
  <2> QED
    BY <2>1, <2>2, <2>3
<1>6. PodVersions(n)' \subseteq PodVersions(n) \cup {p}
  BY <1>4, <1>5 DEF PodVersions
<1>7. \A m \in Names : m # n =>
        pod'[m] = pod[m] /\ pWatch'[m] = pWatch[m] /\ pCache'[m] = pCache[m]
  BY <1>1, <1>2
<1>8. ASSUME PodWatchEndsInTruth, NEW m \in Names
      PROVE  IF pWatch'[m] = <<>> THEN pCache'[m] = pod'[m]
                                  ELSE pWatch'[m][Len(pWatch'[m])] = pod'[m]
  <2>1. CASE m # n
    BY <1>7, <1>8, <2>1 DEF PodWatchEndsInTruth
  <2>2. CASE m = n /\ p = pod[n]
    BY <1>3, <1>4, <1>8, <2>2 DEF PodWatchEndsInTruth
  <2>3. CASE m = n /\ p # pod[n]
    BY <1>3, <1>4, <2>3
  <2> QED
    BY <2>1, <2>2, <2>3
<1> QED
  BY <1>4, <1>6, <1>7, <1>8 DEF PodVersions, PodWatchEndsInTruth

(* The delivery of a version adds none, and an informer without news of a  *)
(* Pod knows it as it is.                                                  *)
LEMMA VersionsDelivered ==
  ASSUME TypeOK, NEW n \in Names
  PROVE  /\ SyncBrowser(n) =>
              \A m \in Names : BrowserVersions(m)' \subseteq BrowserVersions(m)
         /\ SyncPod(n) =>
              /\ \A m \in Names : PodVersions(m)' \subseteq PodVersions(m)
              /\ PodWatchEndsInTruth => PodWatchEndsInTruth'
<1>1. ASSUME SyncBrowser(n), NEW m \in Names
      PROVE  BrowserVersions(m)' \subseteq BrowserVersions(m)
  <2>1. /\ bWatch \in [Names -> Seq(Browsers)] /\ bCache \in [Names -> Browsers]
        /\ bWatch[n] \in Seq(Browsers) /\ bWatch[n] # <<>> /\ browser' = browser
        /\ bCache' = [bCache EXCEPT ![n] = Head(bWatch[n])]
        /\ bWatch' = [bWatch EXCEPT ![n] = Tail(bWatch[n])]
    BY <1>1 DEF TypeOK, SyncBrowser
  <2>2. CASE m # n
    <3>1. bWatch'[m] = bWatch[m] /\ bCache'[m] = bCache[m]
      BY <2>1, <2>2
    <3> QED
      BY <2>1, <3>1 DEF BrowserVersions
  <2>3. CASE m = n
    <3>1. bCache'[n] = Head(bWatch[n]) /\ bWatch'[n] = Tail(bWatch[n])
      BY <2>1
    <3>2. Head(bWatch[n]) = bWatch[n][1] /\ 1 \in 1 .. Len(bWatch[n])
      BY <2>1
    <3>3. ASSUME NEW i \in 1 .. Len(Tail(bWatch[n]))
          PROVE  i + 1 \in 1 .. Len(bWatch[n]) /\ Tail(bWatch[n])[i] = bWatch[n][i + 1]
      BY <2>1
    <3> QED
      BY <2>1, <2>3, <3>1, <3>2, <3>3 DEF BrowserVersions
  <2> QED
    BY <2>2, <2>3
<1>2. ASSUME SyncPod(n), NEW m \in Names
      PROVE  /\ PodVersions(m)' \subseteq PodVersions(m)
             /\ PodWatchEndsInTruth =>
                  IF pWatch'[m] = <<>> THEN pCache'[m] = pod'[m]
                                       ELSE pWatch'[m][Len(pWatch'[m])] = pod'[m]
  <2>1. /\ pWatch \in [Names -> Seq(Pods)] /\ pCache \in [Names -> Pods]
        /\ pWatch[n] \in Seq(Pods) /\ pWatch[n] # <<>> /\ pod' = pod
        /\ pCache' = [pCache EXCEPT ![n] = Head(pWatch[n])]
        /\ pWatch' = [pWatch EXCEPT ![n] = Tail(pWatch[n])]
    BY <1>2 DEF TypeOK, SyncPod
  <2>2. CASE m # n
    <3>1. pWatch'[m] = pWatch[m] /\ pCache'[m] = pCache[m]
      BY <2>1, <2>2
    <3> QED
      BY <2>1, <3>1 DEF PodVersions, PodWatchEndsInTruth
  <2>3. CASE m = n
    <3>1. pCache'[n] = Head(pWatch[n]) /\ pWatch'[n] = Tail(pWatch[n])
      BY <2>1
    <3>2. /\ Head(pWatch[n]) = pWatch[n][1] /\ 1 \in 1 .. Len(pWatch[n])
          /\ Len(Tail(pWatch[n])) = Len(pWatch[n]) - 1 /\ Len(pWatch[n]) \in Nat \ {0}
      BY <2>1
    <3>3. ASSUME NEW i \in 1 .. Len(Tail(pWatch[n]))
          PROVE  i + 1 \in 1 .. Len(pWatch[n]) /\ Tail(pWatch[n])[i] = pWatch[n][i + 1]
      BY <2>1
    <3>4. PodVersions(m)' \subseteq PodVersions(m)
      BY <2>1, <2>3, <3>1, <3>2, <3>3 DEF PodVersions
    <3>5. ASSUME PodWatchEndsInTruth
          PROVE  IF pWatch'[n] = <<>> THEN pCache'[n] = pod'[n]
                                      ELSE pWatch'[n][Len(pWatch'[n])] = pod'[n]
      <4>1. pWatch[n][Len(pWatch[n])] = pod[n]
        BY <2>1, <3>5 DEF PodWatchEndsInTruth
      <4>2. CASE Tail(pWatch[n]) = <<>>
        <5>1. Len(<<>>) = 0
          OBVIOUS
        <5>2. Len(Tail(pWatch[n])) = 0
          BY <4>2, <5>1, Zenon
        <5>3. Len(pWatch[n]) = 1
          BY <3>2, <5>2
        <5> QED
          BY <2>1, <3>1, <3>2, <4>1, <4>2, <5>3
      <4>3. CASE Tail(pWatch[n]) # <<>>
        <5>1. Len(Tail(pWatch[n])) \in 1 .. Len(Tail(pWatch[n]))
          BY <2>1, <4>3
        <5>2. Tail(pWatch[n])[Len(Tail(pWatch[n]))] = pWatch[n][Len(pWatch[n])]
          BY <3>2, <3>3, <5>1
        <5> QED
          BY <2>1, <3>1, <4>1, <4>3, <5>2
      <4> QED
        BY <4>2, <4>3
    <3> QED
      BY <2>3, <3>4, <3>5
  <2> QED
    BY <2>2, <2>3
<1> QED
  BY <1>1, <1>2 DEF PodWatchEndsInTruth

-----------------------------------------------------------------------------
(* The steps of the surroundings *)

(* The Browser stays what it is, but for marks and foreign finalizers.     *)
Stays(s, b) ==
  /\ b.uid = s.uid /\ b.phase = s.phase /\ (Own \in b.fins <=> Own \in s.fins)
  /\ s.deleting => b.deleting

(* What the surroundings of n do to the Browser s and the Pod q there.     *)
BrowserMoves(n, s, b) ==
  \/ born' = [born EXCEPT ![n] = @ + 1] /\ b = NewBrowser(born[n] + 1) /\ ~Exists(s)
  \/ born' = born /\ Stays(s, b)
  \/ born' = born /\ b = NoBrowser /\ Own \notin s.fins

PodMoves(s, q, p) ==
  \/ p.uid = q.uid /\ p.owner = q.owner /\ p.deleting = q.deleting
  \/ ~Exists(p) /\ q.deleting
  \/ /\ Exists(q) /\ q.owner # s.uid
     /\ ~Exists(p) \/ (p.uid = q.uid /\ p.owner = q.owner)

EnvironmentMove(n) ==
  /\ made' = made
  /\ \E b \in Browsers, p \in Pods :
       /\ StoreBrowser(n, b) /\ StorePod(n, p)
       /\ BrowserMoves(n, browser[n], b) /\ PodMoves(browser[n], pod[n], p)
       /\ p = pod[n] \/ (b = browser[n] /\ born' = born)

(* A pod is evicted, or deleted from outside.                              *)
PodLost(n) ==
  /\ losses[n] < MaxLosses /\ losses' = [losses EXCEPT ![n] = @ + 1]
  /\ UNCHANGED <<browserVars, born, made>>
  /\ \E p \in Pods :
       StorePod(n, p) /\ (Exists(p) => Exists(pod[n]) /\ p.owner = pod[n].owner)

(* Every step of the surroundings is one or the other.                     *)
LEMMA EnvironmentMoves ==
  ASSUME TypeOK, NEW n \in Names, ClusterNext(n)
  PROVE  (EnvironmentMove(n) /\ losses' = losses) \/ PodLost(n)
<1>0. /\ browser[n] \in Browsers /\ pod[n] \in Pods /\ losses[n] \in Nat
      /\ Own \notin ForeignFinalizers /\ born[n] \in Nat
  BY DEF TypeOK
<1>b. UNCHANGED browserVars => StoreBrowser(n, browser[n])
  BY DEF StoreBrowser, Logged, browserVars, TypeOK
<1>p. UNCHANGED podVars => StorePod(n, pod[n])
  BY DEF StorePod, Logged, podVars, TypeOK
<1>s. Stays(browser[n], browser[n]) /\ PodMoves(browser[n], pod[n], pod[n])
  BY DEF Stays, PodMoves
<1>x. ASSUME made' = made, UNCHANGED podVars, NEW b \in Browsers, StoreBrowser(n, b),
             BrowserMoves(n, browser[n], b)
      PROVE  EnvironmentMove(n)
  BY <1>0, <1>p, <1>s, <1>x DEF EnvironmentMove
<1>y. ASSUME made' = made, UNCHANGED browserVars, born' = born, NEW p \in Pods,
             StorePod(n, p), PodMoves(browser[n], pod[n], p)
      PROVE  EnvironmentMove(n)
  <2>1. BrowserMoves(n, browser[n], browser[n])
    BY <1>s, <1>y DEF BrowserMoves
  <2> QED
    BY <1>0, <1>b, <1>y, <2>1 DEF EnvironmentMove
<1>1. CASE CreateBrowser(n)
  <2>1. NewBrowser(born[n] + 1) \in Browsers
    BY <1>0, ObjectTypes
  <2> QED
    BY <1>1, <1>x, <2>1 DEF CreateBrowser, BrowserMoves
<1>2. CASE DeleteRequest(n)
  <2>1. DeletedBrowser(browser[n]) \in Browsers
    BY <1>0, DeletedFacts
  <2>2. BrowserMoves(n, browser[n], DeletedBrowser(browser[n]))
    <3>1. \/ DeletedBrowser(browser[n]) = NoBrowser /\ Own \notin browser[n].fins
          \/ DeletedBrowser(browser[n]) = [browser[n] EXCEPT !.deleting = TRUE]
      BY <1>2 DEF DeleteRequest, DeletedBrowser
    <3>2. Stays(browser[n], [browser[n] EXCEPT !.deleting = TRUE])
      BY <1>0 DEF Stays, Browsers
    <3> QED
      BY <1>2, <3>1, <3>2, ObjectTypes DEF DeleteRequest, BrowserMoves
  <2> QED
    BY <1>2, <1>x, <2>1, <2>2 DEF DeleteRequest
<1>3. CASE AddForeignFinalizer(n)
  <2>1. PICK f \in ForeignFinalizers \ browser[n].fins :
               StoreBrowser(n, [browser[n] EXCEPT !.fins = browser[n].fins \cup {f}])
    BY <1>3 DEF AddForeignFinalizer
  <2> DEFINE b == [browser[n] EXCEPT !.fins = browser[n].fins \cup {f}]
  <2>2. b \in Browsers /\ Stays(browser[n], b)
    BY <1>0 DEF Browsers, Finalizers, Stays
  <2> QED
    BY <1>3, <1>x, <2>1, <2>2 DEF AddForeignFinalizer, BrowserMoves
<1>4. CASE DropForeignFinalizer(n)
  <2>1. PICK f \in ForeignFinalizers \cap browser[n].fins :
               StoreBrowser(n, Swept([browser[n] EXCEPT !.fins = browser[n].fins \ {f}]))
    BY <1>4 DEF DropForeignFinalizer
  <2> DEFINE b == [browser[n] EXCEPT !.fins = browser[n].fins \ {f}]
  <2>2. b \in Browsers /\ Stays(browser[n], b)
    BY <1>0 DEF Browsers, Finalizers, Stays
  <2>3. b.fins = {} => Own \notin browser[n].fins
    BY <1>0, <2>2 DEF Stays
  <2>4. /\ Swept(b) \in Browsers
        /\ Stays(browser[n], Swept(b)) \/ (Swept(b) = NoBrowser /\ b.fins = {})
    <3> HIDE DEF b
    <3> QED
      BY <2>2, ObjectTypes DEF Swept
  <2>5. /\ StoreBrowser(n, Swept(b)) /\ born' = born /\ made' = made /\ UNCHANGED podVars
        /\ losses' = losses
    BY <1>4, <2>1 DEF DropForeignFinalizer
  <2> HIDE DEF b
  <2>6. BrowserMoves(n, browser[n], Swept(b)) /\ Swept(b) \in Browsers
    BY <2>3, <2>4, <2>5 DEF BrowserMoves
  <2> QED
    BY <1>x, <2>5, <2>6
<1>5. CASE KubeletReports(n)
  <2>0. PICK cs \in [Containers -> Reported] :
               \E ph \in PhasesOf(cs) :
                 StorePod(n, [pod[n] EXCEPT !.cs = cs, !.phase = ph])
    BY <1>5 DEF KubeletReports
  <2>1. PICK ph \in PhasesOf(cs) : StorePod(n, [pod[n] EXCEPT !.cs = cs, !.phase = ph])
    BY <2>0
  <2>2. cs \in Statuses
    <3>1. cs \in [Containers -> CStates]
      BY DEF CStates
    <3> QED
      BY <3>1 DEF Statuses
  <2>3. ph \in PodPhases
    BY DEF PhasesOf, PodPhases
  <2>4. /\ [pod[n] EXCEPT !.cs = cs, !.phase = ph] \in Pods
        /\ PodMoves(browser[n], pod[n], [pod[n] EXCEPT !.cs = cs, !.phase = ph])
    BY <1>0, <2>2, <2>3 DEF Pods, PodMoves
  <2> QED
    BY <1>5, <1>y, <2>1, <2>4 DEF KubeletReports
<1>6. CASE KubeletRemoves(n)
  BY <1>6, <1>y, ObjectTypes DEF KubeletRemoves, PodMoves
<1>7. CASE Evict(n)
  <2>1. [pod[n] EXCEPT !.phase = "Failed"] \in Pods
    BY <1>0 DEF Pods, PodPhases
  <2>2. [pod[n] EXCEPT !.phase = "Failed"].owner = pod[n].owner
    BY <1>0 DEF Pods
  <2> QED
    BY <1>7, <2>1, <2>2 DEF Evict, PodLost
<1>8. CASE OutsideDelete(n)
  <2>1. PICK p \in GracefullyDeleted(pod[n]) : StorePod(n, p)
    BY <1>8 DEF OutsideDelete
  <2>2. p \in Pods /\ (p = NoPod \/ p = [pod[n] EXCEPT !.deleting = TRUE])
    BY <1>0, GracefulFacts DEF GracefullyDeleted
  <2>3. [pod[n] EXCEPT !.deleting = TRUE].owner = pod[n].owner
    BY <1>0 DEF Pods
  <2> QED
    BY <1>8, <2>1, <2>2, <2>3, ObjectTypes DEF OutsideDelete, PodLost
<1>9. CASE CollectGarbage(n)
  <2>1. PICK p \in GracefullyDeleted(pod[n]) : StorePod(n, p)
    BY <1>9 DEF CollectGarbage
  <2>2. p \in Pods /\ (p = NoPod \/ p = [pod[n] EXCEPT !.deleting = TRUE])
    BY <1>0, GracefulFacts DEF GracefullyDeleted
  <2>3. PodMoves(browser[n], pod[n], p)
    <3>1. [pod[n] EXCEPT !.deleting = TRUE].uid = pod[n].uid
          /\ [pod[n] EXCEPT !.deleting = TRUE].owner = pod[n].owner
      BY <1>0 DEF Pods
    <3> QED
      BY <1>9, <2>2, <3>1, ObjectTypes DEF CollectGarbage, PodMoves
  <2> QED
    BY <1>9, <1>y, <2>1, <2>2, <2>3 DEF CollectGarbage
<1>10. CASE CreationDeadline(n)
  BY <1>0, <1>10, <1>p, <1>s, <1>y DEF CreationDeadline
<1>11. CASE DeletionDeadline(n)
  BY <1>0, <1>11, <1>p, <1>s, <1>y DEF DeletionDeadline
<1>12. Evict(n) \/ OutsideDelete(n) \/ losses' = losses
  BY DEF ClusterNext, CreateBrowser, DeleteRequest, AddForeignFinalizer, DropForeignFinalizer,
         KubeletReports, KubeletRemoves, CollectGarbage, CreationDeadline, DeletionDeadline
<1> QED
  BY <1>1, <1>2, <1>3, <1>4, <1>5, <1>6, <1>7, <1>8, <1>9, <1>10, <1>11, <1>12 DEF ClusterNext

-----------------------------------------------------------------------------
(* What the steps of a pass write and where they lead *)

(* Where a pass goes first tells what the Browser looked like.             *)
LEMMA RouteTells ==
  ASSUME NEW b
  PROVE  /\ Route(b) \in {"done", "finalizer", "label", "setPending", "getPod",
                          "releaseFailed", "podForDeletion"}
         /\ Route(b) = "finalizer" => Own \notin b.fins
         /\ Route(b) \in {"label", "setPending", "getPod"} => Own \in b.fins
         /\ Route(b) = "releaseFailed" => b.phase = "Failed"
         /\ Route(b) = "podForDeletion" => b.deleting
  BY DEF Route, AfterFinalizer, AfterLabel

(* What a patch makes of the server's Browser s.                           *)
LEMMA MergedDetail ==
  ASSUME NEW s \in Browsers, NEW c \in Browsers, NEW d \in Browsers
  PROVE  LET b == Merged(s, c, d)
             f == IF d.fins = c.fins THEN s.fins ELSE d.fins IN
         /\ b \in Browsers /\ b.fins = f
         /\ Exists(b) => /\ b.uid = s.uid /\ b.deleting = s.deleting
                         /\ b.phase = IF d.phase = c.phase THEN s.phase ELSE d.phase
         /\ ~Exists(b) /\ Exists(s) => b = NoBrowser /\ s.deleting /\ f = {}
<1> DEFINE m == [s EXCEPT !.phase    = IF d.phase = c.phase THEN @ ELSE d.phase,
                          !.ip       = IF d.ip = c.ip THEN @ ELSE d.ip,
                          !.cs       = IF d.cs = c.cs THEN @ ELSE d.cs,
                          !.fins     = IF d.fins = c.fins THEN @ ELSE d.fins,
                          !.labelled = IF d.labelled = c.labelled THEN @ ELSE d.labelled]
<1>1. /\ m.uid = s.uid /\ m.deleting = s.deleting
      /\ m.fins = IF d.fins = c.fins THEN s.fins ELSE d.fins
      /\ m.phase = IF d.phase = c.phase THEN s.phase ELSE d.phase
  BY DEF Browsers
<1>2. Merged(s, c, d) = IF m.deleting /\ m.fins = {} THEN NoBrowser ELSE m
  BY DEF Merged, Swept
<1>3. NoBrowser.fins = {}
  BY DEF NoBrowser, NewBrowser
<1> HIDE DEF m
<1>4. Merged(s, c, d) \in Browsers
  BY MergedFacts
<1>5. CASE m.deleting /\ m.fins = {}
  BY <1>1, <1>2, <1>3, <1>4, <1>5, ObjectTypes
<1>6. CASE ~(m.deleting /\ m.fins = {})
  BY <1>1, <1>2, <1>4, <1>6 DEF Exists
<1> QED
  BY <1>5, <1>6

(* A step that writes no Browser changes none, and likewise for Pods.      *)
LEMMA NothingWritten ==
  ASSUME TypeOK
  PROVE  /\ UNCHANGED browserVars =>
              browser' = browser /\ (bCache' = bCache => \A m \in Names :
                BrowserVersions(m)' = BrowserVersions(m))
         /\ UNCHANGED podVars =>
              pod' = pod /\ (pCache' = pCache =>
                /\ PodWatchEndsInTruth' = PodWatchEndsInTruth
                /\ \A m \in Names : PodVersions(m)' = PodVersions(m))
  BY DEF browserVars, podVars, BrowserVersions, PodVersions, PodWatchEndsInTruth

(* What the patches change.                                                *)
LEMMA PatchShapes ==
  ASSUME TypeOK
  PROVE  /\ \A ph \in PodPhases : WithPhase(ph).phase = ph /\ WithPhase(ph).fins = Cached.fins
         /\ WithoutOwn.phase = Cached.phase
         /\ [Cached EXCEPT !.fins = @ \cup {Own}].phase = Cached.phase
         /\ [Cached EXCEPT !.fins = @ \cup {Own}].fins = Cached.fins \cup {Own}
         /\ [Cached EXCEPT !.labelled = TRUE].phase = Cached.phase
         /\ [Cached EXCEPT !.labelled = TRUE].fins = Cached.fins
<1>1. Cached \in Browsers
  BY DEF TypeOK, Cached
<1> QED
  BY <1>1 DEF WithPhase, WithoutOwn, Browsers

(* Where the judgement of a Pod leads tells what the Pod looked like.      *)
LEMMA JudgementTells ==
  ASSUME NEW n, NEW b, NEW p, b.phase # "Failed"
  PROVE  /\ JudgePod(n, b, p) \in {"release", "deleteBrowser", "killFailed", "killBackoff",
                                   "failPending", "failCritical", "mirror", "requeueAfter"}
         /\ JudgePod(n, b, p) \in {"release", "deleteBrowser"} => p.deleting
         /\ JudgePod(n, b, p) = "killFailed" => p.phase = "Failed"
<1>1. UpdateStatus(b, p) \in {"failCritical", "mirror", "requeueAfter"}
  BY DEF UpdateStatus
<1>2. JudgePending(n, b, p) \in {"failCritical", "mirror", "requeueAfter", "killBackoff",
                                 "failPending"}
  BY <1>1 DEF JudgePending
<1>3. AfterFailure(b) \in {"release", "deleteBrowser"}
  BY DEF AfterFailure
<1> QED
  BY <1>1, <1>2, <1>3 DEF JudgePod

(* What an accepted patch writes.                                          *)
PatchWrites(d, b) ==
  LET s == browser[req]  c == Cached IN
  /\ StoreBrowser(req, b) /\ browser'[req] = b
  /\ Exists(s) /\ Exists(c) /\ (s.deleting => b.fins \subseteq s.fins)
  /\ b.fins = IF d.fins = c.fins THEN s.fins ELSE d.fins
  /\ Exists(b) => /\ b.uid = s.uid /\ b.deleting = s.deleting
                  /\ b.phase = IF d.phase = c.phase THEN s.phase ELSE d.phase
  /\ ~Exists(b) => b = NoBrowser /\ s.deleting /\ b.fins = {}

(* A patch that the server accepts writes what PatchWrites says.           *)
LEMMA AcceptedWrites ==
  ASSUME TypeOK, NEW d \in Browsers, Patchable(d), WritePatch(d)
  PROVE  \E b \in Browsers : PatchWrites(d, b)
<1>0. /\ TypeOK /\ req \in Names /\ browser[req] \in Browsers /\ bCache[req] \in Browsers
  BY DEF TypeOK
<1> DEFINE b == Merged(browser[req], bCache[req], d)
<1>1. StoreBrowser(req, b) /\ Exists(browser[req]) /\ Exists(bCache[req])
      /\ (browser[req].deleting => b.fins \subseteq browser[req].fins)
  BY DEF WritePatch, Patchable
<1>2. browser'[req] = b
  BY <1>0, <1>1 DEF StoreBrowser, TypeOK
<1> QED
  BY <1>0, <1>1, <1>2, MergedDetail DEF PatchWrites, Cached

Releases == {"releaseFailed", "release", "releaseDeleted"}
Failings == {"failPod", "failPending", "failConfig", "failCritical"}

(* What a step of a pass makes of its Browser: the finalizer goes only in  *)
(* the releases, and the phase changes only where the label says so.       *)
Writes(b) ==
  LET s == browser[req] IN
  /\ StoreBrowser(req, b) /\ Continues(s, b)
  /\ Exists(s) /\ Own \in s.fins /\ pc \notin Releases => Exists(b) /\ Own \in b.fins
  /\ \/ b = NoBrowser \/ b.phase = s.phase
     \/ pc = "setPending" /\ b.phase = "Pending"
     \/ pc \in Failings /\ b.phase = "Failed"
     \/ pc = "mirror" /\ b.phase = lp.phase
  /\ pc = "finalizer" /\ pc' # "idle" => Own \in Cached.fins \cup b.fins
  /\ pc \in Failings /\ faults' = faults /\ Exists(Cached)
       => ~Exists(b) \/ b.phase = "Failed" \/ Cached.phase = "Failed"

(* A patch, whether it is accepted, refused or lost, writes such a Browser. *)
LEMMA PatchWritesSo ==
  ASSUME TypeOK, NEW d \in Browsers,
         \/ Patchable(d) /\ WritePatch(d)
         \/ UNCHANGED browserVars /\ pc' = "idle" /\ (faults' = faults => ~Patchable(d)),
         d.fins = Cached.fins \/ Own \in d.fins \/ pc \in Releases,
         pc = "finalizer" => Own \in d.fins,
         pc \in Failings => d.phase = "Failed" /\ d.fins = Cached.fins,
         \/ d.phase = Cached.phase
         \/ pc = "setPending" /\ d.phase = "Pending"
         \/ pc \in Failings /\ d.phase = "Failed"
         \/ pc = "mirror" /\ d.phase = lp.phase
  PROVE  \E b \in Browsers : Writes(b)
<1>0. browser[req] \in Browsers /\ bCache[req] \in Browsers /\ Cached = bCache[req]
  BY DEF TypeOK, Cached
<1>1. CASE Patchable(d) /\ WritePatch(d)
  <2>1. PICK b \in Browsers : PatchWrites(d, b)
    BY <1>1, AcceptedWrites
  <2>2. Continues(browser[req], b)
    BY <2>1 DEF PatchWrites, Continues
  <2>3. Own \in browser[req].fins /\ pc \notin Releases => Exists(b) /\ Own \in b.fins
    BY <2>1 DEF PatchWrites
  <2>4. pc = "finalizer" => Own \in Cached.fins \cup b.fins
    BY <2>1 DEF PatchWrites
  <2>5. \/ b = NoBrowser \/ b.phase = browser[req].phase
        \/ pc = "setPending" /\ b.phase = "Pending"
        \/ pc \in Failings /\ b.phase = "Failed"
        \/ pc = "mirror" /\ b.phase = lp.phase
    BY <2>1 DEF PatchWrites
  <2>6. pc \in Failings => ~Exists(b) \/ b.phase = "Failed" \/ Cached.phase = "Failed"
    BY <2>1 DEF PatchWrites
  <2> QED
    BY <2>1, <2>2, <2>3, <2>4, <2>5, <2>6 DEF Writes, PatchWrites
<1>2. CASE UNCHANGED browserVars /\ pc' = "idle" /\ (faults' = faults => ~Patchable(d))
  <2> DEFINE b == browser[req]
  <2>1. StoreBrowser(req, b) /\ Continues(b, b)
    BY <1>2 DEF StoreBrowser, Logged, browserVars, TypeOK, Continues
  <2>3. pc \in Failings /\ faults' = faults /\ Exists(Cached) => ~Exists(b)
    <3>1. pc \in Failings => Merged(b, bCache[req], d).fins = b.fins
      BY <1>0, MergedDetail
    <3> QED
      BY <1>0, <1>2, <3>1 DEF Patchable
  <2> QED
    BY <1>0, <1>2, <2>1, <2>3 DEF Writes
<1> QED
  BY <1>1, <1>2

(* So does every step of a pass. *)
LEMMA PassWrites ==
  ASSUME TypeOK, PassStep
  PROVE  \E b \in Browsers : Writes(b)
<1> DEFINE f == WithPhase("Failed")
           o == [Cached EXCEPT !.fins = @ \cup {Own}]
           l == [Cached EXCEPT !.labelled = TRUE]
           m == [Cached EXCEPT !.phase = lp.phase,
                               !.ip = IF StatusChanged(lb, lp) THEN PodIP(lp) ELSE @,
                               !.cs = IF ContainersChanged(lb, lp) THEN lp.cs ELSE @]
<1>1. /\ f \in Browsers /\ f.phase = "Failed" /\ f.fins = Cached.fins
      /\ o \in Browsers /\ o.phase = Cached.phase /\ Own \in o.fins
      /\ l \in Browsers /\ l.phase = Cached.phase /\ l.fins = Cached.fins
      /\ WithoutOwn \in Browsers /\ WithoutOwn.phase = Cached.phase
      /\ WithPhase("Pending") \in Browsers /\ WithPhase("Pending").phase = "Pending"
      /\ WithPhase("Pending").fins = Cached.fins
  BY PatchTypes, PatchShapes DEF PodPhases
<1>2. m \in Browsers /\ m.phase = lp.phase /\ m.fins = Cached.fins
  <2>1. Cached \in Browsers
    BY DEF TypeOK, Cached
  <2> QED
    BY <2>1, PatchTypes DEF Browsers
<1>3. \A d : Patch(d, Done) \/ Patch(d, RequeueAfter) =>
        \/ Patchable(d) /\ WritePatch(d)
        \/ UNCHANGED browserVars /\ pc' = "idle" /\ (faults' = faults => ~Patchable(d))
  BY DEF Patch, Requeue, EndPass, Fault, NoFault, TypeOK
<1>4. \A d, t : Patch(d, Goto(t)) =>
        \/ Patchable(d) /\ WritePatch(d)
        \/ UNCHANGED browserVars /\ pc' = "idle" /\ (faults' = faults => ~Patchable(d))
  BY DEF Patch, Requeue, EndPass, Fault, NoFault, TypeOK
<1> HIDE DEF f, o, l, m
<1>5. CASE AddFinalizer
  BY <1>1, <1>4, <1>5, PatchWritesSo DEF AddFinalizer, o, Failings
<1>6. CASE AssignLabels
  BY <1>1, <1>4, <1>6, PatchWritesSo DEF AssignLabels, l, Failings
<1>7. CASE SetPending
  BY <1>1, <1>4, <1>7, PatchWritesSo DEF SetPending, Failings
<1>8. CASE FailPod
  BY <1>1, <1>4, <1>8, PatchWritesSo DEF FailPod, f, Failings
<1>9. CASE FailPending
  BY <1>1, <1>3, <1>9, PatchWritesSo DEF FailPending, f, Failings
<1>10. CASE FailConfig
  BY <1>1, <1>3, <1>10, PatchWritesSo DEF FailConfig, f, Failings
<1>11. CASE FailCritical
  BY <1>1, <1>4, <1>11, PatchWritesSo DEF FailCritical, f, Failings
<1>12. CASE Mirror
  BY <1>2, <1>3, <1>12, PatchWritesSo DEF Mirror, m, Failings
<1>13. CASE ReleaseFailed
  BY <1>1, <1>3, <1>13, PatchWritesSo DEF ReleaseFailed, Failings, Releases
<1>14. CASE Release
  BY <1>1, <1>4, <1>14, PatchWritesSo DEF Release, Failings, Releases
<1>15. CASE ReleaseDeleted
  BY <1>1, <1>3, <1>15, PatchWritesSo DEF ReleaseDeleted, Failings, Releases
<1>16. ASSUME UNCHANGED browserVars, pc \notin Failings \cup {"finalizer"}
       PROVE  \E b \in Browsers : Writes(b)
  <2>1. browser[req] \in Browsers /\ Continues(browser[req], browser[req])
    BY DEF TypeOK, Continues
  <2>2. StoreBrowser(req, browser[req])
    BY <1>16 DEF StoreBrowser, Logged, browserVars, TypeOK
  <2> QED
    BY <1>16, <2>1, <2>2 DEF Writes
<1>17. CASE DeleteBrowser
  <2>1. CASE UNCHANGED browserVars
    BY <1>16, <1>17, <2>1 DEF DeleteBrowser, Failings
  <2>2. CASE StoreBrowser(req, DeletedBrowser(browser[req]))
    <3> DEFINE b == DeletedBrowser(browser[req])
    <3>1. browser[req] \in Browsers
      BY DEF TypeOK
    <3>2. b \in Browsers /\ Continues(browser[req], b)
      BY <3>1, DeletedFacts
    <3>3. b = NoBrowser \/ (b.uid = browser[req].uid /\ b.phase = browser[req].phase
                            /\ b.fins = browser[req].fins)
      BY <3>1 DEF DeletedBrowser, Browsers
    <3>4. Exists(browser[req]) /\ Own \in browser[req].fins => b # NoBrowser
      <4>1. SUFFICES ASSUME Exists(browser[req]), Own \in browser[req].fins PROVE b # NoBrowser
        OBVIOUS
      <4>2. b = [browser[req] EXCEPT !.deleting = TRUE]
        BY <4>1 DEF DeletedBrowser
      <4>3. b.uid = browser[req].uid
        BY <3>1, <4>2 DEF Browsers
      <4> QED
        BY <4>1, <4>3, ObjectTypes DEF Exists
    <3> HIDE DEF b
    <3> QED
      BY <1>17, <2>2, <3>2, <3>3, <3>4, ObjectTypes DEF b, Writes, DeleteBrowser, Failings, Exists
  <2> QED
    BY <1>17, <2>1, <2>2 DEF DeleteBrowser
<1>18. CASE GetPod \/ LookupConfig \/ CreatePod \/ KillFailed \/ KillBackoff \/ PodForDeletion
            \/ DeletePod \/ ForceDelete
  BY <1>16, <1>18 DEF GetPod, LookupConfig, CreatePod, KillFailed, KillBackoff, PodForDeletion,
                      DeletePod, ForceDelete, RemovePod, Failings
<1> QED
  BY <1>5, <1>6, <1>7, <1>8, <1>9, <1>10, <1>11, <1>12, <1>13, <1>14, <1>15, <1>17, <1>18
     DEF PassStep

(* What it makes of the Pod: one is made by createPod only, and one that   *)
(* is killed goes at once.                                                 *)
PodWrites ==
  \/ made' = made /\ UNCHANGED podVars
  \/ /\ made' = made /\ pc \in {"killFailed", "killBackoff", "deletePod", "forceDelete"}
     /\ \E p \in Pods : /\ StorePod(req, p) /\ (Exists(p) => Exists(pod[req]))
                        /\ pc = "forceDelete" => ~Exists(p)
  \/ pc = "createPod" /\ MakePod /\ ~Exists(pod[req]) /\ pc' = "idle"

(* How it goes on, told from where it stands then.                         *)
Leads ==
  /\ lb' = lb /\ pc' \notin {"finalizer", "releaseFailed", "podForDeletion"}
  /\ faults' = faults \/ pc' = "releaseDeleted"
  /\ pc' \in {"label", "setPending", "getPod"} => pc \in {"finalizer", "label", "setPending"}
  /\ pc' = "lookupConfig" => pc = "getPod" /\ ~Exists(pCache[req])
  /\ pc' \in {"createPod", "failConfig"} => pc = "lookupConfig"
  /\ pc' = "killFailed" => pc = "getPod" /\ lp'.phase = "Failed"
  /\ pc' = "killBackoff" => pc = "getPod"
  /\ pc' = "failPod" => pc = "killFailed" /\ lp' = lp
  /\ pc' = "failPending" => pc \in {"getPod", "killBackoff"}
  /\ pc' = "failCritical" => pc \in {"getPod", "failPod"}
  /\ pc' = "mirror" => pc = "getPod" \/ (pc = "failPod" /\ lp' = lp)
  /\ pc' \in {"release", "deleteBrowser"}
       => pc \in {"failCritical", "release"} \/ (pc = "getPod" /\ pCache[req].deleting)
  /\ pc' \in {"deletePod", "forceDelete"} => pc = "podForDeletion"
  /\ pc' = "releaseDeleted" => /\ pc \in {"podForDeletion", "forceDelete"}
                               /\ \/ faults' # faults
                                  \/ pc = "podForDeletion" /\ ~Exists(pCache[req])
                                  \/ pc = "forceDelete" /\ ~Exists(pod'[req])

(* A kill that succeeds is followed by the failure, and no step of a pass  *)
(* makes more than one call that fails.                                    *)
LEMMA PassLeads ==
  ASSUME NothingForgottenInv, PassStep
  PROVE  /\ PodWrites
         /\ pc' # "idle" => Leads
         /\ faults' = faults \/ faults' = faults + 1
         /\ pc = "killFailed" /\ faults' = faults => pc' = "failPod"
         /\ pc = "killBackoff" /\ faults' = faults => pc' = "failPending"
<1>0. /\ TypeOK /\ faults \in Nat /\ faults + 1 # faults
      /\ pc \in Serving => lb.phase # "Failed"
  BY DEF NothingForgottenInv, PassKnowsBrowser, TypeOK
<1>1. ASSUME NEW d, NEW t \in Labels \cup Endings,
             Patch(d, Goto(t)) \/ Patch(d, Done) \/ Patch(d, RequeueAfter)
      PROVE  /\ made' = made /\ UNCHANGED podVars
             /\ faults' = faults \/ faults' = faults + 1
             /\ pc' # "idle" => /\ Patch(d, Goto(t)) /\ pc' = t /\ faults' = faults
                                /\ lb' = lb /\ lp' = lp
  BY <1>1 DEF Patch, Goto, Done, Requeue, RequeueAfter, EndPass, Fault, NoFault, Undisturbed
<1>2. CASE AddFinalizer
  <2>1. AfterFinalizer(lb) \in {"label", "setPending", "getPod"}
    BY DEF AfterFinalizer, AfterLabel
  <2>2. pc = "finalizer" /\ AfterFinalizer(lb) \in Labels
    BY <1>2, <2>1 DEF AddFinalizer, Labels
  <2> QED
    BY <1>1, <1>2, <2>1, <2>2 DEF AddFinalizer, PodWrites, Leads
<1>3. CASE AssignLabels
  <2>1. AfterLabel(lb) \in {"setPending", "getPod"}
    BY DEF AfterLabel
  <2>2. pc = "label" /\ AfterLabel(lb) \in Labels
    BY <1>3, <2>1 DEF AssignLabels, Labels
  <2> QED
    BY <1>1, <1>3, <2>1, <2>2 DEF AssignLabels, PodWrites, Leads
<1>4. CASE SetPending
  <2>1. "getPod" \in Labels
    BY DEF Labels
  <2> QED
    BY <1>1, <1>4, <2>1 DEF SetPending, PodWrites, Leads
<1>5. CASE FailPod
  <2>1. UpdateStatus(lb, lp) \in {"failCritical", "mirror", "requeueAfter"}
    BY <1>0, <1>5 DEF UpdateStatus, FailPod, Serving, Labels, Leaving
  <2>2. pc = "failPod" /\ UpdateStatus(lb, lp) \in Labels \cup Endings
    BY <1>5, <2>1 DEF FailPod, Labels, Endings
  <2>3. pc' # "requeueAfter"
    BY <1>5, PassStepFrame, <1>0 DEF PassFrame, PassMove, Labels
  <2> QED
    BY <1>1, <1>5, <2>1, <2>2, <2>3 DEF FailPod, PodWrites, Leads
<1>6. CASE FailCritical
  <2>1. AfterFailure(lb) \in {"release", "deleteBrowser"}
    BY DEF AfterFailure
  <2>2. pc = "failCritical" /\ AfterFailure(lb) \in Labels
    BY <1>6, <2>1 DEF FailCritical, Labels
  <2> QED
    BY <1>1, <1>6, <2>1, <2>2 DEF FailCritical, PodWrites, Leads
<1>7. CASE Release
  <2>1. "deleteBrowser" \in Labels
    BY DEF Labels
  <2> QED
    BY <1>1, <1>7, <2>1 DEF Release, PodWrites, Leads
<1>8. CASE FailPending \/ FailConfig \/ Mirror \/ ReleaseFailed \/ ReleaseDeleted
  <2>1. \E d : Patch(d, Done) \/ Patch(d, RequeueAfter)
    BY <1>8 DEF FailPending, FailConfig, Mirror, ReleaseFailed, ReleaseDeleted
  <2>2. pc \notin {"killFailed", "killBackoff"}
    BY <1>8 DEF FailPending, FailConfig, Mirror, ReleaseFailed, ReleaseDeleted
  <2>3. /\ made' = made /\ UNCHANGED podVars /\ pc' = "idle"
        /\ faults' = faults \/ faults' = faults + 1
    BY <2>1 DEF Patch, Done, Requeue, RequeueAfter, EndPass, Fault, NoFault, Undisturbed
  <2> QED
    BY <2>2, <2>3 DEF PodWrites
<1>9. CASE GetPod
  <2> DEFINE p == pCache[req]
             l == IF Exists(p) THEN JudgePod(req, lb, p) ELSE "lookupConfig"
  <2>1. /\ pc = "getPod" /\ made' = made /\ UNCHANGED podVars
        /\ \/ faults' = faults /\ IF l \in Endings THEN Goto(l) ELSE Take(l, p)
           \/ faults' = faults + 1 /\ Requeue
    BY <1>9 DEF GetPod, Fault, NoFault
  <2> HIDE DEF l
  <2>2. lb.phase # "Failed"
    BY <1>0, <2>1 DEF Serving, Labels, Leaving
  <2>3. /\ l \in {"lookupConfig", "release", "deleteBrowser", "killFailed", "killBackoff",
                  "failPending", "failCritical", "mirror", "requeueAfter"}
        /\ l \in {"release", "deleteBrowser"} => p.deleting
        /\ l = "killFailed" => p.phase = "Failed"
        /\ l = "lookupConfig" => ~Exists(p)
    BY <2>2, JudgementTells DEF l
  <2>4. pc' # "idle" => /\ pc' = l /\ l # "requeueAfter" /\ lb' = lb /\ faults' = faults
                        /\ l = "killFailed" => lp' = p
    BY <2>1, <2>3 DEF Goto, Take, Endings, Requeue, RequeueAfter, EndPass
  <2> QED
    BY <2>1, <2>3, <2>4 DEF PodWrites, Leads
<1>10. CASE LookupConfig
  BY <1>10 DEF LookupConfig, Goto, Endings, NoFault, PodWrites, Leads
<1>11. CASE CreatePod
  BY <1>11 DEF CreatePod, Requeue, RequeueAfter, EndPass, Fault, NoFault, PodWrites
<1>12. CASE KillFailed \/ KillBackoff
  <2> DEFINE t == IF pc = "killFailed" THEN "failPod" ELSE "failPending"
  <2>1. /\ pc \in {"killFailed", "killBackoff"} /\ made' = made
        /\ RemovePod({NoPod}, Goto(t), Requeue)
    BY <1>12 DEF KillFailed, KillBackoff, RemovePod
  <2>2. StorePod(req, NoPod) \/ UNCHANGED podVars
    BY <2>1 DEF RemovePod
  <2>3. \/ faults' = faults /\ pc' = t /\ lb' = lb /\ lp' = lp
        \/ faults' = faults + 1 /\ pc' = "idle"
    BY <2>1 DEF RemovePod, Goto, Endings, Requeue, EndPass, Fault, NoFault
  <2>4. PodWrites
    BY <2>1, <2>2, ObjectTypes DEF PodWrites
  <2> QED
    BY <1>0, <2>1, <2>3, <2>4 DEF Leads
<1>13. CASE DeletePod
  <2>1. /\ pc = "deletePod" /\ made' = made /\ pc' = "idle"
        /\ faults' = faults \/ faults' = faults + 1
        /\ \/ \E p \in {NoPod} \cup GracefullyDeleted(pod[req]) : StorePod(req, p)
           \/ UNCHANGED podVars
    BY <1>13 DEF DeletePod, RemovePod, Requeue, RequeueAfter, EndPass, Fault, NoFault
  <2>2. pod[req] \in Pods
    BY <1>0 DEF TypeOK
  <2>3. \A p \in {NoPod} \cup GracefullyDeleted(pod[req]) :
          p \in Pods /\ (Exists(p) => Exists(pod[req]))
    BY <2>2, GracefulFacts, ObjectTypes DEF GracefullyDeleted
  <2> QED
    BY <2>1, <2>3 DEF PodWrites
<1>14. CASE ForceDelete
  <2>1. /\ pc = "forceDelete" /\ made' = made /\ pc' = "releaseDeleted" /\ lb' = lb
        /\ faults' = faults \/ faults' = faults + 1
        /\ StorePod(req, NoPod) \/ (UNCHANGED podVars /\ faults' = faults + 1)
    BY <1>14 DEF ForceDelete, RemovePod, Goto, Endings, Fault, NoFault
  <2>2. StorePod(req, NoPod) => pod'[req] = NoPod
    BY <1>0 DEF StorePod, TypeOK
  <2> QED
    BY <1>0, <2>1, <2>2, ObjectTypes DEF PodWrites, Leads
<1>15. CASE PodForDeletion
  <2> DEFINE p == pCache[req]
             l == JudgeDeletion(req, p)
  <2>1. /\ pc = "podForDeletion" /\ made' = made /\ UNCHANGED podVars
        /\ \/ faults' = faults /\ IF l \in Endings THEN Goto(l) ELSE Take(l, p)
           \/ faults' = faults + 1 /\ Goto("releaseDeleted")
    BY <1>15 DEF PodForDeletion, Fault, NoFault
  <2> HIDE DEF l
  <2>2. /\ l \in {"releaseDeleted", "deletePod", "forceDelete", "requeueAfter"}
        /\ l = "releaseDeleted" => ~Exists(p)
    BY DEF l, JudgeDeletion
  <2>3. pc' # "idle" =>
          /\ lb' = lb
          /\ \/ pc' = l /\ l # "requeueAfter" /\ faults' = faults
             \/ pc' = "releaseDeleted" /\ faults' = faults + 1
    BY <2>1, <2>2 DEF Goto, Take, Endings, RequeueAfter, Requeue, EndPass
  <2> QED
    BY <1>0, <2>1, <2>2, <2>3 DEF PodWrites, Leads
<1>16. CASE DeleteBrowser
  BY <1>16 DEF DeleteBrowser, Done, Requeue, EndPass, Fault, NoFault, PodWrites
<1> QED
  BY <1>2, <1>3, <1>4, <1>5, <1>6, <1>7, <1>8, <1>9, <1>10, <1>11, <1>12, <1>13, <1>14, <1>15,
     <1>16 DEF PassStep

-----------------------------------------------------------------------------
(* A failure is final *)

(* What the surroundings of n do keeps what is known of failures: they     *)
(* write no phase.                                                         *)
LEMMA EnvironmentKeepsFailures ==
  ASSUME FailureInv, NEW n \in Names, NEW b \in Browsers, StoreBrowser(n, b), bCache' = bCache,
         BrowserMoves(n, browser[n], b), UNCHANGED passVars
  PROVE  (\A m \in Names : FailureStays(m))' /\ PassMeetsFailure'
<1>0. /\ TypeOK /\ born \in [Names -> Nat] /\ born[n] \in Nat /\ browser[n] \in Browsers
      /\ (\A m \in Names : FailureStays(m)) /\ PassMeetsFailure /\ req \in Names
      /\ pc' = pc /\ req' = req /\ lp' = lp
      /\ \A m \in Names : browser[m] \in BrowserVersions(m)
  BY DEF FailureInv, NothingForgottenInv, TypeOK, passVars, BrowserVersions
<1>1. /\ browser'[n] = b /\ BrowserVersions(n)' \subseteq BrowserVersions(n) \cup {b}
      /\ \A m \in Names : m # n =>
           browser'[m] = browser[m] /\ BrowserVersions(m)' = BrowserVersions(m)
  BY <1>0, BrowserWritten
<1>2. NoBrowser.phase = "" /\ \A u \in Nat : NewBrowser(u).uid = u /\ NewBrowser(u).phase = ""
  BY DEF NoBrowser, NewBrowser
<1>3. \/ b.uid = born[n] + 1 /\ born'[n] = born[n] + 1 /\ b.phase = ""
      \/ born'[n] = born[n] /\ Stays(browser[n], b)
      \/ born'[n] = born[n] /\ ~Exists(b) /\ b.phase = ""
  <2>1. CASE born' = [born EXCEPT ![n] = @ + 1] /\ b = NewBrowser(born[n] + 1)
    <3>1. born[n] + 1 \in Nat /\ born'[n] = born[n] + 1
      BY <1>0, <2>1
    <3> QED
      BY <1>2, <2>1, <3>1
  <2>2. CASE born' = born /\ Stays(browser[n], b)
    BY <2>2
  <2>3. CASE born' = born /\ b = NoBrowser
    BY <1>2, <2>3, ObjectTypes
  <2> QED
    BY <2>1, <2>2, <2>3 DEF BrowserMoves
<1>a. born'[n] = born[n] \/ born'[n] = born[n] + 1
  BY <1>3
<1>4. \A m \in Names : m # n => born'[m] = born[m]
  BY <1>0 DEF BrowserMoves
<1>5. b.phase = "Failed" => browser[n].phase = "Failed"
  BY <1>3 DEF Stays
<1>6. FailureStays(n)'
  <2>1. SUFFICES ASSUME NEW v \in BrowserVersions(n) \cup {b}
                 PROVE  /\ v.uid <= born'[n]
                        /\ Exists(v) /\ v.uid = b.uid /\ v.phase = "Failed" => b.phase = "Failed"
    BY <1>1 DEF FailureStays, Exists
  <2>2. CASE v \in BrowserVersions(n)
    <3>1. /\ v.uid <= born[n] /\ v.uid \in Nat
          /\ Exists(v) /\ v.uid = browser[n].uid /\ v.phase = "Failed"
               => browser[n].phase = "Failed"
      <4>1. v \in Browsers
        BY <1>0, <2>2, VersionTypes
      <4> QED
        BY <1>0, <2>2, <4>1 DEF FailureStays, Browsers
    <3>2. v.uid <= born'[n]
      BY <1>a, <1>0, <3>1
    <3>3. v.uid # born[n] + 1
      BY <1>0, <3>1
    <3> QED
      BY <1>3, <3>1, <3>2, <3>3 DEF Stays, Exists
  <2>3. CASE v = b
    <3>1. FailureStays(n) /\ browser[n] \in BrowserVersions(n)
      BY <1>0
    <3>2. browser[n].uid <= born[n] /\ browser[n].uid \in Nat
      BY <1>0, <3>1 DEF FailureStays, Browsers
    <3>3. b.uid = born'[n] \/ b.uid = browser[n].uid \/ b.uid = 0
      BY <1>3 DEF Stays, Exists
    <3>4. b.uid <= born'[n]
      BY <1>a, <1>0, <3>2, <3>3
    <3> QED
      BY <2>3, <3>4
  <2> QED
    BY <2>2, <2>3
<1>7. ASSUME NEW m \in Names, m # n PROVE FailureStays(m)'
  BY <1>0, <1>1, <1>4, <1>7 DEF FailureStays, Exists
<1>8. PassMeetsFailure'
  <2>1. \A v \in BrowserVersions(req)' : v.phase = "Failed" =>
          \E w \in BrowserVersions(req) : w.phase = "Failed"
    BY <1>0, <1>1, <1>5
  <2> QED
    BY <1>0, <2>1 DEF PassMeetsFailure, Serving
<1> QED
  BY <1>6, <1>7, <1>8

(* So does a step of a pass, and it takes no failure back.                 *)
LEMMA PassKeepsFailures ==
  ASSUME FailureInv, PassStep
  PROVE  /\ (\A m \in Names : FailureStays(m))' /\ PassMeetsFailure'
         /\ Exists(browser'[req]) /\ browser[req].phase = "Failed"
              => browser'[req].phase = "Failed"
<1>0. /\ TypeOK /\ NothingForgottenInv /\ req \in Names /\ PassMeetsFailure
      /\ (\A m \in Names : FailureStays(m)) /\ browser[req] \in BrowserVersions(req)
      /\ pc # "idle"
  BY StepLabels DEF FailureInv, NothingForgottenInv, TypeOK, BrowserVersions, KeepsKind
<1>1. PICK b \in Browsers : Writes(b)
  BY <1>0, PassWrites
<1>2. PassFrame /\ (pc' # "idle" => Leads)
  BY <1>0, PassStepFrame, PassLeads
<1>3. bCache' = bCache /\ req' = req /\ born' = born
  BY <1>2 DEF PassFrame, PassMove, Undisturbed, cacheVars
<1>4. /\ browser'[req] = b /\ BrowserVersions(req)' \subseteq BrowserVersions(req) \cup {b}
      /\ \A m \in Names : m # req =>
           browser'[m] = browser[m] /\ BrowserVersions(m)' = BrowserVersions(m)
  BY <1>0, <1>1, <1>3, BrowserWritten DEF Writes
<1>5. /\ {"setPending", "mirror"} \cup Failings \subseteq Serving
      /\ pc' # "idle" /\ pc' \in Serving => pc \in Serving
  BY <1>2 DEF Serving, Labels, Leaving, Failings, Leads
<1>6. Exists(b) /\ browser[req].phase = "Failed" => b.phase = "Failed"
  <2>1. pc = "mirror" /\ browser[req].phase = "Failed" => lp.phase = "Failed"
    BY <1>0, <1>5 DEF PassMeetsFailure
  <2>2. pc = "setPending" => browser[req].phase # "Failed"
    BY <1>0, <1>5 DEF PassMeetsFailure
  <2> QED
    BY <1>1, <2>1, <2>2, ObjectTypes DEF Writes
<1>7. ASSUME NEW m \in Names, m = req PROVE FailureStays(m)'
  <2>1. Exists(b) => b.uid = browser[req].uid
    BY <1>1 DEF Writes, Continues
  <2>2. b.uid <= born[req]
    <3>1. born[req] \in Nat
      BY <1>0 DEF TypeOK
    <3> QED
      BY <1>0, <2>1, <3>1 DEF FailureStays, Exists
  <2> QED
    BY <1>0, <1>3, <1>4, <1>6, <1>7, <2>1, <2>2 DEF FailureStays, Exists
<1>8. ASSUME NEW m \in Names, m # req PROVE FailureStays(m)'
  BY <1>0, <1>3, <1>4, <1>8 DEF FailureStays, Exists
<1>9. PassMeetsFailure'
  <2>1. pc' \in {"killFailed", "failPod"} => lp'.phase = "Failed"
    BY <1>0, <1>2 DEF Leads, PassMeetsFailure
  <2>2. ASSUME pc' \in Serving, NEW v \in BrowserVersions(req) \cup {b}, v.phase = "Failed"
        PROVE  \/ pc' \in {"failCritical", "release", "deleteBrowser"}
               \/ pc' = "mirror" /\ lp'.phase = "Failed"
    <3>1. pc' # "idle" /\ pc \in Serving
      BY <1>5, <2>2 DEF Serving
    <3>2. CASE pc \in {"failPod", "failCritical", "release", "deleteBrowser", "mirror"}
      <4>1. pc' \in {"failCritical", "release", "deleteBrowser", "mirror"}
        BY <1>2, <2>2, <3>1, <3>2 DEF Leads, Serving, Labels, Leaving
      <4>2. pc' = "mirror" => lp'.phase = "Failed"
        BY <1>0, <1>2, <3>1, <3>2 DEF Leads, PassMeetsFailure
      <4> QED
        BY <4>1, <4>2
    <3>3. CASE pc \notin {"failPod", "failCritical", "release", "deleteBrowser", "mirror"}
      <4>1. \A w \in BrowserVersions(req) : w.phase # "Failed"
        <5>1. \A w \in BrowserVersions(req) :
                pc \in Serving /\ w.phase = "Failed"
                  => pc \in {"failCritical", "release", "deleteBrowser"} \/ pc = "mirror"
          BY <1>0 DEF PassMeetsFailure
        <5> QED
          BY <3>1, <3>3, <5>1
      <4>2. v = b /\ browser[req].phase # "Failed"
        BY <1>0, <2>2, <4>1
      <4>3. pc \notin Failings
        BY <1>2, <2>2, <3>1, <3>3 DEF Leads, Failings, Serving, Labels, Leaving
      <4>4. NoBrowser.phase # "Failed"
        BY DEF NoBrowser, NewBrowser
      <4> QED
        BY <1>1, <2>2, <3>3, <4>2, <4>3, <4>4 DEF Writes
    <3> QED
      BY <3>2, <3>3
  <2>3. BrowserVersions(req)' \subseteq BrowserVersions(req) \cup {b}
    BY <1>4
  <2> QED
    BY <2>1, <2>2, <2>3 DEF PassMeetsFailure
<1> QED
  BY <1>4, <1>6, <1>7, <1>8, <1>9

(* A step that writes no Browser and begins no pass changes nothing of it. *)
LEMMA NoNewsKeepsFailures ==
  ASSUME FailureInv, browser' = browser, born' = born,
         \A m \in Names : BrowserVersions(m)' \subseteq BrowserVersions(m),
         UNCHANGED passVars \/ pc' = "idle"
  PROVE  (\A m \in Names : FailureStays(m))' /\ PassMeetsFailure'
<1>0. (\A m \in Names : FailureStays(m)) /\ PassMeetsFailure /\ req \in Names
  BY DEF FailureInv, NothingForgottenInv, TypeOK
<1>1. (\A m \in Names : FailureStays(m))'
  BY <1>0 DEF FailureStays
<1>2. CASE pc' = "idle"
  BY <1>1, <1>2 DEF PassMeetsFailure, Serving
<1>3. CASE UNCHANGED passVars
  <2>1. pc' = pc /\ req' = req /\ lp' = lp
    BY <1>3 DEF passVars
  <2>2. BrowserVersions(req)' \subseteq BrowserVersions(req)
    BY <1>0, <2>1
  <2> QED
    BY <1>0, <1>1, <2>1, <2>2 DEF PassMeetsFailure
<1> QED
  BY <1>2, <1>3

(* A pass that begins with what the server has serves no failure.          *)
LEMMA BeginMeetsNoFailure ==
  ASSUME Fresh, FailureInv, NEW n \in Names, Begin(n)
  PROVE  PassMeetsFailure'
<1>0. /\ TypeOK /\ bWatch[n] = <<>> /\ bWatch \in [Names -> Seq(Browsers)]
      /\ bCache[n] = browser[n] /\ req' = n /\ pc = "idle"
      /\ browser' = browser /\ bCache' = bCache /\ bWatch' = bWatch
  BY DEF FailureInv, NothingForgottenInv, WatchEndsInTruth, TypeOK, Begin, clusterVars,
         browserVars, cacheVars
<1>1. pc' = Route(bCache[n]) \/ pc' = "idle"
  BY <1>0 DEF Begin
<1>2. pc' \in Serving => bCache[n].phase # "Failed"
  BY <1>1, RouteFacts DEF Serving
<1>3. \A v \in BrowserVersions(n)' : v = bCache[n]
  <2>1. bWatch'[n] = <<>> /\ Len(<<>>) = 0
    BY <1>0
  <2>2. 1 .. Len(bWatch'[n]) = {}
    BY <2>1
  <2> QED
    BY <1>0, <2>2 DEF BrowserVersions
<1>4. pc' \notin {"killFailed", "failPod"}
  BY <1>1, RouteTells
<1> QED
  BY <1>0, <1>2, <1>3, <1>4 DEF PassMeetsFailure

(* The invariant holds at the start.                                       *)
LEMMA FailureInit == Init => FailureInv
<1> SUFFICES ASSUME Init PROVE FailureInv
  OBVIOUS
<1>1. pc = "idle" /\ \A n \in Names : /\ browser[n] = NoBrowser /\ bCache[n] = NoBrowser
                                      /\ bWatch[n] = <<>> /\ born[n] = 0
  BY DEF Init, ClusterInit
<1>2. ASSUME NEW n \in Names, NEW v \in BrowserVersions(n) PROVE v = NoBrowser
  <2>1. Len(bWatch[n]) = 0
    BY <1>1
  <2>2. \A i \in 1 .. Len(bWatch[n]) : FALSE
    BY <2>1
  <2> QED
    BY <1>1, <2>2 DEF BrowserVersions
<1>3. NoBrowser.uid = 0
  BY DEF NoBrowser, NewBrowser
<1>4. \A n \in Names : FailureStays(n)
  BY <1>1, <1>2, <1>3 DEF FailureStays, Exists
<1>5. PassMeetsFailure
  BY <1>1 DEF PassMeetsFailure, Serving
<1> QED
  BY <1>4, <1>5, NothingForgottenInit DEF FailureInv

FailureSurvives ==
  \A n \in Names :
    Exists(browser[n]) /\ browser[n].phase = "Failed" /\ browser'[n].uid = browser[n].uid
      => browser'[n].phase = "Failed"

(* Every step keeps the invariant, and every failure.                      *)
LEMMA FailureStep ==
  ASSUME Fresh, FailureInv, [Next]_vars
  PROVE  FailureInv' /\ FailureSurvives
<1>0. NothingForgottenInv /\ TypeOK /\ req \in Names /\ NothingForgottenInv'
  BY NothingForgottenStep DEF FailureInv, NothingForgottenInv, TypeOK
<1> SUFFICES (\A m \in Names : FailureStays(m))' /\ PassMeetsFailure' /\ FailureSurvives
  BY <1>0 DEF FailureInv
<1>1. CASE PassStep
  <2>1. PICK b \in Browsers : Writes(b)
    BY <1>0, <1>1, PassWrites
  <2>2. bCache' = bCache
    BY <1>0, <1>1, PassStepFrame DEF PassFrame, Undisturbed, cacheVars
  <2>3. \A m \in Names : m # req => browser'[m] = browser[m]
    BY <1>0, <2>1, <2>2, BrowserWritten DEF Writes
  <2>4. FailureSurvives
    <3>1. \A m \in Names : Exists(browser[m]) /\ browser'[m].uid = browser[m].uid
                             => Exists(browser'[m])
      BY DEF Exists
    <3> QED
      BY <1>1, <2>3, <3>1, PassKeepsFailures DEF FailureSurvives
  <2> QED
    BY <1>1, <2>4, PassKeepsFailures
<1>2. ASSUME NEW n \in Names, Environment(n)
      PROVE  (\A m \in Names : FailureStays(m))' /\ PassMeetsFailure' /\ FailureSurvives
  <2>0. ClusterNext(n) /\ bCache' = bCache /\ UNCHANGED passVars
    BY <1>2 DEF Environment, cacheVars
  <2>1. CASE EnvironmentMove(n)
    <3>1. PICK b \in Browsers : StoreBrowser(n, b) /\ BrowserMoves(n, browser[n], b)
      BY <2>1 DEF EnvironmentMove
    <3>2. /\ browser'[n] = b /\ \A m \in Names : m # n => browser'[m] = browser[m]
      BY <1>0, <2>0, <3>1, BrowserWritten
    <3>3. Exists(browser[n]) /\ b.uid = browser[n].uid => b.phase = browser[n].phase
      BY <3>1, ObjectTypes DEF BrowserMoves, Stays, Exists
    <3>4. FailureSurvives
      BY <3>2, <3>3 DEF FailureSurvives
    <3> QED
      BY <2>0, <3>1, <3>4, EnvironmentKeepsFailures
  <2>2. CASE PodLost(n)
    <3>1. UNCHANGED browserVars /\ born' = born
      BY <2>2 DEF PodLost
    <3>2. browser' = browser /\ \A m \in Names : BrowserVersions(m)' = BrowserVersions(m)
      BY <1>0, <2>0, <3>1, NothingWritten
    <3> QED
      BY <2>0, <3>1, <3>2, NoNewsKeepsFailures DEF FailureSurvives
  <2> QED
    BY <1>0, <2>0, <2>1, <2>2, EnvironmentMoves
<1>3. ASSUME NEW n \in Names, SyncBrowser(n) \/ SyncPod(n)
      PROVE  (\A m \in Names : FailureStays(m))' /\ PassMeetsFailure' /\ FailureSurvives
  <2>1. browser' = browser /\ born' = born /\ UNCHANGED passVars
    BY <1>3 DEF SyncBrowser, SyncPod, browserVars
  <2>2. \A m \in Names : BrowserVersions(m)' \subseteq BrowserVersions(m)
    <3>1. SyncPod(n) => UNCHANGED browserVars /\ bCache' = bCache
      BY DEF SyncPod
    <3> QED
      BY <1>0, <1>3, <3>1, VersionsDelivered, NothingWritten
  <2> QED
    BY <2>1, <2>2, NoNewsKeepsFailures DEF FailureSurvives
<1>4. ASSUME NEW n \in Names, Begin(n)
      PROVE  (\A m \in Names : FailureStays(m))' /\ PassMeetsFailure' /\ FailureSurvives
  <2>1. browser' = browser /\ born' = born /\ bCache' = bCache /\ UNCHANGED browserVars
    BY <1>4 DEF Begin, clusterVars, browserVars, cacheVars
  <2>2. \A m \in Names : BrowserVersions(m)' = BrowserVersions(m)
    BY <1>0, <2>1, NothingWritten
  <2>3. (\A m \in Names : FailureStays(m))'
    BY <2>1, <2>2 DEF FailureInv, FailureStays
  <2> QED
    BY <1>4, <2>1, <2>3, BeginMeetsNoFailure DEF FailureSurvives
<1>5. CASE CrashRestart
  <2>1. /\ browser' = browser /\ born' = born /\ pc' = "idle" /\ bCache' = browser
        /\ bWatch' = [n \in Names |-> <<>>]
    BY <1>5 DEF CrashRestart, EndPass
  <2>2. \A m \in Names : BrowserVersions(m)' \subseteq BrowserVersions(m)
    <3>1. \A m \in Names : 1 .. Len(bWatch'[m]) = {}
      BY <2>1
    <3> QED
      BY <2>1, <3>1 DEF BrowserVersions
  <2> QED
    BY <2>1, <2>2, NoNewsKeepsFailures DEF FailureSurvives
<1>6. CASE UNCHANGED vars
  <2>1. browser' = browser /\ born' = born /\ UNCHANGED passVars /\ bCache' = bCache
        /\ UNCHANGED browserVars
    BY <1>6 DEF vars, clusterVars, browserVars, cacheVars
  <2>2. \A m \in Names : BrowserVersions(m)' = BrowserVersions(m)
    BY <1>0, <2>1, NothingWritten
  <2> QED
    BY <2>1, <2>2, NoNewsKeepsFailures DEF FailureSurvives
<1> QED
  BY <1>1, <1>2, <1>3, <1>4, <1>5, <1>6 DEF Next

(* A Browser that has failed stays Failed, whichever calls fail, whenever  *)
(* the manager restarts and whatever becomes of the pods                   *)
(* (browser_reconciler.go:108-138, 179-190, 420-450).                      *)
THEOREM FailureIsTerminal ==
  ASSUME Fresh
  PROVE  Spec => FailedIsTerminal
<1>1. FailureInv /\ [Next]_vars => FailureInv'
  BY FailureStep
<1>2. FailureInv /\ [Next]_vars
        => [\A n \in Names :
              Exists(browser[n]) /\ browser[n].phase = "Failed"
                /\ browser'[n].uid = browser[n].uid
                => browser'[n].phase = "Failed"]_vars
  BY FailureStep DEF FailureSurvives
<1> QED
  BY <1>1, <1>2, FailureInit, PTL DEF Spec, FailedIsTerminal

-----------------------------------------------------------------------------
(* The finalizer goes after the Pod *)

(* A step of a pass counts the call that fails in it. *)
LEMMA FaultsCounted == PassStep => faults' = faults \/ Fault
<1> USE DEF NoFault, Patch, RemovePod
<1>1. ReleaseFailed \/ AddFinalizer \/ AssignLabels \/ SetPending \/ FailPod \/ FailPending
        \/ FailConfig \/ FailCritical \/ Mirror \/ Release \/ ReleaseDeleted
        => faults' = faults \/ Fault
  BY DEF ReleaseFailed, AddFinalizer, AssignLabels, SetPending, FailPod, FailPending,
         FailConfig, FailCritical, Mirror, Release, ReleaseDeleted
<1>2. KillFailed \/ KillBackoff \/ DeletePod \/ ForceDelete => faults' = faults \/ Fault
  BY DEF KillFailed, KillBackoff, DeletePod, ForceDelete
<1>3. GetPod \/ LookupConfig \/ CreatePod \/ DeleteBrowser \/ PodForDeletion
        => faults' = faults \/ Fault
  BY DEF GetPod, LookupConfig, CreatePod, DeleteBrowser, PodForDeletion
<1> QED
  BY <1>1, <1>2, <1>3 DEF PassStep

(* While no call may fail none does.                                       *)
LEMMA NoCallFails ==
  ASSUME MaxFaults = 0, TypeOK, PassStep
  PROVE  faults' = faults
<1>1. ~Fault
  BY DEF Fault, TypeOK
<1> QED
  BY <1>1, FaultsCounted

(* An informer that shows no Pod, or is about to, is right.                *)
GoneIsGone == \A v \in PodVersions(req) : ~Exists(v) => ~Exists(pod[req])

(* That stays so as long as no Pod is made.                                *)
LEMMA GoneStaysGone ==
  ASSUME TypeOK, NEW n \in Names, NEW p \in Pods, StorePod(n, p), pCache' = pCache, req' = req,
         Exists(p) => Exists(pod[n]), GoneIsGone
  PROVE  GoneIsGone' /\ (~Exists(pod[req]) => ~Exists(pod'[req]))
<1>1. /\ req \in Names /\ pod'[n] = p /\ PodVersions(n)' \subseteq PodVersions(n) \cup {p}
      /\ \A m \in Names : m # n => pod'[m] = pod[m] /\ PodVersions(m)' = PodVersions(m)
  BY PodWritten DEF TypeOK
<1>2. CASE n = req
  <2>1. \A v \in PodVersions(n)' : ~Exists(v) => ~Exists(p)
    BY <1>1, <1>2 DEF GoneIsGone
  <2> QED
    BY <1>1, <1>2, <2>1 DEF GoneIsGone, Exists
<1>3. CASE n # req
  <2>1. pod'[req] = pod[req] /\ \A v \in PodVersions(req)' : v \in PodVersions(req)
    BY <1>1, <1>3
  <2> QED
    BY <2>1 DEF GoneIsGone, Exists
<1> QED
  BY <1>2, <1>3

(* The invariant holds at the start.                                       *)
LEMMA GoneInit == Init => GoneInv
<1> SUFFICES ASSUME Init PROVE GoneInv
  OBVIOUS
<1>1. pc = "idle" /\ \A n \in Names : pWatch[n] = <<>> /\ pCache[n] = pod[n]
  BY DEF Init, ClusterInit
<1> QED
  BY <1>1, TypeInit DEF GoneInv, PodWatchEndsInTruth

(* Every step keeps it.                                                    *)
LEMMA GoneStep ==
  ASSUME Fresh, MaxFaults = 0, GoneInv, NothingForgottenInv, [Next]_vars
  PROVE  GoneInv'
<1>0. /\ TypeOK /\ PodWatchEndsInTruth /\ TypeOK' /\ req \in Names
      /\ pc # "idle" => GoneIsGone
      /\ pc = "releaseDeleted" => ~Exists(pod[req])
  BY TypeStep DEF GoneInv, GoneIsGone, TypeOK
<1> SUFFICES /\ PodWatchEndsInTruth'
             /\ pc' # "idle" => GoneIsGone'
             /\ pc' = "releaseDeleted" => ~Exists(pod[req])'
  BY <1>0 DEF GoneInv, GoneIsGone
<1> DEFINE Kept == /\ PodWatchEndsInTruth'
                   /\ pc' # "idle" => GoneIsGone'
                   /\ pc' = "releaseDeleted" => ~Exists(pod[req])'
<1>1. CASE PassStep
  <2>1. PodWrites /\ (pc' # "idle" => Leads) /\ pc # "idle" /\ faults' = faults
    BY <1>0, <1>1, PassLeads, NoCallFails, StepLabels DEF KeepsKind
  <2>2. req' = req /\ pCache' = pCache
    BY <1>0, <1>1, PassStepFrame DEF PassFrame, PassMove, Undisturbed, cacheVars
  <2>3. pc' = "releaseDeleted" =>
          \/ pc = "podForDeletion" /\ ~Exists(pCache[req])
          \/ pc = "forceDelete" /\ ~Exists(pod'[req])
    BY <2>1 DEF Leads
  <2>4. pc = "podForDeletion" /\ ~Exists(pCache[req]) => ~Exists(pod[req])
    BY <1>0, <2>1 DEF GoneIsGone, PodVersions
  <2>5. CASE UNCHANGED podVars
    <3>1. /\ pod' = pod /\ PodWatchEndsInTruth' = PodWatchEndsInTruth
          /\ \A m \in Names : PodVersions(m)' = PodVersions(m)
      BY <1>0, <2>2, <2>5, NothingWritten
    <3> QED
      BY <1>0, <2>1, <2>2, <2>3, <2>4, <3>1 DEF GoneIsGone, Exists
  <2>6. CASE /\ pc \in {"killFailed", "killBackoff", "deletePod", "forceDelete"}
             /\ \E p \in Pods : StorePod(req, p) /\ (Exists(p) => Exists(pod[req]))
    <3>1. PICK p \in Pods : StorePod(req, p) /\ (Exists(p) => Exists(pod[req]))
      BY <2>6
    <3>2. PodWatchEndsInTruth' /\ GoneIsGone'
      BY <1>0, <2>1, <2>2, <3>1, PodWritten, GoneStaysGone
    <3> QED
      BY <2>2, <2>3, <2>6, <3>2 DEF Exists
  <2>7. CASE MakePod /\ pc' = "idle"
    <3>1. made[req] + 1 \in Nat /\ lb.uid \in Nat
      <4>1. made[req] \in Nat /\ lb \in Browsers
        BY <1>0 DEF TypeOK
      <4>2. lb.uid \in Nat
        BY <4>1 DEF Browsers
      <4> QED
        BY <4>1, <4>2
    <3>2. NewPod(made[req] + 1, lb.uid) \in Pods
      BY <3>1, ObjectTypes
    <3> QED
      BY <1>0, <2>2, <2>7, <3>2, PodWritten DEF MakePod
  <2> QED
    BY <2>1, <2>5, <2>6, <2>7 DEF PodWrites
<1>2. ASSUME NEW n \in Names, Environment(n)
      PROVE  Kept
  <2>1. ClusterNext(n) /\ pCache' = pCache /\ pc' = pc /\ req' = req
    BY <1>2 DEF Environment, cacheVars, passVars
  <2>2. \E p \in Pods : StorePod(n, p) /\ (Exists(p) => Exists(pod[n]))
    BY <1>0, <2>1, EnvironmentMoves DEF EnvironmentMove, PodLost, PodMoves, Exists
  <2>3. PICK p \in Pods : StorePod(n, p) /\ (Exists(p) => Exists(pod[n]))
    BY <2>2
  <2>4. PodWatchEndsInTruth'
    BY <1>0, <2>1, <2>3, PodWritten
  <2>5. pc # "idle" => GoneIsGone' /\ (~Exists(pod[req]) => ~Exists(pod'[req]))
    BY <1>0, <2>1, <2>3, GoneStaysGone
  <2> QED
    BY <1>0, <2>1, <2>4, <2>5 DEF Exists
<1>3. ASSUME NEW n \in Names, SyncBrowser(n) \/ SyncPod(n)
      PROVE  Kept
  <2>1. pod' = pod /\ pc' = pc /\ req' = req
    BY <1>3 DEF SyncBrowser, SyncPod, podVars, passVars
  <2>2. PodWatchEndsInTruth' /\ \A m \in Names : PodVersions(m)' \subseteq PodVersions(m)
    <3>1. SyncBrowser(n) => UNCHANGED podVars /\ pCache' = pCache
      BY DEF SyncBrowser
    <3> QED
      BY <1>0, <1>3, <3>1, VersionsDelivered, NothingWritten
  <2>3. PodVersions(req)' \subseteq PodVersions(req)
    BY <1>0, <2>1, <2>2
  <2> QED
    BY <1>0, <2>1, <2>2, <2>3 DEF GoneIsGone, Exists
<1>4. ASSUME NEW n \in Names, Begin(n)
      PROVE  Kept
  <2>1. /\ UNCHANGED podVars /\ pCache' = pCache /\ req' = n /\ pWatch[n] = <<>>
        /\ pod' = pod /\ pWatch' = pWatch
        /\ pc' = Route(bCache[n]) \/ pc' = "idle"
    BY <1>4 DEF Begin, clusterVars, cacheVars, podVars
  <2>2. PodWatchEndsInTruth' /\ pCache[n] = pod[n]
    BY <1>0, <2>1, NothingWritten DEF PodWatchEndsInTruth
  <2>3. GoneIsGone'
    <3>1. Len(<<>>) = 0
      OBVIOUS
    <3>2. \A i \in 1 .. Len(pWatch[n]) : FALSE
      BY <2>1, <3>1
    <3> QED
      BY <2>1, <2>2, <3>2 DEF GoneIsGone, PodVersions
  <2>4. pc' # "releaseDeleted"
    BY <2>1, RouteTells
  <2> QED
    BY <2>2, <2>3, <2>4
<1>5. CASE CrashRestart
  <2>1. pod' = pod /\ pCache' = pod /\ pWatch' = [n \in Names |-> <<>>] /\ pc' = "idle"
    BY <1>5 DEF CrashRestart, EndPass
  <2> QED
    BY <2>1 DEF PodWatchEndsInTruth
<1>6. CASE UNCHANGED vars
  <2>1. /\ pod' = pod /\ pCache' = pCache /\ UNCHANGED podVars /\ pc' = pc /\ req' = req
    BY <1>6 DEF vars, clusterVars, podVars, cacheVars, passVars
  <2>2. PodWatchEndsInTruth' /\ \A m \in Names : PodVersions(m)' = PodVersions(m)
    BY <1>0, <2>1, NothingWritten
  <2> QED
    BY <1>0, <2>1, <2>2 DEF GoneIsGone, Exists
<1> QED
  BY <1>1, <1>2, <1>3, <1>4, <1>5, <1>6 DEF Next

(* The finalizer is taken off a deleted Browser when its Pod is gone, as   *)
(* long as no call fails: a failed read of the Pod counts as "no pod"      *)
(* (browser_reconciler.go:274-323).                                        *)
THEOREM CleanedUpBeforeRelease ==
  ASSUME Fresh, MaxFaults = 0
  PROVE  Spec => []CleanupBeforeRelease
<1>1. NothingForgottenInv /\ GoneInv /\ [Next]_vars => (NothingForgottenInv /\ GoneInv)'
  BY NothingForgottenStep, GoneStep
<1>2. GoneInv => CleanupBeforeRelease
  BY DEF GoneInv, CleanupBeforeRelease
<1> QED
  BY <1>1, <1>2, NothingForgottenInit, GoneInit, PTL DEF Spec

-----------------------------------------------------------------------------
(* No pod is made too many *)

(* What AccountInv says beyond the invariants it rests on.                 *)
Accounts ==
  /\ PodsAccountedFor /\ \A n \in Names : SpentIsServed(n)
  /\ pc # "idle" => PassGuards /\ PassLeavesRoom /\ PassWhenSpent

(* While the numbers of pods and Browsers of a name stay the same, nothing *)
(* is spent that was not, and a further failure leaves room again.         *)
LEMMA Spending ==
  ASSUME TypeOK, PodsAccountedFor, NEW m \in Names,
         made'[m] = made[m], born'[m] = born[m], losses'[m] = losses[m], crashes' = crashes,
         faults' = faults \/ faults' = faults + 1
  PROVE  /\ made'[m] <= born'[m] + Disturbances(m)'
         /\ Spent(m)' => Spent(m) /\ faults' = faults
<1>1. /\ made[m] \in Nat /\ born[m] \in Nat /\ losses[m] \in Nat /\ crashes \in Nat
      /\ faults \in Nat /\ made[m] <= born[m] + (faults + crashes + losses[m])
  BY DEF TypeOK, PodsAccountedFor, Disturbances
<1>2. Disturbances(m)' = faults' + crashes + losses[m]
  BY DEF Disturbances
<1>3. made'[m] <= born'[m] + Disturbances(m)'
  BY <1>1, <1>2
<1>4. Spent(m)' => made[m] = born[m] + (faults' + crashes + losses[m])
  BY <1>2 DEF Spent
<1>5. Spent(m)' => faults' = faults
  BY <1>1, <1>4
<1> QED
  BY <1>2, <1>3, <1>4, <1>5 DEF Spent, Disturbances

(* A name that a step leaves alone stays served.                           *)
LEMMA OthersStayServed ==
  ASSUME TypeOK, PodsAccountedFor, NEW m \in Names, SpentIsServed(m),
         browser'[m] = browser[m], pod'[m] = pod[m], made'[m] = made[m], born'[m] = born[m],
         losses'[m] = losses[m], crashes' = crashes, faults' = faults \/ faults' = faults + 1,
         req # m \/ pc \notin {"failPod", "failPending"} \/ (pc' = pc /\ req' = req)
  PROVE  made'[m] <= born'[m] + Disturbances(m)' /\ SpentIsServed(m)'
<1>1. /\ made'[m] <= born'[m] + Disturbances(m)'
      /\ Spent(m)' => Spent(m)
  BY Spending
<1>2. SpentIsServed(m)'
  BY <1>1 DEF SpentIsServed, HasPod, Exists
<1> QED
  BY <1>1, <1>2

(* How the surroundings of n leave what is spent there served.             *)
LEMMA SurroundingsServe ==
  ASSUME AccountInv, NEW n \in Names, NEW b \in Browsers, NEW p \in Pods,
         StoreBrowser(n, b), StorePod(n, p), bCache' = bCache, pCache' = pCache,
         BrowserMoves(n, browser[n], b), PodMoves(browser[n], pod[n], p),
         made' = made, losses' = losses, crashes' = crashes, faults' = faults,
         UNCHANGED passVars
  PROVE  Accounts'
<1> SUFFICES /\ PodsAccountedFor' /\ \A m \in Names : SpentIsServed(m)'
             /\ pc # "idle" => (PassGuards /\ PassLeavesRoom /\ PassWhenSpent)'
  BY DEF Accounts, passVars
<1>0. /\ TypeOK /\ PodsAccountedFor /\ (\A m \in Names : SpentIsServed(m)) /\ NameKnown
      /\ pc' = pc /\ req' = req /\ lb' = lb /\ lp' = lp /\ req \in Names
      /\ pc # "idle" => /\ PassGuards /\ PassLeavesRoom /\ PassWhenSpent
                        /\ Exists(lb) /\ lb.uid <= born[req]
  BY DEF AccountInv, CleanupInv, DeletionInv, NothingForgottenInv, NameKnown, TypeOK, passVars
<1>1. /\ browser'[n] = b /\ BrowserVersions(n)' \subseteq BrowserVersions(n) \cup {b}
      /\ \A m \in Names : m # n =>
           browser'[m] = browser[m] /\ BrowserVersions(m)' = BrowserVersions(m)
  BY <1>0, BrowserWritten
<1>2. /\ pod'[n] = p /\ PodVersions(n)' \subseteq PodVersions(n) \cup {p}
      /\ \A m \in Names : m # n => pod'[m] = pod[m] /\ PodVersions(m)' = PodVersions(m)
  BY <1>0, PodWritten
<1>3. /\ made[n] \in Nat /\ born[n] \in Nat /\ Disturbances(n) \in Nat
      /\ made[n] <= born[n] + Disturbances(n) /\ born \in [Names -> Nat]
      /\ \A m \in Names : Disturbances(m)' = Disturbances(m)
  <2>1. /\ made[n] \in Nat /\ born[n] \in Nat /\ losses[n] \in Nat
        /\ faults \in Nat /\ crashes \in Nat /\ born \in [Names -> Nat]
    BY <1>0 DEF TypeOK
  <2>2. Disturbances(n) \in Nat /\ \A m \in Names : Disturbances(m)' = Disturbances(m)
    BY <2>1 DEF Disturbances
  <2> QED
    BY <1>0, <2>1, <2>2 DEF PodsAccountedFor
<1>4. \A m \in Names : m # n => born'[m] = born[m]
  BY <1>3 DEF BrowserMoves
<1>5. ASSUME NEW m \in Names, m # n
      PROVE  made'[m] <= born'[m] + Disturbances(m)' /\ SpentIsServed(m)'
  <2>1. /\ TypeOK /\ PodsAccountedFor /\ SpentIsServed(m)
        /\ browser'[m] = browser[m] /\ pod'[m] = pod[m] /\ made'[m] = made[m]
        /\ born'[m] = born[m] /\ losses'[m] = losses[m] /\ pc' = pc /\ req' = req
    BY <1>0, <1>1, <1>2, <1>4, <1>5
  <2> QED
    BY <2>1, OthersStayServed
<1>o. ASSUME pc # "idle", req # n PROVE (PassGuards /\ PassLeavesRoom /\ PassWhenSpent)'
  <2>1. /\ browser'[req] = browser[req] /\ pod'[req] = pod[req] /\ born'[req] = born[req]
        /\ BrowserVersions(req)' = BrowserVersions(req)
        /\ PodVersions(req)' = PodVersions(req)
        /\ Disturbances(req)' = Disturbances(req)
    BY <1>0, <1>1, <1>2, <1>3, <1>4, <1>o
  <2>2. PassGuards'
    BY <1>0, <1>o, <2>1 DEF PassGuards, Same, Exists
  <2>3. PassLeavesRoom'
    BY <1>0, <1>o, <2>1 DEF PassLeavesRoom
  <2>4. PassWhenSpent'
    BY <1>0, <1>o, <2>1 DEF PassWhenSpent, Spent, HasPod, Exists
  <2> QED
    BY <2>2, <2>3, <2>4
<1>6. CASE born' = [born EXCEPT ![n] = @ + 1] /\ b = NewBrowser(born[n] + 1)
           /\ ~Exists(browser[n])
  <2>1. born'[n] = born[n] + 1 /\ b.uid = born[n] + 1
    BY <1>3, <1>6 DEF NewBrowser
  <2>2. ~Spent(n)' /\ made'[n] <= born'[n] + Disturbances(n)'
    BY <1>3, <2>1 DEF Spent
  <2>3. PodsAccountedFor' /\ \A m \in Names : SpentIsServed(m)'
    BY <1>5, <2>2 DEF PodsAccountedFor, SpentIsServed
  <2>4. ASSUME pc # "idle", req = n PROVE (PassGuards /\ PassLeavesRoom /\ PassWhenSpent)'
    <3>1. lb.uid \in Nat /\ lb.uid # b.uid
      <4>1. lb \in Browsers
        BY <1>0 DEF TypeOK
      <4>2. lb.uid \in Nat
        BY <4>1 DEF Browsers
      <4> QED
        BY <1>0, <1>3, <2>1, <2>4, <4>2
    <3>2. ~Same' /\ \A v \in BrowserVersions(n)' : v.uid = lb.uid => v \in BrowserVersions(n)
      BY <1>0, <1>1, <2>4, <3>1 DEF Same
    <3>3. PassGuards'
      BY <1>0, <2>4, <3>2 DEF PassGuards
    <3>4. pc \in Guarding \cup {"finalizer"} => ~Spent(n)
      BY <1>0, <1>6, <2>4 DEF PassWhenSpent, HasPod, Guarding
    <3>5. ~Spent(n) => made'[n] + 1 < born'[n] + Disturbances(n)'
      BY <1>3, <2>1 DEF Spent
    <3>6. PassLeavesRoom'
      BY <1>0, <2>4, <3>4, <3>5 DEF PassLeavesRoom
    <3>7. PassWhenSpent'
      BY <1>0, <2>2, <2>4 DEF PassWhenSpent
    <3> QED
      BY <3>3, <3>6, <3>7
  <2> QED
    BY <1>o, <2>2, <2>3, <2>4
<1>7. CASE born' = born /\ (Stays(browser[n], b) \/ (b = NoBrowser /\ Own \notin browser[n].fins))
  <2>1. /\ Exists(b) => Exists(browser[n]) /\ Stays(browser[n], b)
        /\ b = NoBrowser => b.uid = 0
    BY <1>7, ObjectTypes DEF Stays, Exists
  <2>2. made'[n] <= born'[n] + Disturbances(n)' /\ (Spent(n)' <=> Spent(n))
    BY <1>3, <1>7 DEF Spent
  <2>3. /\ HasPod(n) /\ Own \in browser[n].fins => Stays(browser[n], b)
        /\ HasPod(n) /\ ~pod[n].deleting => Exists(p) /\ p.owner = pod[n].owner /\ ~p.deleting
    <3>1. HasPod(n) /\ ~pod[n].deleting => p.uid = pod[n].uid /\ p.owner = pod[n].owner
                                           /\ p.deleting = pod[n].deleting
      BY DEF PodMoves, HasPod
    <3>2. pod[n].deleting \in BOOLEAN /\ p.deleting \in BOOLEAN
      <4>1. pod[n] \in Pods
        BY <1>0 DEF TypeOK
      <4> QED
        BY <4>1 DEF Pods
    <3> QED
      BY <1>7, <3>1, <3>2 DEF HasPod, Exists
  <2>4. SpentIsServed(n)'
    <3>1. SUFFICES ASSUME Spent(n), Exists(b), ~b.deleting, b.phase # "Failed"
                   PROVE  \/ /\ Exists(p) /\ p.owner = b.uid /\ ~p.deleting
                             /\ Own \in b.fins
                          \/ pc \in {"failPod", "failPending"} /\ req = n
      BY <1>0, <1>1, <1>2, <2>2 DEF SpentIsServed, HasPod, Exists
    <3>2. /\ Exists(browser[n]) /\ ~browser[n].deleting /\ browser[n].phase # "Failed"
          /\ b.uid = browser[n].uid /\ (Own \in b.fins <=> Own \in browser[n].fins)
      BY <2>1, <3>1 DEF Stays
    <3>3. SpentIsServed(n)
      BY <1>0
    <3> QED
      BY <2>3, <3>1, <3>2, <3>3 DEF SpentIsServed, HasPod
  <2>5. PodsAccountedFor' /\ \A m \in Names : SpentIsServed(m)'
    BY <1>5, <2>2, <2>4 DEF PodsAccountedFor
  <2>6. ASSUME pc # "idle", req = n PROVE (PassGuards /\ PassLeavesRoom /\ PassWhenSpent)'
    <3>0. /\ browser[n] \in BrowserVersions(n) /\ lb.uid # 0
          /\ browser'[n] = b /\ pod'[n] = p /\ pc' = pc /\ req' = n /\ lb' = lb
      BY <1>0, <1>1, <1>2, <2>6 DEF BrowserVersions, Exists
    <3>1. Same' => Same /\ Stays(browser[n], b)
      BY <2>1, <2>6, <3>0 DEF Same, Exists, Stays
    <3>2. PassGuards'
      <4>1. Same' => \A v \in BrowserVersions(n) \cup {b} : v.uid = lb.uid
        BY <1>0, <2>6, <3>0, <3>1 DEF PassGuards, Same, Exists
      <4>2. pc = "finalizer" =>
              \A v \in BrowserVersions(n) \cup {b} : v.uid = lb.uid => Own \notin v.fins
        BY <1>0, <1>7, <2>1, <2>6, <3>0 DEF PassGuards, Stays
      <4>3. pc \in Guarding /\ Same' => Own \in b.fins
        BY <1>0, <2>6, <3>1 DEF PassGuards, Stays
      <4>4. pc \in Deleting /\ Same' => b.deleting
        BY <1>0, <2>6, <3>1 DEF PassGuards, Stays
      <4>5. BrowserVersions(req)' \subseteq BrowserVersions(n) \cup {b}
        BY <1>1, <3>0
      <4> QED
        BY <3>0, <4>1, <4>2, <4>3, <4>4, <4>5 DEF PassGuards
    <3>3. PassLeavesRoom'
      BY <1>0, <1>3, <1>7, <2>6, <3>0 DEF PassLeavesRoom
    <3>4. PassWhenSpent'
      <4>1. SUFFICES ASSUME Spent(n)
                     PROVE  /\ lb.uid = born[n]
                            /\ pc \notin {"finalizer", "lookupConfig", "createPod", "failConfig"}
                            /\ pc \in {"label", "setPending", "getPod"}
                                 => /\ HasPod(n)'
                                    /\ \A v \in PodVersions(n)' : Exists(v) /\ ~v.deleting
                            /\ pc \in {"release", "deleteBrowser", "releaseFailed"} /\ Exists(b)
                                 => b.phase = "Failed"
        BY <1>7, <2>2, <3>0 DEF PassWhenSpent, Exists
      <4>2. PassWhenSpent /\ PassGuards
        BY <1>0, <2>6
      <4>3. ASSUME pc \in {"label", "setPending", "getPod"}
            PROVE  HasPod(n)' /\ \A v \in PodVersions(n)' : Exists(v) /\ ~v.deleting
        <5>1. HasPod(n) /\ \A v \in PodVersions(n) : Exists(v) /\ ~v.deleting
          BY <2>6, <4>1, <4>2, <4>3 DEF PassWhenSpent
        <5>2. Same /\ pod[n] \in PodVersions(n)
          BY <1>0, <2>6, <4>1, <4>2, <5>1 DEF PassWhenSpent, Same, HasPod, NameKnown, PodVersions
        <5>3. Own \in browser[n].fins
          BY <2>6, <4>2, <4>3, <5>2 DEF PassGuards, Guarding
        <5>4. Exists(p) /\ ~p.deleting /\ p.owner = pod[n].owner /\ b.uid = browser[n].uid
          BY <2>3, <5>1, <5>2, <5>3 DEF Stays
        <5> QED
          BY <1>2, <3>0, <5>1, <5>4 DEF HasPod, Exists
      <4> QED
        BY <2>1, <2>6, <4>1, <4>2, <4>3 DEF PassWhenSpent, Stays
    <3> QED
      BY <3>2, <3>3, <3>4
  <2> QED
    BY <1>o, <2>5, <2>6
<1> QED
  BY <1>6, <1>7 DEF BrowserMoves

(* A pod that is lost leaves room for another one.                         *)
LEMMA LossLeavesRoom ==
  ASSUME AccountInv, NEW n \in Names, PodLost(n), bCache' = bCache, pCache' = pCache,
         UNCHANGED passVars, crashes' = crashes, faults' = faults
  PROVE  Accounts'
<1>0. /\ TypeOK /\ PodsAccountedFor /\ (\A m \in Names : SpentIsServed(m)) /\ req \in Names
      /\ pc' = pc /\ req' = req /\ lb' = lb
      /\ browser' = browser /\ born' = born /\ made' = made
      /\ pc # "idle" => PassGuards /\ PassLeavesRoom /\ PassWhenSpent
  BY DEF AccountInv, CleanupInv, DeletionInv, NothingForgottenInv, TypeOK, passVars, PodLost,
         browserVars
<1>1. PICK p \in Pods : StorePod(n, p)
  BY DEF PodLost
<1>2. \A m \in Names : m # n => pod'[m] = pod[m] /\ PodVersions(m)' = PodVersions(m)
  BY <1>0, <1>1, PodWritten
<1>3. \A m \in Names : BrowserVersions(m)' = BrowserVersions(m)
  BY <1>0, NothingWritten DEF PodLost
<1>4. /\ made[n] \in Nat /\ born[n] \in Nat /\ Disturbances(n) \in Nat
      /\ Disturbances(n)' = Disturbances(n) + 1
      /\ \A m \in Names : m # n => losses'[m] = losses[m]
  <2>1. /\ made[n] \in Nat /\ born[n] \in Nat /\ losses[n] \in Nat
        /\ faults \in Nat /\ crashes \in Nat /\ losses \in [Names -> Nat]
    BY <1>0 DEF TypeOK
  <2>2. losses'[n] = losses[n] + 1 /\ \A m \in Names : m # n => losses'[m] = losses[m]
    BY <2>1 DEF PodLost
  <2>3. Disturbances(n) \in Nat /\ Disturbances(n)' = Disturbances(n) + 1
    BY <2>1, <2>2 DEF Disturbances
  <2> QED
    BY <2>1, <2>2, <2>3
<1>5. /\ made'[n] <= born'[n] + Disturbances(n)' /\ ~Spent(n)'
      /\ made[n] + 1 < born[n] + Disturbances(n) => made'[n] + 1 < born'[n] + Disturbances(n)'
  BY <1>0, <1>4 DEF PodsAccountedFor, Spent
<1>6. ASSUME NEW m \in Names, m # n
      PROVE  made'[m] <= born'[m] + Disturbances(m)' /\ SpentIsServed(m)'
  BY <1>0, <1>2, <1>4, <1>6, OthersStayServed
<1>7. PodsAccountedFor' /\ \A m \in Names : SpentIsServed(m)'
  BY <1>5, <1>6 DEF PodsAccountedFor, SpentIsServed
<1>8. ASSUME pc # "idle" PROVE (PassGuards /\ PassLeavesRoom /\ PassWhenSpent)'
  <2>1. PassGuards'
    BY <1>0, <1>3, <1>8 DEF PassGuards, Same, Exists
  <2>2. CASE req = n
    <3>1. PassLeavesRoom'
      BY <1>0, <1>5, <1>8, <2>2 DEF PassLeavesRoom
    <3>2. PassWhenSpent'
      BY <1>0, <1>5, <2>2 DEF PassWhenSpent
    <3> QED
      BY <2>1, <3>1, <3>2
  <2>3. CASE req # n
    <3>1. /\ pod'[req] = pod[req] /\ PodVersions(req)' = PodVersions(req)
          /\ Disturbances(req)' = Disturbances(req)
      BY <1>0, <1>2, <1>4, <2>3 DEF Disturbances
    <3>2. PassLeavesRoom'
      BY <1>0, <1>8, <3>1 DEF PassLeavesRoom
    <3>3. PassWhenSpent'
      BY <1>0, <1>8, <3>1 DEF PassWhenSpent, Spent, HasPod, Exists
    <3> QED
      BY <2>1, <3>2, <3>3
  <2> QED
    BY <2>2, <2>3
<1> QED
  BY <1>0, <1>7, <1>8 DEF Accounts

(* So does a restart.                                                      *)
LEMMA RestartLeavesRoom ==
  ASSUME AccountInv, CrashRestart
  PROVE  Accounts' /\ PodWatchEndsInTruth'
<1>0. /\ TypeOK /\ PodsAccountedFor /\ pc' = "idle" /\ crashes' = crashes + 1
      /\ born' = born /\ made' = made /\ losses' = losses /\ faults' = faults
      /\ pod' = pod /\ pCache' = pod /\ pWatch' = [m \in Names |-> <<>>]
  BY DEF AccountInv, CleanupInv, DeletionInv, NothingForgottenInv, CrashRestart, EndPass
<1>1. ASSUME NEW n \in Names PROVE made'[n] <= born'[n] + Disturbances(n)' /\ ~Spent(n)'
  <2>1. /\ made[n] \in Nat /\ born[n] \in Nat /\ losses[n] \in Nat
        /\ faults \in Nat /\ crashes \in Nat
    BY <1>0 DEF TypeOK
  <2>2. Disturbances(n) \in Nat /\ Disturbances(n)' = Disturbances(n) + 1
    BY <1>0, <2>1 DEF Disturbances
  <2>3. made[n] <= born[n] + Disturbances(n)
    BY <1>0 DEF PodsAccountedFor
  <2> QED
    BY <1>0, <2>1, <2>2, <2>3 DEF Spent
<1> QED
  BY <1>0, <1>1 DEF Accounts, PodsAccountedFor, SpentIsServed, PodWatchEndsInTruth

(* The delivery of a version tells a pass nothing it should not know.      *)
LEMMA DeliveryAccounts ==
  ASSUME AccountInv, browser' = browser, pod' = pod, born' = born, made' = made,
         losses' = losses, faults' = faults, crashes' = crashes, UNCHANGED passVars,
         \A m \in Names : BrowserVersions(m)' \subseteq BrowserVersions(m),
         \A m \in Names : PodVersions(m)' \subseteq PodVersions(m)
  PROVE  Accounts'
<1>0. /\ TypeOK /\ PodsAccountedFor /\ (\A m \in Names : SpentIsServed(m)) /\ req \in Names
      /\ pc' = pc /\ req' = req /\ lb' = lb
      /\ pc # "idle" => PassGuards /\ PassLeavesRoom /\ PassWhenSpent
  BY DEF AccountInv, CleanupInv, DeletionInv, NothingForgottenInv, TypeOK, passVars
<1>1. \A m \in Names : /\ Disturbances(m)' = Disturbances(m) /\ (Spent(m)' <=> Spent(m))
                       /\ (HasPod(m)' <=> HasPod(m))
  BY DEF Disturbances, Spent, HasPod, Exists
<1>2. PodsAccountedFor' /\ \A m \in Names : SpentIsServed(m)'
  BY <1>0, <1>1 DEF PodsAccountedFor, SpentIsServed, Exists
<1>3. ASSUME pc # "idle" PROVE (PassGuards /\ PassLeavesRoom /\ PassWhenSpent)'
  <2>1. /\ BrowserVersions(req)' \subseteq BrowserVersions(req)
        /\ PodVersions(req)' \subseteq PodVersions(req)
    BY <1>0
  <2>2. PassGuards'
    BY <1>0, <1>3, <2>1 DEF PassGuards, Same, Exists
  <2>3. PassLeavesRoom'
    BY <1>0, <1>1, <1>3 DEF PassLeavesRoom
  <2>4. PassWhenSpent'
    BY <1>0, <1>1, <1>3, <2>1 DEF PassWhenSpent, Exists
  <2> QED
    BY <2>2, <2>3, <2>4
<1> QED
  BY <1>0, <1>2, <1>3 DEF Accounts

(* A pass that begins knows its Browser and its Pod as they are.           *)
LEMMA BeginAccounts ==
  ASSUME Fresh, AccountInv, NEW n \in Names, Begin(n)
  PROVE  Accounts' /\ PodWatchEndsInTruth'
<1>0. /\ TypeOK /\ PodsAccountedFor /\ (\A m \in Names : SpentIsServed(m)) /\ NameKnown
      /\ WatchEndsInTruth /\ PodWatchEndsInTruth
      /\ bWatch[n] = <<>> /\ pWatch[n] = <<>> /\ pc = "idle" /\ req' = n
      /\ browser' = browser /\ pod' = pod /\ born' = born /\ made' = made /\ losses' = losses
      /\ faults' = faults /\ crashes' = crashes /\ bCache' = bCache /\ pCache' = pCache
      /\ bWatch' = bWatch /\ pWatch' = pWatch
      /\ \/ pc' = "idle"
         \/ pc' = Route(bCache[n]) /\ lb' = bCache[n] /\ Exists(bCache[n])
  BY DEF AccountInv, CleanupInv, DeletionInv, NothingForgottenInv, Begin, clusterVars,
         browserVars, podVars, cacheVars
<1>1. bCache[n] = browser[n] /\ pCache[n] = pod[n]
  BY <1>0 DEF WatchEndsInTruth, PodWatchEndsInTruth
<1>2. /\ \A m \in Names : /\ Disturbances(m)' = Disturbances(m) /\ (Spent(m)' <=> Spent(m))
                          /\ (HasPod(m)' <=> HasPod(m))
      /\ Same' <=> Exists(browser[n]) /\ browser[n].uid = lb'.uid
  BY <1>0 DEF Disturbances, Spent, HasPod, Exists, Same
<1>3. PodWatchEndsInTruth' /\ PodsAccountedFor' /\ \A m \in Names : SpentIsServed(m)'
  BY <1>0, <1>2 DEF PodWatchEndsInTruth, PodsAccountedFor, SpentIsServed, Exists
<1>4. /\ \A v \in BrowserVersions(n)' : v = browser[n]
      /\ \A v \in PodVersions(n)' : v = pod[n]
  <2>1. Len(<<>>) = 0
    OBVIOUS
  <2>2. (\A i \in 1 .. Len(bWatch[n]) : FALSE) /\ (\A i \in 1 .. Len(pWatch[n]) : FALSE)
    BY <1>0, <2>1
  <2> QED
    BY <1>0, <1>1, <2>2 DEF BrowserVersions, PodVersions
<1>5. ASSUME pc' # "idle" PROVE (PassGuards /\ PassLeavesRoom /\ PassWhenSpent)'
  <2> DEFINE b == browser[n]
  <2>1. pc' = Route(b) /\ lb' = b /\ Exists(b) /\ b.uid = born[n] /\ born[n] \in Nat
    BY <1>0, <1>1, <1>5 DEF NameKnown, TypeOK
  <2>2. /\ pc' = "finalizer" => Own \notin b.fins
        /\ pc' \in {"label", "setPending", "getPod"} => Own \in b.fins
        /\ pc' = "podForDeletion" => b.deleting
        /\ pc' = "releaseFailed" => b.phase = "Failed"
        /\ pc' \in {"finalizer", "label", "setPending", "getPod"}
             => ~b.deleting /\ b.phase # "Failed"
        /\ pc' \in {"done", "finalizer", "label", "setPending", "getPod", "releaseFailed",
                    "podForDeletion"}
    BY <2>1, RouteTells, RouteFacts DEF Serving, Labels, Leaving
  <2> HIDE DEF b
  <2>3. PassGuards'
    <3>1. /\ Same' => \A v \in BrowserVersions(n)' : v.uid = b.uid
          /\ \A v \in BrowserVersions(n)' : v.fins = b.fins
          /\ pc' \in Guarding => Own \in b.fins
          /\ pc' \in Deleting => b.deleting
      BY <1>4, <2>2 DEF b, Guarding, Deleting
    <3> QED
      BY <1>0, <2>1, <2>2, <3>1 DEF PassGuards, b
  <2>4. PassLeavesRoom'
    BY <1>0, <2>1 DEF PassLeavesRoom
  <2>5. PassWhenSpent'
    <3>1. SpentIsServed(n)
      BY <1>0
    <3>2. Spent(n) /\ pc' \in {"finalizer", "label", "setPending", "getPod"}
            => HasPod(n) /\ ~pod[n].deleting /\ Own \in b.fins
      BY <1>0, <2>1, <2>2, <3>1 DEF SpentIsServed, b
    <3>3. Spent(n) => /\ pc' # "finalizer"
                      /\ pc' \in {"label", "setPending", "getPod"}
                           => HasPod(n) /\ Exists(pod[n]) /\ ~pod[n].deleting
      BY <2>2, <3>2 DEF HasPod
    <3> QED
      BY <1>0, <1>2, <1>4, <2>1, <2>2, <3>3 DEF PassWhenSpent, Exists, b
  <2> QED
    BY <2>3, <2>4, <2>5
<1> QED
  BY <1>3, <1>5 DEF Accounts

(* A step of a pass makes no pod too many, and what is spent stays served. *)
LEMMA PassAccounts ==
  ASSUME AccountInv, PassStep
  PROVE  Accounts' /\ PodWatchEndsInTruth'
<1>0. /\ TypeOK /\ NothingForgottenInv /\ FailureInv /\ PodsAccountedFor /\ NameKnown
      /\ (\A m \in Names : SpentIsServed(m)) /\ SpentIsServed(req) /\ req \in Names
      /\ pc # "idle" /\ PodWatchEndsInTruth
      /\ PassGuards /\ PassLeavesRoom /\ PassWhenSpent
      /\ FailureStays(req) /\ browser[req] \in BrowserVersions(req)
      /\ Cached \in BrowserVersions(req) /\ pod[req] \in PodVersions(req)
      /\ pCache[req] \in PodVersions(req)
  BY StepLabels DEF AccountInv, CleanupInv, DeletionInv, NothingForgottenInv, FailureInv, TypeOK,
                    KeepsKind, BrowserVersions, PodVersions, Cached
<1>1. PICK b \in Browsers : Writes(b)
  BY <1>0, PassWrites
<1>2. /\ PodWrites /\ (pc' # "idle" => Leads)
      /\ faults' = faults \/ faults' = faults + 1
      /\ pc = "killFailed" /\ faults' = faults => pc' = "failPod"
      /\ pc = "killBackoff" /\ faults' = faults => pc' = "failPending"
  BY <1>0, PassLeads
<1>3. /\ req' = req /\ bCache' = bCache /\ pCache' = pCache /\ born' = born
      /\ losses' = losses /\ crashes' = crashes
  BY <1>0, PassStepFrame DEF PassFrame, PassMove, Undisturbed, cacheVars
<1>4. /\ browser'[req] = b /\ BrowserVersions(req)' \subseteq BrowserVersions(req) \cup {b}
      /\ \A m \in Names : m # req => browser'[m] = browser[m]
  BY <1>0, <1>1, <1>3, BrowserWritten DEF Writes
<1>5. /\ Exists(b) => Exists(browser[req]) /\ b.uid = browser[req].uid
                      /\ (browser[req].deleting => b.deleting)
      /\ Exists(b) /\ browser[req].phase = "Failed" => b.phase = "Failed"
  <2>1. Exists(b) => Exists(browser[req]) /\ b.uid = browser[req].uid
                      /\ (browser[req].deleting => b.deleting)
    BY <1>1 DEF Writes, Continues, Exists
  <2> QED
    BY <1>0, <1>4, <2>1, PassKeepsFailures
<1>6. /\ made[req] \in Nat /\ born[req] \in Nat /\ Disturbances(req) \in Nat
      /\ made[req] <= born[req] + Disturbances(req) /\ made \in [Names -> Nat]
      /\ lb.uid \in Nat /\ lb.uid <= born[req] /\ lb.uid # 0
      /\ Exists(browser[req]) => browser[req].uid = born[req]
      /\ Disturbances(req)' = Disturbances(req) \/ Disturbances(req)' = Disturbances(req) + 1
  <2>1. /\ made[req] \in Nat /\ born[req] \in Nat /\ losses[req] \in Nat /\ crashes \in Nat
        /\ faults \in Nat /\ made \in [Names -> Nat] /\ lb \in Browsers /\ Exists(lb)
    BY <1>0 DEF TypeOK
  <2>2. lb.uid \in Nat /\ lb.uid # 0
    BY <2>1 DEF Browsers, Exists
  <2>3. Disturbances(req) \in Nat
    BY <2>1 DEF Disturbances
  <2>4. Disturbances(req)' = Disturbances(req) \/ Disturbances(req)' = Disturbances(req) + 1
    BY <1>2, <1>3, <2>1 DEF Disturbances
  <2> QED
    BY <1>0, <2>1, <2>2, <2>3, <2>4 DEF NameKnown, PodsAccountedFor
(* Where one pod more would be too many, the name has not changed hands.   *)
<1>7. ASSUME Spent(req), Exists(browser[req])
      PROVE  /\ Same /\ browser[req].uid = lb.uid
             /\ pc \in Failings /\ faults' = faults /\ Exists(b) => b.phase = "Failed"
  <2>1. Same /\ browser[req].uid = lb.uid
    BY <1>0, <1>6, <1>7 DEF PassWhenSpent, Same
  <2>2. Cached.uid = lb.uid /\ Exists(Cached)
    BY <1>0, <1>6, <2>1 DEF PassGuards, Exists
  <2>3. Cached.phase = "Failed" => browser[req].phase = "Failed"
    BY <1>0, <2>1, <2>2 DEF FailureStays
  <2> QED
    BY <1>1, <1>5, <2>1, <2>2, <2>3 DEF Writes
(* The Browser keeps the finalizer of its guard.                           *)
<1>8. ASSUME Exists(browser[req]), Own \in browser[req].fins, pc \notin Releases
      PROVE  Exists(b) /\ Own \in b.fins
  BY <1>1, <1>8 DEF Writes
<1>9. PodWatchEndsInTruth' /\ \A m \in Names : m # req => pod'[m] = pod[m] /\ made'[m] = made[m]
  <2>1. CASE made' = made /\ UNCHANGED podVars
    BY <1>0, <1>3, <2>1, NothingWritten
  <2>2. CASE made' = made /\ \E p \in Pods : StorePod(req, p)
    BY <1>0, <1>3, <2>2, PodWritten
  <2>3. CASE MakePod
    <3>1. made[req] + 1 \in Nat
      BY <1>6
    <3>2. NewPod(made[req] + 1, lb.uid) \in Pods
      BY <1>6, <3>1, ObjectTypes
    <3> QED
      BY <1>0, <1>3, <1>6, <2>3, <3>2, PodWritten DEF MakePod
  <2> QED
    BY <1>2, <2>1, <2>2, <2>3 DEF PodWrites
<1>10. ASSUME NEW m \in Names, m # req
       PROVE  made'[m] <= born'[m] + Disturbances(m)' /\ SpentIsServed(m)'
  <2>1. /\ SpentIsServed(m) /\ browser'[m] = browser[m] /\ pod'[m] = pod[m]
        /\ made'[m] = made[m] /\ born'[m] = born[m] /\ losses'[m] = losses[m]
    BY <1>0, <1>3, <1>4, <1>9, <1>10
  <2> QED
    BY <1>0, <1>2, <1>3, <1>10, <2>1, OthersStayServed
<1>11. ASSUME made' = made
       PROVE  /\ made'[req] <= born'[req] + Disturbances(req)'
              /\ Spent(req)' => Spent(req) /\ faults' = faults
  <2>1. \A m \in Names : m = req => /\ made'[m] <= born'[m] + Disturbances(m)'
                                    /\ Spent(m)' => Spent(m) /\ faults' = faults
    BY <1>0, <1>2, <1>3, <1>11, Spending
  <2> QED
    BY <1>0, <1>3, <2>1
<1>12. CASE made' # made
  <2>1. pc = "createPod" /\ MakePod /\ pc' = "idle"
    BY <1>2, <1>12 DEF PodWrites
  <2>2. made'[req] = made[req] + 1 /\ ~Spent(req)
    BY <1>0, <1>6, <2>1 DEF MakePod, PassWhenSpent
  <2>3. made'[req] <= born'[req] + Disturbances(req)'
    BY <1>3, <1>6, <2>2 DEF Spent
  <2>4. pod'[req] = NewPod(made[req] + 1, lb.uid)
    BY <1>0, <2>1 DEF MakePod, StorePod, TypeOK
  <2>5. Exists(pod'[req]) /\ pod'[req].owner = lb.uid /\ ~pod'[req].deleting
    BY <1>6, <2>4 DEF NewPod, Exists
  <2>6. ASSUME Spent(req)', Exists(b)
        PROVE  HasPod(req)' /\ ~pod'[req].deleting /\ Own \in b.fins
    <3>1. made[req] + 1 = born[req] + Disturbances(req)'
      BY <1>3, <2>2, <2>6 DEF Spent
    <3>2. ~(made[req] + 1 < born[req] + Disturbances(req))
      BY <1>6, <3>1
    <3>3. lb.uid = born[req]
      BY <1>0, <1>6, <2>1, <3>2 DEF PassLeavesRoom, Guarding
    <3>4. Same /\ b.uid = lb.uid
      BY <1>5, <1>6, <2>6, <3>3 DEF Same
    <3>5. Own \in b.fins
      BY <1>0, <1>8, <2>1, <3>4 DEF PassGuards, Guarding, Releases, Same
    <3> QED
      BY <1>3, <1>4, <2>5, <2>6, <3>4, <3>5 DEF HasPod, Exists
  <2>7. ASSUME NEW m \in Names, m = req
        PROVE  made'[m] <= born'[m] + Disturbances(m)' /\ SpentIsServed(m)'
    BY <1>3, <1>4, <2>3, <2>6, <2>7 DEF SpentIsServed, Exists
  <2> QED
    BY <1>9, <1>10, <2>1, <2>7 DEF Accounts, PodsAccountedFor
<1>13. CASE made' = made
  <2>1. \/ UNCHANGED podVars
        \/ pc \in {"killFailed", "killBackoff", "deletePod", "forceDelete"}
    <3>1. MakePod => made' # made
      BY <1>0, <1>6 DEF MakePod
    <3> QED
      BY <1>2, <1>13, <3>1 DEF PodWrites
  <2>2. ASSUME Spent(req), faults' = faults, Exists(b), ~b.deleting, b.phase # "Failed"
        PROVE  \/ HasPod(req)' /\ ~pod'[req].deleting /\ Own \in b.fins
               \/ pc' \in {"failPod", "failPending"}
    <3>1. /\ Exists(browser[req]) /\ b.uid = browser[req].uid
          /\ browser[req].phase # "Failed" /\ ~browser[req].deleting
      BY <1>5, <2>2
    <3>2. Same /\ pc \notin Failings
      BY <1>7, <2>2, <3>1
    <3>3. pc \notin Deleting \cup Releases
      <4>1. pc \notin Deleting
        BY <1>0, <3>1, <3>2 DEF PassGuards
      <4>2. pc \notin {"release", "releaseFailed"}
        BY <1>0, <2>2, <3>1 DEF PassWhenSpent
      <4> QED
        BY <4>1, <4>2 DEF Deleting, Releases
    <3>4. HasPod(req) /\ ~pod[req].deleting /\ Own \in browser[req].fins
      BY <1>0, <2>2, <3>1, <3>2 DEF SpentIsServed, Failings
    <3>5. CASE UNCHANGED podVars
      <4>1. pod' = pod
        BY <3>5 DEF podVars
      <4>2. Own \in b.fins
        BY <1>8, <3>1, <3>3, <3>4
      <4> QED
        BY <1>3, <1>4, <2>2, <3>1, <3>4, <4>1, <4>2 DEF HasPod, Exists
    <3>6. CASE pc \in {"killFailed", "killBackoff"}
      BY <1>2, <2>2, <3>6
    <3> QED
      BY <2>1, <3>3, <3>5, <3>6 DEF Deleting
  <2>3. ASSUME NEW m \in Names, m = req
        PROVE  made'[m] <= born'[m] + Disturbances(m)' /\ SpentIsServed(m)'
    <3>1. Spent(req)' => Spent(req) /\ faults' = faults
      BY <1>11, <1>13
    <3> QED
      BY <1>3, <1>4, <1>11, <1>13, <2>2, <2>3, <3>1 DEF SpentIsServed, Exists
  <2>4. PodsAccountedFor' /\ \A m \in Names : SpentIsServed(m)'
    BY <1>10, <2>3 DEF PodsAccountedFor
  <2>5. ASSUME pc' # "idle" PROVE (PassGuards /\ PassLeavesRoom /\ PassWhenSpent)'
    <3>0. Leads /\ lb' = lb /\ req' = req
      BY <1>2, <1>3, <2>5 DEF Leads
    <3>1. Same' => Same /\ Exists(b) /\ b.uid = lb.uid /\ b.uid = browser[req].uid
      BY <1>4, <1>5, <3>0 DEF Same, Exists
    <3>2. pc' \in Guarding => pc \in Guarding \cup {"finalizer"} /\ pc \notin Releases
      BY <3>0 DEF Leads, Guarding, Releases
    <3>3. PassGuards'
      <4>1. Same' => \A v \in BrowserVersions(req)' : v.uid = lb.uid
        BY <1>0, <1>4, <3>1 DEF PassGuards
      <4>2. pc' \in Guarding /\ Same' => Own \in b.fins
        <5>1. SUFFICES ASSUME pc' \in Guarding, Same' PROVE Own \in b.fins
          OBVIOUS
        <5>2. CASE pc = "finalizer"
          <6>1. Own \notin Cached.fins
            BY <1>0, <3>1, <5>1, <5>2 DEF PassGuards
          <6> QED
            BY <1>1, <2>5, <5>2, <6>1 DEF Writes
        <5>3. CASE pc \in Guarding
          BY <1>0, <1>8, <3>1, <3>2, <5>1, <5>3 DEF PassGuards, Same
        <5> QED
          BY <3>2, <5>1, <5>2, <5>3
      <4>3. pc' \in Deleting /\ Same' => b.deleting
        <5>1. pc' \in Deleting => pc \in Deleting
          BY <3>0 DEF Leads, Deleting
        <5> QED
          BY <1>0, <1>5, <3>1, <5>1 DEF PassGuards, Same
      <4>4. pc' # "finalizer"
        BY <3>0 DEF Leads
      <4> QED
        BY <1>3, <1>4, <3>0, <4>1, <4>2, <4>3, <4>4 DEF PassGuards
    <3>4. PassLeavesRoom'
      <4>1. pc' # "finalizer"
        BY <3>0 DEF Leads
      <4>2. made[req] + 1 < born[req] + Disturbances(req)
              => made[req] + 1 < born[req] + Disturbances(req)'
        BY <1>6
      <4> QED
        BY <1>0, <1>3, <1>13, <3>0, <3>2, <4>1, <4>2 DEF PassLeavesRoom
    <3>5. PassWhenSpent'
      <4>0. Spent(req)' => Spent(req) /\ faults' = faults
        BY <1>11, <1>13
      <4>1. SUFFICES ASSUME Spent(req), faults' = faults
                     PROVE  /\ lb.uid = born[req]
                            /\ pc' \notin {"finalizer", "lookupConfig", "createPod", "failConfig"}
                            /\ pc' \in {"label", "setPending", "getPod"}
                                 => /\ HasPod(req)'
                                    /\ \A v \in PodVersions(req)' : Exists(v) /\ ~v.deleting
                            /\ pc' \in {"release", "deleteBrowser", "releaseFailed"} /\ Exists(b)
                                 => b.phase = "Failed"
        BY <1>3, <1>4, <3>0, <4>0 DEF PassWhenSpent, Exists
      <4>2. /\ lb.uid = born[req]
            /\ pc \notin {"finalizer", "lookupConfig", "createPod", "failConfig"}
            /\ pc \in {"label", "setPending", "getPod"}
                 => HasPod(req) /\ \A v \in PodVersions(req) : Exists(v) /\ ~v.deleting
            /\ pc \in {"release", "deleteBrowser", "releaseFailed"} /\ Exists(browser[req])
                 => browser[req].phase = "Failed"
        BY <1>0, <4>1 DEF PassWhenSpent
      <4>3. pc = "getPod" => Exists(pCache[req]) /\ ~pCache[req].deleting
        BY <1>0, <4>2
      <4>4. pc' \notin {"finalizer", "lookupConfig", "createPod", "failConfig"}
        BY <3>0, <4>2, <4>3 DEF Leads
      <4>5. ASSUME pc' \in {"label", "setPending", "getPod"}
            PROVE  HasPod(req)' /\ \A v \in PodVersions(req)' : Exists(v) /\ ~v.deleting
        <5>1. pc \in {"label", "setPending"}
          BY <3>0, <4>2, <4>5 DEF Leads
        <5>2. HasPod(req) /\ \A v \in PodVersions(req) : Exists(v) /\ ~v.deleting
          BY <4>2, <5>1
        <5>3. Same /\ Exists(browser[req])
          BY <1>7, <4>1, <5>2 DEF HasPod
        <5>4. Exists(b) /\ b.uid = browser[req].uid
          BY <1>0, <1>5, <1>8, <5>1, <5>3 DEF PassGuards, Guarding, Releases
        <5>5. UNCHANGED podVars
          BY <2>1, <5>1
        <5>6. pod' = pod /\ \A m \in Names : PodVersions(m)' = PodVersions(m)
          BY <1>0, <1>3, <5>5, NothingWritten
        <5> QED
          BY <1>0, <1>3, <1>4, <5>2, <5>4, <5>6 DEF HasPod, Exists
      <4>6. ASSUME pc' \in {"release", "deleteBrowser", "releaseFailed"}, Exists(b)
            PROVE  b.phase = "Failed"
        <5>1. pc \in {"failCritical", "release"}
          BY <3>0, <4>3, <4>6 DEF Leads
        <5> QED
          BY <1>5, <1>7, <4>1, <4>2, <4>6, <5>1 DEF Failings
      <4> QED
        BY <4>2, <4>4, <4>5, <4>6
    <3> QED
      BY <3>3, <3>4, <3>5
  <2> QED
    BY <1>9, <2>4, <2>5 DEF Accounts
<1> QED
  BY <1>12, <1>13

(* The invariant holds at the start.                                       *)
LEMMA AccountInit == Init => AccountInv
<1> SUFFICES ASSUME Init PROVE AccountInv
  OBVIOUS
<1>1. /\ pc = "idle" /\ faults = 0 /\ crashes = 0
      /\ \A n \in Names : /\ browser[n] = NoBrowser /\ pWatch[n] = <<>> /\ pCache[n] = pod[n]
                          /\ made[n] = 0 /\ born[n] = 0 /\ losses[n] = 0
  BY DEF Init, ClusterInit
<1>2. \A n \in Names : SpentIsServed(n)
  BY <1>1, ObjectTypes DEF SpentIsServed
<1>3. PodsAccountedFor
  <2>1. SUFFICES ASSUME NEW n \in Names PROVE made[n] <= born[n] + (faults + crashes + losses[n])
    BY DEF PodsAccountedFor, Disturbances
  <2>2. made[n] = 0 /\ born[n] = 0 /\ losses[n] = 0 /\ faults = 0 /\ crashes = 0
    BY <1>1
  <2> QED
    BY <2>2
<1> QED
  BY <1>1, <1>2, <1>3, CleanupInit, FailureInit DEF AccountInv, PodWatchEndsInTruth

(* Every step keeps it.                                                    *)
LEMMA AccountStep ==
  ASSUME Fresh, AccountInv, [Next]_vars
  PROVE  AccountInv'
<1>0. /\ TypeOK /\ CleanupInv /\ FailureInv /\ PodWatchEndsInTruth
      /\ CleanupInv' /\ FailureInv'
  BY CleanupStep, FailureStep DEF AccountInv, CleanupInv, DeletionInv, NothingForgottenInv
<1> SUFFICES Accounts' /\ PodWatchEndsInTruth'
  BY <1>0 DEF AccountInv, Accounts
<1>1. CASE PassStep
  BY <1>1, PassAccounts
<1>2. ASSUME NEW n \in Names, Environment(n)
      PROVE  Accounts' /\ PodWatchEndsInTruth'
  <2>1. /\ ClusterNext(n) /\ bCache' = bCache /\ pCache' = pCache /\ UNCHANGED passVars
        /\ crashes' = crashes /\ faults' = faults
    BY <1>2 DEF Environment, cacheVars
  <2>2. CASE EnvironmentMove(n) /\ losses' = losses
    <3>1. PICK b \in Browsers, p \in Pods :
                 /\ StoreBrowser(n, b) /\ StorePod(n, p) /\ made' = made
                 /\ BrowserMoves(n, browser[n], b) /\ PodMoves(browser[n], pod[n], p)
      BY <2>2 DEF EnvironmentMove
    <3>2. Accounts'
      BY <2>1, <2>2, <3>1, SurroundingsServe
    <3> QED
      BY <1>0, <2>1, <3>1, <3>2, PodWritten
  <2>3. CASE PodLost(n)
    <3>1. PICK p \in Pods : StorePod(n, p)
      BY <2>3 DEF PodLost
    <3> QED
      BY <1>0, <2>1, <2>3, <3>1, LossLeavesRoom, PodWritten
  <2> QED
    BY <1>0, <2>1, <2>2, <2>3, EnvironmentMoves
<1>3. ASSUME NEW n \in Names, SyncBrowser(n) \/ SyncPod(n)
      PROVE  Accounts' /\ PodWatchEndsInTruth'
  <2>1. /\ browser' = browser /\ pod' = pod /\ born' = born /\ made' = made
        /\ losses' = losses /\ faults' = faults /\ crashes' = crashes /\ UNCHANGED passVars
        /\ SyncBrowser(n) => UNCHANGED podVars /\ pCache' = pCache
        /\ SyncPod(n) => UNCHANGED browserVars /\ bCache' = bCache
    BY <1>3 DEF SyncBrowser, SyncPod, browserVars, podVars
  <2>2. /\ \A m \in Names : BrowserVersions(m)' \subseteq BrowserVersions(m)
        /\ \A m \in Names : PodVersions(m)' \subseteq PodVersions(m)
        /\ PodWatchEndsInTruth'
    BY <1>0, <1>3, <2>1, VersionsDelivered, NothingWritten
  <2> QED
    BY <2>1, <2>2, DeliveryAccounts
<1>4. ASSUME NEW n \in Names, Begin(n)
      PROVE  Accounts' /\ PodWatchEndsInTruth'
  BY <1>4, BeginAccounts
<1>5. CASE CrashRestart
  BY <1>5, RestartLeavesRoom
<1>6. CASE UNCHANGED vars
  <2>1. /\ browser' = browser /\ pod' = pod /\ born' = born /\ made' = made
        /\ losses' = losses /\ faults' = faults /\ crashes' = crashes /\ UNCHANGED passVars
        /\ UNCHANGED podVars /\ pCache' = pCache /\ UNCHANGED browserVars /\ bCache' = bCache
    BY <1>6 DEF vars, clusterVars, browserVars, podVars, cacheVars
  <2>2. /\ \A m \in Names : BrowserVersions(m)' = BrowserVersions(m)
        /\ \A m \in Names : PodVersions(m)' = PodVersions(m)
        /\ PodWatchEndsInTruth'
    <3>1. \A m \in Names : BrowserVersions(m)' = BrowserVersions(m)
      BY <1>0, <2>1, NothingWritten
    <3>2. /\ \A m \in Names : PodVersions(m)' = PodVersions(m)
          /\ PodWatchEndsInTruth'
      BY <1>0, <2>1, NothingWritten
    <3> QED
      BY <3>1, <3>2
  <2> QED
    BY <2>1, <2>2, DeliveryAccounts
<1> QED
  BY <1>1, <1>2, <1>3, <1>4, <1>5, <1>6 DEF Next

(* Every pod beyond one for each Browser is owed to a failed call, a       *)
(* restart or a loss, and to each of these one at most                     *)
(* (browser_reconciler.go:153-255, 344-413).                               *)
THEOREM PodsAreAccountedFor ==
  ASSUME Fresh
  PROVE  Spec => []PodsAccountedFor
<1>1. AccountInv /\ [Next]_vars => AccountInv'
  BY AccountStep
<1>2. AccountInv => PodsAccountedFor
  BY DEF AccountInv
<1> QED
  BY <1>1, <1>2, AccountInit, PTL DEF Spec

(* No more goes wrong than the bounds allow.                               *)
Bounded == faults <= MaxFaults /\ crashes <= MaxCrashes /\ \A n \in Names : losses[n] <= MaxLosses

LEMMA BoundsKept == Spec => []Bounded
<1>1. Init => Bounded
  BY DEF Init, ClusterInit, Bounded
<1>2. TypeOK /\ Bounded /\ [Next]_vars => Bounded'
  <2> SUFFICES ASSUME TypeOK, Bounded, [Next]_vars PROVE Bounded'
    OBVIOUS
  <2>0. faults \in Nat /\ crashes \in Nat /\ losses \in [Names -> Nat]
    BY DEF TypeOK
  <2>1. CASE PassStep
    <3>1. crashes' = crashes /\ losses' = losses
      BY <2>1, PassStepFrame DEF PassFrame, Undisturbed
    <3> QED
      BY <2>0, <2>1, <3>1, FaultsCounted DEF Bounded, Fault
  <2>2. ASSUME NEW n \in Names, Environment(n) PROVE Bounded'
    <3>1. crashes' = crashes /\ faults' = faults /\ ClusterNext(n)
      BY <2>2 DEF Environment
    <3>2. \/ losses' = losses
          \/ losses[n] < MaxLosses /\ losses' = [losses EXCEPT ![n] = @ + 1]
      BY <3>1, EnvironmentMoves DEF PodLost
    <3> QED
      BY <2>0, <3>1, <3>2 DEF Bounded
  <2>3. CASE CrashRestart
    BY <2>0, <2>3 DEF CrashRestart, Bounded
  <2>4. ASSUME NEW n \in Names, Begin(n) \/ SyncBrowser(n) \/ SyncPod(n) PROVE Bounded'
    BY <2>4 DEF Begin, SyncBrowser, SyncPod, clusterVars, Bounded
  <2>5. CASE UNCHANGED vars
    BY <2>5 DEF vars, clusterVars, Bounded
  <2> QED
    BY <2>1, <2>2, <2>3, <2>4, <2>5 DEF Next
<1> QED
  BY <1>1, <1>2, TypeCorrect, PTL DEF Spec

(* When nothing goes wrong no Browser ever gets a second Pod               *)
(* (browser_reconciler.go:344-403).                                        *)
THEOREM OnePodOnly ==
  ASSUME Fresh, MaxFaults = 0, MaxCrashes = 0, MaxLosses = 0
  PROVE  Spec => []OnePodPerBrowser
<1>1. TypeOK /\ Bounded /\ PodsAccountedFor => OnePodPerBrowser
  <2>1. SUFFICES ASSUME TypeOK, Bounded, PodsAccountedFor, NEW n \in Names
                 PROVE  made[n] <= born[n]
    BY DEF OnePodPerBrowser
  <2>2. /\ faults \in Nat /\ crashes \in Nat /\ losses[n] \in Nat
        /\ made[n] \in Nat /\ born[n] \in Nat
    BY <2>1 DEF TypeOK
  <2>3. faults = 0 /\ crashes = 0 /\ losses[n] = 0
    BY <2>1, <2>2 DEF Bounded
  <2>4. made[n] <= born[n] + (faults + crashes + losses[n])
    BY <2>1 DEF PodsAccountedFor, Disturbances
  <2> QED
    BY <2>2, <2>3, <2>4
<1> QED
  BY <1>1, TypeCorrect, BoundsKept, PodsAreAccountedFor, PTL

=============================================================================
