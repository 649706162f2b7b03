---------------------------- MODULE BrowserProofs ----------------------------
(***************************************************************************)
(* Theorems about the Browser controller for every value of the constants: *)
(* any names and containers, caches that lag by any number of versions,    *)
(* any number of incarnations, faults and restarts.                        *)
(*                                                                         *)
(* The frames say what the steps of a pass, and those of its surroundings, *)
(* have in common; the type invariant follows from them.  NeverForgotten   *)
(* and DeletionIsFinal follow from the inductive invariants                *)
(* NothingForgottenInv and DeletionInv of BrowserProperties.               *)
(***************************************************************************)
EXTENDS BrowserProperties, TLAPS

USE ClusterAssumption, ReconcilerAssumption

(* The absent object, a new Browser and a new Pod are well formed.         *)
LEMMA ObjectTypes ==
  /\ NoStatuses \in Statuses /\ NoBrowser \in Browsers /\ NoPod \in Pods
  /\ ~Exists(NoBrowser) /\ ~Exists(NoPod)
  /\ \A u \in Nat : NewBrowser(u) \in Browsers
  /\ \A u, o \in Nat : NewPod(u, o) \in Pods
<1>1. NoStatuses \in [{} -> CStates]
  BY DEF NoStatuses, CStates
<1>2. NoStatuses \in Statuses
  BY <1>1 DEF Statuses
<1> QED
  BY <1>2 DEF NoBrowser, NoPod, NewBrowser, NewPod, Browsers, Pods, PodPhases, Exists

(* A write is appended to the watch or takes the place of its last version: *)
(* the last version is the new one and those before it stay.               *)
LEMMA LoggedFacts ==
  ASSUME NEW S, NEW log \in Seq(S), NEW old, NEW new \in S
  PROVE  LET L == Logged(log, old, new) IN
         /\ L \in Seq(S)
         /\ new = old => L = log
         /\ new # old => /\ L # <<>> /\ Len(L) \in Nat \ {0}
                         /\ L[Len(L)] = new
                         /\ \A i \in 1 .. Len(L) - 1 : i \in 1 .. Len(log) /\ L[i] = log[i]
<1> DEFINE L == Logged(log, old, new)
<1>1. CASE new = old
  BY <1>1 DEF Logged
<1>2. CASE new # old /\ Len(log) < MaxLag
  <2>1. L = Append(log, new)
    BY <1>2 DEF Logged
  <2> QED
    BY <1>2, <2>1
<1>3. CASE new # old /\ ~(Len(log) < MaxLag)
  <2>1. L = [log EXCEPT ![Len(log)] = new]
    BY <1>3 DEF Logged
  <2>2. Len(log) \in Nat \ {0} /\ DOMAIN log = 1 .. Len(log)
    BY <1>3
  <2>3. L \in [1 .. Len(log) -> S]
    BY <2>1, <2>2
  <2>4. L \in Seq(S) /\ Len(L) = Len(log)
    BY <2>2, <2>3
  <2>5. L[Len(L)] = new
    BY <2>1, <2>2, <2>4
  <2>6. ASSUME NEW i \in 1 .. Len(L) - 1
        PROVE  i \in 1 .. Len(log) /\ L[i] = log[i]
    <3> HIDE DEF L
    <3>0. \A k \in Nat : \A j \in 1 .. k - 1 : j \in 1 .. k /\ j # k
      OBVIOUS
    <3>1. i \in 1 .. Len(log) /\ i # Len(log)
      BY <2>2, <2>4, <3>0, Zenon
    <3> QED
      BY <2>1, <2>2, <3>1
  <2>7. L # <<>> /\ Len(L) \in Nat \ {0}
    BY <2>2, <2>4
  <2> QED
    BY <1>3, <2>4, <2>5, <2>6, <2>7 DEF L
<1> QED
  BY <1>1, <1>2, <1>3

-----------------------------------------------------------------------------
(* What every step of a pass has in common *)

Targets == (Labels \ {"idle"}) \cup Endings

(* A write other than a creation: the object stays the same incarnation,   *)
(* and once marked for deletion stays so and gets no finalizer, or         *)
(* disappears.                                                             *)
Continues(b, c) ==
  ~Exists(c) \/ (c.uid = b.uid /\ (b.deleting => c.deleting /\ c.fins \subseteq b.fins))

(* How the pass itself moves. *)
PassMove ==
  /\ req' = req
  /\ queue' \in {queue, queue \cup {req}}
  /\ \/ pc' = "idle" /\ lb' = NoBrowser
     \/ pc' \in Labels \ {"idle"} /\ lb' = lb
  /\ lp' \in Pods

(* What it does to the Browser and to the Pod under its name. *)
BrowserMove == \E b \in Browsers : Continues(browser[req], b) /\ StoreBrowser(req, b)
PodMove     == \/ made' = made /\ \E p \in Pods : StorePod(req, p)
               \/ MakePod /\ pc = "createPod"

(* The whole of what a step of a pass may do.                              *)
PassFrame ==
  /\ Undisturbed /\ retired' = retired /\ faults' \in Nat
  /\ PassMove /\ BrowserMove /\ PodMove

(* Every decision of Reconcile leads to a label or to an ending.           *)
LEMMA Decisions ==
  /\ \A b : AfterLabel(b) \in Targets /\ AfterFinalizer(b) \in Targets
            /\ AfterFailure(b) \in Targets /\ Route(b) \in Targets \cup {"done"}
  /\ \A b, p : UpdateStatus(b, p) \in Targets
  /\ \A n, b, p : JudgePod(n, b, p) \in Targets /\ JudgeDeletion(n, p) \in Targets
  BY DEF Targets, Labels, Endings, AfterLabel, AfterFinalizer, AfterFailure, Route,
         UpdateStatus, JudgePending, JudgePod, JudgeDeletion

(* The ways a pass ends or goes on are moves of the pass.                  *)
LEMMA Moves ==
  ASSUME TypeOK
  PROVE  /\ Done => PassMove
         /\ Requeue => PassMove
         /\ RequeueAfter => PassMove
         /\ pc # "idle" => \A l \in Targets : Goto(l) => PassMove
         /\ \A l \in Targets \ Endings, p \in Pods : Take(l, p) => PassMove
  BY ObjectTypes
     DEF TypeOK, Done, Requeue, RequeueAfter, EndPass, Goto, Take, PassMove, Targets, Endings

(* A step that writes nothing is a write of the object as it stands.       *)
LEMMA Untouched ==
  ASSUME TypeOK
  PROVE  /\ UNCHANGED browserVars => BrowserMove
         /\ UNCHANGED podVars /\ made' = made => PodMove
<1>1. ASSUME UNCHANGED browserVars PROVE BrowserMove
  <2>1. browser[req] \in Browsers /\ Continues(browser[req], browser[req])
    BY DEF TypeOK, Continues
  <2>2. StoreBrowser(req, browser[req])
    BY <1>1 DEF StoreBrowser, Logged, browserVars, TypeOK
  <2> QED
    BY <2>1, <2>2 DEF BrowserMove
<1>2. ASSUME UNCHANGED podVars, made' = made PROVE PodMove
  <2>1. pod[req] \in Pods
    BY DEF TypeOK
  <2>2. StorePod(req, pod[req])
    BY <1>2 DEF StorePod, Logged, podVars, TypeOK
  <2> QED
    BY <1>2, <2>1, <2>2 DEF PodMove
<1> QED
  BY <1>1, <1>2

(* A merge patch keeps the incarnation and the deletion mark, or removes a *)
(* Browser that lost its last finalizer (browser_reconciler.go:563-623);   *)
(* the server takes it of a deleted Browser if it adds no finalizer.       *)
LEMMA MergedFacts ==
  ASSUME NEW s \in Browsers, NEW c \in Browsers, NEW d \in Browsers
  PROVE  /\ Merged(s, c, d) \in Browsers
         /\ (s.deleting => Merged(s, c, d).fins \subseteq s.fins)
              => Continues(s, Merged(s, c, d))
<1> DEFINE m == [s EXCEPT !.phase    = IF d.phase = c.phase THEN @ ELSE d.phase,
                          !.ip       = IF d.ip = c.ip THEN @ ELSE d.ip,
                          !.cs       = IF d.cs = c.cs THEN @ ELSE d.cs,
                          !.fins     = IF d.fins = c.fins THEN @ ELSE d.fins,
                          !.labelled = IF d.labelled = c.labelled THEN @ ELSE d.labelled]
<1>0. /\ s.uid \in Nat /\ s.deleting \in BOOLEAN /\ s.labelled \in BOOLEAN
      /\ s.phase \in PodPhases \cup {""} /\ s.ip \in Nat /\ s.cs \in Statuses
      /\ s.fins \in SUBSET Finalizers
      /\ d.labelled \in BOOLEAN /\ d.phase \in PodPhases \cup {""} /\ d.ip \in Nat
      /\ d.cs \in Statuses /\ d.fins \in SUBSET Finalizers
  BY DEF Browsers
<1>1. m \in Browsers /\ m.uid = s.uid /\ m.deleting = s.deleting
  <2>1. /\ m.phase \in PodPhases \cup {""} /\ m.ip \in Nat /\ m.cs \in Statuses
        /\ m.fins \in SUBSET Finalizers /\ m.labelled \in BOOLEAN
        /\ m.uid = s.uid /\ m.deleting = s.deleting
    BY <1>0 DEF Browsers
  <2>2. m = [s EXCEPT !.phase = m.phase, !.ip = m.ip, !.cs = m.cs,
                      !.fins = m.fins, !.labelled = m.labelled]
    BY DEF Browsers
  <2> HIDE DEF m
  <2>3. [s EXCEPT !.phase = m.phase, !.ip = m.ip, !.cs = m.cs,
                  !.fins = m.fins, !.labelled = m.labelled] \in Browsers
    BY <2>1 DEF Browsers
  <2> QED
    BY <2>1, <2>2, <2>3
<1>2. Merged(s, c, d) = m \/ Merged(s, c, d) = NoBrowser
  BY DEF Merged, Swept
<1> QED
  <2> HIDE DEF m
  <2> QED
    BY <1>1, <1>2, ObjectTypes DEF Continues

(* A delete request keeps the incarnation or removes it.                   *)
LEMMA DeletedFacts ==
  ASSUME NEW b \in Browsers
  PROVE  DeletedBrowser(b) \in Browsers /\ Continues(b, DeletedBrowser(b))
  BY ObjectTypes DEF DeletedBrowser, Continues, Browsers, Exists

(* The patches that the passes send are well formed Browsers. *)
LEMMA PatchTypes ==
  ASSUME TypeOK
  PROVE  /\ \A ph \in PodPhases : WithPhase(ph) \in Browsers
         /\ WithoutOwn \in Browsers
         /\ [Cached EXCEPT !.fins = @ \cup {Own}] \in Browsers
         /\ [Cached EXCEPT !.labelled = TRUE] \in Browsers
         /\ [Cached EXCEPT !.phase = lp.phase,
                           !.ip = IF StatusChanged(lb, lp) THEN PodIP(lp) ELSE @,
                           !.cs = IF ContainersChanged(lb, lp) THEN lp.cs ELSE @] \in Browsers
<1>1. Cached \in Browsers /\ lp \in Pods
  BY DEF TypeOK, Cached
<1>2. PodIP(lp) \in Nat /\ lp.phase \in PodPhases /\ lp.cs \in Statuses
  BY <1>1 DEF PodIP, Pods
<1> QED
  BY <1>1, <1>2 DEF WithPhase, WithoutOwn, Browsers, Finalizers

(* A step that patches the Browser has the frame,                          *)
LEMMA PatchFrame ==
  ASSUME TypeOK, NEW d \in Browsers,
         (Patchable(d) /\ WritePatch(d)) \/ UNCHANGED browserVars,
         PassMove, Undisturbed, UNCHANGED <<podVars, made, retired>>, faults' \in Nat
  PROVE  PassFrame
<1>1. BrowserMove
  <2>1. CASE Patchable(d) /\ WritePatch(d)
    <3>1. browser[req] \in Browsers /\ bCache[req] \in Browsers
      BY DEF TypeOK
    <3> QED
      BY <2>1, <3>1, MergedFacts DEF Patchable, WritePatch, BrowserMove
  <2>2. CASE UNCHANGED browserVars
    BY <2>2, Untouched
  <2> QED
    BY <2>1, <2>2
<1> QED
  BY <1>1, Untouched DEF PassFrame

(* so has one that deletes the Pod,                                        *)
LEMMA RemoveFrame ==
  ASSUME TypeOK, NEW outcomes \in SUBSET Pods,
         UNCHANGED podVars \/ \E p \in outcomes : StorePod(req, p),
         PassMove, Undisturbed, UNCHANGED <<browserVars, made, retired>>, faults' \in Nat
  PROVE  PassFrame
  BY Untouched DEF PassFrame, PodMove

(* and one that only reads.                                                *)
LEMMA ReadFrame ==
  ASSUME TypeOK, PassMove, Undisturbed,
         UNCHANGED <<browserVars, podVars, made, retired>>, faults' \in Nat
  PROVE  PassFrame
  BY Untouched DEF PassFrame

(* A graceful delete leaves a well-formed Pod or none.                     *)
LEMMA GracefulFacts ==
  ASSUME NEW p \in Pods
  PROVE  GracefullyDeleted(p) \subseteq Pods
<1>1. [p EXCEPT !.deleting = TRUE] \in Pods
  BY DEF Pods
<1>2. \A q \in GracefullyDeleted(p) : q = NoPod \/ q = [p EXCEPT !.deleting = TRUE]
  BY DEF GracefullyDeleted
<1> QED
  BY <1>1, <1>2, ObjectTypes

(* Every step of a pass has the frame. *)
LEMMA PassStepFrame ==
  ASSUME TypeOK, PassStep
  PROVE  PassFrame
<1> USE Moves, Decisions DEF Patch, RemovePod, Fault, NoFault
<1>0. /\ faults \in Nat /\ req \in Names
      /\ \A ph \in {"Pending", "Failed"} : ph \in PodPhases
      /\ {"getPod", "failPod", "failPending", "createPod", "failConfig", "deleteBrowser",
          "releaseDeleted", "requeueAfter", "done"} \subseteq Targets
  BY DEF TypeOK, PodPhases, Targets, Labels, Endings
<1>f. faults' \in Nat
  BY <1>0 DEF PassStep, ReleaseFailed, AddFinalizer, AssignLabels, SetPending, GetPod,
     KillFailed, FailPod, KillBackoff, FailPending, LookupConfig, FailConfig, CreatePod,
     FailCritical, Mirror, Release, DeleteBrowser, PodForDeletion, DeletePod,
     ForceDelete, ReleaseDeleted
<1>1. CASE ReleaseFailed
  BY <1>0, <1>f, <1>1, PatchTypes, PatchFrame DEF ReleaseFailed
<1>2. CASE AddFinalizer
  BY <1>0, <1>f, <1>2, PatchTypes, PatchFrame DEF AddFinalizer
<1>3. CASE AssignLabels
  BY <1>0, <1>f, <1>3, PatchTypes, PatchFrame DEF AssignLabels
<1>4. CASE SetPending
  BY <1>0, <1>f, <1>4, PatchTypes, PatchFrame DEF SetPending
<1>5. CASE GetPod
  <2>1. pCache[req] \in Pods
    BY DEF TypeOK
  <2> DEFINE l == IF Exists(pCache[req]) THEN JudgePod(req, lb, pCache[req])
                  ELSE "lookupConfig"
  <2>2. l \in Targets /\ pc # "idle"
    BY <1>5 DEF GetPod, Targets, Labels
  <2>3. \/ l \in Endings /\ Goto(l)
        \/ l \notin Endings /\ Take(l, pCache[req])
        \/ Requeue
    BY <1>5 DEF GetPod, Take
  <2> HIDE DEF l
  <2>4. PassMove
    BY <2>1, <2>2, <2>3
  <2> QED
    BY <1>f, <1>5, <2>4, ReadFrame DEF GetPod
<1>6. CASE KillFailed
  BY <1>0, <1>f, <1>6, ObjectTypes, RemoveFrame DEF KillFailed
<1>7. CASE FailPod
  BY <1>0, <1>f, <1>7, PatchTypes, PatchFrame DEF FailPod
<1>8. CASE KillBackoff
  BY <1>0, <1>f, <1>8, ObjectTypes, RemoveFrame DEF KillBackoff
<1>9. CASE FailPending
  BY <1>0, <1>f, <1>9, PatchTypes, PatchFrame DEF FailPending
<1>10. CASE LookupConfig
  BY <1>0, <1>f, <1>10, ReadFrame DEF LookupConfig
<1>11. CASE FailConfig
  BY <1>0, <1>f, <1>11, PatchTypes, PatchFrame DEF FailConfig
<1>12. CASE CreatePod
  <2>1. PassMove /\ Undisturbed /\ retired' = retired /\ UNCHANGED browserVars
    BY <1>12 DEF CreatePod
  <2>2. PodMove
    BY <1>12, Untouched DEF CreatePod, PodMove
  <2> QED
    BY <1>f, <2>1, <2>2, Untouched DEF PassFrame
<1>13. CASE FailCritical
  BY <1>0, <1>f, <1>13, PatchTypes, PatchFrame DEF FailCritical
<1>14. CASE Mirror
  BY <1>0, <1>f, <1>14, PatchTypes, PatchFrame DEF Mirror
<1>15. CASE Release
  BY <1>0, <1>f, <1>15, PatchTypes, PatchFrame DEF Release
<1>16. CASE DeleteBrowser
  <2>1. PassMove /\ Undisturbed /\ UNCHANGED <<podVars, made, retired>>
    BY <1>16 DEF DeleteBrowser
  <2>2. browser[req] \in Browsers
    BY DEF TypeOK
  <2>3. BrowserMove
    BY <1>16, <2>2, DeletedFacts, Untouched DEF DeleteBrowser, BrowserMove
  <2> QED
    BY <1>f, <2>1, <2>3, Untouched DEF PassFrame
<1>17. CASE PodForDeletion
  <2>1. pCache[req] \in Pods
    BY DEF TypeOK
  <2> DEFINE l == JudgeDeletion(req, pCache[req])
  <2>2. l \in Targets /\ pc # "idle"
    BY <1>17 DEF PodForDeletion
  <2>3. \/ l \in Endings /\ Goto(l)
        \/ l \notin Endings /\ Take(l, pCache[req])
        \/ Goto("releaseDeleted")
    BY <1>17 DEF PodForDeletion, Take
  <2> HIDE DEF l
  <2>4. PassMove
    BY <1>0, <2>1, <2>2, <2>3
  <2> QED
    BY <1>f, <1>17, <2>4, ReadFrame DEF PodForDeletion
<1>18. CASE DeletePod
  <2>1. {NoPod} \subseteq Pods /\ GracefullyDeleted(pod[req]) \subseteq Pods
    BY ObjectTypes, GracefulFacts DEF TypeOK
  <2> QED
    BY <1>0, <1>f, <1>18, <2>1, RemoveFrame DEF DeletePod
<1>19. CASE ForceDelete
  BY <1>0, <1>f, <1>19, ObjectTypes, RemoveFrame DEF ForceDelete
<1>20. CASE ReleaseDeleted
  BY <1>0, <1>f, <1>20, PatchTypes, PatchFrame DEF ReleaseDeleted
<1> QED
  BY <1>1, <1>2, <1>3, <1>4, <1>5, <1>6, <1>7, <1>8, <1>9, <1>10, <1>11, <1>12, <1>13,
     <1>14, <1>15, <1>16, <1>17, <1>18, <1>19, <1>20 DEF PassStep

-----------------------------------------------------------------------------
(* What every step of the environment has in common *)

(* What a step of the surroundings of n may do.                            *)
EnvironmentFrame(n) ==
  /\ late' \in [Names -> Nat] /\ overdue' \in [Names -> Nat] /\ losses' \in [Names -> Nat]
  /\ made' = made
  /\ \/ born' = born /\ \E b \in Browsers : Continues(browser[n], b) /\ StoreBrowser(n, b)
     \/ CreateBrowser(n)
  /\ \E p \in Pods : StorePod(n, p)

(* Every step of the surroundings has the frame.                           *)
LEMMA EnvironmentStepFrame ==
  ASSUME TypeOK, NEW n \in Names, ClusterNext(n)
  PROVE  EnvironmentFrame(n)
<1>0. /\ browser[n] \in Browsers /\ pod[n] \in Pods
      /\ late \in [Names -> Nat] /\ overdue \in [Names -> Nat] /\ losses \in [Names -> Nat]
  BY DEF TypeOK
<1>b. ASSUME UNCHANGED browserVars
      PROVE  \E b \in Browsers : Continues(browser[n], b) /\ StoreBrowser(n, b)
  <2>1. Continues(browser[n], browser[n])
    BY DEF Continues
  <2>2. StoreBrowser(n, browser[n])
    BY <1>b DEF StoreBrowser, Logged, browserVars, TypeOK
  <2> QED
    BY <1>0, <2>1, <2>2
<1>p. ASSUME UNCHANGED podVars PROVE \E p \in Pods : StorePod(n, p)
  <2>1. StorePod(n, pod[n])
    BY <1>p DEF StorePod, Logged, podVars, TypeOK
  <2> QED
    BY <1>0, <2>1
<1>1. CASE CreateBrowser(n)
  BY <1>0, <1>1, <1>p DEF CreateBrowser, EnvironmentFrame
<1>2. CASE DeleteRequest(n)
  BY <1>0, <1>2, <1>p, DeletedFacts DEF DeleteRequest, EnvironmentFrame
<1>3. CASE AddForeignFinalizer(n)
  <2>1. PICK f \in ForeignFinalizers \ browser[n].fins :
               StoreBrowser(n, [browser[n] EXCEPT !.fins = browser[n].fins \cup {f}])
    BY <1>3 DEF AddForeignFinalizer
  <2>2. /\ [browser[n] EXCEPT !.fins = browser[n].fins \cup {f}] \in Browsers
        /\ Continues(browser[n], [browser[n] EXCEPT !.fins = browser[n].fins \cup {f}])
    BY <1>0, <1>3 DEF AddForeignFinalizer, Browsers, Finalizers, Continues
  <2> QED
    BY <1>0, <1>3, <1>p, <2>1, <2>2 DEF AddForeignFinalizer, EnvironmentFrame
<1>4. CASE DropForeignFinalizer(n)
  <2>1. PICK f \in ForeignFinalizers \cap browser[n].fins :
               StoreBrowser(n, Swept([browser[n] EXCEPT !.fins = browser[n].fins \ {f}]))
    BY <1>4 DEF DropForeignFinalizer
  <2> DEFINE b == [browser[n] EXCEPT !.fins = browser[n].fins \ {f}]
  <2>2. b \in Browsers /\ Continues(browser[n], b)
    BY <1>0 DEF Browsers, Finalizers, Continues
  <2>3. Swept(b) \in Browsers /\ Continues(browser[n], Swept(b))
    BY <2>2, ObjectTypes DEF Swept, Continues
  <2> QED
    BY <1>0, <1>4, <1>p, <2>1, <2>3 DEF DropForeignFinalizer, EnvironmentFrame
<1>5. CASE KubeletReports(n)
  <2>0. PICK cs \in [Containers -> Reported] :
               \E ph \in PhasesOf(cs) :
                 StorePod(n, [pod[n] EXCEPT !.cs = cs, !.phase = ph])
    BY <1>5 DEF KubeletReports
  <2>1. PICK ph \in PhasesOf(cs) : StorePod(n, [pod[n] EXCEPT !.cs = cs, !.phase = ph])
    BY <2>0
  <2>2. cs \in Statuses
    <3>1. cs \in [Containers -> CStates]
      BY DEF CStates
    <3> QED
      BY <3>1 DEF Statuses
  <2>3. ph \in PodPhases
    BY DEF PhasesOf, PodPhases
  <2>4. [pod[n] EXCEPT !.cs = cs, !.phase = ph] \in Pods
    BY <1>0, <2>2, <2>3 DEF Pods
  <2> QED
    BY <1>0, <1>5, <1>b, <2>1, <2>4 DEF KubeletReports, EnvironmentFrame
<1>6. CASE KubeletRemoves(n)
  BY <1>0, <1>6, <1>b, ObjectTypes DEF KubeletRemoves, EnvironmentFrame
<1>7. CASE Evict(n)
  <2>1. [pod[n] EXCEPT !.phase = "Failed"] \in Pods
    BY <1>0 DEF Pods, PodPhases
  <2> QED
    BY <1>0, <1>7, <1>b, <2>1 DEF Evict, EnvironmentFrame
<1>8. CASE OutsideDelete(n)
  BY <1>0, <1>8, <1>b, GracefulFacts DEF OutsideDelete, EnvironmentFrame
<1>9. CASE CollectGarbage(n)
  BY <1>0, <1>9, <1>b, GracefulFacts DEF CollectGarbage, EnvironmentFrame
<1>10. CASE CreationDeadline(n)
  BY <1>0, <1>10, <1>b, <1>p DEF CreationDeadline, EnvironmentFrame, Pods
<1>11. CASE DeletionDeadline(n)
  BY <1>0, <1>11, <1>b, <1>p DEF DeletionDeadline, EnvironmentFrame, Pods
<1> QED
  BY <1>1, <1>2, <1>3, <1>4, <1>5, <1>6, <1>7, <1>8, <1>9, <1>10, <1>11 DEF ClusterNext

-----------------------------------------------------------------------------
(* Type correctness *)

(* A write of a well-formed object keeps the types of the stores.          *)
LEMMA StoreTypes ==
  ASSUME TypeOK, NEW n \in Names
  PROVE  /\ \A b \in Browsers : StoreBrowser(n, b) =>
              browser' \in [Names -> Browsers] /\ bWatch' \in [Names -> Seq(Browsers)]
         /\ \A p \in Pods : StorePod(n, p) =>
              pod' \in [Names -> Pods] /\ pWatch' \in [Names -> Seq(Pods)]
<1>1. ASSUME NEW b \in Browsers, StoreBrowser(n, b)
      PROVE  browser' \in [Names -> Browsers] /\ bWatch' \in [Names -> Seq(Browsers)]
  <2>1. Logged(bWatch[n], browser[n], b) \in Seq(Browsers)
    BY LoggedFacts DEF TypeOK
  <2> QED
    BY <1>1, <2>1 DEF StoreBrowser, TypeOK
<1>2. ASSUME NEW p \in Pods, StorePod(n, p)
      PROVE  pod' \in [Names -> Pods] /\ pWatch' \in [Names -> Seq(Pods)]
  <2>1. Logged(pWatch[n], pod[n], p) \in Seq(Pods)
    BY LoggedFacts DEF TypeOK
  <2> QED
    BY <1>2, <2>1 DEF StorePod, TypeOK
<1> QED
  BY <1>1, <1>2

(* The initial states are well typed.                                      *)
LEMMA TypeInit == Init => TypeOK
  BY ObjectTypes DEF Init, ClusterInit, TypeOK, Labels

(* Every step keeps the types.                                             *)
LEMMA TypeStep == TypeOK /\ [Next]_vars => TypeOK'
<1> SUFFICES ASSUME TypeOK, [Next]_vars PROVE TypeOK'
  OBVIOUS
<1>1. CASE PassStep
  <2>1. PassFrame /\ req \in Names
    BY <1>1, PassStepFrame DEF TypeOK
  <2>2. browser' \in [Names -> Browsers] /\ bWatch' \in [Names -> Seq(Browsers)]
    BY <2>1, StoreTypes DEF PassFrame, BrowserMove
  <2>3. /\ pod' \in [Names -> Pods] /\ pWatch' \in [Names -> Seq(Pods)]
        /\ made' \in [Names -> Nat]
    <3>1. lb.uid \in Nat /\ made[req] \in Nat /\ made[req] + 1 \in Nat
      <4>1. lb \in Browsers /\ made[req] \in Nat
        BY <2>1 DEF TypeOK
      <4>2. lb.uid \in Nat
        BY <4>1 DEF Browsers
      <4> QED
        BY <4>1, <4>2
    <3> QED
      <4>1. CASE made' = made /\ \E p \in Pods : StorePod(req, p)
        BY <2>1, <4>1, StoreTypes DEF TypeOK
      <4>2. CASE MakePod
        <5>1. NewPod(made[req] + 1, lb.uid) \in Pods
          BY <3>1, ObjectTypes
        <5>2. /\ made' = [made EXCEPT ![req] = @ + 1]
              /\ StorePod(req, NewPod(made[req] + 1, lb.uid))
          BY <4>2 DEF MakePod
        <5> QED
          BY <2>1, <3>1, <5>1, <5>2, StoreTypes DEF TypeOK
      <4> QED
        BY <2>1, <4>1, <4>2 DEF PassFrame, PodMove
  <2>4. pc' \in Labels /\ req' \in Names /\ lb' \in Browsers /\ lp' \in Pods
        /\ (pc' = "idle" <=> ~Exists(lb'))
    <3>1. \/ pc' = "idle" /\ lb' = NoBrowser
          \/ pc' \in Labels \ {"idle"} /\ lb' = lb
      BY <2>1 DEF PassFrame, PassMove
    <3>2. pc # "idle"
      BY <1>1 DEF PassStep, ReleaseFailed, AddFinalizer, AssignLabels, SetPending, GetPod,
         KillFailed, FailPod, KillBackoff, FailPending, LookupConfig, FailConfig, CreatePod,
         FailCritical, Mirror, Release, DeleteBrowser, PodForDeletion, DeletePod,
         ForceDelete, ReleaseDeleted
    <3>3. req' \in Names /\ lp' \in Pods
      BY <2>1 DEF PassFrame, PassMove
    <3>4. "idle" \in Labels
      BY DEF Labels
    <3> QED
      BY <3>1, <3>2, <3>3, <3>4, ObjectTypes DEF TypeOK
  <2> QED
    BY <2>1, <2>2, <2>3, <2>4 DEF PassFrame, PassMove, Undisturbed, cacheVars, TypeOK
<1>2. CASE CrashRestart
  <2>1. /\ bWatch' \in [Names -> Seq(Browsers)] /\ pWatch' \in [Names -> Seq(Pods)]
        /\ bCache' \in [Names -> Browsers] /\ pCache' \in [Names -> Pods]
        /\ queue' \subseteq Names /\ crashes' \in Nat
    BY <1>2 DEF CrashRestart, TypeOK
  <2>2. pc' \in Labels /\ lb' \in Browsers /\ lp' \in Pods /\ (pc' = "idle" <=> ~Exists(lb'))
    BY <1>2, ObjectTypes DEF CrashRestart, EndPass, Labels
  <2> QED
    BY <1>2, <2>1, <2>2 DEF CrashRestart, EndPass, TypeOK
<1>3. ASSUME NEW n \in Names, Begin(n) PROVE TypeOK'
  <2>1. bCache[n] \in Browsers
    BY DEF TypeOK
  <2>2. retired' \in [Names -> Nat]
    BY <1>3, <2>1 DEF Begin, TypeOK, Browsers
  <2>3. pc' \in Labels /\ lb' \in Browsers /\ (pc' = "idle" <=> ~Exists(lb'))
    <3>1. Route(bCache[n]) \in Labels \ {"idle"} \/ Route(bCache[n]) = "done"
      BY DEF Route, AfterFinalizer, AfterLabel, Labels
    <3>2. \/ /\ Exists(bCache[n]) /\ Route(bCache[n]) # "done"
             /\ pc' = Route(bCache[n]) /\ lb' = bCache[n]
          \/ pc' = pc /\ lb' = lb
      BY <1>3 DEF Begin
    <3> QED
      BY <2>1, <3>1, <3>2 DEF TypeOK
  <2> QED
    BY <1>3, <2>2, <2>3
       DEF Begin, TypeOK, clusterVars, browserVars, podVars, cacheVars
<1>4. ASSUME NEW n \in Names, SyncBrowser(n) PROVE TypeOK'
  <2>1. Head(bWatch[n]) \in Browsers /\ Tail(bWatch[n]) \in Seq(Browsers)
    BY <1>4 DEF SyncBrowser, TypeOK
  <2> QED
    BY <1>4, <2>1 DEF SyncBrowser, TypeOK, podVars, passVars
<1>5. ASSUME NEW n \in Names, SyncPod(n) PROVE TypeOK'
  <2>1. Head(pWatch[n]) \in Pods /\ Tail(pWatch[n]) \in Seq(Pods)
    BY <1>5 DEF SyncPod, TypeOK
  <2> QED
    BY <1>5, <2>1 DEF SyncPod, TypeOK, browserVars, passVars
<1>6. ASSUME NEW n \in Names, Environment(n) PROVE TypeOK'
  <2>1. EnvironmentFrame(n)
    BY <1>6, EnvironmentStepFrame DEF Environment
  <2>2. browser' \in [Names -> Browsers] /\ bWatch' \in [Names -> Seq(Browsers)]
        /\ born' \in [Names -> Nat]
    <3>1. CASE CreateBrowser(n)
      <4>1. born[n] + 1 \in Nat
        BY DEF TypeOK
      <4> QED
        BY <3>1, <4>1, ObjectTypes, StoreTypes DEF CreateBrowser, TypeOK
    <3> QED
      BY <2>1, <3>1, StoreTypes DEF EnvironmentFrame, TypeOK
  <2>3. pod' \in [Names -> Pods] /\ pWatch' \in [Names -> Seq(Pods)]
    BY <2>1, StoreTypes DEF EnvironmentFrame
  <2> QED
    BY <1>6, <2>1, <2>2, <2>3
       DEF Environment, EnvironmentFrame, TypeOK, cacheVars, passVars
<1>7. CASE UNCHANGED vars
  BY <1>7 DEF vars, clusterVars, browserVars, podVars, cacheVars, passVars, TypeOK
<1> QED
  BY <1>1, <1>2, <1>3, <1>4, <1>5, <1>6, <1>7 DEF Next

(* The variables keep their types, and a pass always has a Browser to work *)
(* on, for any number of names, containers and faults.                     *)
THEOREM TypeCorrect == Spec => []TypeOK
  BY TypeInit, TypeStep, PTL DEF Spec

-----------------------------------------------------------------------------
(* No Browser is forgotten *)

(* A pass that serves a Browser never turns to leaving it, nor back: the   *)
(* route is chosen once, from the Browser read first.                      *)
KeepsKind ==
  /\ pc # "idle"
  /\ pc \in Serving => pc' \in Serving \cup {"idle"}
  /\ pc \in Leaving => pc' \in Leaving \cup {"idle"}

(* Every step of a pass keeps its kind.                                    *)
LEMMA StepLabels == PassStep => KeepsKind
<1> SUFFICES ASSUME PassStep PROVE KeepsKind
  OBVIOUS
<1> USE DEF Patch, RemovePod, Done, Requeue, RequeueAfter, EndPass
<1>1. /\ \A b : AfterLabel(b) \in Serving /\ AfterFinalizer(b) \in Serving
                /\ AfterFailure(b) \in Serving
      /\ \A b, p : UpdateStatus(b, p) \in Serving \cup {"requeueAfter"}
      /\ \A n, b, p : JudgePod(n, b, p) \in Serving \cup {"requeueAfter"}
      /\ \A n, p : JudgeDeletion(n, p) \in Leaving \cup {"requeueAfter"}
  BY DEF Serving, Leaving, Labels, AfterLabel, AfterFinalizer, AfterFailure, UpdateStatus,
         JudgePending, JudgePod, JudgeDeletion
<1>2. /\ {"getPod", "failPod", "failPending", "createPod", "failConfig", "lookupConfig",
          "deleteBrowser"} \subseteq Serving
      /\ "releaseDeleted" \in Leaving
      /\ "idle" \notin Serving \cup Leaving /\ Serving \cap Leaving = {}
      /\ Endings \cap (Serving \cup Leaving) = {}
  BY DEF Serving, Leaving, Labels, Endings
<1>3. \A l \in Serving \cup {"requeueAfter"} : Goto(l) => pc' \in Serving \cup {"idle"}
  BY <1>2 DEF Goto, Endings
<1>4. \A l \in Leaving \cup {"requeueAfter"} : Goto(l) => pc' \in Leaving \cup {"idle"}
  BY <1>2 DEF Goto, Endings
<1>5. ASSUME pc \in Leaving, pc' \in Leaving \cup {"idle"} PROVE KeepsKind
  BY <1>2, <1>5 DEF KeepsKind
<1>6. ASSUME pc \in Serving, pc' \in Serving \cup {"idle"} PROVE KeepsKind
  BY <1>2, <1>6 DEF KeepsKind
<1>7. CASE ReleaseFailed
  BY <1>7, <1>5 DEF ReleaseFailed, Leaving
<1>8. CASE AddFinalizer \/ AssignLabels \/ SetPending \/ FailCritical \/ FailPod \/ Release
  <2>1. pc \in Serving
    BY <1>8 DEF AddFinalizer, AssignLabels, SetPending, FailCritical, FailPod, Release,
                Serving, Labels, Leaving
  <2>2. pc' \in Serving \cup {"idle"}
    BY <1>8, <1>1, <1>2, <1>3
       DEF AddFinalizer, AssignLabels, SetPending, FailCritical, FailPod, Release
  <2> QED
    BY <2>1, <2>2, <1>6
<1>9. CASE GetPod
  <2>1. pc \in Serving
    BY <1>9 DEF GetPod, Serving, Labels, Leaving
  <2>2. pc' \in Serving \cup {"idle"}
    <3> DEFINE l == IF Exists(pCache[req]) THEN JudgePod(req, lb, pCache[req])
                    ELSE "lookupConfig"
    <3>1. l \in Serving \cup {"requeueAfter"}
      BY <1>1, <1>2
    <3>2. \/ l \in Endings /\ Goto(l)
          \/ l \notin Endings /\ pc' = l
          \/ Requeue
      BY <1>9 DEF GetPod, Take
    <3> HIDE DEF l
    <3> QED
      BY <1>2, <1>3, <3>1, <3>2 DEF Endings
  <2> QED
    BY <2>1, <2>2, <1>6
<1>10. CASE KillFailed \/ KillBackoff
  <2>1. pc \in Serving
    BY <1>10 DEF KillFailed, KillBackoff, Serving, Labels, Leaving
  <2>2. pc' \in Serving \cup {"idle"}
    BY <1>10, <1>2, <1>3 DEF KillFailed, KillBackoff
  <2> QED
    BY <2>1, <2>2, <1>6
<1>11. CASE FailPending \/ FailConfig \/ Mirror \/ CreatePod \/ DeleteBrowser
  <2>1. pc \in Serving
    BY <1>11 DEF FailPending, FailConfig, Mirror, CreatePod, DeleteBrowser,
                 Serving, Labels, Leaving
  <2>2. pc' = "idle"
    BY <1>11 DEF FailPending, FailConfig, Mirror, CreatePod, DeleteBrowser
  <2> QED
    BY <2>1, <2>2, <1>6
<1>12. CASE LookupConfig
  <2>1. pc \in Serving
    BY <1>12 DEF LookupConfig, Serving, Labels, Leaving
  <2>2. pc' \in Serving \cup {"idle"}
    BY <1>12, <1>2, <1>3 DEF LookupConfig
  <2> QED
    BY <2>1, <2>2, <1>6
<1>13. CASE PodForDeletion
  <2>1. pc \in Leaving
    BY <1>13 DEF PodForDeletion, Leaving
  <2>2. pc' \in Leaving \cup {"idle"}
    <3> DEFINE l == JudgeDeletion(req, pCache[req])
    <3>1. l \in Leaving \cup {"requeueAfter"}
      BY <1>1
    <3>2. \/ l \in Endings /\ Goto(l)
          \/ l \notin Endings /\ pc' = l
          \/ Goto("releaseDeleted")
      BY <1>13 DEF PodForDeletion, Take
    <3> HIDE DEF l
    <3> QED
      BY <1>2, <1>4, <3>1, <3>2 DEF Endings
  <2> QED
    BY <2>1, <2>2, <1>5
<1>14. CASE DeletePod \/ ForceDelete \/ ReleaseDeleted
  <2>1. pc \in Leaving
    BY <1>14 DEF DeletePod, ForceDelete, ReleaseDeleted, Leaving
  <2>2. pc' \in Leaving \cup {"idle"}
    BY <1>14, <1>2, <1>4 DEF DeletePod, ForceDelete, ReleaseDeleted
  <2> QED
    BY <2>1, <2>2, <1>5
<1> QED
  BY <1>7, <1>8, <1>9, <1>10, <1>11, <1>12, <1>13, <1>14 DEF PassStep

(* A pass ends without a requeue only in one of five ways.                 *)
LEMMA QuietEndings ==
  ASSUME PassStep, pc' = "idle", req \notin queue'
  PROVE  \/ pc \in {"releaseFailed", "releaseDeleted"} /\ Patchable(WithoutOwn)
              /\ WritePatch(WithoutOwn)
         \/ pc \in {"failPending", "failConfig"} /\ Patchable(WithPhase("Failed"))
              /\ WritePatch(WithPhase("Failed"))
         \/ pc = "deleteBrowser" /\ StoreBrowser(req, DeletedBrowser(browser[req]))
<1>1. ~Requeue /\ ~RequeueAfter
  BY DEF Requeue, RequeueAfter
<1>2. ASSUME NEW l \in (Serving \cup Leaving) \cup {"requeueAfter"} PROVE ~Goto(l)
  BY <1>1 DEF Goto, Serving, Leaving, Labels, Endings
<1>3. /\ \A b : AfterLabel(b) \in Serving /\ AfterFinalizer(b) \in Serving
                /\ AfterFailure(b) \in Serving
      /\ \A b, p : UpdateStatus(b, p) \in Serving \cup {"requeueAfter"}
      /\ \A n, b, p : JudgePod(n, b, p) \in Serving \cup {"requeueAfter"}
      /\ \A n, p : JudgeDeletion(n, p) \in Leaving \cup {"requeueAfter"}
      /\ {"getPod", "failPod", "failPending", "createPod", "failConfig", "lookupConfig",
          "deleteBrowser"} \subseteq Serving
      /\ "releaseDeleted" \in Leaving
  BY DEF Serving, Leaving, Labels, AfterLabel, AfterFinalizer, AfterFailure, UpdateStatus,
         JudgePending, JudgePod, JudgeDeletion
<1>4. CASE ReleaseFailed \/ ReleaseDeleted
  BY <1>1, <1>4 DEF ReleaseFailed, ReleaseDeleted, Patch
<1>5. CASE FailPending \/ FailConfig
  BY <1>1, <1>5 DEF FailPending, FailConfig, Patch
<1>6. CASE DeleteBrowser
  BY <1>1, <1>6 DEF DeleteBrowser
<1>7. CASE AddFinalizer \/ AssignLabels \/ SetPending \/ FailCritical \/ FailPod \/ Release
  BY <1>1, <1>2, <1>3, <1>7
     DEF AddFinalizer, AssignLabels, SetPending, FailCritical, FailPod, Release, Patch
<1>8. CASE Mirror \/ CreatePod
  BY <1>1, <1>8 DEF Mirror, CreatePod, Patch
<1>9. CASE KillFailed \/ KillBackoff \/ DeletePod \/ ForceDelete
  BY <1>1, <1>2, <1>3, <1>9 DEF KillFailed, KillBackoff, DeletePod, ForceDelete, RemovePod
<1>10. CASE LookupConfig
  BY <1>2, <1>3, <1>10 DEF LookupConfig
<1>11. CASE GetPod
  <2> DEFINE l == IF Exists(pCache[req]) THEN JudgePod(req, lb, pCache[req])
                  ELSE "lookupConfig"
  <2>1. l \in Serving \cup {"requeueAfter"}
    BY <1>3
  <2>2. Goto(l) \/ pc' = l \/ Requeue
    BY <1>11 DEF GetPod, Take
  <2> HIDE DEF l
  <2>3. pc' # l
    BY <2>1 DEF Serving, Labels
  <2> QED
    BY <1>1, <1>2, <2>1, <2>2, <2>3
<1>12. CASE PodForDeletion
  <2> DEFINE l == JudgeDeletion(req, pCache[req])
  <2>1. l \in Leaving \cup {"requeueAfter"}
    BY <1>3
  <2>2. Goto(l) \/ pc' = l \/ Goto("releaseDeleted")
    BY <1>12 DEF PodForDeletion, Take
  <2> HIDE DEF l
  <2>3. pc' # l
    BY <2>1 DEF Leaving
  <2> QED
    BY <1>2, <1>3, <2>1, <2>2, <2>3
<1> QED
  BY <1>4, <1>5, <1>6, <1>7, <1>8, <1>9, <1>10, <1>11, <1>12 DEF PassStep

(* If no event has overtaken the pass, such an ending is news.             *)
LEMMA QuietEndingIsNews ==
  ASSUME NothingForgottenInv, PassStep, pc' = "idle", req \notin queue, req \notin queue'
  PROVE  bWatch'[req] # <<>>
<1>0. req \in Names /\ browser[req] \in Browsers /\ lb \in Browsers
      /\ bWatch \in [Names -> Seq(Browsers)] /\ browser \in [Names -> Browsers]
      /\ bWatch[req] \in Seq(Browsers)
  BY DEF NothingForgottenInv, TypeOK
<1>1. ASSUME NEW b \in Browsers, StoreBrowser(req, b), b # browser[req]
      PROVE  bWatch'[req] # <<>>
  <2>1. Logged(bWatch[req], browser[req], b) # <<>>
    BY <1>0, <1>1, LoggedFacts
  <2> QED
    BY <1>0, <1>1, <2>1 DEF StoreBrowser
<1>2. CASE bWatch[req] # <<>>
  <2>1. PICK b \in Browsers : StoreBrowser(req, b)
    BY PassStepFrame DEF NothingForgottenInv, PassFrame, BrowserMove
  <2>2. CASE b = browser[req]
    BY <1>0, <1>2, <2>1, <2>2 DEF StoreBrowser, Logged
  <2> QED
    BY <1>1, <2>1, <2>2
<1>3. CASE bWatch[req] = <<>>
  <2>1. pc # "idle" /\ Exists(lb) /\ lb = bCache[req] /\ lb = browser[req]
    BY <1>0, <1>3, StepLabels
       DEF KeepsKind, NothingForgottenInv, TypeOK, PassKnowsBrowser, WatchEndsInTruth
  <2>2. CASE /\ pc \in {"releaseFailed", "releaseDeleted"}
             /\ Patchable(WithoutOwn) /\ WritePatch(WithoutOwn)
    <3> DEFINE m == Merged(lb, lb, [lb EXCEPT !.fins = @ \ {Own}])
    <3>1. Own \in lb.fins
      BY <2>2 DEF NothingForgottenInv, PassKnowsBrowser, Leaving
    <3>2. m.fins = lb.fins \ {Own} \/ m = NoBrowser
      BY <1>0 DEF Merged, Swept, Browsers
    <3>3. m # lb
      BY <2>1, <3>1, <3>2, ObjectTypes
    <3>4. m \in Browsers /\ StoreBrowser(req, m)
      <4>1. [lb EXCEPT !.fins = @ \ {Own}] \in Browsers
        BY <1>0 DEF Browsers
      <4> QED
        BY <1>0, <2>1, <2>2, <4>1, MergedFacts DEF Patchable, WritePatch, WithoutOwn, Cached
    <3> QED
      BY <1>1, <2>1, <3>3, <3>4
  <2>3. CASE /\ pc \in {"failPending", "failConfig"}
             /\ Patchable(WithPhase("Failed")) /\ WritePatch(WithPhase("Failed"))
    <3> DEFINE m == Merged(lb, lb, [lb EXCEPT !.phase = "Failed"])
    <3>1. lb.phase # "Failed"
      BY <2>3 DEF NothingForgottenInv, PassKnowsBrowser, Serving, Labels, Leaving
    <3>2. m.phase = "Failed" \/ m = NoBrowser
      BY <1>0, <3>1 DEF Merged, Swept, Browsers
    <3>3. m # lb
      BY <2>1, <3>1, <3>2, ObjectTypes
    <3>4. m \in Browsers /\ StoreBrowser(req, m)
      <4>1. [lb EXCEPT !.phase = "Failed"] \in Browsers
        BY <1>0 DEF Browsers, PodPhases
      <4> QED
        BY <1>0, <2>1, <2>3, <4>1, MergedFacts DEF Patchable, WritePatch, WithPhase, Cached
    <3> QED
      BY <1>1, <2>1, <3>3, <3>4
  <2>4. CASE pc = "deleteBrowser" /\ StoreBrowser(req, DeletedBrowser(browser[req]))
    <3>1. ~lb.deleting
      BY <2>4 DEF NothingForgottenInv, PassKnowsBrowser, Serving, Labels, Leaving
    <3>2. DeletedBrowser(lb) # lb
      BY <1>0, <2>1, <3>1, ObjectTypes DEF DeletedBrowser, Browsers
    <3> QED
      BY <1>0, <1>1, <2>1, <2>4, <3>2, DeletedFacts
  <2> QED
    BY <2>2, <2>3, <2>4, QuietEndings
<1> QED
  BY <1>2, <1>3

(* After a write the watch ends in what was written, and there is news unless *)
(* nothing changed.                                                        *)
LEMMA StoreKeepsTruth ==
  ASSUME TypeOK, WatchEndsInTruth, NEW n \in Names, NEW b \in Browsers,
         StoreBrowser(n, b), bCache' = bCache
  PROVE  /\ WatchEndsInTruth'
         /\ \A m \in Names : m # n => browser'[m] = browser[m] /\ bWatch'[m] = bWatch[m]
         /\ bWatch'[n] = <<>> => browser'[n] = browser[n] /\ bWatch[n] = <<>>
<1>0. /\ bWatch \in [Names -> Seq(Browsers)] /\ browser \in [Names -> Browsers]
      /\ bWatch[n] \in Seq(Browsers)
  BY DEF TypeOK
<1> DEFINE L == Logged(bWatch[n], browser[n], b)
<1>1. /\ browser' = [browser EXCEPT ![n] = b]
      /\ bWatch' = [bWatch EXCEPT ![n] = L]
  BY DEF StoreBrowser
<1>2. /\ b = browser[n] => L = bWatch[n]
      /\ b # browser[n] => L # <<>> /\ L[Len(L)] = b
  BY <1>0, LoggedFacts
<1> HIDE DEF L
<1>3. \A m \in Names : m # n => browser'[m] = browser[m] /\ bWatch'[m] = bWatch[m]
  BY <1>0, <1>1
<1>4. browser'[n] = b /\ bWatch'[n] = L
  BY <1>0, <1>1
<1>5. bWatch'[n] = <<>> => browser'[n] = browser[n] /\ bWatch[n] = <<>>
  BY <1>2, <1>4
<1>6. ASSUME NEW m \in Names
      PROVE  IF bWatch'[m] = <<>> THEN bCache'[m] = browser'[m]
                                  ELSE bWatch'[m][Len(bWatch'[m])] = browser'[m]
  <2>1. CASE m = n
    <3>1. CASE b = browser[n]
      BY <1>2, <1>4, <2>1, <3>1 DEF WatchEndsInTruth
    <3>2. CASE b # browser[n]
      BY <1>2, <1>4, <2>1, <3>2
    <3> QED
      BY <3>1, <3>2
  <2>2. CASE m # n
    BY <1>3, <2>2 DEF WatchEndsInTruth
  <2> QED
    BY <2>1, <2>2
<1> QED
  BY <1>3, <1>5, <1>6 DEF WatchEndsInTruth

(* The route a pass takes tells what it knows of its Browser.              *)
LEMMA RouteFacts ==
  ASSUME NEW b
  PROVE  /\ Route(b) = "done" => Settled(b)
         /\ Route(b) \in Serving => ~b.deleting /\ b.phase # "Failed"
         /\ Route(b) \in Leaving => Own \in b.fins
         /\ Route(b) \in Serving \cup Leaving \cup {"done"}
  BY DEF Route, AfterFinalizer, AfterLabel, Settled, Serving, Leaving, Labels

(* The invariant holds at the start.                                       *)
LEMMA NothingForgottenInit == Init => NothingForgottenInv
<1> SUFFICES ASSUME Init PROVE NothingForgottenInv
  OBVIOUS
<1>1. WatchEndsInTruth
  BY DEF Init, ClusterInit, WatchEndsInTruth
<1>2. PassKnowsBrowser
  BY DEF Init, PassKnowsBrowser, Serving, Leaving, Labels
<1>3. NeverForgotten
  BY ObjectTypes DEF Init, ClusterInit, NeverForgotten, Settled
<1> QED
  BY <1>1, <1>2, <1>3, TypeInit DEF NothingForgottenInv

(* The steps of a pass keep the parts of the invariant.                    *)
LEMMA NothingForgottenPass ==
  ASSUME NothingForgottenInv, PassStep
  PROVE  WatchEndsInTruth' /\ PassKnowsBrowser' /\ NeverForgotten'
<1>0. TypeOK /\ WatchEndsInTruth /\ PassKnowsBrowser /\ NeverForgotten /\ req \in Names
  BY DEF NothingForgottenInv, TypeOK
<1>1. /\ req' = req /\ bCache' = bCache
      /\ queue' = queue \/ queue' = queue \cup {req}
      /\ \/ pc' = "idle" /\ lb' = NoBrowser
         \/ pc' \in Labels \ {"idle"} /\ lb' = lb
  BY <1>0, PassStepFrame DEF PassFrame, PassMove, Undisturbed, cacheVars
<1>2. PICK b \in Browsers : StoreBrowser(req, b)
  BY <1>0, PassStepFrame DEF PassFrame, BrowserMove
<1>3. /\ WatchEndsInTruth'
      /\ \A m \in Names : m # req => browser'[m] = browser[m] /\ bWatch'[m] = bWatch[m]
  BY <1>0, <1>1, <1>2, StoreKeepsTruth
<1>4. PassKnowsBrowser'
  <2>1. Serving \cup Leaving = Labels \ {"idle"} /\ "idle" \notin Serving \cup Leaving
        /\ Serving \cap Leaving = {}
    BY DEF Serving, Leaving, Labels
  <2>2. CASE pc' = "idle"
    BY <2>1, <2>2 DEF PassKnowsBrowser
  <2>3. CASE pc' # "idle"
    <3>1. pc \in Serving \cup Leaving /\ lb' = lb
      BY <1>0, <1>1, <2>1, <2>3, StepLabels DEF KeepsKind, TypeOK
    <3>2. /\ pc' \in Serving => pc \in Serving
          /\ pc' \in Leaving => pc \in Leaving
      BY <2>1, <2>3, <3>1, StepLabels DEF KeepsKind
    <3> QED
      BY <1>0, <1>1, <2>1, <3>1, <3>2 DEF PassKnowsBrowser
  <2> QED
    BY <2>2, <2>3
<1>5. ASSUME NEW n \in Names
      PROVE  \/ Settled(browser'[n]) \/ n \in queue'
             \/ pc' # "idle" /\ req' = n
             \/ bWatch'[n] # <<>>
  <2>1. CASE n # req
    BY <1>0, <1>1, <1>3, <2>1 DEF NeverForgotten
  <2>2. CASE n = req
    BY <1>1, <2>2, QuietEndingIsNews
  <2> QED
    BY <2>1, <2>2
<1> QED
  BY <1>3, <1>4, <1>5 DEF NeverForgotten, Settled

(* Every step keeps the invariant.                                         *)
LEMMA NothingForgottenStep == NothingForgottenInv /\ [Next]_vars => NothingForgottenInv'
<1> SUFFICES ASSUME NothingForgottenInv, [Next]_vars PROVE NothingForgottenInv'
  OBVIOUS
<1>0. TypeOK /\ WatchEndsInTruth /\ PassKnowsBrowser /\ NeverForgotten
  BY DEF NothingForgottenInv
<1>t. TypeOK'
  BY <1>0, TypeStep
<1>k. Serving \cup Leaving = Labels \ {"idle"} /\ "idle" \notin Serving \cup Leaving
  BY DEF Serving, Leaving, Labels
<1>1. CASE PassStep
  BY <1>t, <1>1, NothingForgottenPass DEF NothingForgottenInv
<1>2. CASE CrashRestart
  <2>1. WatchEndsInTruth'
    BY <1>2 DEF CrashRestart, WatchEndsInTruth
  <2>2. PassKnowsBrowser'
    BY <1>2, <1>k DEF CrashRestart, EndPass, PassKnowsBrowser
  <2>3. NeverForgotten'
    BY <1>2 DEF CrashRestart, NeverForgotten, Settled
  <2> QED
    BY <1>t, <2>1, <2>2, <2>3 DEF NothingForgottenInv
<1>3. ASSUME NEW n \in Names, Begin(n) PROVE NothingForgottenInv'
  <2>1. /\ browser' = browser /\ bWatch' = bWatch /\ bCache' = bCache /\ pc = "idle"
        /\ req' = n /\ queue' = queue \ {n}
    BY <1>3 DEF Begin, clusterVars, browserVars, cacheVars
  <2>2. \/ /\ Exists(bCache[n]) /\ Route(bCache[n]) # "done"
           /\ pc' = Route(bCache[n]) /\ lb' = bCache[n]
        \/ /\ ~Exists(bCache[n]) \/ Route(bCache[n]) = "done"
           /\ pc' = "idle"
    BY <1>3, <2>1 DEF Begin
  <2>3. WatchEndsInTruth'
    BY <1>0, <2>1 DEF WatchEndsInTruth
  <2>4. PassKnowsBrowser'
    BY <1>k, <2>1, <2>2, RouteFacts DEF PassKnowsBrowser
  <2>5. ASSUME NEW m \in Names
        PROVE  \/ Settled(browser'[m]) \/ m \in queue'
               \/ pc' # "idle" /\ req' = m
               \/ bWatch'[m] # <<>>
    <3>1. CASE m # n
      BY <1>0, <2>1, <3>1 DEF NeverForgotten
    <3>2. CASE m = n
      <4>1. CASE pc' # "idle"
        BY <2>1, <3>2, <4>1
      <4>2. CASE pc' = "idle" /\ bWatch[n] = <<>>
        <5>1. bCache[n] = browser[n]
          BY <1>0, <4>2 DEF WatchEndsInTruth
        <5>2. Route(bCache[n]) # "idle"
          BY <1>k, RouteFacts
        <5>3. Settled(browser[n])
          BY <2>2, <4>2, <5>1, <5>2, RouteFacts DEF Settled
        <5> QED
          BY <2>1, <3>2, <5>3
      <4> QED
        BY <2>1, <3>2, <4>1, <4>2
    <3> QED
      BY <3>1, <3>2
  <2>6. NeverForgotten'
    BY <2>5 DEF NeverForgotten, Settled
  <2> QED
    BY <1>t, <2>3, <2>4, <2>6 DEF NothingForgottenInv
<1>4. ASSUME NEW n \in Names, SyncBrowser(n) PROVE NothingForgottenInv'
  <2>0. bWatch \in [Names -> Seq(Browsers)] /\ bCache \in [Names -> Browsers]
        /\ bWatch[n] \in Seq(Browsers) /\ bWatch[n] # <<>>
    BY <1>0, <1>4 DEF TypeOK, SyncBrowser
  <2>1. /\ browser' = browser /\ pc' = pc /\ req' = req /\ lb' = lb
        /\ queue' = queue \cup {n}
        /\ bCache' = [bCache EXCEPT ![n] = Head(bWatch[n])]
        /\ bWatch' = [bWatch EXCEPT ![n] = Tail(bWatch[n])]
    BY <1>4 DEF SyncBrowser, passVars
  <2>2. ASSUME NEW m \in Names
        PROVE  IF bWatch'[m] = <<>> THEN bCache'[m] = browser'[m]
                                    ELSE bWatch'[m][Len(bWatch'[m])] = browser'[m]
    <3>1. CASE m # n
      BY <1>0, <2>0, <2>1, <3>1 DEF WatchEndsInTruth
    <3>2. CASE m = n
      <4>1. bCache'[n] = Head(bWatch[n]) /\ bWatch'[n] = Tail(bWatch[n])
        BY <2>0, <2>1
      <4>2. bWatch[n][Len(bWatch[n])] = browser[n]
        BY <1>0, <2>0 DEF WatchEndsInTruth
      <4>3. CASE Tail(bWatch[n]) = <<>>
        <5>1. Head(bWatch[n]) = bWatch[n][Len(bWatch[n])]
          <6>1. Len(Tail(bWatch[n])) = Len(bWatch[n]) - 1
            BY <2>0
          <6>2. Len(Tail(bWatch[n])) = 0
            <7>1. Len(<<>>) = 0
              OBVIOUS
            <7> QED
              BY <4>3, <7>1, Zenon
          <6>4. Len(bWatch[n]) \in Nat
            BY <2>0
          <6>3. Len(bWatch[n]) = 1
            BY <6>1, <6>2, <6>4
          <6> QED
            BY <2>0, <6>3
        <5> QED
          BY <2>1, <3>2, <4>1, <4>2, <4>3, <5>1
      <4>4. CASE Tail(bWatch[n]) # <<>>
        <5>1. Tail(bWatch[n])[Len(Tail(bWatch[n]))] = bWatch[n][Len(bWatch[n])]
          BY <2>0, <4>4
        <5> QED
          BY <2>1, <3>2, <4>1, <4>2, <4>4, <5>1
      <4> QED
        BY <4>3, <4>4
    <3> QED
      BY <3>1, <3>2
  <2>3. WatchEndsInTruth'
    BY <2>2 DEF WatchEndsInTruth
  <2>4. PassKnowsBrowser'
    BY <1>0, <2>0, <2>1 DEF PassKnowsBrowser, TypeOK
  <2>5. NeverForgotten'
    <3>1. ASSUME NEW m \in Names
          PROVE  \/ Settled(browser'[m]) \/ m \in queue'
                 \/ pc' # "idle" /\ req' = m
                 \/ bWatch'[m] # <<>>
      BY <1>0, <2>0, <2>1 DEF NeverForgotten
    <3> QED
      BY <3>1 DEF NeverForgotten, Settled
  <2> QED
    BY <1>t, <2>3, <2>4, <2>5 DEF NothingForgottenInv
<1>5. ASSUME NEW n \in Names, SyncPod(n) PROVE NothingForgottenInv'
  <2>1. /\ browser' = browser /\ bWatch' = bWatch /\ bCache' = bCache
        /\ pc' = pc /\ req' = req /\ lb' = lb /\ queue' = queue \cup {n}
    BY <1>5 DEF SyncPod, browserVars, passVars
  <2> QED
    BY <1>0, <1>t, <2>1
       DEF NothingForgottenInv, WatchEndsInTruth, PassKnowsBrowser, NeverForgotten, Settled
<1>6. ASSUME NEW n \in Names, Environment(n) PROVE NothingForgottenInv'
  <2>1. pc' = pc /\ req' = req /\ lb' = lb /\ queue' = queue /\ bCache' = bCache
    BY <1>6 DEF Environment, passVars, cacheVars
  <2>2. PICK b \in Browsers : StoreBrowser(n, b)
    <3>1. born[n] + 1 \in Nat
      BY <1>0 DEF TypeOK
    <3> QED
      BY <1>0, <1>6, <3>1, EnvironmentStepFrame, ObjectTypes
         DEF Environment, EnvironmentFrame, CreateBrowser
  <2>3. /\ WatchEndsInTruth'
        /\ \A m \in Names : m # n => browser'[m] = browser[m] /\ bWatch'[m] = bWatch[m]
        /\ bWatch'[n] = <<>> => browser'[n] = browser[n] /\ bWatch[n] = <<>>
    BY <1>0, <2>1, <2>2, StoreKeepsTruth
  <2>4. PassKnowsBrowser'
    BY <1>0, <2>1 DEF PassKnowsBrowser
  <2>5. ASSUME NEW m \in Names
        PROVE  \/ Settled(browser'[m]) \/ m \in queue'
               \/ pc' # "idle" /\ req' = m
               \/ bWatch'[m] # <<>>
    BY <1>0, <2>1, <2>3 DEF NeverForgotten
  <2>6. NeverForgotten'
    BY <2>5 DEF NeverForgotten, Settled
  <2> QED
    BY <1>t, <2>3, <2>4, <2>6 DEF NothingForgottenInv
<1>7. CASE UNCHANGED vars
  BY <1>0, <1>t, <1>7
     DEF vars, clusterVars, browserVars, cacheVars, passVars, NothingForgottenInv,
         WatchEndsInTruth, PassKnowsBrowser, NeverForgotten, Settled
<1> QED
  BY <1>1, <1>2, <1>3, <1>4, <1>5, <1>6, <1>7 DEF Next

(* A Browser that still needs the controller is always on its way to       *)
(* another pass, for every lag of the caches and every number of names,    *)
(* failed calls and restarts.                                              *)
THEOREM NothingForgotten == Spec => []NeverForgotten
<1>1. NothingForgottenInv => NeverForgotten
  BY DEF NothingForgottenInv
<1> QED
  BY <1>1, NothingForgottenInit, NothingForgottenStep, PTL DEF Spec

-----------------------------------------------------------------------------
(* A deletion that a pass has seen is final *)

LEMMA LastVersion ==
  ASSUME TypeOK, WatchEndsInTruth, NEW n \in Names
  PROVE  /\ Len(bWatch[n]) \in Nat /\ Len(bWatch[n]) \in 0 .. Len(bWatch[n])
         /\ Version(n, Len(bWatch[n])) = browser[n]
         /\ \A i \in 0 .. Len(bWatch[n]) : Version(n, i) \in Browsers
<1>1. bWatch[n] \in Seq(Browsers) /\ bCache[n] \in Browsers
  BY DEF TypeOK
<1>2. Len(bWatch[n]) \in Nat
  BY <1>1
<1>3. bWatch[n] = <<>> <=> Len(bWatch[n]) = 0
  BY <1>1
<1>4. Version(n, Len(bWatch[n])) = browser[n]
  BY <1>3 DEF Version, WatchEndsInTruth
<1>5. ASSUME NEW i \in 0 .. Len(bWatch[n]) PROVE Version(n, i) \in Browsers
  <2>1. CASE i = 0
    BY <1>1, <2>1 DEF Version
  <2>2. CASE i # 0
    <3>1. i \in 1 .. Len(bWatch[n])
      BY <1>2, <2>2
    <3> QED
      BY <1>1, <2>2, <3>1 DEF Version
  <2> QED
    BY <2>1, <2>2
<1>6. \A k \in Nat : k \in 0 .. k
  OBVIOUS
<1> QED
  BY <1>2, <1>4, <1>5, <1>6

(* Such a write keeps the order.                                           *)
LEMMA StoreKeepsOrder ==
  ASSUME DeletionInv, NEW n \in Names, NEW b \in Browsers,
         StoreBrowser(n, b), bCache' = bCache, retired' = retired,
         \/ born' = born /\ Continues(browser[n], b)
         \/ born' = [born EXCEPT ![n] = @ + 1] /\ b.uid = born[n] + 1
  PROVE  VersionsInOrder' /\ \A m \in Names : retired'[m] <= born'[m]
<1>0. /\ TypeOK /\ WatchEndsInTruth /\ VersionsInOrder
      /\ bWatch \in [Names -> Seq(Browsers)] /\ browser \in [Names -> Browsers]
      /\ born \in [Names -> Nat] /\ retired \in [Names -> Nat]
      /\ bWatch[n] \in Seq(Browsers)
      /\ \A m \in Names : retired[m] <= born[m]
  BY DEF DeletionInv, NothingForgottenInv, TypeOK
<1> DEFINE log == bWatch[n]
           L == Logged(log, browser[n], b)
<1>1. bWatch' = [bWatch EXCEPT ![n] = L]
  BY DEF StoreBrowser
<1>2. /\ b = browser[n] => L = log
      /\ b # browser[n] =>
           /\ Len(L) \in Nat \ {0} /\ L[Len(L)] = b
           /\ \A i \in 1 .. Len(L) - 1 : i \in 1 .. Len(log) /\ L[i] = log[i]
  BY <1>0, LoggedFacts
<1> HIDE DEF L
<1>3. bWatch'[n] = L /\ \A m \in Names : m # n => bWatch'[m] = bWatch[m]
  BY <1>0, <1>1
<1>4. ASSUME NEW m \in Names
      PROVE  born[m] \in Nat /\ born'[m] \in Nat /\ born[m] <= born'[m]
  <2>1. born[m] \in Nat
    BY <1>0
  <2>2. born'[m] = born[m] \/ born'[m] = born[m] + 1
    BY <1>0
  <2> QED
    BY <2>1, <2>2
<1>5. \A m \in Names : retired'[m] = retired[m] /\ retired[m] \in Nat
  BY <1>0
<1>6. \A m \in Names : retired'[m] <= born'[m]
  BY <1>0, <1>4, <1>5
<1>7. ASSUME NEW i \in 0 .. Len(log)
      PROVE  /\ Follows(Version(n, i), b) /\ NotBefore(retired[n], b)
             /\ b.uid <= born'[n]
  <2>1. /\ Version(n, Len(log)) = browser[n] /\ Len(log) \in Nat
        /\ Len(log) \in 0 .. Len(log) /\ Version(n, i) \in Browsers
    BY <1>0, LastVersion
  <2>2. Version(n, i).uid \in Nat /\ browser[n].uid \in Nat /\ b.uid \in Nat
    BY <1>0, <2>1 DEF Browsers
  <2>3. /\ Version(n, i).uid <= born[n] /\ browser[n].uid <= born[n]
        /\ NotBefore(retired[n], browser[n])
        /\ i < Len(log) => Follows(Version(n, i), browser[n])
    BY <1>0, <2>1 DEF VersionsInOrder
  <2>4. i = Len(log) \/ i < Len(log)
    BY <2>1
  <2>5. CASE born' = born /\ Continues(browser[n], b)
    <3>1. Follows(Version(n, i), b)
      BY <2>1, <2>2, <2>3, <2>4, <2>5 DEF Follows, Continues, Exists
    <3>2. NotBefore(retired[n], b)
      BY <2>3, <2>5 DEF NotBefore, Continues, Exists
    <3>3. b.uid <= born'[n]
      BY <1>4, <2>2, <2>3, <2>5 DEF Continues, Exists
    <3> QED
      BY <3>1, <3>2, <3>3
  <2>6. CASE born' = [born EXCEPT ![n] = @ + 1] /\ b.uid = born[n] + 1
    <3>1. born'[n] = born[n] + 1
      BY <1>0, <2>6
    <3>2. retired[n] \in Nat /\ retired[n] <= born[n] /\ born[n] \in Nat
      BY <1>0
    <3>3. b.uid > Version(n, i).uid /\ b.uid > retired[n]
      BY <2>2, <2>3, <2>6, <3>2
    <3> QED
      BY <2>6, <3>1, <3>2, <3>3 DEF Follows, NotBefore
  <2> QED
    BY <2>5, <2>6
<1>8. ASSUME NEW m \in Names, NEW i \in 0 .. Len(bWatch'[m])
      PROVE  /\ Version(m, i)'.uid <= born'[m]
             /\ NotBefore(retired'[m], Version(m, i)')
             /\ \A j \in 0 .. Len(bWatch'[m]) :
                  i < j => Follows(Version(m, i)', Version(m, j)')
  <2>1. CASE m # n \/ b = browser[n]
    <3>1. bWatch'[m] = bWatch[m]
      BY <1>2, <1>3, <2>1
    <3>2. \A j \in 0 .. Len(bWatch[m]) : Version(m, j)' = Version(m, j)
      BY <3>1 DEF Version
    <3>3. Version(m, i).uid \in Nat /\ Version(m, i).uid <= born[m]
      BY <1>0, <3>1, LastVersion DEF VersionsInOrder, Browsers
    <3>4. Version(m, i)'.uid <= born'[m]
      BY <1>4, <3>1, <3>2, <3>3
    <3> QED
      BY <1>0, <1>5, <3>1, <3>2, <3>4 DEF VersionsInOrder
  <2>2. CASE m = n /\ b # browser[n]
    <3>0. Len(L) \in Nat \ {0} /\ Len(log) \in Nat /\ bWatch'[n] = L
      BY <1>0, <1>2, <1>3, <2>2
    <3>l. PICK l : l = Len(L)
      OBVIOUS
    <3>1. Version(n, l)' = b
      BY <1>2, <2>2, <3>0, <3>l DEF Version
    <3>2. ASSUME NEW k \in 0 .. Len(L), k # Len(L)
          PROVE  k \in 0 .. Len(log) /\ Version(n, k)' = Version(n, k)
      <4>1. CASE k = 0
        BY <3>0, <4>1 DEF Version
      <4>2. CASE k # 0
        <5>1. k \in 1 .. Len(L) - 1
          BY <3>0, <3>2, <4>2
        <5>2. k \in 1 .. Len(log) /\ L[k] = log[k]
          BY <1>2, <2>2, <5>1
        <5>3. Version(n, k)' = L[k] /\ Version(n, k) = log[k]
          BY <3>0, <4>2 DEF Version
        <5> QED
          BY <3>0, <5>2, <5>3
      <4> QED
        BY <4>1, <4>2
    <3>3. CASE i = Len(L)
      <4>1. 0 \in 0 .. Len(log)
        BY <3>0
      <4>2. NotBefore(retired[n], b) /\ b.uid <= born'[n]
        BY <1>7, <4>1
      <4>3. \A j \in 0 .. Len(L) : ~(i < j)
        BY <3>0, <3>3
      <4> QED
        BY <1>5, <2>2, <3>0, <3>1, <3>3, <3>l, <4>2, <4>3
    <3>4. CASE i # Len(L)
      <4>1. i \in 0 .. Len(log) /\ Version(n, i)' = Version(n, i)
        BY <2>2, <3>0, <3>2, <3>4
      <4>2. Version(n, i).uid \in Nat /\ Version(n, i).uid <= born[n]
        BY <1>0, <4>1, LastVersion DEF VersionsInOrder, Browsers
      <4>3. Version(n, i)'.uid <= born'[n]
        BY <1>4, <4>1, <4>2
      <4>4. NotBefore(retired[n], Version(n, i))
        BY <1>0, <4>1 DEF VersionsInOrder
      <4>5. ASSUME NEW j \in 0 .. Len(L), i < j
            PROVE  Follows(Version(n, i)', Version(n, j)')
        <5>1. CASE j = Len(L)
          BY <1>7, <3>1, <3>l, <4>1, <5>1
        <5>2. CASE j # Len(L)
          <6>1. j \in 0 .. Len(log) /\ Version(n, j)' = Version(n, j)
            BY <3>2, <5>2
          <6> QED
            BY <1>0, <4>1, <4>5, <6>1 DEF VersionsInOrder
        <5> QED
          BY <5>1, <5>2
      <4> QED
        BY <1>5, <2>2, <3>0, <4>1, <4>3, <4>4, <4>5
    <3> QED
      BY <3>3, <3>4
  <2> QED
    BY <2>1, <2>2
<1>9. VersionsInOrder'
  BY <1>8 DEF VersionsInOrder
<1> QED
  BY <1>6, <1>9

(* The invariant holds at the start.                                       *)
LEMMA DeletionInit == Init => DeletionInv
<1> SUFFICES ASSUME Init PROVE DeletionInv
  OBVIOUS
<1>1. \A n \in Names : Len(bWatch[n]) = 0 /\ bCache[n] = NoBrowser
  BY DEF Init, ClusterInit
<1>2. VersionsInOrder
  <2>1. NoBrowser.uid = 0
    BY DEF NoBrowser, NewBrowser
  <2>2. \A n \in Names : born[n] = 0 /\ retired[n] = 0
    BY DEF Init, ClusterInit
  <2> QED
    BY <1>1, <2>1, <2>2 DEF VersionsInOrder, Version, NotBefore, Follows, Exists
<1>3. \A n \in Names : retired[n] <= born[n]
  <2>1. \A n \in Names : born[n] = 0 /\ retired[n] = 0
    BY DEF Init, ClusterInit
  <2>2. 0 <= 0
    OBVIOUS
  <2> QED
    BY <2>1, <2>2, Zenon
<1>4. pc \notin Serving
  BY DEF Init, Serving
<1> QED
  BY <1>2, <1>3, <1>4, NothingForgottenInit DEF DeletionInv

(* Every step keeps the invariant.                                         *)
LEMMA DeletionStep == DeletionInv /\ [Next]_vars => DeletionInv'
<1> SUFFICES ASSUME DeletionInv, [Next]_vars PROVE DeletionInv'
  OBVIOUS
<1>0. /\ NothingForgottenInv /\ TypeOK /\ WatchEndsInTruth /\ VersionsInOrder /\ req \in Names
      /\ \A m \in Names : retired[m] <= born[m]
      /\ pc \in Serving => lb.uid > retired[req]
  BY DEF DeletionInv, NothingForgottenInv, TypeOK
<1>t. NothingForgottenInv'
  BY <1>0, NothingForgottenStep
<1>k. "idle" \notin Serving \cup Leaving /\ Serving \cap Leaving = {}
      /\ Serving \cup Leaving = Labels \ {"idle"}
  BY DEF Serving, Leaving, Labels
<1>1. CASE PassStep
  <2>1. PassFrame
    BY <1>0, <1>1, PassStepFrame
  <2>2. /\ born' = born /\ retired' = retired /\ bCache' = bCache /\ req' = req
        /\ \/ pc' = "idle" /\ lb' = NoBrowser
           \/ pc' \in Labels \ {"idle"} /\ lb' = lb
    BY <2>1 DEF PassFrame, PassMove, Undisturbed, cacheVars
  <2>3. PICK b \in Browsers : Continues(browser[req], b) /\ StoreBrowser(req, b)
    BY <2>1 DEF PassFrame, BrowserMove
  <2>4. VersionsInOrder' /\ \A m \in Names : retired'[m] <= born'[m]
    BY <1>0, <2>2, <2>3, StoreKeepsOrder
  <2>5. pc' \in Serving => lb'.uid > retired'[req']
    <3>1. SUFFICES ASSUME pc' \in Serving PROVE lb'.uid > retired'[req']
      OBVIOUS
    <3>2. pc \in Serving /\ lb' = lb
      BY <1>0, <1>1, <1>k, <2>2, <3>1, StepLabels DEF KeepsKind, TypeOK
    <3> QED
      BY <1>0, <2>2, <3>2
  <2> QED
    BY <1>t, <2>4, <2>5 DEF DeletionInv
<1>2. CASE CrashRestart
  <2>1. /\ bCache' = browser /\ retired' = retired /\ born' = born /\ pc' = "idle"
        /\ \A m \in Names : bWatch'[m] = <<>>
    BY <1>2 DEF CrashRestart, EndPass
  <2>2. ASSUME NEW m \in Names, NEW i \in 0 .. Len(bWatch'[m])
        PROVE  /\ Version(m, i)'.uid <= born'[m]
               /\ NotBefore(retired'[m], Version(m, i)')
               /\ \A j \in 0 .. Len(bWatch'[m]) :
                    i < j => Follows(Version(m, i)', Version(m, j)')
    <3>1. Len(bWatch'[m]) = 0
      BY <2>1
    <3>2. i = 0 /\ \A j \in 0 .. Len(bWatch'[m]) : ~(i < j)
      BY <3>1
    <3>3. Version(m, i)' = browser[m]
      BY <2>1, <3>2 DEF Version
    <3>4. browser[m].uid <= born[m] /\ NotBefore(retired[m], browser[m])
      BY <1>0, LastVersion DEF VersionsInOrder
    <3> QED
      BY <2>1, <3>2, <3>3, <3>4
  <2>3. VersionsInOrder'
    BY <2>2 DEF VersionsInOrder
  <2> QED
    BY <1>0, <1>k, <1>t, <2>1, <2>3 DEF DeletionInv
<1>3. ASSUME NEW n \in Names, Begin(n) PROVE DeletionInv'
  <2>1. /\ browser' = browser /\ bWatch' = bWatch /\ bCache' = bCache /\ born' = born
        /\ req' = n /\ pc = "idle"
        /\ retired' = [retired EXCEPT ![n] = IF bCache[n].deleting THEN bCache[n].uid ELSE @]
    BY <1>3 DEF Begin, clusterVars, browserVars, cacheVars
  <2>2. \/ /\ Exists(bCache[n]) /\ Route(bCache[n]) # "done"
           /\ pc' = Route(bCache[n]) /\ lb' = bCache[n]
        \/ pc' = "idle"
    BY <1>3, <2>1 DEF Begin
  <2>3. /\ retired'[n] = IF bCache[n].deleting THEN bCache[n].uid ELSE retired[n]
        /\ \A m \in Names : m # n => retired'[m] = retired[m]
    BY <1>0, <2>1 DEF TypeOK
  <2>4. /\ 0 \in 0 .. Len(bWatch[n]) /\ Version(n, 0) = bCache[n] /\ bCache[n].uid \in Nat
        /\ bCache[n].uid <= born[n] /\ NotBefore(retired[n], bCache[n])
    <3>1. Len(bWatch[n]) \in Nat
      BY <1>0, LastVersion
    <3>2. 0 \in 0 .. Len(bWatch[n])
      BY <3>1
    <3>3. Version(n, 0) = bCache[n] /\ bCache[n].uid \in Nat
      BY <1>0 DEF Version, TypeOK, Browsers
    <3> QED
      BY <1>0, <3>2, <3>3 DEF VersionsInOrder
  <2>5. \A m \in Names : retired'[m] <= born'[m]
    BY <1>0, <2>1, <2>3, <2>4
  <2>6. \A m \in Names : \A j : Version(m, j)' = Version(m, j)
    BY <2>1 DEF Version
  <2>7. ASSUME NEW m \in Names, NEW i \in 0 .. Len(bWatch[m])
        PROVE  NotBefore(retired'[m], Version(m, i))
    <3>1. NotBefore(retired[m], Version(m, i))
      BY <1>0 DEF VersionsInOrder
    <3>2. CASE m # n \/ ~bCache[n].deleting
      BY <2>3, <3>1, <3>2
    <3>3. CASE m = n /\ bCache[n].deleting
      <4>1. retired'[n] = bCache[n].uid
        BY <2>3, <3>3
      <4>2. CASE i = 0
        BY <2>4, <3>3, <4>1, <4>2 DEF NotBefore
      <4>3. CASE i # 0
        <5>1. 0 < i
          BY <1>0, <4>3, LastVersion
        <5>2. Follows(bCache[n], Version(n, i))
          BY <1>0, <2>4, <3>3, <5>1 DEF VersionsInOrder
        <5> QED
          BY <3>3, <4>1, <5>2 DEF Follows, NotBefore
      <4> QED
        BY <4>2, <4>3
    <3> QED
      BY <3>2, <3>3
  <2>8. VersionsInOrder'
    BY <1>0, <2>1, <2>6, <2>7 DEF VersionsInOrder
  <2>9. pc' \in Serving => lb'.uid > retired'[req']
    <3>1. SUFFICES ASSUME pc' \in Serving PROVE lb'.uid > retired'[req']
      OBVIOUS
    <3>2. Exists(bCache[n]) /\ lb' = bCache[n] /\ ~bCache[n].deleting
      BY <1>k, <2>2, <3>1, RouteFacts
    <3> QED
      BY <2>1, <2>3, <2>4, <3>2 DEF NotBefore
  <2> QED
    BY <1>t, <2>5, <2>8, <2>9 DEF DeletionInv
<1>4. ASSUME NEW n \in Names, SyncBrowser(n) PROVE DeletionInv'
  <2>0. /\ bWatch \in [Names -> Seq(Browsers)] /\ bCache \in [Names -> Browsers]
        /\ bWatch[n] \in Seq(Browsers) /\ bWatch[n] # <<>>
    BY <1>0, <1>4 DEF TypeOK, SyncBrowser
  <2>1. /\ born' = born /\ retired' = retired /\ pc' = pc /\ req' = req /\ lb' = lb
        /\ bCache' = [bCache EXCEPT ![n] = Head(bWatch[n])]
        /\ bWatch' = [bWatch EXCEPT ![n] = Tail(bWatch[n])]
    BY <1>4 DEF SyncBrowser, passVars
  <2>2. ASSUME NEW m \in Names, NEW i \in 0 .. Len(bWatch'[m])
        PROVE  /\ Version(m, i)'.uid <= born[m]
               /\ NotBefore(retired[m], Version(m, i)')
               /\ \A j \in 0 .. Len(bWatch'[m]) :
                    i < j => Follows(Version(m, i)', Version(m, j)')
    <3>1. CASE m # n
      <4>1. bWatch'[m] = bWatch[m] /\ bCache'[m] = bCache[m]
        BY <2>0, <2>1, <3>1
      <4>2. \A j : Version(m, j)' = Version(m, j)
        BY <4>1 DEF Version
      <4> QED
        BY <1>0, <4>1, <4>2 DEF VersionsInOrder
    <3>2. CASE m = n
      <4>1. bWatch'[n] = Tail(bWatch[n]) /\ bCache'[n] = Head(bWatch[n])
        BY <2>0, <2>1
      <4>2. Len(bWatch[n]) \in Nat \ {0} /\ Len(Tail(bWatch[n])) = Len(bWatch[n]) - 1
        BY <2>0
      <4>3. ASSUME NEW j \in 0 .. Len(bWatch'[n])
            PROVE  j + 1 \in 0 .. Len(bWatch[n]) /\ Version(n, j)' = Version(n, j + 1)
        <5>1. j \in Nat /\ j + 1 \in 1 .. Len(bWatch[n]) /\ j + 1 # 0
          BY <4>1, <4>2
        <5>2. CASE j = 0
          BY <2>0, <4>1, <5>1, <5>2 DEF Version
        <5>3. CASE j # 0
          <6>1. j \in 1 .. Len(Tail(bWatch[n]))
            BY <4>1, <5>1, <5>3
          <6>2. Tail(bWatch[n])[j] = bWatch[n][j + 1]
            BY <2>0, <6>1
          <6> QED
            BY <4>1, <5>1, <5>3, <6>2 DEF Version
        <5> QED
          BY <5>2, <5>3
      <4>4. i + 1 \in 0 .. Len(bWatch[n]) /\ Version(n, i)' = Version(n, i + 1)
        BY <3>2, <4>3
      <4>5. Version(n, i)'.uid <= born[n] /\ NotBefore(retired[n], Version(n, i)')
        BY <1>0, <4>4 DEF VersionsInOrder
      <4>6. ASSUME NEW j \in 0 .. Len(bWatch'[n]), i < j
            PROVE  Follows(Version(n, i)', Version(n, j)')
        <5>1. j + 1 \in 0 .. Len(bWatch[n]) /\ Version(n, j)' = Version(n, j + 1)
          BY <4>3
        <5>2. i + 1 < j + 1
          BY <3>2, <4>1, <4>2, <4>6
        <5> QED
          BY <1>0, <4>4, <5>1, <5>2 DEF VersionsInOrder
      <4> QED
        BY <3>2, <4>5, <4>6
    <3> QED
      BY <3>1, <3>2
  <2>3. VersionsInOrder'
    BY <2>1, <2>2 DEF VersionsInOrder
  <2> QED
    BY <1>0, <1>t, <2>1, <2>3 DEF DeletionInv
<1>5. ASSUME NEW n \in Names, SyncPod(n) PROVE DeletionInv'
  <2>1. /\ bWatch' = bWatch /\ bCache' = bCache /\ born' = born /\ retired' = retired
        /\ pc' = pc /\ req' = req /\ lb' = lb
    BY <1>5 DEF SyncPod, browserVars, passVars
  <2> QED
    BY <1>0, <1>t, <2>1 DEF DeletionInv, VersionsInOrder, Version
<1>6. ASSUME NEW n \in Names, Environment(n) PROVE DeletionInv'
  <2>1. pc' = pc /\ req' = req /\ lb' = lb /\ bCache' = bCache /\ retired' = retired
    BY <1>6 DEF Environment, passVars, cacheVars
  <2>2. PICK b \in Browsers :
           /\ StoreBrowser(n, b)
           /\ \/ born' = born /\ Continues(browser[n], b)
              \/ born' = [born EXCEPT ![n] = @ + 1] /\ b.uid = born[n] + 1
    <3>1. EnvironmentFrame(n)
      BY <1>0, <1>6, EnvironmentStepFrame DEF Environment
    <3>2. CASE CreateBrowser(n)
      <4>1. NewBrowser(born[n] + 1) \in Browsers
        BY <1>0, ObjectTypes DEF TypeOK
      <4>2. NewBrowser(born[n] + 1).uid = born[n] + 1
        BY DEF NewBrowser
      <4> QED
        BY <3>2, <4>1, <4>2 DEF CreateBrowser
    <3> QED
      BY <3>1, <3>2 DEF EnvironmentFrame
  <2>3. VersionsInOrder' /\ \A m \in Names : retired'[m] <= born'[m]
    BY <2>1, <2>2, StoreKeepsOrder
  <2> QED
    BY <1>0, <1>t, <2>1, <2>3 DEF DeletionInv
<1>7. CASE UNCHANGED vars
  BY <1>0, <1>t, <1>7
     DEF vars, clusterVars, browserVars, cacheVars, passVars, DeletionInv, VersionsInOrder,
         Version
<1> QED
  BY <1>1, <1>2, <1>3, <1>4, <1>5, <1>6, <1>7 DEF Next

(* A pod is created only for an incarnation that no pass has seen deleted: *)
(* the pass that creates it serves a Browser later than retired.           *)
LEMMA CreationsRespectDeletion ==
  ASSUME DeletionInv, [Next]_vars, NEW n \in Names, made'[n] > made[n]
  PROVE  pod'[n].owner > retired[n]
<1>0. TypeOK /\ (pc \in Serving => lb.uid > retired[req]) /\ req \in Names
  BY DEF DeletionInv, NothingForgottenInv, TypeOK
<1>1. made[n] \in Nat /\ ~(made[n] > made[n])
  BY <1>0 DEF TypeOK
<1>2. made' # made
  BY <1>1
<1>3. PassStep
  <2>1. made' = made \/ PassStep
    <3>1. ASSUME NEW m \in Names, Environment(m) PROVE made' = made
      BY <1>0, <3>1, EnvironmentStepFrame DEF Environment, EnvironmentFrame
    <3> QED
      BY <3>1 DEF Next, CrashRestart, Begin, SyncBrowser, SyncPod, vars, clusterVars
  <2> QED
    BY <1>2, <2>1
<1>4. MakePod /\ pc = "createPod"
  BY <1>0, <1>2, <1>3, PassStepFrame DEF PassFrame, PodMove
<1>5. n = req
  BY <1>0, <1>1, <1>4 DEF MakePod, TypeOK
<1>6. pod'[n].owner = lb.uid
  BY <1>0, <1>4, <1>5 DEF MakePod, StorePod, NewPod, TypeOK
<1>7. pc \in Serving
  BY <1>4 DEF Serving, Leaving, Labels
<1> QED
  BY <1>0, <1>5, <1>6, <1>7

(* After a pass has seen that a Browser is being deleted, no pass creates  *)
(* a pod for it, for every lag of the caches, fault and restart.           *)
THEOREM DeletionIsFinalHolds == Spec => DeletionIsFinal
<1>1. DeletionInv /\ [Next]_vars
        => [\A n \in Names : made'[n] > made[n] => pod'[n].owner > retired[n]]_vars
  BY CreationsRespectDeletion
<1> QED
  BY <1>1, DeletionInit, DeletionStep, PTL DEF Spec, DeletionIsFinal

-----------------------------------------------------------------------------
(* The finalizers of others *)

(* The versions of a Browser that a pass has seen deleted: the cached one  *)
(* is deleted too and has every finalizer that the server has.             *)
LEMMA CachedFinalizers ==
  ASSUME CleanupInv, NEW n \in Names, Exists(browser[n]), retired[n] = browser[n].uid,
         Exists(bCache[n])
  PROVE  browser[n].fins \subseteq bCache[n].fins
<1>1. TypeOK /\ WatchEndsInTruth /\ VersionsInOrder /\ browser[n].uid = born[n]
  BY DEF CleanupInv, DeletionInv, NothingForgottenInv, NameKnown
<1> DEFINE i == Len(bWatch[n])
<1>2. i \in Nat /\ i \in 0 .. i /\ Version(n, i) = browser[n] /\ Version(n, 0) = bCache[n]
  BY <1>1, LastVersion DEF Version
<1> HIDE DEF i
<1>3. 0 \in 0 .. i /\ browser[n].uid \in Nat /\ bCache[n].uid \in Nat
  <2>1. browser[n] \in Browsers /\ bCache[n] \in Browsers
    BY <1>1 DEF TypeOK
  <2>2. browser[n].uid \in Nat /\ bCache[n].uid \in Nat
    BY <2>1 DEF Browsers
  <2>3. 0 \in 0 .. i
    BY <1>2
  <2> QED
    BY <2>2, <2>3
<1>4. bCache[n].uid <= born[n] /\ NotBefore(retired[n], bCache[n])
      /\ (0 < i => Follows(bCache[n], browser[n]))
  BY <1>1, <1>2, <1>3 DEF VersionsInOrder, i
<1>5. bCache[n].uid = browser[n].uid /\ bCache[n].deleting
  BY <1>1, <1>3, <1>4 DEF NotBefore
<1>6. CASE 0 < i
  BY <1>3, <1>4, <1>5, <1>6 DEF Follows
<1>7. CASE i = 0
  BY <1>2, <1>7
<1> QED
  BY <1>2, <1>6, <1>7

(* Taking the own finalizer off such a Browser leaves those of others.     *)
LEMMA WithoutOwnKeeps ==
  ASSUME CleanupInv, NEW n \in Names, n = req, retired[n] = browser[n].uid,
         Patchable(WithoutOwn), WritePatch(WithoutOwn)
  PROVE  browser[n].fins \ {Own} \subseteq browser'[n].fins
<1>1. TypeOK /\ browser[n] \in Browsers /\ bCache[n] \in Browsers /\ Exists(browser[n])
      /\ Exists(bCache[n])
  BY DEF CleanupInv, DeletionInv, NothingForgottenInv, TypeOK, Patchable
<1>2. browser[n].fins \subseteq bCache[n].fins
  BY <1>1, CachedFinalizers
<1> DEFINE d == WithoutOwn
           m == [browser[n] EXCEPT
                   !.phase    = IF d.phase = bCache[n].phase THEN @ ELSE d.phase,
                   !.ip       = IF d.ip = bCache[n].ip THEN @ ELSE d.ip,
                   !.cs       = IF d.cs = bCache[n].cs THEN @ ELSE d.cs,
                   !.fins     = IF d.fins = bCache[n].fins THEN @ ELSE d.fins,
                   !.labelled = IF d.labelled = bCache[n].labelled THEN @ ELSE d.labelled]
<1>3. d.fins = bCache[n].fins \ {Own}
  BY <1>1 DEF WithoutOwn, Cached, Browsers
<1>4. m.fins = IF d.fins = bCache[n].fins THEN browser[n].fins ELSE d.fins
  BY <1>1 DEF Browsers
<1>5. browser'[n] = Swept(m)
  BY <1>1 DEF WritePatch, Merged, StoreBrowser, TypeOK
<1> HIDE DEF m, d
<1>6. browser[n].fins \ {Own} \subseteq m.fins
  BY <1>2, <1>3, <1>4
<1>7. Swept(m).fins = m.fins
  BY DEF Swept, NoBrowser, NewBrowser
<1> QED
  BY <1>5, <1>6, <1>7

(* The invariant holds throughout.                                         *)
LEMMA CleanupStep == CleanupInv /\ [Next]_vars => CleanupInv'
<1> SUFFICES ASSUME CleanupInv, [Next]_vars PROVE CleanupInv'
  OBVIOUS
<1>0. /\ DeletionInv /\ DeletionInv' /\ TypeOK /\ VersionsInOrder /\ req \in Names
      /\ \A n \in Names : Exists(browser[n]) => browser[n].uid = born[n]
      /\ pc # "idle" => lb.uid <= born[req]
      /\ born \in [Names -> Nat] /\ browser \in [Names -> Browsers]
  BY DeletionStep DEF CleanupInv, NameKnown, DeletionInv, NothingForgottenInv, TypeOK
<1>1. ASSUME NEW n \in Names, NEW b \in Browsers, StoreBrowser(n, b),
             \/ born' = born /\ Continues(browser[n], b)
             \/ born' = [born EXCEPT ![n] = @ + 1] /\ b.uid = born[n] + 1
      PROVE  /\ \A m \in Names : Exists(browser'[m]) => browser'[m].uid = born'[m]
             /\ \A m \in Names : born[m] \in Nat /\ born'[m] \in Nat /\ born[m] <= born'[m]
  <2>1. browser'[n] = b /\ \A m \in Names : m # n => browser'[m] = browser[m]
    BY <1>0, <1>1 DEF StoreBrowser
  <2>2. CASE born' = born /\ Continues(browser[n], b)
    <3>1. Exists(b) => b.uid = born[n]
      <4>1. SUFFICES ASSUME Exists(b) PROVE b.uid = born[n]
        OBVIOUS
      <4>2. b.uid = browser[n].uid
        BY <2>2, <4>1 DEF Continues
      <4> QED
        BY <1>0, <4>1, <4>2 DEF Exists
    <3> QED
      BY <1>0, <2>1, <2>2, <3>1
  <2>3. CASE born' = [born EXCEPT ![n] = @ + 1] /\ b.uid = born[n] + 1
    BY <1>0, <2>1, <2>3
  <2> QED
    BY <1>1, <2>2, <2>3
<1>2. CASE PassStep
  <2>1. PassFrame
    BY <1>0, <1>2, PassStepFrame
  <2>2. born' = born /\ req' = req /\ (pc' = "idle" \/ lb' = lb) /\ pc # "idle"
    BY <1>0, <1>2, <2>1, StepLabels DEF PassFrame, PassMove, Undisturbed, KeepsKind, TypeOK
  <2>3. \A m \in Names : Exists(browser'[m]) => browser'[m].uid = born'[m]
    BY <1>0, <1>1, <2>1, <2>2 DEF PassFrame, BrowserMove
  <2> QED
    BY <1>0, <2>2, <2>3 DEF CleanupInv, NameKnown
<1>3. CASE CrashRestart
  BY <1>0, <1>3 DEF CrashRestart, EndPass, CleanupInv, NameKnown
<1>4. ASSUME NEW n \in Names, Begin(n) PROVE CleanupInv'
  <2>1. bCache[n].uid <= born[n]
    <3>1. bWatch[n] \in Seq(Browsers)
      BY <1>0 DEF TypeOK
    <3>2. 0 \in 0 .. Len(bWatch[n])
      BY <3>1
    <3> QED
      BY <1>0, <3>2 DEF VersionsInOrder, Version
  <2>2. /\ browser' = browser /\ born' = born /\ req' = n /\ pc = "idle"
        /\ pc' # "idle" => lb' = bCache[n]
    BY <1>4 DEF Begin, clusterVars, browserVars
  <2> QED
    BY <1>0, <2>1, <2>2 DEF CleanupInv, NameKnown
<1>5. ASSUME NEW n \in Names, SyncBrowser(n) \/ SyncPod(n) PROVE CleanupInv'
  BY <1>0, <1>5 DEF SyncBrowser, SyncPod, browserVars, passVars, CleanupInv, NameKnown
<1>6. ASSUME NEW n \in Names, Environment(n) PROVE CleanupInv'
  <2>1. pc' = pc /\ req' = req /\ lb' = lb
    BY <1>6 DEF Environment, passVars
  <2>2. PICK b \in Browsers :
           /\ StoreBrowser(n, b)
           /\ \/ born' = born /\ Continues(browser[n], b)
              \/ born' = [born EXCEPT ![n] = @ + 1] /\ b.uid = born[n] + 1
    <3>1. EnvironmentFrame(n)
      BY <1>0, <1>6, EnvironmentStepFrame DEF Environment
    <3>2. CASE CreateBrowser(n)
      <4>1. NewBrowser(born[n] + 1) \in Browsers
        BY <1>0, ObjectTypes
      <4>2. NewBrowser(born[n] + 1).uid = born[n] + 1
        BY DEF NewBrowser
      <4> QED
        BY <3>2, <4>1, <4>2 DEF CreateBrowser
    <3> QED
      BY <3>1, <3>2 DEF EnvironmentFrame
  <2>3. /\ \A m \in Names : Exists(browser'[m]) => browser'[m].uid = born'[m]
        /\ \A m \in Names : born[m] \in Nat /\ born'[m] \in Nat /\ born[m] <= born'[m]
    BY <1>1, <2>2
  <2>4. pc # "idle" => lb.uid \in Nat
    BY <1>0 DEF TypeOK, Browsers
  <2> QED
    BY <1>0, <2>1, <2>3, <2>4 DEF CleanupInv, NameKnown
<1>7. CASE UNCHANGED vars
  BY <1>0, <1>7 DEF vars, clusterVars, browserVars, passVars, CleanupInv, NameKnown
<1> QED
  BY <1>2, <1>3, <1>4, <1>5, <1>6, <1>7 DEF Next

(* What ForeignCleanupKept rests on holds at first.                      *)
LEMMA CleanupInit == Init => CleanupInv
<1> SUFFICES ASSUME Init PROVE CleanupInv
  OBVIOUS
<1>1. pc = "idle" /\ \A n \in Names : browser[n] = NoBrowser
  BY DEF Init, ClusterInit
<1> QED
  BY <1>1, ObjectTypes, DeletionInit DEF CleanupInv, NameKnown

(* A pass that has seen the deletion, or begins when another has, takes    *)
(* off its own finalizer only.                                             *)
LEMMA PassKeepsForeign ==
  ASSUME CleanupInv, PassStep, NEW n \in Names, Exists(browser[n]), retired[n] = browser[n].uid
  PROVE  browser[n].fins \ {Own} \subseteq browser'[n].fins
<1>0. /\ TypeOK /\ pc # "idle" /\ req \in Names /\ browser \in [Names -> Browsers]
      /\ pc \in Labels
  BY StepLabels DEF CleanupInv, DeletionInv, NothingForgottenInv, KeepsKind, TypeOK
<1>1. CASE browser' = browser
  BY <1>1
<1>2. CASE n # req
  <2>1. PICK b \in Browsers : StoreBrowser(req, b)
    BY <1>0, PassStepFrame DEF PassFrame, BrowserMove
  <2>2. browser'[n] = browser[n]
    BY <1>0, <1>2, <2>1 DEF StoreBrowser
  <2> QED
    BY <2>2
<1>3. CASE n = req
  <2>1. pc \in Leaving
    <3>1. lb \in Browsers /\ browser[n] \in Browsers /\ born[n] \in Nat
      BY <1>0 DEF TypeOK
    <3>2. lb.uid \in Nat /\ browser[n].uid \in Nat
      BY <3>1 DEF Browsers
    <3>3. lb.uid <= browser[n].uid /\ (pc \in Serving => lb.uid > browser[n].uid)
      BY <1>0, <1>3 DEF CleanupInv, NameKnown, DeletionInv
    <3>4. pc \notin Serving
      BY <3>2, <3>3
    <3> QED
      BY <1>0, <3>4 DEF Serving
  <2>2. CASE Patchable(WithoutOwn) /\ WritePatch(WithoutOwn)
    BY <1>3, <2>2, WithoutOwnKeeps
  <2>3. browser' = browser \/ (Patchable(WithoutOwn) /\ WritePatch(WithoutOwn))
    BY <2>1 DEF PassStep, Leaving, ReleaseFailed, AddFinalizer, AssignLabels, SetPending,
       GetPod, KillFailed, FailPod, KillBackoff, FailPending, LookupConfig, FailConfig,
       CreatePod, FailCritical, Mirror, Release, DeleteBrowser, PodForDeletion, DeletePod,
       ForceDelete, ReleaseDeleted, Patch, RemovePod, browserVars
  <2> QED
    BY <1>1, <2>2, <2>3
<1> QED
  BY <1>2, <1>3

(* Once a pass has seen that a Browser is being deleted, the controller    *)
(* takes no finalizer of another controller off it, though its patches     *)
(* carry the whole list as some cache had it, whatever the caches lag and  *)
(* whatever fails (browser_reconciler.go:274-327, 563-623).                *)
THEOREM ForeignCleanupIsKept == Spec => ForeignCleanupKept
<1>1. ASSUME CleanupInv, [Next]_vars, NEW n \in Names, pc' # pc, Exists(browser[n]),
             retired[n] = browser[n].uid
      PROVE  browser[n].fins \ {Own} \subseteq browser'[n].fins
  <2>1. CASE PassStep
    BY <1>1, <2>1, PassKeepsForeign
  <2>2. CASE browser' = browser
    BY <2>2
  <2>3. PassStep \/ browser' = browser
    BY <1>1 DEF Next, CrashRestart, Begin, SyncBrowser, SyncPod, Environment, vars,
       clusterVars, browserVars, passVars
  <2> QED
    BY <2>1, <2>2, <2>3
<1>2. CleanupInv /\ [Next]_vars
        => [\A n \in Names :
              pc' # pc /\ Exists(browser[n]) /\ retired[n] = browser[n].uid
                => browser[n].fins \ {Own} \subseteq browser'[n].fins]_vars
  BY <1>1
<1> QED
  BY <1>2, CleanupInit, CleanupStep, PTL DEF Spec, ForeignCleanupKept

=============================================================================
