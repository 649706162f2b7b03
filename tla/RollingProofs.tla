---------------------------- MODULE RollingProofs ----------------------------
(***************************************************************************)
(* Two managers, for every value of the constants: any lag of both their   *)
(* caches and any number of Browsers, pods and failed calls.               *)
(*                                                                         *)
(* For the new manager the old one is one more writer whose writes it      *)
(* hears of, so that the invariant of one manager, NothingForgottenInv,    *)
(* holds of it from its start on.                                          *)
(***************************************************************************)
EXTENDS RollingUpdate, BrowserProofs

USE ClusterAssumption, ReconcilerAssumption

(* The new manager before its start. *)
Waiting ==
  /\ bWatch = [n \in Names |-> <<>>] /\ pWatch = [n \in Names |-> <<>>]
  /\ pc = "idle" /\ req \in Names /\ lb = NoBrowser /\ lp = NoPod
  /\ retired = [n \in Names |-> 0]

UpdateInv ==
  /\ running \in {"old", "both", "new"}
  /\ running # "new" => Old!TypeOK
  /\ running = "old" => Waiting
  /\ running # "old" => NothingForgottenInv

-----------------------------------------------------------------------------
(* Both managers mean the same by a Browser and by a Pod.                  *)
LEMMA SameTypes == Old!Browsers = Browsers /\ Old!Pods = Pods
  BY DEF Old!Browsers, Old!Pods, Browsers, Pods, Old!Statuses, Statuses, Old!CStates, CStates,
         Old!PodPhases, PodPhases, Old!Finalizers, Finalizers

(* Either manager by itself keeps the types of its variables.              *)
LEMMA OldTypeInit == Old!Init => Old!TypeOK
  BY Old!TypeInit

(* Nor does a step of it break them.                                       *)
LEMMA OldTypeStep == Old!TypeOK /\ [Old!Next]_(Old!vars) => Old!TypeOK'
  BY Old!TypeStep

(* What a manager hears of the writes of others are well-formed versions.  *)
Heard(log, old, new) == [n \in Names |-> Logged(log[n], old[n], new[n])]

LEMMA HeardTypes ==
  ASSUME NEW S, NEW log \in [Names -> Seq(S)], NEW old, NEW new \in [Names -> S]
  PROVE  Heard(log, old, new) \in [Names -> Seq(S)]
<1>1. ASSUME NEW n \in Names PROVE Logged(log[n], old[n], new[n]) \in Seq(S)
  <2>1. log[n] \in Seq(S) /\ new[n] \in S
    OBVIOUS
  <2> QED
    BY <2>1, LoggedFacts
<1> QED
  BY <1>1 DEF Heard

(* The new manager at its start has everything in view.                    *)
LEMMA StartKeeps ==
  ASSUME UpdateInv, StartNew
  PROVE  UpdateInv'
<1>1. Old!TypeOK /\ Waiting
  BY DEF UpdateInv, StartNew
<1>2. TypeOK'
  <2>1. ~Exists(NoBrowser) /\ NoBrowser \in Browsers /\ NoPod \in Pods /\ "idle" \in Labels
    BY ObjectTypes DEF Labels
  <2>2. /\ bWatch \in [Names -> Seq(Browsers)] /\ pWatch \in [Names -> Seq(Pods)]
        /\ queue' \subseteq Names
    BY <1>1 DEF Waiting, StartNew
  <2>3. /\ browser \in [Names -> Browsers] /\ pod \in [Names -> Pods]
        /\ born \in [Names -> Nat] /\ made \in [Names -> Nat]
        /\ late \in [Names -> Nat] /\ overdue \in [Names -> Nat] /\ losses \in [Names -> Nat]
        /\ faults \in Nat /\ crashes \in Nat
    BY <1>1, SameTypes DEF Old!TypeOK
  <2> QED
    BY <1>1, <2>1, <2>2, <2>3
       DEF TypeOK, StartNew, Waiting, clusterVars, browserVars, podVars, passVars
<1>3. WatchEndsInTruth' /\ PassKnowsBrowser'
  BY <1>1, <1>2 DEF Waiting, StartNew, WatchEndsInTruth, PassKnowsBrowser, Serving, Leaving,
                    Labels, TypeOK, clusterVars, browserVars, passVars
<1>4. NeverForgotten'
  BY DEF NeverForgotten, StartNew, Settled, Exists, clusterVars, browserVars
<1>5. Old!TypeOK'
  BY <1>1 DEF Old!TypeOK, StartNew, clusterVars, browserVars, podVars, oldWatches, oldOwn
<1> QED
  BY <1>2, <1>3, <1>4, <1>5 DEF UpdateInv, StartNew, NothingForgottenInv

(* The end of the old manager is nothing to the new one.                   *)
LEMMA StopKeeps ==
  ASSUME UpdateInv, StopOld
  PROVE  UpdateInv'
<1>1. NothingForgottenInv'
  BY DEF UpdateInv, StopOld, NothingForgottenInv, TypeOK, WatchEndsInTruth, PassKnowsBrowser,
         NeverForgotten, vars, clusterVars, browserVars, podVars, cacheVars, passVars
<1> QED
  BY <1>1 DEF UpdateInv, StopOld

(* What the old manager does to a Browser is news to the new one.          *)
LEMMA OldWorksKeeps ==
  ASSUME UpdateInv, OldWorks
  PROVE  UpdateInv'
<1>1. Old!TypeOK'
  <2>1. Old!Next
    BY DEF OldWorks, Old!Next
  <2> QED
    BY <2>1, OldTypeStep DEF UpdateInv, OldWorks
<1>2. CASE running = "old"
  BY <1>1, <1>2 DEF UpdateInv, OldWorks, NewHears, Waiting, passVars
<1>3. CASE running = "both"
  <2>1. bWatch' = Heard(bWatch, browser, browser') /\ pWatch' = Heard(pWatch, pod, pod')
    BY <1>3 DEF OldWorks, NewHears, Hears, Heard
  <2>2. NothingForgottenInv
    BY <1>3 DEF UpdateInv
  <2>3. /\ browser' \in [Names -> Browsers] /\ pod' \in [Names -> Pods]
        /\ born' \in [Names -> Nat] /\ made' \in [Names -> Nat]
        /\ late' \in [Names -> Nat] /\ overdue' \in [Names -> Nat] /\ losses' \in [Names -> Nat]
        /\ faults' \in Nat /\ crashes' \in Nat
    BY <1>1, SameTypes DEF Old!TypeOK
  <2>3a. bWatch \in [Names -> Seq(Browsers)] /\ pWatch \in [Names -> Seq(Pods)]
    BY <2>2 DEF NothingForgottenInv, TypeOK
  <2>4. /\ bWatch' \in [Names -> Seq(Browsers)]
        /\ \A n \in Names : browser'[n] = browser[n] => bWatch'[n] = bWatch[n]
        /\ \A n \in Names : browser'[n] # browser[n]
                              => bWatch'[n] # <<>> /\ bWatch'[n][Len(bWatch'[n])] = browser'[n]
    <3>1. bWatch' \in [Names -> Seq(Browsers)]
      BY <2>1, <2>3, <2>3a, HeardTypes
    <3>2. ASSUME NEW n \in Names
          PROVE  /\ browser'[n] = browser[n] => bWatch'[n] = bWatch[n]
                 /\ browser'[n] # browser[n]
                      => bWatch'[n] # <<>> /\ bWatch'[n][Len(bWatch'[n])] = browser'[n]
      <4>1. /\ bWatch[n] \in Seq(Browsers) /\ browser'[n] \in Browsers
            /\ bWatch'[n] = Logged(bWatch[n], browser[n], browser'[n])
        BY <2>1, <2>3, <2>3a DEF Heard
      <4> QED
        BY <4>1, LoggedFacts
    <3> QED
      BY <3>1, <3>2
  <2>5. pWatch' \in [Names -> Seq(Pods)]
    BY <2>1, <2>3, <2>3a, HeardTypes
  <2>6. UNCHANGED <<bCache, pCache, queue, pc, req, lb, lp, retired, running>>
    BY DEF OldWorks, cacheVars, passVars
  <2>7. TypeOK'
    BY <2>2, <2>3, <2>4, <2>5, <2>6 DEF NothingForgottenInv, TypeOK
  <2>8. WatchEndsInTruth'
    BY <2>2, <2>4, <2>6 DEF NothingForgottenInv, WatchEndsInTruth
  <2>9. PassKnowsBrowser'
    BY <2>2, <2>6 DEF NothingForgottenInv, PassKnowsBrowser
  <2>10. NeverForgotten'
    BY <2>2, <2>4, <2>6 DEF NothingForgottenInv, NeverForgotten
  <2> QED
    BY <1>1, <1>3, <2>6, <2>7, <2>8, <2>9, <2>10 DEF UpdateInv, NothingForgottenInv
<1> QED
  BY <1>2, <1>3 DEF OldWorks

(* What the new manager or the world does is news to the old one.          *)
LEMMA OldHearsKeeps ==
  ASSUME running = "both", Old!TypeOK, TypeOK', OldHears, UNCHANGED oldOwn
  PROVE  Old!TypeOK'
<1>1. /\ oldBWatch' = Heard(oldBWatch, browser, browser')
      /\ oldPWatch' = Heard(oldPWatch, pod, pod')
  BY DEF OldHears, Hears, Heard
<1>2. /\ browser' \in [Names -> Browsers] /\ pod' \in [Names -> Pods]
      /\ oldBWatch \in [Names -> Seq(Browsers)] /\ oldPWatch \in [Names -> Seq(Pods)]
  BY SameTypes DEF Old!TypeOK, TypeOK
<1>3. oldBWatch' \in [Names -> Seq(Browsers)]
  BY <1>1, <1>2, HeardTypes
<1>4. oldPWatch' \in [Names -> Seq(Pods)]
  BY <1>1, <1>2, HeardTypes
<1> QED
  BY <1>2, <1>3, <1>4, SameTypes DEF Old!TypeOK, TypeOK, oldOwn


(* The steps of the new manager, and of the world around it, are those of  *)
(* one that is alone.                                                      *)
LEMMA NewStepsKeep ==
  ASSUME UpdateInv,
         NewPass \/ \E n \in Names : NewWorks(n) \/ (World(n) /\ running # "old")
  PROVE  UpdateInv'
<1>1. running # "old" /\ running' = running /\ Next
  BY DEF NewPass, NewWorks, World, Next
<1>2. NothingForgottenInv'
  BY <1>1, NothingForgottenStep DEF UpdateInv
<1>3. CASE running = "both"
  <2>1. Old!TypeOK /\ TypeOK'
    BY <1>2, <1>3 DEF UpdateInv, NothingForgottenInv
  <2>2. (OldHears \/ UNCHANGED oldWatches) /\ UNCHANGED oldOwn
    BY DEF NewPass, NewWorks, World
  <2>3. ASSUME OldHears PROVE Old!TypeOK'
    BY <1>3, <2>1, <2>2, <2>3, OldHearsKeeps
  <2>4. ASSUME UNCHANGED oldWatches PROVE Old!TypeOK'
    <3>1. Browsers = Old!Browsers /\ Pods = Old!Pods
      BY SameTypes
    <3> QED
      BY <2>1, <2>2, <2>4, <3>1 DEF Old!TypeOK, TypeOK, oldWatches, oldOwn
  <2>5. Old!TypeOK'
    BY <2>2, <2>3, <2>4
  <2> QED
    BY <1>1, <1>2, <1>3, <2>5 DEF UpdateInv
<1> QED
  BY <1>1, <1>2, <1>3 DEF UpdateInv

(* Before the new manager starts, the world moves on without it.           *)
LEMMA WorldKeeps ==
  ASSUME UpdateInv, running = "old", NEW n \in Names, World(n)
  PROVE  UpdateInv'
<1>1. Old!Next /\ UNCHANGED <<running, newSide>>
  BY DEF World, Old!Next
<1>2. Old!TypeOK'
  BY <1>1, OldTypeStep DEF UpdateInv
<1> QED
  BY <1>1, <1>2 DEF UpdateInv, Waiting, newSide, passVars

(* The invariant of the update is inductive.                               *)
LEMMA UpdateInvInit == UpdateInit => UpdateInv
<1> SUFFICES ASSUME UpdateInit PROVE UpdateInv
  OBVIOUS
<1>1. Old!TypeOK
  BY OldTypeInit DEF UpdateInit
<1> QED
  BY <1>1 DEF UpdateInit, UpdateInv, Init, ClusterInit, Waiting

(* And every step of the update keeps it.                                  *)
LEMMA UpdateInvStep == UpdateInv /\ [UpdateNext]_allVars => UpdateInv'
<1> SUFFICES ASSUME UpdateInv, [UpdateNext]_allVars PROVE UpdateInv'
  OBVIOUS
<1>1. CASE UNCHANGED allVars
  <2>1. UNCHANGED <<vars, running>> /\ UNCHANGED <<oldWatches, oldOwn>>
    BY <1>1 DEF allVars
  <2>2. running # "old" => NothingForgottenInv'
    BY <2>1, NothingForgottenStep DEF UpdateInv
  <2>3. Old!vars' = Old!vars
    BY <2>1 DEF Old!vars, Old!clusterVars, Old!browserVars, Old!podVars, Old!cacheVars,
                Old!passVars, vars, clusterVars, browserVars, podVars, oldWatches, oldOwn
  <2>4. running # "new" => Old!TypeOK'
    BY <2>3, OldTypeStep DEF UpdateInv
  <2> QED
    BY <2>1, <2>2, <2>4
       DEF UpdateInv, Waiting, vars, clusterVars, browserVars, podVars, passVars
<1> QED
  BY <1>1, StartKeeps, StopKeeps, OldWorksKeeps, NewStepsKeep, WorldKeeps DEF UpdateNext

(* The new manager keeps every Browser in view that needs it, though the   *)
(* old one takes its work out of its hands and may stop anywhere           *)
(* (main.go:43, browser_reconciler.go:75-327).                             *)
THEOREM NothingForgottenInUpdates == UpdateSpec => []NewNeverForgets
<1>1. UpdateInv => NewNeverForgets
  BY DEF UpdateInv, NewNeverForgets, NothingForgottenInv
<1> QED
  BY <1>1, UpdateInvInit, UpdateInvStep, PTL DEF UpdateSpec
=============================================================================
