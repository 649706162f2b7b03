---------------------------- MODULE RollingUpdate ----------------------------
(***************************************************************************)
(* Two managers at work on the same Browsers, as during a rolling update:  *)
(* leader election is off unless a flag asks for it                        *)
(* (cmd/manager/main.go:43, 68), and the new manager starts before the old *)
(* one stops.                                                              *)
(*                                                                         *)
(* The new manager has the variables of BrowserReconciler, the old one is  *)
(* the instance Old with a cache, a queue and a pass of its own.  They     *)
(* share the cluster and know nothing of each other but its events.  Old   *)
(* is an instance of BrowserProofs, so that what is proved of one manager  *)
(* is known of it, too.                                                    *)
(***************************************************************************)
EXTENDS BrowserProperties

VARIABLES
  running,               \* the managers at work: "old", "both" or "new"
  oldBWatch, oldPWatch,  \* the old manager's watches,
  oldBCache, oldPCache,  \* caches,
  oldQueue,              \* work queue,
  oldPc, oldReq,         \* pass,
  oldLb, oldLp,
  oldRetired             \* and ghost

Old == INSTANCE BrowserProofs WITH
         bWatch <- oldBWatch, pWatch <- oldPWatch, bCache <- oldBCache, pCache <- oldPCache,
         queue <- oldQueue, pc <- oldPc, req <- oldReq, lb <- oldLb, lp <- oldLp,
         retired <- oldRetired

newSide   == <<bWatch, pWatch, cacheVars, queue, passVars, retired>>
oldWatches == <<oldBWatch, oldPWatch>>
oldOwn    == <<oldBCache, oldPCache, oldQueue, oldPc, oldReq, oldLb, oldLp, oldRetired>>
allVars   == <<vars, running, oldWatches, oldOwn>>

-----------------------------------------------------------------------------
(* What the watches of a manager tell of the writes of others.             *)
Hears(bLog, pLog) ==
  /\ bLog' = [n \in Names |-> Logged(bLog[n], browser[n], browser'[n])]
  /\ pLog' = [n \in Names |-> Logged(pLog[n], pod[n], pod'[n])]

NewHears == IF running = "both" THEN Hears(bWatch, pWatch) ELSE UNCHANGED <<bWatch, pWatch>>
OldHears == IF running = "both" THEN Hears(oldBWatch, oldPWatch) ELSE UNCHANGED oldWatches

OldWorks ==
  /\ running \in {"old", "both"}
  /\ Old!PassStep \/ \E n \in Names : Old!Begin(n) \/ Old!SyncBrowser(n) \/ Old!SyncPod(n)
  /\ NewHears
  /\ UNCHANGED <<running, cacheVars, queue, passVars, retired>>

NewPass == running # "old" /\ PassStep /\ OldHears /\ UNCHANGED <<running, oldOwn>>

NewWorks(n) ==
  /\ running # "old"
  /\ Begin(n) \/ SyncBrowser(n) \/ SyncPod(n)
  /\ UNCHANGED <<running, oldWatches, oldOwn>>

World(n) ==
  \/ running = "old" /\ Old!Environment(n) /\ UNCHANGED <<running, newSide>>
  \/ running # "old" /\ Environment(n) /\ OldHears /\ UNCHANGED <<running, oldOwn>>

(* The new manager lists everything, as after a restart.                   *)
StartNew ==
  /\ running = "old" /\ running' = "both"
  /\ bCache' = browser /\ pCache' = pod
  /\ queue' = {n \in Names : Exists(browser[n]) \/ Exists(pod[n])}
  /\ UNCHANGED <<clusterVars, passVars, retired, faults, crashes, oldWatches, oldOwn>>

(* The old manager ends, wherever its pass stands. *)
StopOld ==
  /\ running = "both" /\ running' = "new"
  /\ oldBWatch' = [n \in Names |-> <<>>] /\ oldPWatch' = oldBWatch'
  /\ oldBCache' = [n \in Names |-> NoBrowser] /\ oldPCache' = [n \in Names |-> NoPod]
  /\ oldQueue' = {} /\ oldPc' = "idle" /\ oldLb' = NoBrowser /\ oldLp' = NoPod
  /\ oldRetired' = [n \in Names |-> 0]
  /\ UNCHANGED <<vars, oldReq>>

-----------------------------------------------------------------------------
UpdateInit == Init /\ Old!Init /\ running = "old"

UpdateNext ==
  \/ StartNew \/ StopOld \/ OldWorks \/ NewPass
  \/ \E n \in Names : NewWorks(n) \/ World(n)

(* The update gets done, and the new manager and the world are as fair as  *)
(* in BrowserProperties; the old one need not do anything.                 *)
UpdateSpec ==
  /\ UpdateInit /\ [][UpdateNext]_allVars
  /\ WF_allVars(StartNew) /\ WF_allVars(StopOld) /\ WF_allVars(NewPass)
  /\ \A n \in Names :
       /\ SF_allVars(NewWorks(n) /\ Begin(n))
       /\ WF_allVars(NewWorks(n) /\ SyncBrowser(n)) /\ WF_allVars(NewWorks(n) /\ SyncPod(n))
       /\ WF_allVars(World(n) /\ late' # late) /\ WF_allVars(World(n) /\ overdue' # overdue)

-----------------------------------------------------------------------------
(* NewNeverForgets: from its start on, the new manager has every Browser   *)
(* in view that still needs one, whatever the old one takes out of its     *)
(* hands and wherever that one stops: its quiet returns                    *)
(* (browser_reconciler.go:109, 159, 214, 231, 251, 370, 386, 643) rely on  *)
(* events of writes that may have been the other's (main.go:43, 68).        *)
NewNeverForgets == running # "old" => NeverForgotten

=============================================================================
