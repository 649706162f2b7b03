---------------------------- MODULE ManagerProofs ----------------------------
(***************************************************************************)
(* The lookups of the Browser controller in the store, for every value of  *)
(* the constants: any number of Browsers, BrowserConfigs, edits, failures  *)
(* and restarts, and any lag of the caches.                                *)
(*                                                                         *)
(* What a Browser is owed is compared with every place from which an edit  *)
(* may still reach the map: the server, the informer, the events and the   *)
(* map itself (NoneOlder, Kept).                                           *)
(***************************************************************************)
EXTENDS Manager, BrowserProofs

USE ClusterAssumption, ReconcilerAssumption, ManagerAssumption

(* No edit of the version older than the owed one is left anywhere.        *)
NoneOlder(n) ==
  /\ owed[n].edit <= edits /\ owed[n].run <= crashes
  /\ \A o \in Configs : /\ Key(n) \in Store!KeysOf(config[o].has) => owed[n].edit <= config[o].edit
                        /\ Key(n) \in Store!KeysOf(cached[o].has) => owed[n].edit <= cached[o].edit
  /\ \A i \in 1 .. Len(events) : Key(n) \in Store!KeysOf(events[i].has) => owed[n].edit <= events[i].edit
  /\ Key(n) \in Store!Served => owed[n].edit <= stored[Key(n)].edit

(* What is owed is declared, and in the run of the manager in which it was *)
(* in place it is served and will be.                                      *)
Kept(n) ==
  owed[n].edit > 0 =>
    /\ \E o \in Configs : Key(n) \in Store!KeysOf(config[o].has)
    /\ owed[n].run = crashes =>
         /\ Key(n) \in Store!Served
         /\ \A i \in 1 .. Len(events) :
              events[i].kind = "delete" => Key(n) \notin Store!KeysOf(events[i].has)

HistoryOK ==
  /\ owed \in [Names -> [edit : Nat, run : Nat]] /\ used \in Nat
  /\ \A n \in Names : NoneOlder(n) /\ Kept(n)

ManagerInv ==
  /\ CleanupInv /\ Store!DeliveryInv /\ HistoryOK
  /\ PlacedConfigFound /\ NeverOlderConfig

-----------------------------------------------------------------------------
(* The parts *)

(* The Browser controller does not see the steps of the store,             *)
LEMMA BrowserSideKeeps ==
  ASSUME CleanupInv, UNCHANGED browserSide, faults' \in Nat, crashes' \in Nat
  PROVE  CleanupInv'
<1> USE DEF browserSide, clusterVars, browserVars, podVars, cacheVars, passVars
<1>1. TypeOK'
  BY DEF CleanupInv, DeletionInv, NothingForgottenInv, TypeOK
<1>2. WatchEndsInTruth' /\ PassKnowsBrowser' /\ NeverForgotten'
  BY DEF CleanupInv, DeletionInv, NothingForgottenInv, WatchEndsInTruth, PassKnowsBrowser,
         NeverForgotten, Settled
<1>3. VersionsInOrder'
  BY DEF CleanupInv, DeletionInv, VersionsInOrder, Version
<1>4. (\A n \in Names : retired[n] <= born[n])' /\ (pc \in Serving => lb.uid > retired[req])'
  BY DEF CleanupInv, DeletionInv
<1>5. NameKnown'
  BY DEF CleanupInv, NameKnown
<1> QED
  BY <1>1, <1>2, <1>3, <1>4, <1>5 DEF CleanupInv, DeletionInv, NothingForgottenInv

(* nor the store those of the Browser controller.                          *)
LEMMA StoreSideKeeps ==
  ASSUME Store!DeliveryInv, UNCHANGED storeSide, faults' \in Nat, crashes' \in Nat
  PROVE  Store!DeliveryInv'
<1> USE DEF storeSide, mapVars
<1>1. Store!ConfigsInv'
  BY DEF Store!DeliveryInv, Store!EventsInv, Store!ConfigsInv, Store!ConfigsTypeOK, Store!Written,
         Store!CacheBehind
<1>2. Store!EventsInv'
  BY <1>1 DEF Store!DeliveryInv, Store!EventsInv, Store!EventOK, Store!NotAfter, Store!EntryOK,
              Store!EventsInOrder, Store!Served
<1>3. (listening => \A o \in Configs : Store!Delivered(o))'
  BY DEF Store!DeliveryInv, Store!Delivered, Store!Latest, Store!Tells, Store!Shows, Store!Served
<1> QED
  BY <1>2, <1>3 DEF Store!DeliveryInv

(* The store takes the BrowserConfigs to be finitely many.                 *)
LEMMA FinitelyMany == Store!IsFiniteSet(Configs)
  BY DEF IsFiniteSet, Store!IsFiniteSet

(* A step of the one is one of the whole system of each.                   *)
LEMMA PartsStep ==
  ASSUME Store!Separate, ManagerInv, [ManagerNext]_managerVars
  PROVE  CleanupInv' /\ Store!DeliveryInv'
<1>1. CleanupInv /\ Store!DeliveryInv /\ faults \in Nat /\ crashes \in Nat
  BY DEF ManagerInv, CleanupInv, DeletionInv, NothingForgottenInv, TypeOK
<1>2. CASE BrowserPart
  <2>1. Next /\ UNCHANGED storeSide
    BY <1>2 DEF BrowserPart, Next
  <2>2. CleanupInv'
    BY <1>1, <2>1, CleanupStep
  <2>3. faults' \in Nat /\ crashes' \in Nat
    BY <2>2 DEF CleanupInv, DeletionInv, NothingForgottenInv, TypeOK
  <2> QED
    BY <1>1, <2>1, <2>2, <2>3, StoreSideKeeps
<1>3. CASE StorePart
  <2>1. Store!Next /\ UNCHANGED browserSide
    BY <1>3 DEF StorePart, Store!Next, mapVars, Store!storeVars
  <2>2. Store!DeliveryInv'
    BY <1>1, <2>1, Store!DeliveryStep, FinitelyMany
  <2>3. faults' \in Nat /\ crashes' \in Nat
    BY <2>2 DEF Store!DeliveryInv, Store!EventsInv, Store!ConfigsInv, Store!ConfigsTypeOK
  <2> QED
    BY <1>1, <2>1, <2>2, <2>3, BrowserSideKeeps
<1>4. CASE Restart
  <2>1. Next /\ Store!Next
    BY <1>4 DEF Restart, Next, Store!Next
  <2> QED
    BY <1>1, <2>1, CleanupStep, Store!DeliveryStep, FinitelyMany
<1>5. CASE UNCHANGED managerVars
  <2>1. UNCHANGED vars /\ UNCHANGED storeSide /\ faults' = faults /\ crashes' = crashes
    BY <1>5 DEF managerVars, vars
  <2> QED
    BY <1>1, <2>1, CleanupStep, StoreSideKeeps
<1> QED
  BY <1>2, <1>3, <1>4, <1>5 DEF ManagerNext

-----------------------------------------------------------------------------
(* The store *)

(* What the steps of either part are to the store.                         *)
StoreMove ==
  \/ UNCHANGED storeSide /\ crashes' = crashes
  \/ Store!Next

(* The numbers of the edits, wherever they are.                            *)
EditNumbers ==
  /\ edits \in Nat /\ crashes \in Nat
  /\ \A o \in Configs : /\ config[o].edit \in Nat /\ cached[o].edit \in Nat
                        /\ Store!Exists(config[o]) => config[o].edit <= edits
  /\ \A i \in 1 .. Len(events) : events[i].edit \in Nat
  /\ \A k \in Store!Served : stored[k].edit \in Nat

LEMMA EditsAreNumbers == Store!DeliveryInv => EditNumbers
<1> SUFFICES ASSUME Store!DeliveryInv PROVE EditNumbers
  OBVIOUS
<1>1. /\ Store!ConfigsTypeOK /\ Store!ConfigsInv /\ events \in Seq(Store!Messages)
      /\ \A k \in Store!Served : Store!EntryOK(k, stored[k])
  BY DEF Store!DeliveryInv, Store!EventsInv, Store!ConfigsInv
<1>2. /\ edits \in Nat /\ crashes \in Nat
      /\ \A o \in Configs : config[o] \in Store!Objects /\ cached[o] \in Store!Objects
  BY <1>1 DEF Store!ConfigsTypeOK
<1>3. \A o \in Configs : /\ config[o].edit \in Nat /\ cached[o].edit \in Nat
                         /\ Store!Exists(config[o]) => config[o].edit <= edits
  BY <1>1, <1>2 DEF Store!Objects, Store!ConfigsInv, Store!Written
<1>4. \A i \in 1 .. Len(events) : events[i].edit \in Nat
  <2>1. \A i \in 1 .. Len(events) : events[i] \in Store!Messages
    BY <1>1
  <2> QED
    BY <2>1 DEF Store!Messages
<1>5. \A k \in Store!Served : stored[k].edit \in Nat
  BY <1>1, <1>2 DEF Store!EntryOK
<1> QED
  BY <1>2, <1>3, <1>4, <1>5 DEF EditNumbers

(* An absent BrowserConfig declares nothing.                               *)
LEMMA AbsentDeclaresNothing ==
  ASSUME Store!DeliveryInv, NEW o \in Configs
  PROVE  /\ Store!KeysOf(config[o].has) # {} => Store!Exists(config[o])
         /\ Store!KeysOf(cached[o].has) # {} => Store!Exists(cached[o])
         /\ Store!Exists(config[o]) => config[o].has \in Contents[o]
         /\ Store!Exists(cached[o]) => cached[o].has \in Contents[o]
  BY DEF Store!DeliveryInv, Store!EventsInv, Store!ConfigsInv, Store!Written, Store!NoConfig,
         Store!KeysOf

(* A step brings no edit older than those that are there,                  *)
LEMMA NoneOlderOnServer ==
  ASSUME Store!DeliveryInv, StoreMove, NEW k, NEW e \in Nat, e <= edits,
         \A o \in Configs : /\ k \in Store!KeysOf(config[o].has) => e <= config[o].edit
                            /\ k \in Store!KeysOf(cached[o].has) => e <= cached[o].edit
  PROVE  /\ e <= edits'
         /\ \A o \in Configs : /\ k \in Store!KeysOf(config'[o].has) => e <= config'[o].edit
                               /\ k \in Store!KeysOf(cached'[o].has) => e <= cached'[o].edit
<1>1. /\ edits \in Nat /\ Store!ConfigsInv
      /\ config \in [Configs -> Store!Objects] /\ cached \in [Configs -> Store!Objects]
  BY DEF Store!DeliveryInv, Store!EventsInv, Store!ConfigsInv, Store!ConfigsTypeOK
<1>2. CASE UNCHANGED storeSide
  BY <1>2 DEF storeSide
<1>3. CASE Store!Next
  <2>1. Store!ConfigsMove
    BY <1>1, <1>3, Store!StepMoves, FinitelyMany
  <2>2. CASE Store!Untouched
    <3>1. \A o \in Configs : cached'[o] \in {cached[o], config[o]}
      BY <1>1, <2>1, <2>2 DEF Store!ConfigsMove, Store!Becomes, Store!Untouched
    <3> QED
      BY <2>2, <3>1 DEF Store!Untouched
  <2>3. ASSUME NEW p \in Configs, NEW d \in Store!Objects, Store!Becomes(p, d), cached' = cached
        PROVE  /\ e <= edits'
               /\ \A o \in Configs : /\ k \in Store!KeysOf(config'[o].has) => e <= config'[o].edit
                                     /\ k \in Store!KeysOf(cached'[o].has) => e <= cached'[o].edit
    <3>1. e <= edits'
      BY <1>1, <2>3 DEF Store!Becomes
    <3>2. config'[p] = d /\ \A o \in Configs : o # p => config'[o] = config[o]
      BY <1>1, <2>3 DEF Store!Becomes
    <3>3. k \in Store!KeysOf(d.has) => e <= d.edit
      BY <1>1, <2>3 DEF Store!Becomes, Store!NoConfig, Store!KeysOf
    <3> QED
      BY <2>3, <3>1, <3>2, <3>3
  <2> QED
    BY <2>1, <2>2, <2>3 DEF Store!ConfigsMove
<1> QED
  BY <1>2, <1>3 DEF StoreMove

(* nor does what the handler is told or does.                              *)
LEMMA NoneOlderInStore ==
  ASSUME Store!DeliveryInv, StoreMove, NEW k, NEW e \in Nat,
         \A o \in Configs : /\ k \in Store!KeysOf(config[o].has) => e <= config[o].edit
                            /\ k \in Store!KeysOf(cached[o].has) => e <= cached[o].edit,
         \A i \in 1 .. Len(events) : k \in Store!KeysOf(events[i].has) => e <= events[i].edit,
         k \in Store!Served => e <= stored[k].edit
  PROVE  /\ \A i \in 1 .. Len(events') : k \in Store!KeysOf(events'[i].has) => e <= events'[i].edit
         /\ k \in DOMAIN stored' => e <= stored'[k].edit
<1>1. Store!EventsInv /\ events \in Seq(Store!Messages)
  BY DEF Store!DeliveryInv, Store!EventsInv
<1>2. CASE events' = events /\ stored' = stored
  BY <1>2 DEF Store!Served
<1>3. CASE Store!Handle
  BY <1>1, <1>3, Store!HandleEffect, FinitelyMany DEF Store!From
<1>4. CASE Store!Start
  <2>1. \A i \in 1 .. Len(events') :
          \E o \in Store!Live : events'[i] = Store!Event("set", o, cached[o])
    BY <1>4, Store!StartEvents, FinitelyMany
  <2>2. stored' = stored
    BY <1>4 DEF Store!Start
  <2>3. \A o \in Store!Live :
          LET t == Store!Event("set", o, cached[o]) IN k \in Store!KeysOf(t.has) => e <= t.edit
    BY DEF Store!Event, Store!Live
  <2>4. \A i \in 1 .. Len(events') : k \in Store!KeysOf(events'[i].has) => e <= events'[i].edit
    BY <2>1, <2>3
  <2> QED
    BY <2>2, <2>4 DEF Store!Served
<1>5. ASSUME NEW o \in Configs, Store!Informed(o)
      PROVE  /\ \A i \in 1 .. Len(events') :
                  k \in Store!KeysOf(events'[i].has) => e <= events'[i].edit
             /\ k \in DOMAIN stored' => e <= stored'[k].edit
  <2>1. stored' = stored /\ (events' = events \/ events' = Append(events, Store!Told(o)))
    BY <1>5 DEF Store!Informed
  <2>2. k \in Store!KeysOf(Store!Told(o).has) => e <= Store!Told(o).edit
    BY DEF Store!Told, Store!Event
  <2>3. CASE events' = Append(events, Store!Told(o))
    <3>1. \A i \in 1 .. Len(events') : \/ i \in 1 .. Len(events) /\ events'[i] = events[i]
                                       \/ events'[i] = Store!Told(o)
      BY <1>1, <2>3
    <3> QED
      BY <2>1, <2>2, <3>1 DEF Store!Served
  <2> QED
    BY <2>1, <2>3 DEF Store!Served
<1>6. CASE Store!StoreRestart
  <2>1. DOMAIN stored' = {} /\ Len(events') = 0
    BY <1>6 DEF Store!StoreRestart
  <2> QED
    BY <2>1
<1> QED
  BY <1>2, <1>3, <1>4, <1>5, <1>6 DEF StoreMove, Store!Next, Store!storeVars, storeSide, mapVars

(* What is declared and served stays served in the same run of the manager *)
(* while it is declared, and nobody is told to drop it.                    *)
LEMMA ServedStays ==
  ASSUME Store!Separate, Store!DeliveryInv, StoreMove, crashes' = crashes, NEW k,
         NEW p \in Configs, k \in Store!KeysOf(config[p].has), k \in Store!Served,
         \A i \in 1 .. Len(events) :
           events[i].kind = "delete" => k \notin Store!KeysOf(events[i].has)
  PROVE  /\ k \in DOMAIN stored'
         /\ \A i \in 1 .. Len(events') :
              events'[i].kind = "delete" => k \notin Store!KeysOf(events'[i].has)
<1>1. Store!EventsInv /\ events \in Seq(Store!Messages)
  BY DEF Store!DeliveryInv, Store!EventsInv
<1>2. CASE events' = events /\ stored' = stored
  BY <1>2 DEF Store!Served
<1>3. CASE Store!Handle
  <2>1. events[1] \in Store!Messages
    BY <1>1, <1>3, Store!HandleEffect, FinitelyMany
  <2>2. events[1].kind \in {"set", "delete"}
    BY <2>1 DEF Store!Messages, Store!EventKinds
  <2>3. k \in DOMAIN stored'
    BY <1>1, <1>3, <2>2, Store!HandleEffect, FinitelyMany
  <2> QED
    BY <1>1, <1>3, <2>3, Store!HandleEffect, FinitelyMany
<1>4. CASE Store!Start
  <2>1. \A i \in 1 .. Len(events') :
          \E o \in Store!Live : events'[i] = Store!Event("set", o, cached[o])
    BY <1>4, Store!StartEvents, FinitelyMany
  <2>2. stored' = stored
    BY <1>4 DEF Store!Start
  <2>3. \A o \in Store!Live : Store!Event("set", o, cached[o]).kind = "set"
    BY DEF Store!Event
  <2> QED
    BY <2>1, <2>2, <2>3 DEF Store!Served
<1>5. ASSUME NEW o \in Configs, Store!Informed(o)
      PROVE  /\ k \in DOMAIN stored'
             /\ \A i \in 1 .. Len(events') :
                  events'[i].kind = "delete" => k \notin Store!KeysOf(events'[i].has)
  <2>1. stored' = stored /\ (events' = events \/ events' = Append(events, Store!Told(o)))
    BY <1>5 DEF Store!Informed
  <2>2. Store!Told(o).kind = "delete" => k \notin Store!KeysOf(Store!Told(o).has)
    <3>1. SUFFICES ASSUME ~Store!Exists(config[o]) PROVE k \notin Store!KeysOf(cached[o].has)
      BY DEF Store!Told, Store!Event
    <3>2. p # o /\ config[p].has \in Contents[p]
      BY <3>1, AbsentDeclaresNothing
    <3> QED
      BY <3>2, AbsentDeclaresNothing DEF Store!Separate
  <2>3. CASE events' = Append(events, Store!Told(o))
    <3>1. \A i \in 1 .. Len(events') : \/ i \in 1 .. Len(events) /\ events'[i] = events[i]
                                       \/ events'[i] = Store!Told(o)
      BY <1>1, <2>3
    <3> QED
      BY <2>1, <2>2, <3>1 DEF Store!Served
  <2> QED
    BY <2>1, <2>3 DEF Store!Served
<1>6. ~Store!StoreRestart
  <2>1. crashes \in Nat
    BY EditsAreNumbers DEF EditNumbers
  <2> QED
    BY <2>1 DEF Store!StoreRestart, Store!CrashRestart
<1> QED
  BY <1>2, <1>3, <1>4, <1>5, <1>6 DEF StoreMove, Store!Next, Store!storeVars, storeSide, mapVars

(* A store that has heard of everything serves the one edit that declares  *)
(* a key.                                                                  *)
LEMMA CaughtUpServes ==
  ASSUME Store!Separate, Store!DeliveryInv, Store!CaughtUp,
         NEW k, NEW o \in Configs, k \in Store!KeysOf(config[o].has)
  PROVE  /\ cached = config /\ Len(events) = 0
         /\ k \in Store!Served /\ stored[k].edit = config[o].edit
         /\ \A p \in Configs : k \in Store!KeysOf(config[p].has) => p = o
<1>1. cached = config /\ Len(events) = 0 /\ listening
  BY DEF Store!CaughtUp
<1>2. Store!Delivered(o)
  BY <1>1 DEF Store!DeliveryInv
<1>3. Store!Shows(o, config[o])
  BY <1>1, <1>2 DEF Store!Delivered
<1>4. Store!Exists(config[o])
  BY AbsentDeclaresNothing
<1>5. \A p \in Configs : k \in Store!KeysOf(config[p].has) => p = o
  BY AbsentDeclaresNothing DEF Store!Separate
<1> QED
  BY <1>1, <1>3, <1>4, <1>5 DEF Store!Shows

-----------------------------------------------------------------------------
(* The pass *)

(* A pass comes to a lookup's outcome only by the lookup.                  *)
LEMMA OnlyByLookup ==
  ASSUME PassStep, pc' \in {"createPod", "failConfig"}
  PROVE  pc = "lookupConfig"
<1> USE DEF Patch, RemovePod, Done, Requeue, RequeueAfter, EndPass
<1> DEFINE Outcomes == {"createPod", "failConfig"}
<1>1. /\ \A b : AfterLabel(b) \notin Outcomes /\ AfterFinalizer(b) \notin Outcomes
                /\ AfterFailure(b) \notin Outcomes
      /\ \A b, p : UpdateStatus(b, p) \notin Outcomes
      /\ \A n, b, p : JudgePod(n, b, p) \notin Outcomes
      /\ \A n, p : JudgeDeletion(n, p) \notin Outcomes
  BY DEF AfterLabel, AfterFinalizer, AfterFailure, UpdateStatus, JudgePending, JudgePod,
         JudgeDeletion
<1>2. ASSUME NEW l, l \notin Outcomes PROVE ~Goto(l)
  BY <1>2 DEF Goto
<1>3. ASSUME NEW l, NEW p, l \notin Outcomes PROVE ~Take(l, p)
  BY <1>3 DEF Take
<1>4. \A l \in {"getPod", "failPod", "failPending", "deleteBrowser", "releaseDeleted"} :
        l \notin Outcomes
  OBVIOUS
<1>5. pc' # "idle"
  OBVIOUS
<1>6. ~(ReleaseFailed \/ FailPending \/ FailConfig \/ CreatePod \/ Mirror \/ DeleteBrowser
        \/ DeletePod \/ ReleaseDeleted)
  BY <1>5 DEF ReleaseFailed, FailPending, FailConfig, CreatePod, Mirror, DeleteBrowser,
              DeletePod, ReleaseDeleted
<1>7. ~(AddFinalizer \/ AssignLabels \/ SetPending \/ KillFailed \/ FailPod \/ KillBackoff
        \/ FailCritical \/ Release \/ ForceDelete)
  BY <1>1, <1>2, <1>4, <1>5 DEF AddFinalizer, AssignLabels, SetPending, KillFailed, FailPod,
     KillBackoff, FailCritical, Release, ForceDelete
<1>8. ~PodForDeletion
  BY <1>1, <1>2, <1>3, <1>4 DEF PodForDeletion
<1>9. ~GetPod
  <2>1. "lookupConfig" \notin Outcomes
    OBVIOUS
  <2> QED
    BY <1>1, <1>2, <1>3, <1>5, <2>1 DEF GetPod
<1> QED
  BY <1>6, <1>7, <1>8, <1>9 DEF PassStep, LookupConfig

(* What the steps of the manager are to its parts: only the Browser part   *)
(* gives a name to a new Browser, and only a restart ends a run.           *)
LEMMA ManagerMoves ==
  ASSUME ManagerInv, [ManagerNext]_managerVars
  PROVE  /\ StoreMove
         /\ \A n \in Names : born[n] \in Nat /\ born'[n] \in Nat /\ born[n] <= born'[n]
         /\ born' # born => UNCHANGED storeSide /\ crashes' = crashes
         /\ crashes' = crashes \/ (crashes' = crashes + 1 /\ pc' = "idle")
<1>0. TypeOK /\ born \in [Names -> Nat] /\ crashes \in Nat
  BY DEF ManagerInv, CleanupInv, DeletionInv, NothingForgottenInv, TypeOK
<1>1. CASE BrowserPart
  <2>1. UNCHANGED storeSide
    BY <1>1 DEF BrowserPart
  <2>2. crashes' = crashes /\ (born' = born \/ \E n \in Names : CreateBrowser(n))
    <3>1. CASE PassStep
      BY <1>0, <3>1, PassStepFrame DEF PassFrame, Undisturbed
    <3>2. ASSUME NEW n \in Names, Begin(n) \/ SyncBrowser(n) \/ SyncPod(n)
          PROVE  crashes' = crashes /\ born' = born
      BY <3>2 DEF Begin, SyncBrowser, SyncPod, clusterVars
    <3>3. ASSUME NEW n \in Names, Environment(n)
          PROVE  crashes' = crashes /\ (born' = born \/ CreateBrowser(n))
      BY <3>3 DEF Environment, ClusterNext, DeleteRequest, AddForeignFinalizer,
         DropForeignFinalizer, KubeletReports, KubeletRemoves, Evict, OutsideDelete,
         CollectGarbage, CreationDeadline, DeletionDeadline
    <3> QED
      BY <1>1, <3>1, <3>2, <3>3 DEF BrowserPart
  <2>3. \A n \in Names : CreateBrowser(n) => born' = [born EXCEPT ![n] = @ + 1]
    BY DEF CreateBrowser
  <2> QED
    BY <1>0, <2>1, <2>2, <2>3 DEF StoreMove
<1>2. CASE StorePart
  <2>1. StoreMove
    BY <1>2 DEF StorePart, StoreMove, Store!Next, mapVars, Store!storeVars
  <2>2. born' = born
    BY <1>2 DEF StorePart, browserSide, clusterVars
  <2>3. crashes' = crashes
    BY <1>2 DEF StorePart, Store!Start, Store!Handle, Store!Users, Store!Create, Store!Edit,
       Store!Delete, Store!Informed, Store!Sync, Store!Reconcile, Store!configVars
  <2> QED
    BY <1>0, <2>1, <2>2, <2>3
<1>3. CASE Restart
  <2>1. StoreMove
    BY <1>3 DEF Restart, StoreMove, Store!Next
  <2> QED
    BY <1>0, <1>3, <2>1 DEF Restart, CrashRestart, EndPass
<1>4. CASE UNCHANGED managerVars
  BY <1>0, <1>4 DEF managerVars, vars, clusterVars, StoreMove
<1> QED
  BY <1>1, <1>2, <1>3, <1>4 DEF ManagerNext

(* A Browser is owed what it was, or nothing, or it is new and owed what   *)
(* is declared.                                                            *)
LEMMA OwedMoves ==
  ASSUME ManagerInv, ManagerNext, NEW n \in Names
  PROVE  \/ owed'[n] = Nothing
         \/ /\ owed'[n] = owed[n] /\ born'[n] = born[n]
            /\ \E o \in Configs : Key(n) \in Store!KeysOf(config'[o].has)
         \/ /\ UNCHANGED storeSide /\ crashes' = crashes /\ Store!CaughtUp
            /\ \E o \in Configs : /\ Key(n) \in Store!KeysOf(config[o].has)
                                  /\ owed'[n] = [edit |-> config[o].edit, run |-> crashes]
<1>1. /\ Declaring(n)' = {} => owed'[n] = Nothing
      /\ Declaring(n)' # {} /\ born'[n] = born[n] => owed'[n] = owed[n]
      /\ Declaring(n)' # {} /\ born'[n] # born[n] /\ ~Store!CaughtUp => owed'[n] = Nothing
      /\ Declaring(n)' # {} /\ born'[n] # born[n] /\ Store!CaughtUp
           => owed'[n] = [edit |-> config[CHOOSE o \in Declaring(n) : TRUE].edit, run |-> crashes]
  BY DEF ManagerNext, Owes
<1>2. CASE Declaring(n)' = {} \/ (born'[n] # born[n] /\ ~Store!CaughtUp)
  BY <1>1, <1>2
<1>3. CASE Declaring(n)' # {} /\ born'[n] = born[n]
  <2>1. \E o \in Configs : Key(n) \in Store!KeysOf(config'[o].has)
    BY <1>3 DEF Declaring, Key, Store!KeysOf
  <2> QED
    BY <1>1, <1>3, <2>1
<1>4. CASE Declaring(n)' # {} /\ born'[n] # born[n] /\ Store!CaughtUp
  <2>1. UNCHANGED storeSide /\ crashes' = crashes
    BY <1>4, ManagerMoves
  <2>2. Declaring(n)' = Declaring(n)
    BY <2>1 DEF storeSide, Declaring, Key, Store!KeysOf
  <2> DEFINE o == CHOOSE x \in Declaring(n) : TRUE
  <2>3. o \in Declaring(n)
    BY <1>4, <2>2
  <2>4. o \in Configs /\ Key(n) \in Store!KeysOf(config[o].has)
    BY <2>3 DEF Declaring
  <2>5. owed'[n] = [edit |-> config[o].edit, run |-> crashes]
    BY <1>1, <1>4
  <2> HIDE DEF o
  <2> QED
    BY <1>4, <2>1, <2>4, <2>5
<1> QED
  BY <1>2, <1>3, <1>4

(* What the history says of a name stays true,                             *)
LEMMA HistoryStays ==
  ASSUME Store!Separate, ManagerInv, ManagerNext, NEW n \in Names, owed'[n] = owed[n],
         \E o \in Configs : Key(n) \in Store!KeysOf(config'[o].has)
  PROVE  NoneOlder(n)' /\ Kept(n)'
<1>1. /\ Store!DeliveryInv /\ NoneOlder(n) /\ Kept(n) /\ StoreMove
      /\ owed[n] \in [edit : Nat, run : Nat] /\ crashes \in Nat
      /\ crashes' = crashes \/ crashes' = crashes + 1
  BY ManagerMoves, EditsAreNumbers DEF ManagerInv, HistoryOK, EditNumbers
<1>2. Key(n)' = Key(n) /\ \A has : Store!KeysOf(has)' = Store!KeysOf(has)
  BY DEF Key, Store!KeysOf
<1>3. owed[n].edit \in Nat /\ owed[n].run \in Nat
  BY <1>1
<1>4. NoneOlder(n)'
  <2> DEFINE k == Key(n)
             e == owed[n].edit
  <2>1. /\ e <= edits /\ owed[n].run <= crashes
        /\ \A o \in Configs : /\ k \in Store!KeysOf(config[o].has) => e <= config[o].edit
                              /\ k \in Store!KeysOf(cached[o].has) => e <= cached[o].edit
        /\ \A i \in 1 .. Len(events) : k \in Store!KeysOf(events[i].has) => e <= events[i].edit
        /\ k \in Store!Served => e <= stored[k].edit
    BY <1>1 DEF NoneOlder
  <2>2. e \in Nat
    BY <1>3
  <2> HIDE DEF k, e
  <2>3. /\ e <= edits'
        /\ \A o \in Configs : /\ k \in Store!KeysOf(config'[o].has) => e <= config'[o].edit
                              /\ k \in Store!KeysOf(cached'[o].has) => e <= cached'[o].edit
    BY <1>1, <2>1, <2>2, NoneOlderOnServer
  <2>4. /\ \A i \in 1 .. Len(events') : k \in Store!KeysOf(events'[i].has) => e <= events'[i].edit
        /\ k \in DOMAIN stored' => e <= stored'[k].edit
    BY <1>1, <2>1, <2>2, NoneOlderInStore
  <2>5. owed[n].run <= crashes'
    BY <1>1, <1>3, <2>1
  <2> QED
    BY <2>3, <2>4, <2>5 DEF NoneOlder, Key, k, e, Store!KeysOf, Store!Served
<1>5. Kept(n)'
  <2>1. SUFFICES ASSUME owed[n].edit > 0, owed[n].run = crashes'
                 PROVE  /\ Key(n) \in DOMAIN stored'
                        /\ \A i \in 1 .. Len(events') :
                             events'[i].kind = "delete" => Key(n) \notin Store!KeysOf(events'[i].has)
    BY DEF Kept, Key, Store!KeysOf, Store!Served
  <2>2. crashes' = crashes
    BY <1>1, <1>3, <2>1 DEF NoneOlder
  <2>3. /\ Key(n) \in Store!Served
        /\ \A i \in 1 .. Len(events) :
             events[i].kind = "delete" => Key(n) \notin Store!KeysOf(events[i].has)
    BY <1>1, <2>1, <2>2 DEF Kept
  <2>4. PICK p \in Configs : Key(n) \in Store!KeysOf(config[p].has)
    BY <1>1, <2>1 DEF Kept
  <2> QED
    BY <1>1, <2>2, <2>3, <2>4, ServedStays
<1> QED
  BY <1>4, <1>5

(* and is true of a new Browser.                                           *)
LEMMA HistoryBegins ==
  ASSUME Store!Separate, ManagerInv, NEW n \in Names, NEW o \in Configs,
         UNCHANGED storeSide, crashes' = crashes, Store!CaughtUp,
         Key(n) \in Store!KeysOf(config[o].has),
         owed'[n] = [edit |-> config[o].edit, run |-> crashes]
  PROVE  NoneOlder(n)' /\ Kept(n)'
<1>1. Store!DeliveryInv
  BY DEF ManagerInv
<1>2. /\ cached = config /\ Len(events) = 0
      /\ Key(n) \in Store!Served /\ stored[Key(n)].edit = config[o].edit
      /\ \A p \in Configs : Key(n) \in Store!KeysOf(config[p].has) => p = o
  BY <1>1, CaughtUpServes
<1>3. config[o].edit \in Nat /\ config[o].edit <= edits /\ crashes \in Nat
  BY <1>1, EditsAreNumbers, AbsentDeclaresNothing DEF EditNumbers
<1>4. \A i \in 1 .. Len(events) : FALSE
  BY <1>2
<1> QED
  BY <1>2, <1>3, <1>4 DEF storeSide, mapVars, NoneOlder, Kept, Key, Store!KeysOf, Store!Served

(* Nothing is owed to the others.                                          *)
LEMMA HistoryEnds ==
  ASSUME Store!DeliveryInv', NEW n \in Names, owed'[n] = Nothing
  PROVE  NoneOlder(n)' /\ Kept(n)'
<1>1. EditNumbers'
  BY EditsAreNumbers, PTL
<1> QED
  BY <1>1 DEF EditNumbers, NoneOlder, Kept, Nothing, Store!Served

-----------------------------------------------------------------------------
(* The invariant *)

(* The history is right after every step.                                  *)
LEMMA HistoryStep ==
  ASSUME Store!Separate, ManagerInv, [ManagerNext]_managerVars
  PROVE  HistoryOK'
<1>1. /\ Store!DeliveryInv' /\ HistoryOK /\ Store!DeliveryInv /\ req \in Names
      /\ owed \in [Names -> [edit : Nat, run : Nat]] /\ used \in Nat
  BY PartsStep DEF ManagerInv, HistoryOK, CleanupInv, DeletionInv, NothingForgottenInv, TypeOK
<1>2. CASE UNCHANGED managerVars
  BY <1>1, <1>2 DEF managerVars, vars, storeSide, mapVars, HistoryOK, NoneOlder, Kept, Key,
     Store!KeysOf, Store!Served
<1>3. CASE ManagerNext
  <2>1. \A n \in Names : owed'[n] \in [edit : Nat, run : Nat]
    <3> SUFFICES ASSUME NEW n \in Names PROVE owed'[n] \in [edit : Nat, run : Nat]
      OBVIOUS
    <3>1. Nothing \in [edit : Nat, run : Nat]
      BY DEF Nothing
    <3>2. crashes \in Nat /\ \A o \in Configs : config[o].edit \in Nat
      BY <1>1, EditsAreNumbers DEF EditNumbers
    <3>3. \A o \in Configs : [edit |-> config[o].edit, run |-> crashes] \in [edit : Nat, run : Nat]
      BY <3>2
    <3>4. owed[n] \in [edit : Nat, run : Nat]
      BY <1>1
    <3>5. \/ owed'[n] = Nothing \/ owed'[n] = owed[n]
          \/ \E o \in Configs : owed'[n] = [edit |-> config[o].edit, run |-> crashes]
      BY <1>3, OwedMoves
    <3> QED
      BY <3>1, <3>3, <3>4, <3>5
  <2>2. owed' \in [Names -> [edit : Nat, run : Nat]]
    BY <1>3, <2>1 DEF ManagerNext, Owes
  <2>3. used' \in Nat
    <3>1. CASE pc = "lookupConfig" /\ pc' = "createPod"
      <4>1. Found
        BY <1>3, <3>1 DEF ManagerNext, BrowserPart, StorePart, Restart, LooksUp, browserSide,
           passVars, CrashRestart, EndPass
      <4>2. stored[Key(req)].edit \in Nat
        BY <1>1, <4>1, EditsAreNumbers DEF EditNumbers, Found
      <4> QED
        BY <1>3, <3>1, <4>2 DEF ManagerNext, Uses
    <3>2. CASE ~(pc = "lookupConfig" /\ pc' = "createPod")
      BY <1>1, <1>3, <3>2 DEF ManagerNext, Uses
    <3> QED
      BY <3>1, <3>2
  <2>4. ASSUME NEW n \in Names PROVE NoneOlder(n)' /\ Kept(n)'
    BY <1>1, <1>3, OwedMoves, HistoryStays, HistoryBegins, HistoryEnds
  <2> QED
    BY <2>2, <2>3, <2>4 DEF HistoryOK
<1> QED
  BY <1>2, <1>3

(* A pass that stands still learns of no later Browser to serve.           *)
LEMMA StandingPass ==
  ASSUME ManagerInv, ManagerNext, UNCHANGED <<pc, req, lb>>, crashes' = crashes,
         pc \in {"createPod", "failConfig"}
  PROVE  PlacedConfigFound' /\ NeverOlderConfig'
<1>1. /\ lb.uid <= born[req] /\ req \in Names /\ lb.uid \in Nat
      /\ PlacedConfigFound /\ NeverOlderConfig
  BY DEF ManagerInv, CleanupInv, NameKnown, DeletionInv, NothingForgottenInv, TypeOK, Browsers
<1>2. SUFFICES ASSUME OnLatest' PROVE PlacedConfigFound' /\ NeverOlderConfig'
  BY DEF PlacedConfigFound, NeverOlderConfig
<1>3. born'[req] = born[req] /\ OnLatest
  BY <1>1, <1>2, ManagerMoves DEF OnLatest
<1>4. owed'[req] \in {owed[req], Nothing}
  BY <1>1, <1>3 DEF ManagerNext, Owes
<1>5. pc = "createPod" => used' = used /\ used \in Nat
  BY DEF ManagerNext, Uses, ManagerInv, HistoryOK
<1> QED
  BY <1>1, <1>3, <1>4, <1>5 DEF PlacedConfigFound, NeverOlderConfig, Nothing

(* A pass finds what its Browser is owed.                                  *)
LEMMA LookupFinds ==
  ASSUME ManagerInv, ManagerNext, pc = "lookupConfig", LookupConfig, LooksUp
  PROVE  PlacedConfigFound' /\ NeverOlderConfig'
<1>1. /\ req \in Names /\ NoneOlder(req) /\ Kept(req) /\ owed[req].edit \in Nat
      /\ owed \in [Names -> [edit : Nat, run : Nat]]
  BY DEF ManagerInv, HistoryOK, CleanupInv, DeletionInv, NothingForgottenInv, TypeOK
<1>2. req' = req /\ born' = born /\ crashes' = crashes /\ pc' \in {"createPod", "failConfig"}
  BY DEF LookupConfig, Undisturbed, Goto, Endings
<1>3. owed'[req] \in {owed[req], Nothing}
  BY <1>1, <1>2 DEF ManagerNext, Owes
<1>4. CASE pc' = "createPod"
  <2>1. Found /\ used' = stored[Key(req)].edit
    BY <1>4 DEF LooksUp, ManagerNext, Uses
  <2>2. owed[req].edit <= used'
    BY <1>1, <2>1 DEF NoneOlder, Found
  <2>3. used' \in Nat
    BY <2>1, EditsAreNumbers DEF ManagerInv, EditNumbers, Found
  <2> QED
    BY <1>1, <1>2, <1>3, <1>4, <2>2, <2>3 DEF PlacedConfigFound, NeverOlderConfig, Nothing
<1>5. CASE pc' = "failConfig"
  <2>1. ~Found
    BY <1>5 DEF LooksUp
  <2>2. owed[req].edit > 0 => owed[req].run # crashes
    BY <1>1, <2>1 DEF Kept, Found
  <2> QED
    BY <1>2, <1>3, <1>5, <2>2 DEF PlacedConfigFound, NeverOlderConfig, Nothing
<1> QED
  BY <1>2, <1>4, <1>5

(* So do all of them, whatever happens in between.                         *)
LEMMA PropertiesStep ==
  ASSUME ManagerInv, [ManagerNext]_managerVars
  PROVE  PlacedConfigFound' /\ NeverOlderConfig'
<1>1. PlacedConfigFound /\ NeverOlderConfig /\ crashes \in Nat
  BY EditsAreNumbers DEF ManagerInv, EditNumbers
<1>2. CASE UNCHANGED managerVars
  BY <1>1, <1>2 DEF managerVars, vars, clusterVars, passVars, PlacedConfigFound,
     NeverOlderConfig, OnLatest
<1>3. CASE pc' \notin {"createPod", "failConfig"}
  BY <1>3 DEF PlacedConfigFound, NeverOlderConfig
<1>4. CASE ManagerNext /\ pc' \in {"createPod", "failConfig"}
  <2>1. crashes' = crashes
    BY <1>4, ManagerMoves
  <2>2. CASE PassStep /\ LooksUp
    <3>1. pc = "lookupConfig"
      BY <1>4, <2>2, OnlyByLookup
    <3>2. LookupConfig
      BY <2>2, <3>1 DEF PassStep, ReleaseFailed, AddFinalizer, AssignLabels, SetPending, GetPod,
         KillFailed, FailPod, KillBackoff, FailPending, FailConfig, CreatePod, FailCritical,
         Mirror, Release, DeleteBrowser, PodForDeletion, DeletePod, ForceDelete, ReleaseDeleted
    <3> QED
      BY <1>4, <2>2, <3>1, <3>2, LookupFinds
  <2>3. ASSUME NEW n \in Names, Begin(n) PROVE FALSE
    <3>1. pc' = Route(bCache[n]) \/ pc' = "idle"
      BY <2>3 DEF Begin
    <3> QED
      BY <1>4, <3>1 DEF Route, AfterFinalizer, AfterLabel
  <2>4. ASSUME NEW n \in Names, SyncBrowser(n) \/ SyncPod(n) \/ Environment(n)
        PROVE  UNCHANGED <<pc, req, lb>>
    BY <2>4 DEF SyncBrowser, SyncPod, Environment, passVars
  <2>5. CASE UNCHANGED <<pc, req, lb>>
    BY <1>4, <2>1, <2>5, StandingPass
  <2>6. ~Restart
    BY <1>1, <2>1 DEF Restart, CrashRestart
  <2>7. StorePart => UNCHANGED <<pc, req, lb>>
    BY DEF StorePart, browserSide, passVars
  <2> QED
    BY <1>4, <2>2, <2>3, <2>4, <2>5, <2>6, <2>7 DEF ManagerNext, BrowserPart
<1> QED
  BY <1>2, <1>3, <1>4

(* The invariant holds at first,                                           *)
LEMMA ManagerInvInit == ManagerInit => ManagerInv
<1> SUFFICES ASSUME ManagerInit PROVE ManagerInv
  OBVIOUS
<1>1. CleanupInv
  BY CleanupInit DEF ManagerInit
<1>2. Store!EventsInv /\ Store!Init
  BY Store!EventsInit, FinitelyMany DEF ManagerInit
<1>3. Store!DeliveryInv
  BY <1>2 DEF Store!DeliveryInv, Store!Init
<1>4. \A n \in Names : owed[n] = [edit |-> 0, run |-> 0]
  BY DEF ManagerInit, Nothing
<1>5. HistoryOK
  <2>1. EditNumbers
    BY <1>3, EditsAreNumbers
  <2>2. ASSUME NEW n \in Names PROVE NoneOlder(n) /\ Kept(n)
    <3>1. owed[n].edit = 0 /\ owed[n].run = 0
      BY <1>4
    <3>2. \A x \in Nat : owed[n].edit <= x /\ owed[n].run <= x
      BY <3>1
    <3> QED
      BY <2>1, <3>1, <3>2 DEF EditNumbers, NoneOlder, Kept
  <2> QED
    BY <2>2 DEF ManagerInit, HistoryOK, Nothing
<1>6. pc = "idle"
  BY DEF ManagerInit, Init
<1> QED
  BY <1>1, <1>3, <1>5, <1>6 DEF ManagerInv, PlacedConfigFound, NeverOlderConfig

(* and every step keeps it.                                                *)
LEMMA ManagerInvStep ==
  ASSUME Store!Separate, ManagerInv, [ManagerNext]_managerVars
  PROVE  ManagerInv'
  BY PartsStep, HistoryStep, PropertiesStep DEF ManagerInv

-----------------------------------------------------------------------------
(* A Browser whose version was in place when it was created, and still is, *)
(* is not failed by its own pass for want of it in that run of the         *)
(* manager, if no key has two owners (browser_reconciler.go:356-371,       *)
(* browserconfig_store.go:69-145).                                         *)
THEOREM PlacedConfigIsFound ==
  ASSUME Store!Separate
  PROVE  ManagerSpec => []PlacedConfigFound
<1>1. ManagerInv /\ [ManagerNext]_managerVars => ManagerInv'
  BY ManagerInvStep
<1>2. ManagerInv => PlacedConfigFound
  BY DEF ManagerInv
<1> QED
  BY <1>1, <1>2, ManagerInvInit, PTL DEF ManagerSpec

(* Nor is its pod made from an edit older than that, restarts included, if *)
(* no key has two owners (browser_reconciler.go:356-403).                  *)
THEOREM ConfigIsNeverOlder ==
  ASSUME Store!Separate
  PROVE  ManagerSpec => []NeverOlderConfig
<1>1. ManagerInv /\ [ManagerNext]_managerVars => ManagerInv'
  BY ManagerInvStep
<1>2. ManagerInv => NeverOlderConfig
  BY DEF ManagerInv
<1> QED
  BY <1>1, <1>2, ManagerInvInit, PTL DEF ManagerSpec

=============================================================================
