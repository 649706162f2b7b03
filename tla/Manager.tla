------------------------------- MODULE Manager -------------------------------
(***************************************************************************)
(* The manager, cmd/manager/main.go: one process in which the Browser      *)
(* controller looks configurations up in the store that the events of the  *)
(* BrowserConfigs keep.  Its parts start together and die together.        *)
(*                                                                         *)
(* The state of the Browser controller and its cluster is that of          *)
(* BrowserReconciler; the BrowserConfig controller and the store are the   *)
(* instance Store of BrowserConfigStore, with its theorems.  Restarts and  *)
(* the budget of failed calls are shared.                                  *)
(***************************************************************************)
EXTENDS BrowserProperties, FiniteSets

CONSTANTS
  Configs, Contents, MaxEdits, Versions, KeyOf,  \* as in BrowserConfigStore
  Asked    \* Asked[n]: the version that the Browsers of the name n ask for

VARIABLES
  config, revised, edits, cached, due, events, listening, stored,
  owed,    \* history: owed[n]: what was in place when the latest Browser n was created
  used     \* history: the edit whose configuration the pass has found, or 0

Store == INSTANCE StoreProofs

ASSUME ManagerAssumption ==
  /\ DOMAIN Asked = Names /\ \A n \in Names : Asked[n] \in Versions
  /\ LookupOutcomes = {"found", "noConfig"}
  /\ IsFiniteSet(Configs) /\ DOMAIN Contents = Configs /\ MaxEdits \in Nat
  /\ DOMAIN KeyOf = Versions /\ \A o \in Configs : Contents[o] \subseteq SUBSET Versions

browserSide == <<clusterVars, cacheVars, queue, passVars, retired>>
mapVars     == <<events, listening, stored>>
storeSide   == <<config, revised, edits, cached, due, mapVars>>
managerVars == <<vars, storeSide, owed, used>>

-----------------------------------------------------------------------------
(* The lookup *)

Key(n) == KeyOf[Asked[n]]

(* Mutant: the key is looked up as the user wrote it. *)
FoundAsWritten == Asked[req] \in Store!Served

Found == Key(req) \in Store!Served

(* LookupConfig finds what the store serves at this moment. *)
LooksUp ==
  /\ pc = "lookupConfig" /\ pc' = "createPod" => Found
  /\ pc = "lookupConfig" /\ pc' = "failConfig" => ~Found

-----------------------------------------------------------------------------
(* History *)

Declaring(n) == {o \in Configs : Key(n) \in Store!KeysOf(config[o].has)}

Nothing == [edit |-> 0, run |-> 0]

(* A Browser is owed the edit that declares its version, if the store has  *)
(* heard of all edits when the Browser is created, and as long as some     *)
(* BrowserConfig declares it.                                              *)
Owes ==
  owed' = [n \in Names |->
             IF Declaring(n)' = {} THEN Nothing
             ELSE IF born'[n] = born[n] THEN owed[n]
             ELSE IF ~Store!CaughtUp THEN Nothing
             ELSE [edit |-> config[CHOOSE o \in Declaring(n) : TRUE].edit, run |-> crashes]]

Uses ==
  used' = IF pc' # "createPod" THEN 0
          ELSE IF pc = "lookupConfig" THEN stored[Key(req)].edit ELSE used

-----------------------------------------------------------------------------
BrowserPart ==
  /\ PassStep \/ \E n \in Names : Begin(n) \/ SyncBrowser(n) \/ SyncPod(n) \/ Environment(n)
  /\ LooksUp
  /\ UNCHANGED storeSide

(* What the process does for BrowserConfigs, and their users. *)
StorePart ==
  /\ \/ Store!Start \/ Store!Handle
     \/ Store!Users /\ UNCHANGED mapVars
     \/ \E o \in Configs : Store!Informed(o) \/ (Store!Reconcile(o) /\ UNCHANGED mapVars)
  /\ UNCHANGED browserSide

(* The process ends and another one starts. *)
Restart == CrashRestart /\ Store!StoreRestart

ManagerInit ==
  Init /\ Store!Init /\ owed = [n \in Names |-> Nothing] /\ used = 0
ManagerNext == (BrowserPart \/ StorePart \/ Restart) /\ Owes /\ Uses
ManagerSpec == ManagerInit /\ [][ManagerNext]_managerVars

-----------------------------------------------------------------------------
(* A pass works on the latest Browser of its name, and not on one that has *)
(* been replaced since it began.                                           *)
OnLatest == lb.uid = born[req]

(* PlacedConfigFound: a Browser whose version was declared and known to    *)
(* the store when it was created, and is still declared, is not failed by  *)
(* a pass of its own for want of a configuration, unless the manager       *)
(* restarts (browser_reconciler.go:356-371, browserconfig_store.go:69-145).*)
PlacedConfigFound ==
  pc = "failConfig" /\ OnLatest /\ owed[req].edit > 0 => owed[req].run # crashes

(* NeverOlderConfig: the pod of a Browser is never made from an edit older *)
(* than the one that was in place when the Browser was created, whatever   *)
(* order events, restarts and updates of finalizers come in                *)
(* (browser_reconciler.go:356-403, browserconfig_store.go:43-99).          *)
NeverOlderConfig ==
  pc = "createPod" /\ OnLatest => used >= owed[req].edit

(* ResolvesConfiguration: what PlacedConfigFound says, across restarts:    *)
(* "BrowserConfig is loaded and cached by the controller", and the         *)
(* reconciliation of a Browser "resolves configuration" (README.md:307,    *)
(* 309).                                                                   *)
ResolvesConfiguration ==
  pc = "failConfig" /\ OnLatest => owed[req].edit = 0

=============================================================================
