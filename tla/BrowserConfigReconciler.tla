----------------------- MODULE BrowserConfigReconciler -----------------------
(***************************************************************************)
(* The BrowserConfig controller,                                           *)
(* controllers/browserconfig/browserconfig_reconciler.go, with the API     *)
(* server's BrowserConfigs, the informer cache that this controller and    *)
(* the BrowserConfigStore share, and the users who edit configurations.    *)
(*                                                                         *)
(* A pass reads the cached object, changes its finalizers and sends the    *)
(* whole object back.  The server refuses it unless its resourceVersion is *)
(* the current one, so the time between the read and the write is one more *)
(* way for the cache to be stale, and a pass is one step.                  *)
(***************************************************************************)
EXTENDS Naturals, FiniteSets

CONSTANTS
  Configs,        \* names of BrowserConfigs
  Contents,       \* Contents[o]: what users may write into o, as sets of browser versions
  MaxEdits,       \* bound: creations and edits, of all names together
  MaxFaults,      \* bound: updates that fail or whose answer is lost
  MaxCrashes      \* bound: restarts of the manager

ASSUME ConfigsAssumption ==
  /\ IsFiniteSet(Configs) /\ DOMAIN Contents = Configs
  /\ MaxEdits \in Nat /\ MaxFaults \in Nat /\ MaxCrashes \in Nat

VARIABLES
  config,   \* config[o]: the BrowserConfig stored under o
  revised,  \* revised[o]: the latest resourceVersion of o
  edits,    \* creations and edits so far
  cached,   \* cached[o]: the BrowserConfig in the informer's cache
  due,      \* the names a pass is due for
  faults,   \* failed updates so far
  crashes   \* restarts so far

serverVars == <<config, revised, edits>>
configVars == <<serverVars, cached, due, faults, crashes>>

(* rev is the resourceVersion, ours the finalizer of this controller, edit *)
(* the user's edit that wrote the content has.                             *)
NoConfig  == [rev |-> 0, edit |-> 0, has |-> {}, ours |-> FALSE, deleting |-> FALSE]
Exists(c) == c.rev # 0

(* Every write gets the next resourceVersion; a deleted object disappears  *)
(* with its finalizer.                                                     *)
Write(o, c) ==
  /\ revised' = [revised EXCEPT ![o] = @ + 1]
  /\ config'  = [config EXCEPT ![o] =
                   IF c.deleting /\ ~c.ours THEN NoConfig ELSE [c EXCEPT !.rev = revised[o] + 1]]

-----------------------------------------------------------------------------
(* Users *)

Create(o) ==
  /\ ~Exists(config[o]) /\ edits < MaxEdits
  /\ edits' = edits + 1
  /\ \E has \in Contents[o] : Write(o, [NoConfig EXCEPT !.edit = edits + 1, !.has = has])
  /\ UNCHANGED <<cached, due, faults, crashes>>

Edit(o) ==
  /\ Exists(config[o]) /\ edits < MaxEdits
  /\ edits' = edits + 1
  /\ \E has \in Contents[o] : Write(o, [config[o] EXCEPT !.edit = edits + 1, !.has = has])
  /\ UNCHANGED <<cached, due, faults, crashes>>

Delete(o) ==
  /\ Exists(config[o]) /\ ~config[o].deleting
  /\ Write(o, [config[o] EXCEPT !.deleting = TRUE])
  /\ UNCHANGED <<edits, cached, due, faults, crashes>>

-----------------------------------------------------------------------------
(* Reconcile *)

(* What a pass wants: the finalizer on while the object lives, off when it *)
(* is being deleted.                                                       *)
Wanted(c) == ~c.deleting

(* The server takes the content and the finalizers of the sent object c;   *)
(* the deletion mark is the server's own.                                  *)
Accept(o, c) ==
  Write(o, [config[o] EXCEPT !.ours = Wanted(c), !.has = c.has, !.edit = c.edit])

(* Mutant: the update does not carry the resourceVersion. *)
CurrentByName(o, c) == Exists(config[o])

(* The object goes back with the resourceVersion it was read with. *)
Current(o, c) == Exists(config[o]) /\ config[o].rev = c.rev

Requeued(o) == UNCHANGED due
Finished(o) == due' = due \ {o}

(* Mutant: a failed update ends the pass as if it had succeeded. *)
ReconcileSwallowing(o) ==
  LET c == cached[o] IN
  /\ o \in due
  /\ Finished(o)
  /\ IF Exists(c) /\ c.ours # Wanted(c) /\ Current(o, c)
       THEN \/ Accept(o, c) /\ UNCHANGED faults
            \/ faults < MaxFaults /\ faults' = faults + 1 /\ UNCHANGED <<config, revised>>
       ELSE UNCHANGED <<config, revised, faults>>
  /\ UNCHANGED <<edits, cached, crashes>>

Reconcile(o) ==
  LET c == cached[o] IN
  /\ o \in due
  /\ IF ~Exists(c) \/ c.ours = Wanted(c)
       THEN Finished(o) /\ UNCHANGED <<config, revised, faults>>
       ELSE \/ Current(o, c) /\ Accept(o, c) /\ Finished(o) /\ UNCHANGED faults
            \/ ~Current(o, c) /\ Requeued(o) /\ UNCHANGED <<config, revised, faults>>
            \/ /\ faults < MaxFaults /\ faults' = faults + 1 /\ Requeued(o)
               /\ \/ Current(o, c) /\ Accept(o, c)
                  \/ UNCHANGED <<config, revised>>
  /\ UNCHANGED <<edits, cached, crashes>>

-----------------------------------------------------------------------------
(* The manager *)

(* The informer learns the server's version; a watch that was interrupted  *)
(* skips the versions in between, and may show a name that was deleted and *)
(* created again as an update.                                             *)
Sync(o) ==
  /\ cached[o] # config[o]
  /\ cached' = [cached EXCEPT ![o] = config[o]]
  /\ due' = due \cup {o}
  /\ UNCHANGED <<serverVars, faults, crashes>>

CrashRestart ==
  /\ crashes < MaxCrashes
  /\ crashes' = crashes + 1
  /\ cached' = config
  /\ due' = {o \in Configs : Exists(config[o])}
  /\ UNCHANGED <<serverVars, faults>>

-----------------------------------------------------------------------------
ConfigsInit ==
  /\ config = [o \in Configs |-> NoConfig] /\ cached = [o \in Configs |-> NoConfig]
  /\ revised = [o \in Configs |-> 0] /\ edits = 0
  /\ due = {} /\ faults = 0 /\ crashes = 0

Users == \E o \in Configs : Create(o) \/ Edit(o) \/ Delete(o)

ConfigsNext ==
  \/ Users \/ CrashRestart
  \/ \E o \in Configs : Reconcile(o) \/ Sync(o)

ConfigsSpec == ConfigsInit /\ [][ConfigsNext]_configVars

(* The work queue turns to every name again and again, and the informer    *)
(* learns of every change.  Users need not do anything.                    *)
ConfigsFairSpec ==
  ConfigsSpec /\ \A o \in Configs : SF_configVars(Reconcile(o)) /\ WF_configVars(Sync(o))

-----------------------------------------------------------------------------
(* EditsKept: only users change what a BrowserConfig says.  The controller *)
(* sends back whole objects it read from a cache that may be stale         *)
(* (browserconfig_reconciler.go:55, 65).                                   *)
EditsKept ==
  [][\A o \in Configs :
       Exists(config[o]) /\ Exists(config'[o]) /\ edits' = edits
         => config'[o].has = config[o].has /\ config'[o].edit = config[o].edit]_configVars

(* ConfigDeletionCompletes: the finalizer of this controller never keeps a *)
(* deleted BrowserConfig for good (browserconfig_reconciler.go:52-61),     *)
(* however many of its updates conflict or fail.                           *)
ConfigDeletionCompletes ==
  \A o \in Configs : config[o].deleting ~> ~Exists(config[o])

=============================================================================
