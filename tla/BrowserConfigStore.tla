-------------------------- MODULE BrowserConfigStore --------------------------
(***************************************************************************)
(* The store of browser configurations, store/browserconfig_store.go: a    *)
(* map from lower-cased "browser:version" keys to merged configurations,   *)
(* kept by a handler on the informer of BrowserConfigReconciler and read   *)
(* by the passes of the Browser controller.                                *)
(*                                                                         *)
(* The informer hands events to the handler through a queue of its own,    *)
(* and the handler takes each under the store's lock.  One namespace is    *)
(* modelled: keys of different namespaces never meet.                      *)
(***************************************************************************)
EXTENDS BrowserConfigReconciler, Sequences, SequencesExt

CONSTANTS
  Versions,  \* browser versions as users write them
  KeyOf      \* KeyOf[v]: the key of v, its names lower-cased

ASSUME StoreAssumption ==
  /\ DOMAIN KeyOf = Versions
  /\ \A o \in Configs : Contents[o] \subseteq SUBSET Versions

VARIABLES
  events,     \* what the informer has to tell the handler, in order
  listening,  \* the handler has been registered
  stored      \* the map of the store: which configuration serves which key

storeVars == <<events, listening, stored>>
vars == <<configVars, storeVars>>

KeysOf(has) == {KeyOf[v] : v \in has}

(* Get, for every key at once. *)
Served == DOMAIN stored

Event(k, o, c)  == [kind |-> k, config |-> o, edit |-> c.edit, has |-> c.has]
EventKinds      == {"set", "delete"}

-----------------------------------------------------------------------------
(* Start *)

Live == {o \in Configs : Exists(cached[o])}

(* Mutant: the handler hears only of what changes after it registered. *)
StartWithoutReplay ==
  /\ ~listening
  /\ listening' = TRUE
  /\ UNCHANGED <<configVars, events, stored>>

(* The handler is told of the objects the informer has, in no fixed order. *)
Start ==
  /\ ~listening
  /\ listening' = TRUE
  /\ \E s \in SetToSeqs(Live) :
       events' = [i \in DOMAIN s |-> Event("set", s[i], cached[s[i]])]
  /\ UNCHANGED <<configVars, stored>>

(* Mutant: the handler of an update stores the old object. *)
OldObjectTold(o) ==
  IF Exists(config[o]) THEN Event("set", o, IF Exists(cached[o]) THEN cached[o] ELSE config[o])
                       ELSE Event("delete", o, cached[o])

(* What the informer tells of a change: the new object, or the last state  *)
(* it knew of a deleted one.                                               *)
Told(o) ==
  IF Exists(config[o]) THEN Event("set", o, config[o]) ELSE Event("delete", o, cached[o])

Informed(o) ==
  /\ Sync(o)
  /\ events' = IF listening THEN Append(events, Told(o)) ELSE events
  /\ UNCHANGED <<listening, stored>>

-----------------------------------------------------------------------------
(* The handler *)

(* Mutant: every key gets the version that the iteration comes to last. *)
EntriesOfLast(e) ==
  {[k \in KeysOf(e.has) |-> [config |-> e.config, edit |-> e.edit, as |-> v]] : v \in e.has}

(* Of the versions that share a key, the one that the iteration over the   *)
(* maps comes to last stays.                                               *)
Entries(e) ==
  {[k \in KeysOf(e.has) |-> [config |-> e.config, edit |-> e.edit, as |-> pick[k]]] :
     pick \in {p \in [KeysOf(e.has) -> e.has] : \A k \in KeysOf(e.has) : KeyOf[p[k]] = k}}

onAddOrUpdate(e) ==
  \E entries \in Entries(e) :
    stored' = [k \in Served \cup DOMAIN entries |->
                 IF k \in DOMAIN entries THEN entries[k] ELSE stored[k]]

(* Mutant: the whole map is cleared. *)
ClearOnDelete(e) == stored' = <<>>

onDelete(e) == stored' = [k \in Served \ KeysOf(e.has) |-> stored[k]]

Apply(e) ==
  \/ e.kind = "set" /\ onAddOrUpdate(e)
  \/ e.kind = "delete" /\ onDelete(e)

(* Mutant: every event gets a thread of its own. *)
HandleInAnyOrder ==
  \E i \in DOMAIN events :
    /\ Apply(events[i])
    /\ events' = RemoveAt(events, i)
    /\ UNCHANGED <<configVars, listening>>

Handle ==
  /\ events # <<>>
  /\ Apply(Head(events))
  /\ events' = Tail(events)
  /\ UNCHANGED <<configVars, listening>>

(* The store starts empty after a restart of the manager.                  *)
StoreRestart ==
  /\ CrashRestart
  /\ events' = <<>> /\ listening' = FALSE /\ stored' = <<>>

-----------------------------------------------------------------------------
Init == ConfigsInit /\ events = <<>> /\ listening = FALSE /\ stored = <<>>

Next ==
  \/ Start \/ Handle \/ StoreRestart
  \/ Users /\ UNCHANGED storeVars
  \/ \E o \in Configs : Informed(o) \/ (Reconcile(o) /\ UNCHANGED storeVars)

Spec == Init /\ [][Next]_vars

(* The manager starts the store and the handler works off its queue; work  *)
(* queue and informer are as fair as in ConfigsFairSpec.                   *)
FairSpec ==
  /\ Spec /\ WF_vars(Start) /\ WF_vars(Handle)
  /\ \A o \in Configs : /\ WF_vars(Informed(o))
                        /\ SF_vars(Reconcile(o) /\ UNCHANGED storeVars)

-----------------------------------------------------------------------------
(* StoreTypeOK: the variables have their types, and what the store serves  *)
(* under a key was written for that key by a user.                         *)
StoreTypeOK ==
  /\ config \in [Configs -> [rev : Nat, edit : Nat, has : SUBSET Versions,
                             ours : BOOLEAN, deleting : BOOLEAN]]
  /\ DOMAIN cached = Configs /\ due \subseteq Configs /\ listening \in BOOLEAN
  /\ events \in Seq([kind : EventKinds, config : Configs, edit : Nat, has : SUBSET Versions])
  /\ \A k \in Served : /\ stored[k].config \in Configs /\ stored[k].as \in Versions
                       /\ KeyOf[stored[k].as] = k
                       /\ stored[k].edit \in 1 .. edits

(* No event is under way between the server and the store. *)
CaughtUp == listening /\ events = <<>> /\ cached = config

(* DeclaredServed: when nothing is under way, every version that a         *)
(* BrowserConfig declares is served, as one declares it now                *)
(* (browserconfig_store.go:69-99).                                         *)
DeclaredServed ==
  CaughtUp =>
    \A o \in Configs : \A v \in config[o].has :
      LET k == KeyOf[v] IN
      /\ k \in Served
      /\ stored[k].as \in config[stored[k].config].has
      /\ stored[k].edit = config[stored[k].config].edit

(* OnlyDeclaredServed: when nothing is under way, the store serves no key  *)
(* that no BrowserConfig declares (browserconfig_store.go:101-128).        *)
OnlyDeclaredServed ==
  CaughtUp => Served \subseteq UNION {KeysOf(config[o].has) : o \in Configs}

(* NoRollback: under a key the store never goes back to an earlier edit of *)
(* the same BrowserConfig, restarts included.                              *)
NoRollback ==
  [][\A k \in Served :
       k \in DOMAIN stored' /\ stored'[k].config = stored[k].config
         => stored'[k].edit >= stored[k].edit]_vars

(* FoundStaysFound: a key that the store serves as its BrowserConfig now   *)
(* declares it stays served until that BrowserConfig changes or the        *)
(* manager restarts.  A Browser that asks for a key which is not served is *)
(* Failed for good (browser_reconciler.go:356-371).                        *)
FoundStaysFound ==
  [][\A k \in Served :
       LET c == config[stored[k].config] IN
       Exists(c) /\ c.edit = stored[k].edit /\ config' = config /\ crashes' = crashes
         => k \in DOMAIN stored']_vars

(* EventuallyServed: a version that a BrowserConfig goes on declaring is   *)
(* served in the end, whatever restarts there are                          *)
(* (browserconfig_store.go:43-67).                                         *)
EventuallyServed ==
  \A o \in Configs : \A v \in UNION Contents[o] :
    <>[](v \in config[o].has) => <>[](KeyOf[v] \in Served)

=============================================================================
