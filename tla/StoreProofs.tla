----------------------------- MODULE StoreProofs -----------------------------
(***************************************************************************)
(* Theorems about the BrowserConfig controller and the store, for every    *)
(* value of the constants.                                                 *)
(*                                                                         *)
(* What the server and the informer hold of a BrowserConfig is related     *)
(* first (ConfigsInv): an update that the server accepts came from the     *)
(* content it has.  What the informer tells the handler comes in the order *)
(* of the edits (EventsInv), and the last event of a BrowserConfig is what *)
(* the informer holds of it (DeliveryInv).                                 *)
(***************************************************************************)
EXTENDS BrowserConfigStore, FiniteSetTheorems, TLAPS

USE ConfigsAssumption, StoreAssumption

Objects == [rev : Nat, edit : Nat, has : SUBSET Versions, ours : BOOLEAN, deleting : BOOLEAN]

(* An object is absent, or says what a user wrote in an edit so far.       *)
Written(o, c) == IF Exists(c) THEN c.edit \in 1 .. edits /\ c.has \in Contents[o] ELSE c = NoConfig

ConfigsTypeOK ==
  /\ config \in [Configs -> Objects] /\ cached \in [Configs -> Objects]
  /\ revised \in [Configs -> Nat] /\ edits \in Nat
  /\ due \subseteq Configs /\ faults \in Nat /\ crashes \in Nat

(* A cached object with the server's resourceVersion says what the         *)
(* server's says, and an older one says nothing newer.                     *)
CacheBehind(o) ==
  /\ config[o].rev <= revised[o] /\ cached[o].rev <= revised[o]
  /\ Exists(config[o]) /\ Exists(cached[o]) => cached[o].edit <= config[o].edit
  /\ Exists(config[o]) /\ cached[o].rev = config[o].rev
       => cached[o].has = config[o].has /\ cached[o].edit = config[o].edit

ConfigsInv ==
  /\ ConfigsTypeOK
  /\ \A o \in Configs : Written(o, config[o]) /\ Written(o, cached[o]) /\ CacheBehind(o)

-----------------------------------------------------------------------------
(* The server *)

(* What a write leaves of a BrowserConfig: nothing, what it said before,   *)
(* or what a user now says.                                                *)
Becomes(o, c) ==
  /\ config' = [config EXCEPT ![o] = c] /\ revised' = [revised EXCEPT ![o] = @ + 1]
  /\ edits' \in {edits, edits + 1}
  /\ \/ c = NoConfig
     \/ /\ c.rev = revised[o] + 1
        /\ \/ edits' = edits + 1 /\ c.edit = edits + 1 /\ c.has \in Contents[o]
           \/ Exists(config[o]) /\ c.edit = config[o].edit /\ c.has = config[o].has

Untouched == config' = config /\ revised' = revised /\ edits' = edits

(* A write of an object that is well formed is one of these.               *)
LEMMA WriteBecomes ==
  ASSUME ConfigsTypeOK, NEW o \in Configs, NEW c \in Objects, Write(o, c),
         edits' \in {edits, edits + 1},
         \/ edits' = edits + 1 /\ c.edit = edits + 1 /\ c.has \in Contents[o]
         \/ Exists(config[o]) /\ c.edit = config[o].edit /\ c.has = config[o].has
  PROVE  \E d \in Objects : Becomes(o, d)
<1>1. revised[o] \in Nat
  BY DEF ConfigsTypeOK
<1> DEFINE d == [c EXCEPT !.rev = revised[o] + 1]
<1>2. d \in Objects /\ d.rev = revised[o] + 1 /\ d.edit = c.edit /\ d.has = c.has
  BY <1>1 DEF Objects
<1>3. NoConfig \in Objects
  BY DEF NoConfig, Objects
<1> HIDE DEF d
<1>4. CASE c.deleting /\ ~c.ours
  BY <1>3, <1>4 DEF Write, Becomes
<1>5. CASE ~(c.deleting /\ ~c.ours)
  <2>1. config' = [config EXCEPT ![o] = d]
    BY <1>5 DEF Write, d
  <2> QED
    BY <1>2, <2>1 DEF Write, Becomes
<1> QED
  BY <1>4, <1>5

(* Users write what they may,                                              *)
LEMMA UsersWrite ==
  ASSUME ConfigsInv, Users
  PROVE  /\ \E o \in Configs : \E d \in Objects : Becomes(o, d)
         /\ UNCHANGED <<cached, due, faults, crashes>>
<1>1. PICK o \in Configs : Create(o) \/ Edit(o) \/ Delete(o)
  BY DEF Users
<1>2. /\ ConfigsTypeOK /\ config[o] \in Objects /\ NoConfig \in Objects /\ edits \in Nat
      /\ Written(o, config[o]) /\ Contents[o] \subseteq SUBSET Versions
  BY DEF ConfigsInv, ConfigsTypeOK, NoConfig, Objects
<1>3. UNCHANGED <<cached, due, faults, crashes>>
  BY <1>1 DEF Create, Edit, Delete
<1>4. ASSUME NEW c \in Objects, NEW has \in Contents[o], edits' = edits + 1,
             Write(o, [c EXCEPT !.edit = edits + 1, !.has = has])
      PROVE  \E d \in Objects : Becomes(o, d)
  <2> DEFINE e == [c EXCEPT !.edit = edits + 1, !.has = has]
  <2>1. edits + 1 \in Nat /\ has \in SUBSET Versions
    BY <1>2
  <2>2. e \in Objects /\ e.edit = edits + 1 /\ e.has = has
    BY <2>1 DEF Objects
  <2> QED
    BY <1>2, <1>4, <2>2, WriteBecomes
<1>5. CASE Create(o)
  BY <1>2, <1>4, <1>5 DEF Create
<1>6. CASE Edit(o)
  BY <1>2, <1>4, <1>6 DEF Edit
<1>7. CASE Delete(o)
  <2> DEFINE e == [config[o] EXCEPT !.deleting = TRUE]
  <2>1. e \in Objects /\ e.edit = config[o].edit /\ e.has = config[o].has
    BY <1>2 DEF Objects
  <2> QED
    BY <1>2, <1>7, <2>1, WriteBecomes DEF Delete
<1> QED
  BY <1>1, <1>3, <1>5, <1>6, <1>7

(* and the controller writes back what users have written.                 *)
LEMMA ReconcileWrites ==
  ASSUME ConfigsInv, NEW o \in Configs, Reconcile(o)
  PROVE  /\ \/ \E d \in Objects : Becomes(o, d) /\ edits' = edits
            \/ Untouched
         /\ cached' = cached /\ crashes' = crashes /\ faults' \in Nat /\ due' \subseteq Configs
<1>1. /\ ConfigsTypeOK /\ config[o] \in Objects /\ cached[o] \in Objects
      /\ Written(o, config[o]) /\ CacheBehind(o) /\ edits \in Nat
  BY DEF ConfigsInv, ConfigsTypeOK
<1>2. edits' = edits /\ cached' = cached /\ crashes' = crashes
  BY DEF Reconcile
<1>3. faults' \in Nat /\ due' \subseteq Configs
  BY <1>1 DEF Reconcile, Finished, Requeued, ConfigsTypeOK
<1>4. ASSUME Current(o, cached[o]), Accept(o, cached[o])
      PROVE  \E d \in Objects : Becomes(o, d)
  <2> DEFINE c == cached[o]
             e == [config[o] EXCEPT !.ours = Wanted(c), !.has = c.has, !.edit = c.edit]
  <2>1. Exists(config[o]) /\ c.has = config[o].has /\ c.edit = config[o].edit
    BY <1>1, <1>4 DEF Current, CacheBehind
  <2>2. e \in Objects /\ e.edit = config[o].edit /\ e.has = config[o].has
    BY <1>1, <2>1 DEF Objects, Wanted
  <2>3. Write(o, e)
    BY <1>4 DEF Accept
  <2> QED
    BY <1>1, <1>2, <2>1, <2>2, <2>3, WriteBecomes
<1>5. \/ Current(o, cached[o]) /\ Accept(o, cached[o])
      \/ config' = config /\ revised' = revised
  BY DEF Reconcile
<1> QED
  BY <1>2, <1>3, <1>4, <1>5 DEF Untouched

(* A write keeps the invariant of the BrowserConfigs.                      *)
LEMMA BecomesKeeps ==
  ASSUME ConfigsInv, NEW o \in Configs, NEW d \in Objects, Becomes(o, d), cached' = cached,
         due' \subseteq Configs, faults' \in Nat, crashes' \in Nat
  PROVE  ConfigsInv'
<1>1. /\ ConfigsTypeOK /\ edits \in Nat /\ revised[o] \in Nat
      /\ \A p \in Configs : /\ Written(p, config[p]) /\ Written(p, cached[p]) /\ CacheBehind(p)
                            /\ config[p] \in Objects /\ cached[p] \in Objects
  BY DEF ConfigsInv, ConfigsTypeOK
<1>2. ConfigsTypeOK'
  BY <1>1 DEF ConfigsTypeOK, Becomes
<1>3. edits' \in Nat /\ edits <= edits'
  BY <1>1 DEF Becomes
<1>4. /\ config'[o] = d /\ revised'[o] = revised[o] + 1
      /\ \A p \in Configs : p # o => config'[p] = config[p] /\ revised'[p] = revised[p]
  BY <1>1 DEF Becomes, ConfigsTypeOK
<1>5. ASSUME NEW p \in Configs, NEW c \in Objects, Written(p, c) PROVE Written(p, c)'
  BY <1>1, <1>3, <1>5 DEF Written, Objects, Exists
<1>6. ASSUME NEW p \in Configs, p # o
      PROVE  (Written(p, config[p]) /\ Written(p, cached[p]) /\ CacheBehind(p))'
  BY <1>1, <1>4, <1>5, <1>6 DEF CacheBehind, Written
<1>7. (Written(o, config[o]) /\ Written(o, cached[o]))'
  <2>1. Written(o, d)'
    BY <1>1, <1>3 DEF Becomes, Written, NoConfig, Exists, Objects
  <2> QED
    BY <1>1, <1>4, <1>5, <2>1 DEF Written
<1>8. CacheBehind(o)'
  <2>1. cached[o].rev <= revised[o] /\ cached[o].rev \in Nat
    BY <1>1 DEF CacheBehind, Objects
  <2>2. CASE d = NoConfig
    BY <1>1, <1>4, <2>1, <2>2 DEF CacheBehind, NoConfig, Exists
  <2>3. CASE /\ d.rev = revised[o] + 1 /\ edits' = edits + 1 /\ d.edit = edits + 1
             /\ d.has \in Contents[o]
    <3>1. Exists(cached[o]) => cached[o].edit <= edits /\ cached[o].edit \in Nat
      BY <1>1 DEF Written, Objects
    <3> QED
      BY <1>1, <1>4, <2>1, <2>3, <3>1 DEF CacheBehind, Objects
  <2>4. CASE /\ d.rev = revised[o] + 1 /\ Exists(config[o])
             /\ d.edit = config[o].edit /\ d.has = config[o].has
    BY <1>1, <1>4, <2>1, <2>4 DEF CacheBehind, Objects
  <2> QED
    BY <2>2, <2>3, <2>4 DEF Becomes
<1> QED
  BY <1>2, <1>6, <1>7, <1>8 DEF ConfigsInv

-----------------------------------------------------------------------------
(* The informer *)

(* How a step may change what the server and the informer hold.            *)
ConfigsMove ==
  \/ \E o \in Configs : \E d \in Objects : Becomes(o, d) /\ cached' = cached
  \/ Untouched /\ cached' = cached
  \/ Untouched /\ \E o \in Configs : cached' = [cached EXCEPT ![o] = config[o]]
  \/ Untouched /\ cached' = config

(* Every step of the system is one of these.                             *)
LEMMA StepMoves ==
  ASSUME ConfigsInv, [Next]_vars
  PROVE  ConfigsMove /\ due' \subseteq Configs /\ faults' \in Nat /\ crashes' \in Nat
<1>1. due \subseteq Configs /\ faults \in Nat /\ crashes \in Nat
  BY DEF ConfigsInv, ConfigsTypeOK
<1>2. CASE UNCHANGED configVars
  BY <1>1, <1>2 DEF configVars, serverVars, ConfigsMove, Untouched
<1>3. CASE Users
  BY <1>1, <1>3, UsersWrite DEF ConfigsMove
<1>4. ASSUME NEW o \in Configs, Reconcile(o)
      PROVE  ConfigsMove /\ due' \subseteq Configs /\ faults' \in Nat /\ crashes' \in Nat
  BY <1>1, <1>4, ReconcileWrites DEF ConfigsMove
<1>5. ASSUME NEW o \in Configs, Sync(o)
      PROVE  ConfigsMove /\ due' \subseteq Configs /\ faults' \in Nat /\ crashes' \in Nat
  BY <1>1, <1>5 DEF Sync, serverVars, ConfigsMove, Untouched
<1>6. CASE CrashRestart
  BY <1>1, <1>6 DEF CrashRestart, serverVars, ConfigsMove, Untouched
<1> QED
  BY <1>2, <1>3, <1>4, <1>5, <1>6 DEF Next, Start, Handle, StoreRestart, Informed, vars

(* The invariant of the BrowserConfigs holds throughout.                   *)
LEMMA ConfigsInvInit == Init => ConfigsInv
<1> SUFFICES ASSUME Init PROVE ConfigsInv
  OBVIOUS
<1>1. NoConfig \in Objects /\ NoConfig.rev = 0
  BY DEF NoConfig, Objects
<1>2. /\ \A o \in Configs : config[o] = NoConfig /\ cached[o] = NoConfig /\ revised[o] = 0
      /\ edits = 0 /\ ConfigsTypeOK
  BY <1>1 DEF Init, ConfigsInit, ConfigsTypeOK
<1> QED
  BY <1>1, <1>2 DEF ConfigsInv, Written, CacheBehind, Exists

(* Every step keeps it.                                                  *)
LEMMA ConfigsInvStep ==
  ASSUME ConfigsInv, [Next]_vars
  PROVE  ConfigsInv'
<1>1. ConfigsMove /\ due' \subseteq Configs /\ faults' \in Nat /\ crashes' \in Nat
  BY StepMoves
<1>2. CASE \E o \in Configs : \E d \in Objects : Becomes(o, d) /\ cached' = cached
  BY <1>1, <1>2, BecomesKeeps
<1>3. CASE /\ Untouched
           /\ \/ cached' = cached \/ cached' = config
              \/ \E o \in Configs : cached' = [cached EXCEPT ![o] = config[o]]
  <2>1. ConfigsTypeOK /\ ConfigsTypeOK'
    BY <1>1, <1>3 DEF ConfigsInv, ConfigsTypeOK, Untouched
  <2>2. \A o \in Configs : cached'[o] \in {cached[o], config[o]}
    BY <1>3, <2>1 DEF ConfigsTypeOK
  <2>3. \A o \in Configs : config[o] \in Objects /\ cached[o] \in Objects
    BY <2>1 DEF ConfigsTypeOK
  <2>4. ASSUME NEW o \in Configs
        PROVE  (Written(o, config[o]) /\ Written(o, cached[o]) /\ CacheBehind(o))'
    <3>1. Written(o, config[o]) /\ Written(o, cached[o]) /\ CacheBehind(o)
      BY DEF ConfigsInv
    <3> QED
      BY <1>3, <2>2, <2>3, <3>1 DEF Untouched, Written, CacheBehind, Objects
  <2> QED
    BY <2>1, <2>4 DEF ConfigsInv
<1> QED
  BY <1>1, <1>2, <1>3 DEF ConfigsMove

(* Whatever the controller sends back, only users change what a            *)
(* BrowserConfig says (browserconfig_reconciler.go:52-69).                 *)
THEOREM EditsAreKept == Spec => EditsKept
<1>1. ConfigsInv /\ [Next]_vars => ConfigsInv'
  BY ConfigsInvStep
<1>2. ASSUME ConfigsInv, [Next]_vars, NEW o \in Configs,
             Exists(config[o]), Exists(config'[o]), edits' = edits
      PROVE  config'[o].has = config[o].has /\ config'[o].edit = config[o].edit
  <2>1. edits \in Nat /\ config \in [Configs -> Objects]
    BY <1>2 DEF ConfigsInv, ConfigsTypeOK
  <2>2. CASE config' = config
    BY <2>2
  <2>3. ASSUME NEW p \in Configs, NEW d \in Objects, Becomes(p, d)
        PROVE  config'[o].has = config[o].has /\ config'[o].edit = config[o].edit
    <3>1. o # p => config'[o] = config[o]
      BY <2>1, <2>3 DEF Becomes
    <3>2. o = p => config'[o] = d
      BY <2>1, <2>3 DEF Becomes
    <3> QED
      BY <1>2, <2>1, <2>3, <3>1, <3>2 DEF Becomes, NoConfig, Exists
  <2> QED
    BY <1>2, <2>2, <2>3, StepMoves DEF ConfigsMove, Untouched
<1>3. ConfigsInv /\ [Next]_vars
        => [\A o \in Configs :
              Exists(config[o]) /\ Exists(config'[o]) /\ edits' = edits
                => config'[o].has = config[o].has /\ config'[o].edit = config[o].edit]_configVars
  BY <1>2
<1> QED
  BY <1>1, <1>3, ConfigsInvInit, PTL DEF Spec, EditsKept

-----------------------------------------------------------------------------
(* The events and the map *)

Messages == [kind : EventKinds, config : Configs, edit : Nat, has : SUBSET Versions]

(* Nothing that the server or the informer holds of o is older than n.     *)
NotAfter(o, n) == \A c \in {config[o], cached[o]} : Exists(c) => n <= c.edit

(* What an event may say,                                                  *)
EventOK(e) ==
  /\ e.edit \in 1 .. edits /\ e.has \in Contents[e.config] /\ NotAfter(e.config, e.edit)
  /\ e.kind = "delete" /\ Exists(config[e.config]) => e.edit < config[e.config].edit

(* and an entry of the map.                                                *)
EntryOK(k, s) ==
  /\ s.config \in Configs /\ s.as \in Versions /\ KeyOf[s.as] = k
  /\ \E has \in Contents[s.config] : s.as \in has
  /\ s.edit \in 1 .. edits /\ NotAfter(s.config, s.edit)

EventsInOrder ==
  /\ \A i, j \in 1 .. Len(events) :
       i < j /\ events[i].config = events[j].config => events[i].edit <= events[j].edit
  /\ \A k \in Served : \A i \in 1 .. Len(events) :
       events[i].config = stored[k].config => stored[k].edit <= events[i].edit

EventsInv ==
  /\ ConfigsInv
  /\ events \in Seq(Messages) /\ listening \in BOOLEAN
  /\ ~listening => events = <<>> /\ stored = <<>>
  /\ \A i \in 1 .. Len(events) : EventOK(events[i])
  /\ \A k \in Served : EntryOK(k, stored[k])
  /\ EventsInOrder

(* Time only makes events and entries older.                               *)
LEMMA NotAfterStays ==
  ASSUME ConfigsInv, ConfigsMove, NEW o \in Configs, NEW n \in 1 .. edits, NotAfter(o, n)
  PROVE  /\ NotAfter(o, n)' /\ n \in 1 .. edits'
         /\ (Exists(config[o]) => n < config[o].edit)
              => (Exists(config'[o]) => n < config'[o].edit)
<1>1. /\ edits \in Nat /\ config \in [Configs -> Objects] /\ cached \in [Configs -> Objects]
      /\ config[o] \in Objects
  BY DEF ConfigsInv, ConfigsTypeOK
<1>2. CASE Untouched
  <2>1. cached'[o] \in {cached[o], config[o]}
    BY <1>1, <1>2 DEF ConfigsMove, Becomes, Untouched
  <2> QED
    BY <1>2, <2>1 DEF Untouched, NotAfter
<1>3. ASSUME NEW p \in Configs, NEW d \in Objects, Becomes(p, d), cached' = cached
      PROVE  /\ NotAfter(o, n)' /\ n \in 1 .. edits'
             /\ (Exists(config[o]) => n < config[o].edit)
                  => (Exists(config'[o]) => n < config'[o].edit)
  <2>1. n \in 1 .. edits' /\ n \in Nat
    BY <1>1, <1>3 DEF Becomes
  <2>2. CASE o # p
    <3>1. config'[o] = config[o]
      BY <1>1, <1>3, <2>2 DEF Becomes
    <3> QED
      BY <1>3, <2>1, <3>1 DEF NotAfter
  <2>3. CASE o = p
    <3>1. config'[o] = d
      BY <1>1, <1>3, <2>3 DEF Becomes
    <3>2. /\ Exists(d) => n <= d.edit
          /\ (Exists(config[o]) => n < config[o].edit) => (Exists(d) => n < d.edit)
      BY <1>1, <1>3, <2>3 DEF Becomes, NotAfter, NoConfig, Exists, Objects
    <3> QED
      BY <1>3, <2>1, <3>1, <3>2 DEF NotAfter
  <2> QED
    BY <2>2, <2>3
<1> QED
  BY <1>2, <1>3 DEF ConfigsMove

(* An event that was well formed stays so,                               *)
LEMMA EventStays ==
  ASSUME ConfigsInv, ConfigsMove, NEW e \in Messages, EventOK(e)
  PROVE  EventOK(e)'
<1>1. e.config \in Configs /\ e.edit \in 1 .. edits
  BY DEF Messages, EventOK
<1> QED
  BY <1>1, NotAfterStays DEF EventOK

(* and so does an entry of the map.                                      *)
LEMMA EntryStays ==
  ASSUME ConfigsInv, ConfigsMove, NEW k, NEW s, EntryOK(k, s)
  PROVE  EntryOK(k, s)'
BY NotAfterStays DEF EntryOK

(* What the handler is told when it registers is what the informer holds.  *)
LEMMA StartEvents ==
  ASSUME Start
  PROVE  \A i \in 1 .. Len(events') : \E o \in Live : events'[i] = Event("set", o, cached[o])
<1>1. PICK s \in SetToSeqs(Live) :
        events' = [i \in DOMAIN s |-> Event("set", s[i], cached[s[i]])]
  BY DEF Start
<1>2. Cardinality(Live) \in Nat
  BY FS_CardinalityType, FS_Subset DEF Live
<1>3. s \in [1 .. Cardinality(Live) -> Live]
  BY DEF SetToSeqs
<1>4. Len(events') = Cardinality(Live)
  BY <1>1, <1>2, <1>3
<1> QED
  BY <1>1, <1>3, <1>4

(* An entry made from an event.                                            *)
From(e, k, s) == s.config = e.config /\ s.edit = e.edit /\ s.as \in e.has /\ KeyOf[s.as] = k

(* What the handler does with the first event.                             *)
LEMMA HandleEffect ==
  ASSUME EventsInv, Handle
  PROVE  LET e == events[1] IN
         /\ 1 \in 1 .. Len(events) /\ e \in Messages /\ EventOK(e)
         /\ events' \in Seq(Messages) /\ Len(events') = Len(events) - 1
         /\ \A i \in 1 .. Len(events') : i + 1 \in 1 .. Len(events) /\ events'[i] = events[i + 1]
         /\ \A k \in DOMAIN stored' :
              \/ k \in Served /\ stored'[k] = stored[k] /\ k \notin KeysOf(e.has)
              \/ e.kind = "set" /\ k \in KeysOf(e.has) /\ From(e, k, stored'[k])
         /\ \A k \in KeysOf(e.has) : e.kind = "set" => k \in DOMAIN stored'
         /\ \A k \in Served \ KeysOf(e.has) : k \in DOMAIN stored'
<1> DEFINE e == events[1]
<1>1. events \in Seq(Messages) /\ events # <<>>
  BY DEF EventsInv, Handle
<1>2. Head(events) = e /\ 1 \in 1 .. Len(events) /\ e \in Messages /\ events' = Tail(events)
  BY <1>1 DEF Handle
<1>3. EventOK(e)
  BY <1>2 DEF EventsInv
<1>4. /\ events' \in Seq(Messages) /\ Len(events') = Len(events) - 1
      /\ \A i \in 1 .. Len(events') : i + 1 \in 1 .. Len(events) /\ events'[i] = events[i + 1]
  BY <1>1, <1>2
<1>5. CASE onAddOrUpdate(e) /\ e.kind = "set"
  <2>1. PICK entries \in Entries(e) :
          stored' = [k \in Served \cup DOMAIN entries |->
                       IF k \in DOMAIN entries THEN entries[k] ELSE stored[k]]
    BY <1>5 DEF onAddOrUpdate
  <2>2. PICK p \in [KeysOf(e.has) -> e.has] :
          /\ \A k \in KeysOf(e.has) : KeyOf[p[k]] = k
          /\ entries = [k \in KeysOf(e.has) |-> [config |-> e.config, edit |-> e.edit, as |-> p[k]]]
    BY <2>1 DEF Entries
  <2>3. /\ DOMAIN stored' = Served \cup KeysOf(e.has)
        /\ \A k \in KeysOf(e.has) : From(e, k, stored'[k])
        /\ \A k \in Served \ KeysOf(e.has) : stored'[k] = stored[k]
    BY <2>1, <2>2 DEF From
  <2> QED
    BY <1>2, <1>3, <1>4, <1>5, <2>3
<1>6. CASE onDelete(e)
  <2>1. /\ DOMAIN stored' = Served \ KeysOf(e.has)
        /\ \A k \in Served \ KeysOf(e.has) : stored'[k] = stored[k]
    BY <1>6 DEF onDelete
  <2>2. CASE e.kind = "delete"
    BY <1>2, <1>3, <1>4, <2>1, <2>2
  <2> QED
    BY <1>2, <1>6, <2>2, <1>3, <1>4, <2>1, <1>5 DEF Handle, Apply
<1> QED
  BY <1>2, <1>5, <1>6 DEF Handle, Apply

(* Handling an event keeps the order,                                      *)
LEMMA HandleKeeps ==
  ASSUME EventsInv, Handle, ConfigsInv', ConfigsMove
  PROVE  EventsInv'
<1> DEFINE e == events[1]
<1>1. /\ 1 \in 1 .. Len(events) /\ e \in Messages /\ EventOK(e)
      /\ events' \in Seq(Messages) /\ Len(events') = Len(events) - 1
      /\ \A i \in 1 .. Len(events') : i + 1 \in 1 .. Len(events) /\ events'[i] = events[i + 1]
      /\ \A k \in DOMAIN stored' :
           \/ k \in Served /\ stored'[k] = stored[k] /\ k \notin KeysOf(e.has)
           \/ e.kind = "set" /\ k \in KeysOf(e.has) /\ From(e, k, stored'[k])
  BY HandleEffect
<1> HIDE DEF e
<1>2. /\ events \in Seq(Messages) /\ listening \in BOOLEAN /\ events # <<>> /\ listening' = listening
      /\ listening
  BY DEF EventsInv, Handle
<1>3. /\ \A i \in 1 .. Len(events) : EventOK(events[i]) /\ events[i] \in Messages
      /\ \A k \in Served : EntryOK(k, stored[k])
      /\ EventsInOrder /\ ConfigsInv
  BY DEF EventsInv
<1>4. \A i \in 1 .. Len(events)' : EventOK(events[i])'
  <2>1. \A m \in Messages : EventOK(m) => EventOK(m)'
    BY <1>3, EventStays
  <2> SUFFICES ASSUME NEW i \in 1 .. Len(events)' PROVE EventOK(events[i])'
    OBVIOUS
  <2>2. events'[i] \in Messages /\ events'[i] = events[i + 1] /\ EventOK(events[i + 1])
    BY <1>1, <1>3
  <2> QED
    BY <2>1, <2>2 DEF EventOK, NotAfter
<1>5. \A k \in Served' : EntryOK(k, stored[k])'
  <2>1. \A k : \A s : EntryOK(k, s) => EntryOK(k, s)'
    BY <1>3, EntryStays
  <2> SUFFICES ASSUME NEW k \in DOMAIN stored' PROVE EntryOK(k, stored[k])'
    BY DEF Served
  <2>2. \A s : From(e, k, s) => EntryOK(k, s)
    BY <1>1, StoreAssumption DEF From, EntryOK, EventOK, Messages
  <2>3. EntryOK(k, stored'[k])
    BY <1>1, <1>3, <2>2 DEF Served
  <2> QED
    BY <2>1, <2>3 DEF EntryOK, NotAfter
<1>6. EventsInOrder'
  <2>1. \A i \in 1 .. Len(events') : i \in Nat /\ events[1] = e
          /\ (events[i + 1].config = e.config => e.edit <= events[i + 1].edit)
    BY <1>1, <1>2, <1>3 DEF EventsInOrder, e
  <2>2. \A i, j \in 1 .. Len(events') :
          i < j /\ events'[i].config = events'[j].config => events'[i].edit <= events'[j].edit
    BY <1>1, <1>2, <1>3 DEF EventsInOrder
  <2>3. ASSUME NEW k \in DOMAIN stored', NEW i \in 1 .. Len(events'),
               events'[i].config = stored'[k].config
        PROVE  stored'[k].edit <= events'[i].edit
    BY <1>1, <1>3, <2>1, <2>3 DEF EventsInOrder, From, Served
  <2> QED
    BY <2>2, <2>3 DEF EventsInOrder, Served
<1> QED
  BY <1>1, <1>2, <1>4, <1>5, <1>6 DEF EventsInv

(* so does the news of a change,                                           *)
LEMMA InformedKeeps ==
  ASSUME EventsInv, NEW o \in Configs, Informed(o), ConfigsInv', ConfigsMove
  PROVE  EventsInv'
<1>1. /\ config \in [Configs -> Objects] /\ cached \in [Configs -> Objects] /\ edits \in Nat
      /\ Written(o, config[o]) /\ Written(o, cached[o]) /\ CacheBehind(o)
      /\ config[o] \in Objects /\ cached[o] \in Objects
  BY DEF EventsInv, ConfigsInv, ConfigsTypeOK
<1>2. /\ events \in Seq(Messages) /\ listening \in BOOLEAN /\ ConfigsInv /\ EventsInOrder
      /\ \A i \in 1 .. Len(events) : EventOK(events[i]) /\ events[i] \in Messages
      /\ \A k \in Served : EntryOK(k, stored[k])
      /\ ~listening => events = <<>> /\ stored = <<>>
  BY DEF EventsInv
<1>3. /\ cached[o] # config[o] /\ cached' = [cached EXCEPT ![o] = config[o]] /\ Untouched
      /\ listening' = listening /\ stored' = stored
      /\ events' = IF listening THEN Append(events, Told(o)) ELSE events
  BY DEF Informed, Sync, serverVars, Untouched
<1> DEFINE t == Told(o)
<1>4. /\ t \in Messages /\ t.config = o /\ t.edit \in 1 .. edits /\ t.has \in Contents[o]
      /\ Exists(config[o]) => t.edit = config[o].edit /\ t.kind = "set"
      /\ ~Exists(config[o]) => Exists(cached[o]) /\ t.edit = cached[o].edit
  BY <1>1, <1>3 DEF Told, Event, EventKinds, Messages, Written, Objects
<1>5. /\ \A m \in Messages : m = t => EventOK(m)'
      /\ \A n \in Nat : NotAfter(o, n) => n <= t.edit
  <2>1. t.edit \in Nat /\ config'[o] = config[o] /\ cached'[o] = config[o]
    BY <1>1, <1>3, <1>4 DEF Messages, Untouched
  <2>2. \A m \in Messages : m = t => EventOK(m)'
    BY <1>3, <1>4, <2>1 DEF EventOK, NotAfter, Untouched
  <2>3. CASE Exists(config[o])
    BY <1>4, <2>2, <2>3 DEF NotAfter
  <2>4. CASE ~Exists(config[o])
    BY <1>4, <2>2, <2>4 DEF NotAfter
  <2> QED
    BY <2>3, <2>4
<1> HIDE DEF t
<1>6. /\ events' \in Seq(Messages)
      /\ \A i \in 1 .. Len(events') :
           \/ i \in 1 .. Len(events) /\ events'[i] = events[i]
           \/ i = Len(events) + 1 /\ events'[i] = t
  BY <1>2, <1>3, <1>4 DEF t
<1>7. \A i \in 1 .. Len(events)' : EventOK(events[i])'
  <2>1. \A m \in Messages : EventOK(m) => EventOK(m)'
    BY <1>2, EventStays
  <2> SUFFICES ASSUME NEW i \in 1 .. Len(events)' PROVE EventOK(events[i])'
    OBVIOUS
  <2>2. events'[i] \in Messages /\ (events'[i] = t \/ EventOK(events'[i]))
    BY <1>2, <1>4, <1>6
  <2> QED
    BY <1>5, <2>1, <2>2 DEF EventOK, NotAfter
<1>8. \A k \in Served' : EntryOK(k, stored[k])'
  <2>1. \A k : \A s : EntryOK(k, s) => EntryOK(k, s)'
    BY <1>2, EntryStays
  <2> QED
    BY <1>2, <1>3, <2>1 DEF Served, EntryOK, NotAfter
<1>9. EventsInOrder'
  <2>1. \A i \in 1 .. Len(events) :
          events[i].config = o => events[i].edit \in Nat /\ NotAfter(o, events[i].edit)
    BY <1>2 DEF Messages, EventOK
  <2>2. \A k \in Served : stored[k].config = o => stored[k].edit \in Nat /\ NotAfter(o, stored[k].edit)
    BY <1>1, <1>2 DEF EntryOK
  <2>3. Len(events) \in Nat
    BY <1>2
  <2>4. \A i, j \in 1 .. Len(events') :
          i < j /\ events'[i].config = events'[j].config => events'[i].edit <= events'[j].edit
    <3> SUFFICES ASSUME NEW i \in 1 .. Len(events'), NEW j \in 1 .. Len(events'), i < j,
                        events'[i].config = events'[j].config
                 PROVE  events'[i].edit <= events'[j].edit
      OBVIOUS
    <3>1. i \in 1 .. Len(events) /\ events'[i] = events[i]
      BY <1>6, <2>3
    <3>2. CASE j = Len(events) + 1 /\ events'[j] = t
      BY <1>4, <1>5, <2>1, <3>1, <3>2
    <3>3. CASE j \in 1 .. Len(events) /\ events'[j] = events[j]
      BY <1>2, <3>1, <3>3 DEF EventsInOrder
    <3> QED
      BY <1>6, <3>2, <3>3
  <2>5. \A k \in Served : \A i \in 1 .. Len(events') :
          events'[i].config = stored[k].config => stored[k].edit <= events'[i].edit
    BY <1>2, <1>4, <1>5, <1>6, <2>2 DEF EventsInOrder
  <2> QED
    BY <1>3, <2>4, <2>5 DEF EventsInOrder, Served
<1>10. ~listening' => events' = <<>> /\ stored' = <<>>
  BY <1>2, <1>3
<1> QED
  BY <1>2, <1>3, <1>6, <1>7, <1>8, <1>9, <1>10 DEF EventsInv

(* what the handler is told when it registers,                             *)
LEMMA StartKeeps ==
  ASSUME EventsInv, Start, ConfigsInv', ConfigsMove
  PROVE  EventsInv'
<1>1. PICK s \in SetToSeqs(Live) :
        events' = [i \in DOMAIN s |-> Event("set", s[i], cached[s[i]])]
  BY DEF Start
<1>2. /\ ~listening /\ listening' = TRUE /\ stored' = stored /\ Untouched /\ cached' = cached
      /\ events = <<>> /\ stored = <<>> /\ ConfigsInv
  BY DEF Start, EventsInv, configVars, serverVars, Untouched
<1>3. Cardinality(Live) \in Nat
  BY FS_CardinalityType, FS_Subset DEF Live
<1>4. /\ s \in [1 .. Cardinality(Live) -> Live]
      /\ \A i, j \in 1 .. Cardinality(Live) : i # j => s[i] # s[j]
  BY DEF SetToSeqs
<1>5. /\ edits \in Nat /\ cached \in [Configs -> Objects] /\ config \in [Configs -> Objects]
      /\ \A o \in Configs : Written(o, cached[o]) /\ CacheBehind(o)
  BY <1>2 DEF ConfigsInv, ConfigsTypeOK
<1>6. \A o \in Live : /\ o \in Configs /\ Event("set", o, cached[o]) \in Messages
                      /\ Event("set", o, cached[o]).config = o /\ EventOK(Event("set", o, cached[o]))
  <2> SUFFICES ASSUME NEW o \in Live
               PROVE  /\ o \in Configs /\ Event("set", o, cached[o]) \in Messages
                      /\ Event("set", o, cached[o]).config = o /\ EventOK(Event("set", o, cached[o]))
    OBVIOUS
  <2> DEFINE e == Event("set", o, cached[o])
  <2>1. /\ o \in Configs /\ Exists(cached[o]) /\ cached[o] \in Objects /\ config[o] \in Objects
        /\ Written(o, cached[o]) /\ CacheBehind(o)
    BY <1>5 DEF Live
  <2>2. e \in Messages /\ e.config = o /\ e.edit = cached[o].edit /\ e.has = cached[o].has /\ e.kind = "set"
    BY <2>1 DEF Event, Messages, EventKinds, Objects
  <2>3. cached[o].edit \in Nat /\ NotAfter(o, cached[o].edit)
    BY <2>1 DEF NotAfter, CacheBehind, Objects
  <2> QED
    BY <2>1, <2>2, <2>3 DEF EventOK, Written
<1>7. /\ events' \in Seq(Messages) /\ Len(events') = Cardinality(Live)
      /\ \A i \in 1 .. Len(events') :
           s[i] \in Live /\ events'[i] = Event("set", s[i], cached[s[i]])
  BY <1>1, <1>3, <1>4, <1>6
<1>8. \A i \in 1 .. Len(events)' : EventOK(events[i])'
  <2>1. \A m \in Messages : EventOK(m) => EventOK(m)'
    BY <1>2, EventStays
  <2> SUFFICES ASSUME NEW i \in 1 .. Len(events)' PROVE EventOK(events[i])'
    OBVIOUS
  <2>2. events'[i] \in Messages /\ EventOK(events'[i])
    BY <1>6, <1>7
  <2> QED
    BY <2>1, <2>2 DEF EventOK, NotAfter
<1>9. Served = {}
  BY <1>2 DEF Served
<1>10. EventsInOrder'
  <2>1. \A i, j \in 1 .. Len(events') : i # j => events'[i].config # events'[j].config
    BY <1>4, <1>6, <1>7
  <2>2. Len(events') \in Nat
    BY <1>3, <1>7
  <2>3. \A i, j \in 1 .. Len(events') :
          i < j /\ events'[i].config = events'[j].config => events'[i].edit <= events'[j].edit
    BY <2>1, <2>2
  <2> QED
    BY <1>2, <1>9, <2>3 DEF EventsInOrder, Served
<1> QED
  BY <1>2, <1>7, <1>8, <1>9, <1>10 DEF EventsInv, Served

(* and whatever else happens.                                              *)
LEMMA QuietKeeps ==
  ASSUME EventsInv, ConfigsInv', ConfigsMove, UNCHANGED storeVars
  PROVE  EventsInv'
<1>1. /\ events \in Seq(Messages) /\ ConfigsInv
      /\ \A i \in 1 .. Len(events) : EventOK(events[i]) /\ events[i] \in Messages
      /\ \A k \in Served : EntryOK(k, stored[k])
  BY DEF EventsInv
<1>2. \A i \in 1 .. Len(events)' : EventOK(events[i])'
  <2>1. \A m \in Messages : EventOK(m) => EventOK(m)'
    BY <1>1, EventStays
  <2> QED
    BY <1>1, <2>1 DEF EventOK, NotAfter, storeVars
<1>3. \A k \in Served' : EntryOK(k, stored[k])'
  <2>1. \A k : \A s : EntryOK(k, s) => EntryOK(k, s)'
    BY <1>1, EntryStays
  <2> QED
    BY <1>1, <2>1 DEF Served, EntryOK, NotAfter, storeVars
<1> QED
  BY <1>2, <1>3 DEF EventsInv, EventsInOrder, Served, storeVars

(* The invariant of events and map holds at first,                       *)
LEMMA EventsInit == Init => EventsInv
<1> SUFFICES ASSUME Init PROVE EventsInv
  OBVIOUS
<1>1. events = <<>> /\ stored = <<>> /\ listening = FALSE
  BY DEF Init
<1>2. Served = {} /\ Len(events) = 0 /\ events \in Seq(Messages)
  BY <1>1 DEF Served
<1>3. ConfigsInv
  BY ConfigsInvInit
<1>4. /\ \A i \in 1 .. Len(events) : FALSE
      /\ \A k \in Served : FALSE
  BY <1>2
<1>5. EventsInOrder
  BY <1>4 DEF EventsInOrder
<1> QED
  BY <1>1, <1>2, <1>3, <1>4, <1>5 DEF EventsInv

(* and every step keeps it.                                              *)
LEMMA EventsStep ==
  ASSUME EventsInv, [Next]_vars
  PROVE  EventsInv'
<1>1. ConfigsInv' /\ ConfigsMove
  BY ConfigsInvStep, StepMoves DEF EventsInv
<1>2. CASE UNCHANGED vars
  BY <1>1, <1>2, QuietKeeps DEF vars
<1>3. CASE StoreRestart
  <2>1. events' = <<>> /\ stored' = <<>> /\ listening' = FALSE
    BY <1>3 DEF StoreRestart
  <2>2. DOMAIN stored' = {} /\ Len(events') = 0 /\ events' \in Seq(Messages)
    BY <2>1
  <2>3. /\ \A i \in 1 .. Len(events') : FALSE
        /\ \A k \in DOMAIN stored' : FALSE
    BY <2>2
  <2>4. EventsInOrder'
    BY <2>3 DEF EventsInOrder, Served
  <2> QED
    BY <1>1, <2>1, <2>2, <2>3, <2>4 DEF EventsInv, Served
<1> QED
  BY <1>1, <1>2, <1>3, HandleKeeps, StartKeeps, InformedKeeps, QuietKeeps DEF Next

(* The variables have their types, and every entry of the map was written  *)
(* by a user for its key (browserconfig_store.go:69-99).                   *)
THEOREM StoreTypeCorrect == Spec => []StoreTypeOK
<1>1. EventsInv /\ [Next]_vars => EventsInv'
  BY EventsStep
<1>2. EventsInv => StoreTypeOK
  BY DEF EventsInv, ConfigsInv, ConfigsTypeOK, StoreTypeOK, Objects, Messages, EntryOK
<1> QED
  BY <1>1, <1>2, EventsInit, PTL DEF Spec

(* The store never goes back to an earlier edit of a BrowserConfig,        *)
(* whatever is lost, fails or restarts (browserconfig_store.go:43-128).    *)
THEOREM NoRollbackHolds == Spec => NoRollback
<1>1. EventsInv /\ [Next]_vars => EventsInv'
  BY EventsStep
<1>2. ASSUME EventsInv, [Next]_vars, NEW k \in Served,
             k \in DOMAIN stored', stored'[k].config = stored[k].config
      PROVE  stored'[k].edit >= stored[k].edit
  <2>1. stored[k].edit \in Nat
    BY <1>2 DEF EventsInv, ConfigsInv, ConfigsTypeOK, EntryOK
  <2>2. CASE stored' = stored
    BY <2>1, <2>2
  <2>3. CASE Handle
    <3>1. \/ stored'[k] = stored[k]
          \/ stored'[k].config = events[1].config /\ stored'[k].edit = events[1].edit
      BY <1>2, <2>3, HandleEffect DEF From
    <3>2. 1 \in 1 .. Len(events) /\ events[1].edit \in Nat
      BY <1>2, <2>3, HandleEffect DEF Messages
    <3> QED
      BY <1>2, <2>1, <3>1, <3>2 DEF EventsInv, EventsInOrder
  <2>4. CASE StoreRestart
    BY <1>2, <2>4 DEF StoreRestart
  <2> QED
    BY <1>2, <2>2, <2>3, <2>4 DEF Next, Start, Informed, storeVars, vars
<1>3. EventsInv /\ [Next]_vars
        => [\A k \in Served :
              k \in DOMAIN stored' /\ stored'[k].config = stored[k].config
                => stored'[k].edit >= stored[k].edit]_vars
  BY <1>2
<1> QED
  BY <1>1, <1>3, EventsInit, PTL DEF Spec, NoRollback

-----------------------------------------------------------------------------
(* What is declared is served *)

(* No two BrowserConfigs may declare the same key.                         *)
Separate ==
  \A o, p \in Configs : o # p =>
    \A f \in Contents[o], g \in Contents[p] : KeysOf(f) \cap KeysOf(g) = {}

(* A version that is declared and known stays served until its             *)
(* BrowserConfig changes or the manager restarts, if no key has two owners *)
(* (browserconfig_store.go:101-128).                                       *)
THEOREM FoundStaysFoundHolds ==
  ASSUME Separate
  PROVE  Spec => FoundStaysFound
<1>1. EventsInv /\ [Next]_vars => EventsInv'
  BY EventsStep
<1>2. ASSUME EventsInv, [Next]_vars, NEW k \in Served,
             Exists(config[stored[k].config]),
             config[stored[k].config].edit = stored[k].edit, config' = config,
             crashes' = crashes
      PROVE  k \in DOMAIN stored'
  <2> DEFINE e == events[1]
             o == stored[k].config
  <2>1. EntryOK(k, stored[k]) /\ EventsInOrder /\ stored[k].edit \in Nat /\ crashes \in Nat
    BY <1>2 DEF EventsInv, EntryOK, ConfigsInv, ConfigsTypeOK
  <2>2. CASE stored' = stored
    BY <2>2 DEF Served
  <2>3. CASE Handle
    <3>1. /\ 1 \in 1 .. Len(events) /\ e \in Messages /\ EventOK(e)
          /\ \A j \in KeysOf(e.has) : e.kind = "set" => j \in DOMAIN stored'
          /\ \A j \in Served \ KeysOf(e.has) : j \in DOMAIN stored'
      BY <1>2, <2>3, HandleEffect
    <3>2. CASE k \in KeysOf(e.has) /\ e.kind = "delete"
      <4>1. e.config \in Configs /\ e.has \in Contents[e.config] /\ e.edit \in Nat
        BY <3>1 DEF Messages, EventOK
      <4>2. PICK has \in Contents[o] : stored[k].as \in has
        BY <2>1 DEF EntryOK
      <4>3. k \in KeysOf(has) /\ o \in Configs
        BY <2>1, <4>2 DEF KeysOf, EntryOK
      <4>4. e.config = o
        BY <3>2, <4>1, <4>2, <4>3 DEF Separate
      <4>5. e.edit < config[o].edit /\ stored[k].edit <= e.edit
        BY <1>2, <2>1, <3>1, <3>2, <4>4 DEF EventOK, EventsInOrder
      <4> QED
        BY <1>2, <2>1, <4>1, <4>5
    <3> QED
      BY <3>1, <3>2 DEF Messages, EventKinds
  <2>4. ~StoreRestart
    BY <1>2, <2>1 DEF StoreRestart, CrashRestart
  <2> QED
    BY <1>2, <2>2, <2>3, <2>4 DEF Next, Start, Informed, storeVars, vars
<1>3. EventsInv /\ [Next]_vars
        => [\A k \in Served :
              LET c == config[stored[k].config] IN
              Exists(c) /\ c.edit = stored[k].edit /\ config' = config /\ crashes' = crashes
                => k \in DOMAIN stored']_vars
  BY <1>2
<1> QED
  BY <1>1, <1>3, EventsInit, PTL DEF Spec, FoundStaysFound

Latest(o, i) ==
  events[i].config = o /\ \A j \in 1 .. Len(events) : j > i => events[j].config # o

Tells(e, c) ==
  IF Exists(c) THEN e.kind = "set" /\ e.edit = c.edit /\ e.has = c.has ELSE e.kind = "delete"

Shows(o, c) ==
  Exists(c) => \A k \in KeysOf(c.has) :
                 /\ k \in Served
                 /\ stored[k].config = o /\ stored[k].edit = c.edit /\ stored[k].as \in c.has

(* The last event of a BrowserConfig tells what the informer holds of it;  *)
(* if there is none, the map shows it.                                     *)
Delivered(o) ==
  /\ \A i \in 1 .. Len(events) : Latest(o, i) => Tells(events[i], cached[o])
  /\ (\A i \in 1 .. Len(events) : events[i].config # o) => Shows(o, cached[o])

DeliveryInv == EventsInv /\ (listening => \A o \in Configs : Delivered(o))

(* The handler is told of every BrowserConfig when it registers,           *)
LEMMA StartDelivers ==
  ASSUME EventsInv, Start
  PROVE  \A o \in Configs : Delivered(o)'
<1>1. PICK s \in SetToSeqs(Live) :
        events' = [i \in DOMAIN s |-> Event("set", s[i], cached[s[i]])]
  BY DEF Start
<1>2. cached' = cached /\ ConfigsInv
  BY DEF Start, EventsInv, configVars
<1> DEFINE N == Cardinality(Live)
<1>3. IsFiniteSet(Live) /\ N \in Nat
  BY FS_CardinalityType, FS_Subset DEF Live
<1>4. s \in [1 .. N -> Live] /\ \A i, j \in 1 .. N : i # j => s[i] # s[j]
  BY DEF SetToSeqs
<1>5. \A o \in Live : \E i \in 1 .. N : s[i] = o
  <2>1. s \in Injection(1 .. N, Live)
    BY <1>4 DEF Injection, IsInjective
  <2>2. Cardinality(1 .. N) = N
    BY <1>3, FS_Interval
  <2>3. s \in Surjection(1 .. N, Live)
    BY <1>3, <2>1, <2>2, FS_Injection
  <2> QED
    BY <2>3 DEF Surjection
<1>6. /\ Len(events') = N
      /\ \A i \in 1 .. N : /\ s[i] \in Live /\ events'[i] = Event("set", s[i], cached[s[i]])
                           /\ events'[i].config = s[i]
  BY <1>1, <1>3, <1>4 DEF Event
<1> SUFFICES ASSUME NEW o \in Configs PROVE Delivered(o)'
  OBVIOUS
<1>7. \A i \in 1 .. Len(events') : events'[i].config = o => Tells(events'[i], cached[o])
  BY <1>6 DEF Tells, Event, Live
<1>8. Exists(cached[o]) => \E i \in 1 .. Len(events') : events'[i].config = o
  BY <1>5, <1>6 DEF Live
<1> QED
  BY <1>2, <1>7, <1>8 DEF Delivered, Latest, Shows, Tells

(* and of every change;                                                    *)
LEMMA InformedDelivers ==
  ASSUME DeliveryInv, NEW o \in Configs, Informed(o), listening, NEW p \in Configs
  PROVE  Delivered(p)'
<1>1. /\ config \in [Configs -> Objects] /\ cached \in [Configs -> Objects]
      /\ events \in Seq(Messages) /\ Delivered(p) /\ Len(events) \in Nat
  BY DEF DeliveryInv, EventsInv, ConfigsInv, ConfigsTypeOK
<1>2. /\ cached' = [cached EXCEPT ![o] = config[o]] /\ stored' = stored
      /\ events' = Append(events, Told(o))
  BY DEF Informed, Sync
<1> DEFINE t == Told(o)
<1>3. t.config = o /\ Tells(t, config[o])
  BY DEF Told, Event, Tells
<1> HIDE DEF t
<1>4. /\ Len(events') = Len(events) + 1 /\ events'[Len(events) + 1] = t
      /\ \A i \in 1 .. Len(events) : i \in 1 .. Len(events') /\ events'[i] = events[i]
      /\ \A i \in 1 .. Len(events') : i \in 1 .. Len(events) \/ i = Len(events) + 1
  BY <1>1, <1>2 DEF t
<1>5. CASE p = o
  <2>1. Len(events) + 1 \in 1 .. Len(events') /\ cached'[o] = config[o]
    BY <1>1, <1>2, <1>4
  <2>2. \A i \in 1 .. Len(events') : Latest(o, i)' => i = Len(events) + 1
    BY <1>1, <1>3, <1>4, <2>1 DEF Latest
  <2>3. \A i \in 1 .. Len(events') : Latest(o, i)' => Tells(events'[i], cached'[o])
    BY <1>3, <1>4, <2>1, <2>2
  <2>4. ~ \A i \in 1 .. Len(events') : events'[i].config # o
    BY <1>3, <1>4, <2>1
  <2> QED
    BY <1>5, <2>3, <2>4 DEF Delivered, Tells, Latest
<1>6. CASE p # o
  <2>1. cached'[p] = cached[p]
    BY <1>1, <1>2, <1>6
  <2>2. \A i \in 1 .. Len(events') : Latest(p, i)' => i \in 1 .. Len(events) /\ Latest(p, i)
    BY <1>3, <1>4, <1>6 DEF Latest
  <2>3. \A i \in 1 .. Len(events') : Latest(p, i)' => Tells(events'[i], cached'[p])
    BY <1>1, <1>4, <2>1, <2>2 DEF Delivered
  <2>4. (\A i \in 1 .. Len(events') : events'[i].config # p)
          => \A i \in 1 .. Len(events) : events[i].config # p
    BY <1>4
  <2> QED
    BY <1>1, <1>2, <2>1, <2>3, <2>4 DEF Delivered, Tells, Latest, Shows, Served
<1> QED
  BY <1>5, <1>6

(* what it was told last is what it comes to show.                         *)
LEMMA HandleDelivers ==
  ASSUME Separate, DeliveryInv, Handle, listening, NEW o \in Configs
  PROVE  Delivered(o)'
<1> DEFINE e == events[1]
<1>1. /\ 1 \in 1 .. Len(events) /\ e \in Messages /\ EventOK(e)
      /\ events' \in Seq(Messages) /\ Len(events') = Len(events) - 1
      /\ \A i \in 1 .. Len(events') : i + 1 \in 1 .. Len(events) /\ events'[i] = events[i + 1]
      /\ \A k \in DOMAIN stored' :
           \/ k \in Served /\ stored'[k] = stored[k] /\ k \notin KeysOf(e.has)
           \/ e.kind = "set" /\ k \in KeysOf(e.has) /\ From(e, k, stored'[k])
      /\ \A k \in KeysOf(e.has) : e.kind = "set" => k \in DOMAIN stored'
      /\ \A k \in Served \ KeysOf(e.has) : k \in DOMAIN stored'
  BY HandleEffect DEF DeliveryInv
<1>2. /\ cached' = cached /\ Delivered(o) /\ Len(events) \in Nat /\ Written(o, cached[o])
      /\ events \in Seq(Messages)
  BY DEF Handle, configVars, DeliveryInv, EventsInv, ConfigsInv
<1> HIDE DEF e
<1>3. /\ Len(events') \in Nat
      /\ \A j \in 1 .. Len(events) : j # 1 => j - 1 \in 1 .. Len(events') /\ events'[j - 1] = events[j]
  <2> SUFFICES ASSUME NEW j \in 1 .. Len(events), j # 1
               PROVE  /\ Len(events') \in Nat
                      /\ j - 1 \in 1 .. Len(events') /\ events'[j - 1] = events[j]
    BY <1>1, <1>2
  <2>1. j - 1 \in 1 .. Len(events')
    BY <1>1, <1>2
  <2> QED
    BY <1>1, <1>2, <2>1
<1>4. \A i \in 1 .. Len(events') : Latest(o, i)' => Latest(o, i + 1)
  <2> SUFFICES ASSUME NEW i \in 1 .. Len(events'), Latest(o, i)' PROVE Latest(o, i + 1)
    OBVIOUS
  <2>1. events[i + 1].config = o
    BY <1>1 DEF Latest
  <2>2. ASSUME NEW j \in 1 .. Len(events), j > i + 1 PROVE events[j].config # o
    <3>1. j # 1 /\ j - 1 > i
      BY <1>1, <2>2
    <3> QED
      BY <1>3, <3>1 DEF Latest
  <2> QED
    BY <2>1, <2>2 DEF Latest
<1>5. \A i \in 1 .. Len(events') : Latest(o, i)' => Tells(events'[i], cached[o])
  BY <1>1, <1>2, <1>4 DEF Delivered
<1>6. ASSUME \A i \in 1 .. Len(events') : events'[i].config # o, Exists(cached[o]),
             NEW k \in KeysOf(cached[o].has)
      PROVE  /\ k \in DOMAIN stored' /\ stored'[k].config = o
             /\ stored'[k].edit = cached[o].edit /\ stored'[k].as \in cached[o].has
  <2>1. \A j \in 1 .. Len(events) : j # 1 => events[j].config # o
    BY <1>3, <1>6
  <2>2. CASE e.config = o
    <3>1. Latest(o, 1)
      BY <1>1, <2>1, <2>2 DEF Latest, e
    <3>2. e.kind = "set" /\ e.edit = cached[o].edit /\ e.has = cached[o].has
      BY <1>1, <1>2, <1>6, <3>1 DEF Delivered, Tells, e
    <3> QED
      BY <1>1, <1>6, <2>2, <3>2 DEF From
  <2>3. CASE e.config # o
    <3>1. \A j \in 1 .. Len(events) : events[j].config # o
      BY <2>1, <2>3 DEF e
    <3>2. /\ k \in Served
          /\ stored[k].config = o /\ stored[k].edit = cached[o].edit /\ stored[k].as \in cached[o].has
      BY <1>2, <1>6, <3>1 DEF Delivered, Shows
    <3>3. k \notin KeysOf(e.has)
      BY <1>1, <1>2, <1>6, <2>3 DEF Separate, Written, EventOK, Messages
    <3> QED
      BY <1>1, <3>2, <3>3
  <2> QED
    BY <2>2, <2>3
<1> QED
  BY <1>2, <1>5, <1>6 DEF Delivered, Shows, Served, Tells, Latest

(* Every step keeps the invariant of what has been told.                 *)
LEMMA DeliveryStep ==
  ASSUME Separate, DeliveryInv, [Next]_vars
  PROVE  DeliveryInv'
<1>1. EventsInv'
  BY EventsStep DEF DeliveryInv
<1> SUFFICES ASSUME listening', NEW o \in Configs PROVE Delivered(o)'
  BY <1>1 DEF DeliveryInv
<1>2. CASE Start
  BY <1>2, StartDelivers DEF DeliveryInv
<1>3. CASE Handle
  BY <1>3, HandleDelivers DEF Handle
<1>4. ASSUME NEW p \in Configs, Informed(p) PROVE Delivered(o)'
  BY <1>4, InformedDelivers DEF Informed
<1>5. ASSUME UNCHANGED storeVars, cached' = cached PROVE Delivered(o)'
  BY <1>5 DEF DeliveryInv, Delivered, Shows, Tells, Latest, Served, storeVars
<1>6. ~StoreRestart
  BY DEF StoreRestart
<1>7. EventsInv
  BY DEF DeliveryInv
<1>8. Users => cached' = cached
  BY DEF Users, Create, Edit, Delete
<1>9. \A p \in Configs : Reconcile(p) => cached' = cached
  BY DEF Reconcile
<1>10. UNCHANGED vars => UNCHANGED storeVars /\ cached' = cached
  BY DEF vars, configVars
<1> QED
  BY <1>2, <1>3, <1>4, <1>5, <1>6, <1>8, <1>9, <1>10 DEF Next

(* When the store has heard of everything it serves every version that is  *)
(* declared, as it is declared now, if no key has two owners               *)
(* (browserconfig_store.go:43-128).                                        *)
THEOREM DeclaredServedHolds ==
  ASSUME Separate
  PROVE  Spec => []DeclaredServed
<1>1. DeliveryInv /\ [Next]_vars => DeliveryInv'
  BY DeliveryStep
<1>2. Init => DeliveryInv
  BY EventsInit DEF DeliveryInv, Init
<1>3. DeliveryInv => DeclaredServed
  <2> SUFFICES ASSUME DeliveryInv, CaughtUp, NEW o \in Configs, NEW v \in config[o].has
               PROVE  LET k == KeyOf[v] IN
                      /\ k \in Served
                      /\ stored[k].as \in config[stored[k].config].has
                      /\ stored[k].edit = config[stored[k].config].edit
    BY DEF DeclaredServed
  <2>1. \A i \in 1 .. Len(events) : FALSE
    BY DEF CaughtUp
  <2>2. Shows(o, config[o]) /\ Written(o, config[o])
    BY <2>1 DEF CaughtUp, DeliveryInv, Delivered, EventsInv, ConfigsInv
  <2>3. Exists(config[o]) /\ KeyOf[v] \in KeysOf(config[o].has)
    BY <2>2 DEF Written, NoConfig, KeysOf
  <2> QED
    BY <2>2, <2>3 DEF Shows
<1> QED
  BY <1>1, <1>2, <1>3, PTL DEF Spec
=============================================================================
