----------------------------- MODULE ConfigMerge -----------------------------
(***************************************************************************)
(* How a BrowserConfig's template is merged into one browser version,      *)
(* apis/browserconfig/v1/browser_config.go:167-496.                        *)
(*                                                                         *)
(* Of the fields that are merged alike one stands for all: labels for the  *)
(* maps, volumes for the lists that are joined, resources for the fields   *)
(* taken whole.  The fields that are not treated like others have their    *)
(* own: the working directory, and the pull policy, which is inherited in  *)
(* a version and not in a sidecar.  A field that is not given is Nil; an   *)
(* imagePullPolicy is given when it is not "".  A list of environment      *)
(* variables is merged through a Go map, whose iteration order is          *)
(* anything: the operators on the way yield the set of possible results.   *)
(***************************************************************************)
EXTENDS Naturals, Sequences, FiniteSets, SequencesExt

CONSTANT Nil

Items(list)   == IF list = Nil THEN <<>> ELSE list
Elements(list) == ToSet(Items(list))
NamesIn(list) == {x.name : x \in Elements(list)}

(* The first item called n, and the last. *)
Named(list, n) ==
  list[CHOOSE i \in DOMAIN list :
         list[i].name = n /\ \A j \in DOMAIN list : list[j].name = n => i <= j]
LastNamed(list, n) ==
  list[CHOOSE i \in DOMAIN list :
         list[i].name = n /\ \A j \in DOMAIN list : list[j].name = n => j <= i]

Var(n, x) == [name |-> n, value |-> x]

(* What a list of variables comes to: the last of a name counts. *)
Environment(env) ==
  [n \in NamesIn(env) |-> LastNamed(Items(env), n).value]

(* over, completed by under. *)
Overriding(over, under) ==
  [n \in DOMAIN over \cup DOMAIN under |-> IF n \in DOMAIN over THEN over[n] ELSE under[n]]

-----------------------------------------------------------------------------
(* One field *)

(* Mutant: the nil check is made of the template's field. *)
TemplateFirst(template, override) == IF template = Nil THEN override ELSE template

(* A field taken whole: the version's own, or the template's. *)
Inherit(template, override) == IF override = Nil THEN template ELSE override

(* mergeMapPtr *)
MergeMap(template, override) ==
  LET given(m) == IF m = Nil THEN <<>> ELSE m
      keys == DOMAIN given(template) \cup DOMAIN given(override)
  IN  IF template = Nil /\ override = Nil THEN Nil
      ELSE [k \in keys |-> IF k \in DOMAIN given(override) THEN override[k] ELSE template[k]]

(* mergeVolumePtr and its like: one list after the other. *)
Join(first, second) ==
  LET both == Items(first) \o Items(second) IN IF both = <<>> THEN Nil ELSE both

(* Mutant: the lists are joined, as the other lists are. *)
MergeEnvByJoining(template, override) ==
  IF template = Nil /\ override = Nil THEN {Nil} ELSE {Items(template) \o Items(override)}

(* mergeEnvPtr *)
MergeEnv(template, override) ==
  LET both == Items(template) \o Items(override)
  IN  IF template = Nil /\ override = Nil THEN {Nil}
      ELSE {[i \in DOMAIN s |-> LastNamed(both, s[i])] : s \in SetToSeqs(NamesIn(both))}

-----------------------------------------------------------------------------
(* Sidecars and init containers *)

(* The items of a list that have none of these names, in their order.      *)
Without(list, names) ==
  LET free == {i \in DOMAIN Items(list) : Items(list)[i].name \notin names}
      rank(k) == Cardinality({j \in free : j <= k})
  IN  [i \in 1 .. Cardinality(free) |-> Items(list)[CHOOSE k \in free : rank(k) = i]]

(* Mutant: the template's come first and win. *)
MergeSidecarsTemplateFirst(template, override) ==
  IF template = Nil /\ override = Nil THEN Nil
  ELSE Items(template) \o Without(override, NamesIn(template))

(* mergeSidecarPtr: the override's, then those of the template whose names *)
(* are free.                                                               *)
MergeSidecars(template, override) ==
  IF template = Nil /\ override = Nil THEN Nil
  ELSE Items(override) \o Without(template, NamesIn(override))

(* Sidecar.mergeWithTemplate: the working directory is the template's,     *)
(* even if that is nil, and the pull policy stays the sidecar's, even if   *)
(* that is "".                                                             *)
WithTemplate(s, t) ==
  {[s EXCEPT !.command    = Inherit(t.command, @),
             !.workingDir = t.workingDir,
             !.env        = env,
             !.ports      = Join(t.ports, @),
             !.mounts     = Join(t.mounts, @),
             !.resources  = Inherit(t.resources, @)] : env \in MergeEnv(t.env, s.env)}

(* The loop of mergeWithSpec over the merged list: an item that the        *)
(* version and the template both name gets the template's fields.          *)
Completed(merged, original, template) ==
  IF original = Nil \/ template = Nil THEN {merged}
  ELSE LET shared == NamesIn(original) \cap NamesIn(template)
           become(s) == IF s.name \in shared
                          THEN WithTemplate(s, Named(template, s.name)) ELSE {s}
           all == UNION {become(s) : s \in ToSet(merged)}
       IN  {l \in [DOMAIN merged -> all] : \A i \in DOMAIN merged : l[i] \in become(merged[i])}

-----------------------------------------------------------------------------
(* The fields of a version completed by those of its template; the lists   *)
(* that are merged item by item are given.                                 *)
Filled(b, t, env, sidecars, inits) ==
  [b EXCEPT !.labels      = MergeMap(t.labels, @),
            !.annotations = MergeMap(t.annotations, @),
            !.env         = env,
            !.resources   = Inherit(t.resources, @),
            !.pull        = Inherit(t.pull, @),
            !.workingDir  = Inherit(t.workingDir, @),
            !.volumes     = Join(t.volumes, @),
            !.mounts      = Join(@, t.mounts),
            !.sidecars    = sidecars,
            !.inits       = inits]

(* mergeWithSpec: the init containers go through mergeSidecarPtr with the  *)
(* version's list in the place of the template's.                          *)
MergeWithSpec(b, t) ==
  {Filled(b, t, env, sidecars, inits) :
     env      \in MergeEnv(t.env, b.env),
     sidecars \in Completed(MergeSidecars(t.sidecars, b.sidecars), b.sidecars, t.sidecars),
     inits    \in Completed(MergeSidecars(b.inits, t.inits), b.inits, t.inits)}

(* What MergeWithTemplate makes of one version of a specification: a nil   *)
(* version stays nil.                                                      *)
MergeWithTemplate(b, t) == IF t = Nil \/ b = Nil THEN {b} ELSE MergeWithSpec(b, t)

=============================================================================
