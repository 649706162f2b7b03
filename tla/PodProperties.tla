---------------------------- MODULE PodProperties ----------------------------
(***************************************************************************)
(* What the store must make of a template and a version, and what a pod    *)
(* must be.                                                                *)
(***************************************************************************)
EXTENDS PodBuild

Bare == [labels |-> Nil, annotations |-> Nil, env |-> Nil, resources |-> Nil, workingDir |-> Nil,
         pull |-> Nil, volumes |-> Nil, mounts |-> Nil, sidecars |-> Nil, inits |-> Nil]

-----------------------------------------------------------------------------
(* What the store keeps *)

template == IF source[1] = Nil THEN Bare ELSE source[1]
version  == source[2]
BothName(n) == n \in NamesIn(template.sidecars) \cap NamesIn(version.sidecars)

(* Each variable once, with the version's value where the version has one. *)
EnvMerged(t, v, m) ==
  /\ Environment(m) = Overriding(Environment(v), Environment(t))
  /\ Len(Items(m)) = Cardinality(NamesIn(m))

(* Environment variables are merged by name, in the browser's container    *)
(* and in a sidecar that the version shares with the template              *)
(* (mergeEnvPtr): no variable is lost or twice there, and the slices that  *)
(* the pods are made from stay like this for as long as pods are made.     *)
EnvMergedByName ==
  source[1] # Nil /\ stored # Nil =>
    /\ EnvMerged(template.env, version.env, stored.env)
    /\ \A c \in Elements(stored.sidecars) :
         BothName(c.name) =>
           \E v \in Elements(version.sidecars) :
             v.name = c.name /\ EnvMerged(Named(template.sidecars, c.name).env, v.env, c.env)

(* By name: of each name the containers of the version, or, where it has   *)
(* none of that name, those of the template; none is lost or added.        *)
Called(list, n) == {i \in DOMAIN Items(list) : Items(list)[i].name = n}
Images(list, n) == {c.image : c \in {x \in Elements(list) : x.name = n}}
ByName(ts, vs, ms) ==
  /\ NamesIn(ms) = NamesIn(ts) \cup NamesIn(vs)
  /\ \A n \in NamesIn(ms) :
       LET side == IF n \in NamesIn(vs) THEN vs ELSE ts
       IN  /\ Cardinality(Called(ms, n)) = Cardinality(Called(side, n))
           /\ Images(ms, n) = Images(side, n)

(* The sidecars of a version and of its template are merged by name, and   *)
(* the version's win (mergeSidecarPtr and the loop after it).              *)
SidecarsMergedByName ==
  stored # Nil => ByName(template.sidecars, version.sidecars, stored.sidecars)

(* The same of init containers; the code passes the lists the other way    *)
(* round and the template's win.                                           *)
InitsMergedByName ==
  stored # Nil => ByName(template.inits, version.inits, stored.inits)

(* What a version does not say, its template says; what it says, it wins.  *)
(* So it is with whole fields and, key by key, with maps, and in a sidecar *)
(* that both name with the command and the resources (mergeWithSpec,       *)
(* mergeWithTemplate).  Two fields of such a sidecar are exceptions: the   *)
(* pull policy is not inherited, although README.md:252 says that nil      *)
(* fields inherit, and the working directory is the template's whatever    *)
(* the version says.                                                       *)
Completing(v, t) == IF v = Nil THEN t ELSE v

FieldsInherited ==
  stored # Nil =>
    /\ stored.resources = Completing(version.resources, template.resources)
    /\ stored.pull = Completing(version.pull, template.pull)
    /\ stored.workingDir = Completing(version.workingDir, template.workingDir)
    /\ Items(stored.labels) = Overriding(Items(version.labels), Items(template.labels))
    /\ Items(stored.annotations) = Overriding(Items(version.annotations), Items(template.annotations))
    /\ \A c \in Elements(stored.sidecars) :
         BothName(c.name) =>
           LET t == Named(template.sidecars, c.name)
           IN  \E v \in Elements(version.sidecars) :
                 /\ v.name = c.name
                 /\ c.command = Completing(v.command, t.command)
                 /\ c.resources = Completing(v.resources, t.resources)
                 /\ c.pull = v.pull
                 /\ c.workingDir = t.workingDir

(* How often an item is in a list, and that a list is two others in some   *)
(* order: each item is there as often as in both together.                 *)
Occurs(l, x) == Cardinality({i \in DOMAIN Items(l) : Items(l)[i] = x})
Both(l, t, v) == \A x \in UNION {Elements(l), Elements(t), Elements(v)} :
                   Occurs(l, x) = Occurs(t, x) + Occurs(v, x)

(* Lists that are joined are joined once: in what the store keeps, volumes *)
(* and mounts, and the ports and mounts of a sidecar that both name, are   *)
(* those of the template and of the version, however often the store hears *)
(* of the configuration and whatever pods are made of it (onAddOrUpdate    *)
(* merges into a copy).  An item of both sides is there twice.             *)
JoinedOnce ==
  stored # Nil =>
    /\ Both(stored.volumes, template.volumes, version.volumes)
    /\ Both(stored.mounts, template.mounts, version.mounts)
    /\ \A c \in Elements(stored.sidecars) :
         BothName(c.name) =>
           LET t == Named(template.sidecars, c.name)
           IN  \E v \in Elements(version.sidecars) :
                 /\ v.name = c.name
                 /\ Both(c.ports, t.ports, v.ports)
                 /\ Both(c.mounts, t.mounts, v.mounts)

-----------------------------------------------------------------------------
(* What a pod is *)

(* What a source declares for a container. *)
Declared(c) ==
  LET env(side) ==
        IF c = "browser" THEN Environment(side.env)
        ELSE IF c \in NamesIn(side.sidecars) THEN Environment(Named(side.sidecars, c).env)
        ELSE <<>>
  IN  Overriding(env(version), env(template))

Asked(b) == ParseOptions(request[b].annotations)
AskedEnv(b, c) ==
  IF Asked(b) = Nil THEN <<>>
  ELSE IF c \in DOMAIN Asked(b).containers THEN Asked(b).containers[c] ELSE <<>>

(* In every container, a browser's own options come before the version's   *)
(* variables and these before the template's, whatever was asked for the   *)
(* browsers made before: the store's slices, which all pods are made from, *)
(* are never written through (mergeEnvVars copies).                        *)
EnvByPrecedence ==
  \A b \in Browsers : pod[b] # Nil =>
    \A i \in DOMAIN pod[b].containers :
      LET c == pod[b].containers[i]
      IN  Environment(c.env) = Overriding(AskedEnv(b, c.name), Declared(c.name))

(* The options' labels come before the configuration's and these before    *)
(* the browser's, and so do the annotations, but for the one with the      *)
(* options, which is not passed on.                                        *)
LabelsByPrecedence ==
  \A b \in Browsers : pod[b] # Nil =>
    LET opts == Asked(b)
        asked == IF opts = Nil THEN <<>> ELSE Items(opts.labels)
        config == Overriding(Items(version.labels), Items(template.labels))
        notes  == Overriding(Items(version.annotations), Items(template.annotations))
    IN  /\ Items(pod[b].labels)
              = Overriding(asked, Overriding(config, Items(request[b].labels)))
        /\ \A k \in DOMAIN Items(request[b].annotations) \cup DOMAIN notes :
             IF k \in DOMAIN notes THEN pod[b].annotations[k] = notes[k]
             ELSE IF k = OptionsKey THEN k \notin DOMAIN pod[b].annotations
             ELSE pod[b].annotations[k] = request[b].annotations[k]

=============================================================================
