------------------------------- MODULE PodBuild -------------------------------
(***************************************************************************)
(* How a pod is made of a browser, its configuration and the options in    *)
(* its annotation: buildBrowserPod and what it calls,                      *)
(* controllers/browser/browser_reconciler.go:646-932.                      *)
(*                                                                         *)
(* The configuration is the one that the store keeps, merged once by       *)
(* ConfigMerge and shared by every pass: the browser container's variables *)
(* are the store's own slice until mergeEnvVars copies it.  The operators  *)
(* that extend a list of variables say what they leave in the given one.   *)
(*                                                                         *)
(* Resources stand for the fields of a pod that are copied whole and are   *)
(* merged as they are.                                                     *)
(***************************************************************************)
EXTENDS ConfigMerge

CONSTANTS
  Browsers,       \* names of browsers
  Sources,        \* <<template, version>>: what a configuration may declare
  Requests,       \* what a user may write into a browser: labels, annotations
  OptionsKey,     \* browserv1.SelenosisOptionsAnnotationKey
  Empty,          \* an annotation's value: ""
  Malformed       \* an annotation's value that is no JSON

VARIABLES
  source,   \* the template and the version that the configuration declares
  stored,   \* what the store keeps of them, Nil before it has heard of them
  request,  \* the labels and annotations of each browser
  pod       \* the pod that a pass sent to the cluster, or Nil

vars == <<source, stored, request, pod>>

-----------------------------------------------------------------------------
(* What configurations and browsers may hold: each field is given or not,  *)
(* the version is (the resource definition has no nullable object).        *)

IsList(l) == l = Nil \/ l \in Seq(ToSet(l))
IsMap(m)  == m = Nil \/ (m = [k \in DOMAIN m |-> m[k]] /\ IsFiniteSet(DOMAIN m))
IsEnv(l)  == IsList(l) /\ \A x \in Elements(l) : x = Var(x.name, x.value)

IsSidecar(s) ==
  /\ s = [name |-> s.name, image |-> s.image, command |-> s.command, workingDir |-> s.workingDir,
          env |-> s.env, ports |-> s.ports, mounts |-> s.mounts, pull |-> s.pull,
          resources |-> s.resources]
  /\ IsEnv(s.env) /\ IsList(s.ports) /\ IsList(s.mounts)
AreSidecars(l) == IsList(l) /\ \A s \in Elements(l) : IsSidecar(s)

IsConfig(c) ==
  /\ c = [labels |-> c.labels, annotations |-> c.annotations, env |-> c.env,
          resources |-> c.resources, workingDir |-> c.workingDir, pull |-> c.pull,
          volumes |-> c.volumes, mounts |-> c.mounts, sidecars |-> c.sidecars, inits |-> c.inits]
  /\ IsMap(c.labels) /\ IsMap(c.annotations) /\ IsEnv(c.env)
  /\ IsList(c.volumes) /\ IsList(c.mounts) /\ AreSidecars(c.sidecars) /\ AreSidecars(c.inits)

IsOptions(o) ==
  /\ IsMap(o.labels)
  /\ \A c \in DOMAIN o.containers : o.containers[c] # Nil /\ IsMap(o.containers[c])

ASSUME SourcesAssumption ==
  \A s \in Sources : s = <<s[1], s[2]>> /\ (s[1] = Nil \/ IsConfig(s[1])) /\ IsConfig(s[2])

ASSUME RequestsAssumption ==
  \A r \in Requests :
    /\ IsMap(r.labels) /\ IsMap(r.annotations)
    /\ OptionsKey \in DOMAIN Items(r.annotations) =>
         LET o == r.annotations[OptionsKey] IN o \in {Empty, Malformed} \/ IsOptions(o)

-----------------------------------------------------------------------------
(* Containers *)

(* A container with the fields that init containers and sidecars share.    *)
(* The lists are appended to new ones.                                     *)
ContainerOf(s) ==
  [name |-> s.name, image |-> s.image, command |-> s.command, workingDir |-> s.workingDir,
   env |-> Items(s.env), ports |-> s.ports, mounts |-> Items(s.mounts), pull |-> s.pull,
   resources |-> s.resources]

InitContainer(cfg, ic) ==
  [ContainerOf(ic) EXCEPT !.workingDir = IF cfg.workingDir # Nil THEN cfg.workingDir ELSE @]

BrowserContainer(cfg) ==
  [name |-> "browser", image |-> "version", command |-> Nil, workingDir |-> cfg.workingDir,
   env |-> Items(cfg.env), ports |-> Nil, mounts |-> Items(cfg.mounts), pull |-> cfg.pull,
   resources |-> cfg.resources]

Containers(cfg) ==
  <<BrowserContainer(cfg)>>
    \o [i \in DOMAIN Items(cfg.sidecars) |-> ContainerOf(cfg.sidecars[i])]
InitContainers(cfg) ==
  [i \in DOMAIN Items(cfg.inits) |-> InitContainer(cfg, cfg.inits[i])]

-----------------------------------------------------------------------------
(* Options *)

(* parseSelenosisOptions *)
ParseOptions(annotations) ==
  IF OptionsKey \notin DOMAIN Items(annotations) THEN Nil
  ELSE IF annotations[OptionsKey] = Empty THEN Nil
  ELSE annotations[OptionsKey]

(* The position of a name is that of its last variable. *)
Replaced(base, override) ==
  [i \in DOMAIN base |->
     IF /\ base[i].name \in DOMAIN override
        /\ \A j \in DOMAIN base : base[j].name = base[i].name => j <= i
       THEN Var(base[i].name, override[base[i].name]) ELSE base[i]]

Extended(base, override) ==
  LET new == DOMAIN override \ NamesIn(base)
  IN  {Replaced(base, override) \o [i \in DOMAIN s |-> Var(s[i], override[s[i]])] :
         s \in SetToSeqs(new)}

(* Mutant: the variables are replaced in the given slice. *)
MergeEnvVarsInPlace(base, override) ==
  {[env |-> e, left |-> Replaced(base, override)] : e \in Extended(base, override)}

(* mergeEnvVars: the new ones come in the order of an iteration over a     *)
(* map; the given slice is left as it was.                                 *)
MergeEnvVars(base, override) ==
  {[env |-> e, left |-> base] : e \in Extended(base, override)}

(* One container under applySelenosisOptions. *)
EnvOptions(c, opts) ==
  IF c.name \in DOMAIN opts.containers /\ DOMAIN opts.containers[c.name] # {}
    THEN MergeEnvVars(c.env, opts.containers[c.name])
    ELSE {[env |-> c.env, left |-> c.env]}

(* m over n, both maybe Nil. *)
Put(m, n) == MergeMap(n, m)

(* applySelenosisOptions: the pod, and what it leaves in the shared slice. *)
ApplyOptions(p, opts) ==
  IF opts = Nil THEN {[pod |-> p, left |-> p.containers[1].env]}
  ELSE LET choices(i) == EnvOptions(p.containers[i], opts)
           all == UNION {choices(i) : i \in DOMAIN p.containers}
       IN  {[pod  |-> [p EXCEPT !.labels = Put(opts.labels, @),
                                !.containers = [i \in DOMAIN @ |-> [@[i] EXCEPT !.env = ch[i].env]]],
             left |-> ch[1].left] :
              ch \in {f \in [DOMAIN p.containers -> all] :
                        \A i \in DOMAIN p.containers : f[i] \in choices(i)}}

-----------------------------------------------------------------------------
(* The pod *)

(* Mutant: the browser's labels are laid over the configuration's. *)
BrowserLabelsLast(b, cfg) == Put(b.labels, cfg.labels)

PodLabels(b, cfg) == Put(cfg.labels, b.labels)

(* All annotations but the one with the options. *)
PodAnnotations(b, cfg) ==
  Put(cfg.annotations,
      [k \in DOMAIN Items(b.annotations) \ {OptionsKey} |-> b.annotations[k]])

BuildBrowserPod(b, cfg) ==
  ApplyOptions([labels      |-> PodLabels(b, cfg),
                annotations |-> PodAnnotations(b, cfg),
                containers  |-> Containers(cfg),
                inits       |-> InitContainers(cfg),
                volumes     |-> Items(cfg.volumes)],
               ParseOptions(b.annotations))

-----------------------------------------------------------------------------
Init ==
  /\ source \in Sources
  /\ stored = Nil
  /\ request \in [Browsers -> Requests]
  /\ pod = [b \in Browsers |-> Nil]

(* Mutant: what is declared is merged in place, so that the next event     *)
(* merges what was merged.                                                 *)
LoadWithoutCopy ==
  /\ stored' \in MergeWithTemplate(IF stored = Nil THEN source[2] ELSE stored, source[1])
  /\ UNCHANGED <<source, request, pod>>

(* onAddOrUpdate: a copy of what is declared is merged anew. *)
Load ==
  /\ stored' \in MergeWithTemplate(source[2], source[1])
  /\ UNCHANGED <<source, request, pod>>

(* The server refuses a pod whose containers are called alike. *)
Accepted(p) ==
  /\ \A i, j \in DOMAIN p.containers : p.containers[i].name = p.containers[j].name => i = j
  /\ \A i, j \in DOMAIN p.inits : p.inits[i].name = p.inits[j].name => i = j
  /\ \A i \in DOMAIN p.containers, j \in DOMAIN p.inits : p.containers[i].name # p.inits[j].name

(* A pass of handleMissingPod that comes to createPod.  A browser without  *)
(* a configuration, or with malformed options, is declared Failed there    *)
(* (LookupConfig and FailConfig of BrowserReconciler).  The pod is built   *)
(* before the server can refuse it.                                        *)
Create(b) ==
  /\ pod[b] = Nil /\ stored # Nil
  /\ ParseOptions(request[b].annotations) # Malformed
  /\ \E built \in BuildBrowserPod(request[b], stored) :
       /\ pod' = IF Accepted(built.pod) THEN [pod EXCEPT ![b] = built.pod] ELSE pod
       /\ stored' = IF stored.env = Nil THEN stored ELSE [stored EXCEPT !.env = built.left]
  /\ UNCHANGED <<source, request>>

(* A browser is deleted, with its pod if it has one, and another one takes *)
(* its name.                                                               *)
Replace(b) ==
  /\ pod' = [pod EXCEPT ![b] = Nil]
  /\ \E r \in Requests : request' = [request EXCEPT ![b] = r]
  /\ UNCHANGED <<source, stored>>

Next == Load \/ \E b \in Browsers : Create(b) \/ Replace(b)

Spec == Init /\ [][Next]_vars
=============================================================================
