------------------------------ MODULE MCPodBuild ------------------------------
(***************************************************************************)
(* PodBuild on small configurations and requests.                          *)
(***************************************************************************)
EXTENDS PodProperties

-----------------------------------------------------------------------------
(* Configurations: each kind of input is varied by itself.                 *)

TemplateEnvs == {Nil, <<>>, <<Var("X", "t")>>, <<Var("X", "t"), Var("Y", "t")>>}
VersionEnvs  == {Nil, <<Var("X", "v")>>, <<Var("Y", "v"), Var("X", "w")>>, <<Var("X", "v"), Var("X", "w")>>}

EnvSources ==
  {<<[Bare EXCEPT !.env = t], [Bare EXCEPT !.env = v]>> : t \in TemplateEnvs, v \in VersionEnvs}

LabelSources ==
  {<<[Bare EXCEPT !.labels = l[1], !.annotations = a[1]],
     [Bare EXCEPT !.labels = l[2], !.annotations = a[2]]>> :
     l \in {Nil, [p |-> "t"], [p |-> "t", q |-> "t"]} \X {Nil, [p |-> "v"], [r |-> "v"]},
     a \in {<<Nil, Nil>>, <<[a |-> "t", z |-> "t"], Nil>>}}

FieldSources ==
  {<<[Bare EXCEPT !.resources = r[1], !.pull = r[2], !.workingDir = r[2], !.volumes = j[1], !.mounts = j[2]],
     [Bare EXCEPT !.resources = r[2], !.pull = r[1], !.workingDir = r[1], !.volumes = j[2], !.mounts = j[1]]>> :
     r \in {Nil, "small"} \X {Nil, "large"}, j \in {Nil, <<"v">>} \X {Nil, <<"w">>, <<"w", "v">>}}

(* Each side gives a working directory and a pull policy or does not, as   *)
(* it does a command; mounts are given with ports.                         *)
Side(n, side, cmd, env, ports) ==
  [name |-> n, image |-> side, command |-> cmd, workingDir |-> cmd, env |-> env,
   ports |-> ports, mounts |-> ports, pull |-> cmd, resources |-> cmd]
Plain(n, side) == Side(n, side, Nil, Nil, Nil)

TemplateLists ==
  {Nil, <<>>} \cup
  {<<Side("side", "template", cmd, env, ports), Plain("other", "template")>> :
     cmd \in {Nil, "c"}, env \in {Nil, <<Var("X", "t"), Var("Y", "t")>>}, ports \in {Nil, <<80>>}}
VersionLists ==
  {Nil, <<>>} \cup
  {<<Plain("mine", "version"), Side("side", "version", cmd, env, ports)>> :
     cmd \in {Nil, "c2"}, env \in {Nil, <<Var("X", "v")>>}, ports \in {Nil, <<81>>}}

SidecarSources ==
  {<<[Bare EXCEPT !.sidecars = t], [Bare EXCEPT !.sidecars = v]>> :
     t \in TemplateLists, v \in VersionLists}

(* With the browser's own variables beside those of a sidecar, and without *)
(* a template.                                                             *)
MixedSources ==
  {<<[Bare EXCEPT !.env = <<Var("X", "t"), Var("Y", "t")>>, !.sidecars = <<Plain("side", "template")>>],
     [Bare EXCEPT !.env = <<Var("X", "v")>>, !.labels = [p |-> "v"]]>>,
   <<Nil, [Bare EXCEPT !.env = <<Var("X", "v")>>, !.labels = [p |-> "v"]]>>}

(* Containers that are called alike, which no pod may have. *)
AlikeSources ==
  {<<[Bare EXCEPT !.sidecars = <<Plain("side", "template"), Plain("side", "other")>>],
     [Bare EXCEPT !.sidecars = v]>> :
     v \in {Nil, <<Side("side", "version", Nil, <<Var("X", "v")>>, Nil), Plain("side", "version")>>}}
  \cup {<<Nil, [Bare EXCEPT !.sidecars = <<Plain("browser", "version")>>]>>}

MCSources ==
  EnvSources \cup LabelSources \cup FieldSources \cup SidecarSources \cup MixedSources \cup AlikeSources

(* An init container of one name on both sides. *)
WithInits ==
  {<<[Bare EXCEPT !.inits = <<Plain("init", "template")>>], [Bare EXCEPT !.inits = v]>> :
     v \in {Nil, <<Plain("init", "version")>>}}

-----------------------------------------------------------------------------
(* Requests *)

Options(labels, onBrowser, onSide) ==
  [labels |-> labels,
   containers |-> [c \in {"browser", "side"} |-> IF c = "browser" THEN onBrowser ELSE onSide]]

MCRequests ==
  {[labels |-> Nil, annotations |-> Nil],
   [labels |-> [p |-> "b", q |-> "b", r |-> "b"], annotations |-> [a |-> "b", options |-> Empty]],
   [labels |-> Nil, annotations |-> [options |-> Malformed]],
   [labels |-> [r |-> "b"], annotations |-> [options |-> Options([p |-> "o"], [X |-> "o"], <<>>)]],
   [labels |-> Nil, annotations |-> [options |-> Options(Nil, [Y |-> "o", Z |-> "o"], [X |-> "o"])]]}

=============================================================================
