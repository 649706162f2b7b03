------------------------- MODULE MCBrowserConfigStore -------------------------
(* Instances of the store with two BrowserConfigs, "a" and "b".            *)
EXTENDS BrowserConfigStore

MCVersions == {"Chrome:1", "chrome:1", "chrome:2", "firefox:1"}
MCKeyOf == [v \in MCVersions |-> IF v = "Chrome:1" THEN "chrome:1" ELSE v]

(* An edit of a may take one version out of it and write another twice,    *)
(* in two spellings of one key.                                            *)
Shrinking ==
  [o \in {"a", "b"} |->
     IF o = "a" THEN {{"chrome:1", "chrome:2"}, {"Chrome:1", "chrome:1"}} ELSE {{"firefox:1"}}]
=============================================================================
