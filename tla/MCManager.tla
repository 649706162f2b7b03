------------------------------ MODULE MCManager ------------------------------
(* One Browser asks for a version of the BrowserConfig "a" in a spelling   *)
(* of its own.                                                             *)
EXTENDS Manager

MCVersions == {"Chrome:1", "chrome:1"}
MCKeyOf == [v \in MCVersions |-> "chrome:1"]
MCAsked == [n \in Names |-> "Chrome:1"]

(* An edit may take the version out. *)
MCContents == [o \in {"a"} |-> {{"chrome:1"}, {}}]
=============================================================================
