--------------------------- MODULE BrowserLifecycle ---------------------------
(***************************************************************************)
(* What the controller promises to the users of a Browser, with nothing of *)
(* how it keeps the promise: no caches, no passes, no patches.             *)
(*                                                                         *)
(* A Browser gets one pod at most (README.md:16), and none once it has     *)
(* failed or its deletion was seen.  Its failure is final (README.md:314). *)
(* Unless it has failed, it does not leave before its pod (README.md:26).  *)
(***************************************************************************)
EXTENDS Naturals

CONSTANT Names

VARIABLES
  issued,    \* issued[n]: how many Browsers have had the name n
  holder,    \* holder[n]: the one that has it now, or 0
  failed,    \* the names whose Browser has failed
  deletion,  \* deletion[n]: its deletion is "none", "asked" for or "seen"
  service    \* service[n]: its pod is "none" so far, "present" or "lost"

state == <<holder, failed, deletion, service>>

-----------------------------------------------------------------------------
Request(n) ==
  /\ holder[n] = 0
  /\ issued' = [issued EXCEPT ![n] = @ + 1]
  /\ holder' = [holder EXCEPT ![n] = issued[n] + 1]
  /\ UNCHANGED <<failed, deletion, service>>

Provide(n) ==
  /\ holder[n] # 0 /\ service[n] = "none" /\ n \notin failed /\ deletion[n] # "seen"
  /\ service' = [service EXCEPT ![n] = "present"]
  /\ UNCHANGED <<issued, holder, failed, deletion>>

LosePod(n) ==
  /\ service[n] = "present"
  /\ service' = [service EXCEPT ![n] = "lost"]
  /\ UNCHANGED <<issued, holder, failed, deletion>>

Fail(n) ==
  /\ holder[n] # 0 /\ n \notin failed /\ deletion[n] # "seen"
  /\ failed' = failed \cup {n}
  /\ UNCHANGED <<issued, holder, deletion, service>>

AskDeletion(n) ==
  /\ holder[n] # 0 /\ deletion[n] = "none"
  /\ deletion' = [deletion EXCEPT ![n] = "asked"]
  /\ UNCHANGED <<issued, holder, failed, service>>

SeeDeletion(n) ==
  /\ deletion[n] = "asked"
  /\ deletion' = [deletion EXCEPT ![n] = "seen"]
  /\ UNCHANGED <<issued, holder, failed, service>>

Leave(n) ==
  /\ holder[n] # 0
  /\ n \in failed \/ service[n] # "present"
  /\ holder' = [holder EXCEPT ![n] = 0]
  /\ failed' = failed \ {n}
  /\ deletion' = [deletion EXCEPT ![n] = "none"]
  /\ service' = [service EXCEPT ![n] = "none"]
  /\ UNCHANGED issued

-----------------------------------------------------------------------------
Init ==
  /\ issued = [n \in Names |-> 0] /\ holder = [n \in Names |-> 0]
  /\ failed = {}
  /\ deletion = [n \in Names |-> "none"] /\ service = [n \in Names |-> "none"]

Next == \E n \in Names :
  \/ Request(n) \/ Provide(n) \/ LosePod(n) \/ Fail(n)
  \/ AskDeletion(n) \/ SeeDeletion(n) \/ Leave(n)

Spec == Init /\ [][Next]_<<issued, state>>
=============================================================================
