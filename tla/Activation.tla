----------------------------- MODULE Activation -----------------------------
(***************************************************************************)
(* What ActivateApexPackages promises, however many threads it uses: every  *)
(* APEX of the list is settled once, none fails without a cause outside;    *)
(* then those that provide shared libraries contribute one after another,   *)
(* in their order; the result is an error exactly if something failed.      *)
(***************************************************************************)
EXTENDS Integers, Sequences, FiniteSets, SequencesExt

CONSTANTS
  Apexes,           \* the APEXes; those to activate are in the list
  Contributors,     \* those that provide shared libraries
  Before(_, _),     \* the order of contributions
  Resilience        \* so many troubles it takes to make one APEX fail

VARIABLES
  outcome,          \* outcome[a]: absent | pending | active | failed | unlinked
  trouble,          \* how often something outside went wrong
  links,            \* contributions made, in order
  result            \* none | ok | error

vars == <<outcome, trouble, links, result>>

Are(o) == {a \in Apexes : outcome[a] = o}
Lost == Are("failed") \cup Are("unlinked")
(* As many troubles as it takes, those of the step included.                *)
Fails == trouble' >= Resilience * (Cardinality(Lost) + 1)
Waiting == (Are("active") \cap Contributors) \ ToSet(links)

Init ==
  /\ \E list \in SUBSET Apexes :
       outcome = [a \in Apexes |-> IF a \in list THEN "pending" ELSE "absent"]
  /\ trouble = 0 /\ links = <<>> /\ result = "none"

Suffer == trouble' > trouble /\ UNCHANGED <<outcome, links, result>>

Settle(a) ==
  /\ outcome[a] = "pending" /\ trouble' >= trouble
  /\ \E o \in {"active", "failed"} :
       /\ outcome' = [outcome EXCEPT ![a] = o]
       /\ o = "failed" => Fails
  /\ UNCHANGED <<links, result>>

Contribute(a) ==
  /\ Are("pending") = {} /\ a \in Waiting
  /\ \A b \in Waiting : ~Before(b, a)
  /\ links' = Append(links, a) /\ trouble' >= trouble
  /\ \/ outcome' = outcome
     \/ Fails /\ outcome' = [outcome EXCEPT ![a] = "unlinked"]
  /\ UNCHANGED result

Return ==
  /\ result = "none" /\ Are("pending") = {} /\ Waiting = {}
  /\ result' = IF Lost = {} THEN "ok" ELSE "error"
  /\ UNCHANGED <<outcome, trouble, links>>

Next == Suffer \/ Return \/ \E a \in Apexes : Settle(a) \/ Contribute(a)

Spec == Init /\ [][Next]_vars
=============================================================================
