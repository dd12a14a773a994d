------------------------------- MODULE MCIntake -------------------------------
(***************************************************************************)
(* Intake for TLC.  Two passwords, one of them in two policies that differ *)
(* in everything (the later one counts), and two domains.                  *)
(***************************************************************************)
EXTENDS Intake

Rule(secret, domain, addresses) ==
  [token |-> secret, paths |-> {domain}, domains |-> {domain}, addresses |-> addresses]

SomePolicies == <<Rule("shared", "a", {"x@a", "y@b"}),
                  Rule("own", "a", {"x@a", "y@b"}),
                  Rule("shared", "b", {"x@a"})>>
OwnPolicy == <<Rule("own", "a", {"x@a"})>>

SomeDomains == [m \in {"x@a", "y@b"} |-> IF m = "x@a" THEN "a" ELSE "b"]
OneDomain   == [m \in {"x@a"} |-> "a"]

SomeTexts == {<<1, 0>>, <<7, 12>>}
SomeFiles == {<<3, 2>>, <<4, 3>>}
ShortText == {<<1, 0>>}

===============================================================================
