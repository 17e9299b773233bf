------------------------------ MODULE Workflow ------------------------------
(***************************************************************************)
(* The rules of internal/workflow/workflow.go and the staleness algorithm  *)
(* of internal/statuscheck/statuscheck.go, as operators.                   *)
(***************************************************************************)
EXTENDS Integers, Sequences, FiniteSets, FiniteSetsExt

\* The vocabulary (artifact.KnownStatuses) and the roles the rules name.
Order == <<"draft", "clarifying", "planning", "in-development", "in-qa", "approved", "done">>
Terminal == {"raw", "rejected", "abandoned", "blocked"}
Known == Terminal \cup {Order[i] : i \in DOMAIN Order}

Developers == {"backend-developer", "frontend-developer", "test-developer"}

\* rule: "" as from is any status; of a type: AnyType, the types, or all but some.
AnyType == "any"
rule(from, to, roles, only, but) ==
  [from |-> from, to |-> to, roles |-> roles, only |-> only, but |-> but]
plain(from, to, roles) == rule(from, to, roles, AnyType, AnyType)
docs(from, to, roles)  == rule(from, to, roles, "doc", AnyType)

defaultRules ==
  <<plain("raw", "draft", {"product-owner", "analyst", "system"}),
    plain("draft", "raw", {"product-owner"}),
    rule("draft", "clarifying", {"product-owner", "analyst"}, AnyType, "doc"),
    rule("clarifying", "planning", {"product-owner", "reviewer", "analyst"}, AnyType, "doc"),
    rule("planning", "in-development", {"approver"}, AnyType, "doc"),
    plain("in-development", "in-qa", Developers),
    docs("draft", "approved", {"product-owner"}),
    docs("approved", "in-development", {"tech-writer"}),
    docs("in-development", "in-qa", {"tech-writer"}),
    docs("in-qa", "done", {"qa"}),
    docs("in-qa", "in-development", {"qa"}),
    plain("in-qa", "approved", {"qa"}),
    plain("approved", "done", {"approver"}),
    plain("clarifying", "draft", {"product-owner", "analyst"}),
    plain("", "rejected", {"reviewer"}),
    plain("", "abandoned", {"product-owner", "approver"}),
    plain("", "blocked", {"analyst", "qa"} \cup Developers),
    plain("blocked", "draft", {"product-owner", "analyst"}),
    plain("", "blocked", {"system"}),
    plain("blocked", "draft", {"system"}),
    rule("approved", "in-qa", {"qa"}, "test", AnyType),
    rule("in-qa", "approved", {"system"}, "test", AnyType)>>

\* A project's transition replaces the roles of the first rule it matches exactly.
overridden(rules, t) ==
  LET matches == {i \in DOMAIN rules :
                    rules[i].from = t.from /\ rules[i].to = t.to /\ rules[i].only = t.only}
  IN  IF matches = {} THEN Append(rules, t) ELSE [rules EXCEPT ![Min(matches)].roles = t.roles]

\* New: the default rules, with the project's transitions applied in their order.
New(transitions) ==
  LET after[n \in 0..Len(transitions)] ==
        IF n = 0 THEN defaultRules ELSE overridden(after[n - 1], transitions[n])
      rules == after[Len(transitions)]
  IN  {rules[i] : i \in DOMAIN rules}

ruleMatchesType(r, type) ==
  /\ r.but # type
  /\ r.only \in {AnyType, type}

Grants(r, from, roles, type) ==
  /\ r.from \in {"", from}
  /\ ruleMatchesType(r, type)
  /\ r.roles \cap roles # {}

CanTransition(rules, from, to, roles, type) ==
  /\ from # to
  /\ to \in Known
  /\ \/ "product-owner" \in roles
     \/ \E r \in rules : r.to = to /\ Grants(r, from, roles, type)

AllowedTargets(rules, from, roles, type) ==
  {r.to : r \in {s \in rules : "product-owner" \in roles \/ Grants(s, from, roles, type)}}

\* GateReady: each required type has an approved member in the lineage.
GateReady(members, required) ==
  \A type \in required : \E m \in members : m.type = type /\ m.status = "approved"

---------------------------------------------------------------------------
(* statuscheck.Check, for one artifact and the statuses of its children.    *)

statusRank(s) == IF s \in Terminal THEN -1 ELSE CHOOSE i \in DOMAIN Order : Order[i] = s

\* The status a parent should have moved to, "" if it is not stale.
Suggested(status, childStatuses) ==
  LET ranks == {statusRank(s) : s \in childStatuses \ Terminal}
  IN  IF status \in Terminal \/ ranks = {} \/ \E r \in ranks : r <= statusRank(status)
      THEN ""
      ELSE Order[Min(ranks)]

=============================================================================
