------------------------------- MODULE Policy -------------------------------
(***************************************************************************)
(* core/policy.py: the decision about a tool call.  A manifest is the set  *)
(* of effects that it declares, a rule's outcome is a decision or "defer"  *)
(* (None), and the first rule that does not defer decides.                 *)
(***************************************************************************)
EXTENDS Naturals

Supervisors == {"supervisor_t1", "supervisor_t2"}
Roles == Supervisors \cup {"coder", "sec_defensive", "sec_offensive", "auditor"}
Effects == {"network", "subprocess", "lab", "dangerous"}
DangerousOk == Supervisors \cup {"sec_defensive", "sec_offensive"}
SubprocessOk == Roles

DenyIf(condition) == IF condition THEN "deny" ELSE "defer"

\* WRONG: the allowlist of dangerous tools allows, and stands before the gates.
WrongDefaultRules(role, manifest, lab) ==
    << IF "dangerous" \notin manifest THEN "defer"
         ELSE IF role \in DangerousOk THEN "allow" ELSE "deny",
       DenyIf("lab" \in manifest /\ ~lab),
       DenyIf(role = "sec_offensive" /\ ~lab),
       DenyIf("network" \in manifest /\ role \notin Supervisors),
       DenyIf("subprocess" \in manifest /\ role \notin SubprocessOk),
       "allow" >>

\* DEFAULT_RULES, as the sequence of their outcomes.
DefaultRules(role, manifest, lab) ==
    << DenyIf("lab" \in manifest /\ ~lab),
       DenyIf(role = "sec_offensive" /\ ~lab),
       DenyIf("network" \in manifest /\ role \notin Supervisors),
       DenyIf("dangerous" \in manifest /\ role \notin DangerousOk),
       DenyIf("subprocess" \in manifest /\ role \notin SubprocessOk),
       "allow" >>

\* evaluate: the first outcome that is a decision, or else the default.
Evaluate(role, manifest, lab) ==
    LET outcome == DefaultRules(role, manifest, lab)
        deciding == {i \in DOMAIN outcome : outcome[i] # "defer"} IN
    IF deciding = {} THEN "deny"
    ELSE outcome[CHOOSE i \in deciding : \A j \in deciding : i <= j]
=============================================================================
