------------------------------ MODULE Authority ------------------------------
(* The decision on a step (authority/policy-engine.ts, core/policy.ts): the   *)
(* scopes it declares against the owner's standing policies and the autonomy  *)
(* of each domain, under the risk of the step; and the changes the owner      *)
(* makes to both meanwhile, by hand or because a policy expires.              *)
EXTENDS Scopes

CONSTANTS
  PolicyBook,    \* the standing policies the owner may grant: [scopes, ceiling]
  Steps,         \* the steps to decide on: [risk, scopes]
  Domains,       \* the domains that the steps name
  MaxChanges

ASSUME AuthorityAssumption ==
  /\ \A p \in PolicyBook : p.ceiling \in Levels
  /\ \A step \in Steps : \A s \in step.scopes : s.domain \in Domains

VARIABLES
  active,     \* the policies granted, not revoked and not expired
  levels,     \* the autonomy of each domain; "observe" when the owner set none
  changes

authorityVars == <<active, levels, changes>>

AuthorityInit == active = {} /\ levels = [d \in Domains |-> "observe"] /\ changes = 0

Covering(scope) == {p \in active : \E grant \in p.scopes : ScopeCovers(grant, scope)}

Ceilings(scope) == {p.ceiling : p \in Covering(scope)}

\* Mutants of Effective: not capped by the domain; the strictest ceiling counts.
EffectiveUncapped(scope) ==
  CHOOSE c \in Ceilings(scope) : \A d \in Ceilings(scope) : AutonomyRank(d) <= AutonomyRank(c)
EffectiveStrictest(scope) ==
  MinAutonomy(levels[scope.domain],
    CHOOSE c \in Ceilings(scope) : \A d \in Ceilings(scope) : AutonomyRank(c) <= AutonomyRank(d))

\* The highest ceiling of the covering policies, capped by the domain.
Effective(scope) ==
  MinAutonomy(levels[scope.domain],
    CHOOSE c \in Ceilings(scope) : \A d \in Ceilings(scope) : AutonomyRank(d) <= AutonomyRank(c))

Judge(scope) ==
  IF \/ scope.domain \notin Enforced
     \/ scope.domain = "files" /\ Forbidden(scope.resource)
     \/ scope.access # "read" /\ levels[scope.domain] = "observe"
  THEN "denied"
  ELSE IF Covering(scope) = {} THEN "approval_required"
  ELSE IF scope.access = "read" \/ Effective(scope) = "act_auto" THEN "allowed"
  ELSE IF Effective(scope) = "observe" THEN "denied" ELSE "approval_required"

\* DefaultPolicyEngine.
ByRisk(step, approved) ==
  IF approved \/ step.risk \in {"read_only", "reversible_write"} THEN "allowed" ELSE "approval_required"

Evaluate(step, approved) ==
  IF step.scopes = {} THEN ByRisk(step, approved)
  ELSE IF \E s \in step.scopes : Judge(s) = "denied" THEN "denied"
  ELSE IF ~approved /\ (ByRisk(step, FALSE) # "allowed" \/ \E s \in step.scopes : Judge(s) = "approval_required")
  THEN "approval_required" ELSE "allowed"

GrantPolicy(p) == p \notin active /\ active' = active \cup {p} /\ UNCHANGED levels
EndPolicy(p) == p \in active /\ active' = active \ {p} /\ UNCHANGED levels
SetDomain(d, level) == level # levels[d] /\ levels' = [levels EXCEPT ![d] = level] /\ UNCHANGED active

AuthorityNext ==
  /\ changes < MaxChanges /\ changes' = changes + 1
  /\ \/ \E p \in PolicyBook : GrantPolicy(p) \/ EndPolicy(p)
     \/ \E d \in Domains, level \in Levels : SetDomain(d, level)

AuthoritySpec == AuthorityInit /\ [][AuthorityNext]_authorityVars

-----------------------------------------------------------------------------
\* "An owner approval lifts 3 and 4, never 1 or 2": whatever is granted.
ApprovalNeverLiftsDenial ==
  \A s \in Steps : Evaluate(s, FALSE) = "denied" => Evaluate(s, TRUE) = "denied"

\* Work the owner is not asked about is local by its risk, and each thing it
\* writes or runs is in a domain that acts on its own and of a policy that does.
UnaskedIsGranted ==
  \A step \in Steps : step.scopes # {} /\ Evaluate(step, FALSE) = "allowed" =>
    /\ step.risk \in {"read_only", "reversible_write"}
    /\ \A s \in step.scopes :
         /\ s.domain \in Enforced
         /\ s.access # "read" => levels[s.domain] = "act_auto" /\ \E p \in Covering(s) : p.ceiling = "act_auto"

\* Taking something away never lets a step go ahead unasked: several policies
\* cover one scope, and the end of a stricter one must not count as a grant.
TighteningNeverAllows ==
  [][/\ active' \subseteq active
     /\ \A d \in Domains : AutonomyRank(levels'[d]) <= AutonomyRank(levels[d])
     => \A s \in Steps : Evaluate(s, FALSE)' = "allowed" => Evaluate(s, FALSE) = "allowed"]_authorityVars

\* In every configuration the owner may reach: an approval lifts no denial, and
\* what goes ahead unasked is local by its risk and granted scope by scope
\* (policy-engine.ts).
AuthorityInv == ApprovalNeverLiftsDenial /\ UnaskedIsGranted
=============================================================================
