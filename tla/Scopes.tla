------------------------------- MODULE Scopes -------------------------------
(* The vocabulary of authority (authority/scope.ts, authority/path-gateway.ts).*)
(* A place of the file system stands for its canonical path; a command may    *)
(* name a program or a program with its arguments.                            *)
EXTENDS Naturals, Sequences, FiniteSets

CONSTANTS
  Within,      \* <<root, place>>: the place is the root or lies inside it, or
               \* the command is that one with arguments
  Protected,   \* places no policy opens: credentials, the journal
  TooBroad,    \* the root of the file system and the owner's home
  Workspace

Enforced == {"files", "shell", "network"}
Ladder == <<"observe", "prepare", "act_with_approval", "act_auto">>
AutonomyRank(level) == CHOOSE i \in DOMAIN Ladder : Ladder[i] = level
MinAutonomy(a, b) == IF AutonomyRank(a) <= AutonomyRank(b) THEN a ELSE b
Levels == {Ladder[i] : i \in DOMAIN Ladder}

Scope(domain, resource, access) == [domain |-> domain, resource |-> resource, access |-> access]

\* Write implies read; exec implies neither.
AccessCovers(granted, wanted) == granted = wanted \/ (granted = "write" /\ wanted = "read")

ScopeCovers(grant, wanted) ==
  /\ grant.domain = wanted.domain /\ AccessCovers(grant.access, wanted.access)
  /\ \/ grant.domain # "files" /\ grant.resource \in {"*", wanted.resource}
     \/ grant.domain \in {"files", "shell"} /\ <<grant.resource, wanted.resource>> \in Within

Forbidden(place) == \E root \in Protected : <<root, place>> \in Within

\* resolveGrants: what a worker may touch, of the scopes of its step.
Grants(scopes) ==
  LET files == {s \in scopes : s.domain = "files" /\ ~Forbidden(s.resource) /\ s.resource \notin TooBroad} IN
  [roots |-> {Workspace} \cup {s.resource : s \in files},
   network |-> \E s \in scopes : s.domain = "network"]
=============================================================================
