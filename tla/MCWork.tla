------------------------------- MODULE MCWork -------------------------------
(* The work of subagents, and what accompanies work without sharing state     *)
(* with it: what the owner lets it do, the two records of the Main Agent's    *)
(* turn it came from, and the memory that is mined from it afterwards.  A     *)
(* behaviour exercises one of them; the others rest in an initial state.      *)
EXTENDS SubagentDispatch, MemoryMining, Authority, TurnAudit

VARIABLE focus

all == <<focus, vars, miningVars, authorityVars, auditVars>>

WorkInit ==
  /\ focus \in {"subagents", "mining", "authority", "turn"}
  /\ focus = "subagents" \/ dependsOn = [o \in Orders |-> {}]
  /\ Init
  /\ MiningInit /\ AuthorityInit /\ AuditInit

WorkNext ==
  /\ UNCHANGED focus
  /\ \/ focus = "subagents" /\ Next /\ UNCHANGED <<miningVars, authorityVars, auditVars>>
     \/ focus = "mining" /\ MiningNext /\ UNCHANGED <<vars, authorityVars, auditVars>>
     \/ focus = "authority" /\ AuthorityNext /\ UNCHANGED <<vars, miningVars, auditVars>>
     \/ focus = "turn" /\ AuditNext /\ UNCHANGED <<vars, miningVars, authorityVars>>

\* The event loop runs what can run and every stream ends; every maintenance
\* tick drains the queue, and so does the command that executes a run.
WorkSpec ==
  /\ WorkInit /\ [][WorkNext]_all
  /\ WF_vars(focus = "subagents" /\ ExecutorStep)
  /\ \A o \in Orders : WF_vars(focus = "subagents" /\ TaskStep(o))
  /\ WF_miningVars(focus = "mining" /\ Maintain)
  /\ WF_miningVars(focus = "mining" /\ Mine(Foreground))

-----------------------------------------------------------------------------
(* Authority: a workspace in the owner's home, notes beside it, and keys that *)
(* no policy opens; a program, and a command that runs it.                    *)
SomeWithin ==
  {<<"git", "git push">>, <<"work", "work">>, <<"work", "notes">>, <<"notes", "notes">>, <<"keys", "keys">>}
  \cup {<<"home", place>> : place \in {"home", "work", "notes", "keys"}}
Policy(scopes, ceiling) == [scopes |-> scopes, ceiling |-> ceiling]
SomePolicies ==
  {Policy({Scope("files", "work", "write")}, ceiling) : ceiling \in {"observe", "act_auto"}}
  \cup {Policy({Scope("files", "home", "read")}, "prepare"),
        Policy({Scope("shell", "git", "exec"), Scope("mail", "*", "write")}, "act_auto")}
SomeSteps ==
  [risk : {"reversible_write", "external_side_effect"},
   scopes : {{}, {Scope("files", "notes", "write")}, {Scope("files", "notes", "read")},
             {Scope("files", "keys", "read")}, {Scope("mail", "*", "write")},
             {Scope("shell", "git push", "exec"), Scope("files", "work", "read")}}]

\* Whatever fails: every task settles and releases the workspace, and every run
\* and exchange that can be mined is, also behind one that cannot.
WorkSettles == EveryTaskSettles /\ JobsAreMined
=============================================================================
