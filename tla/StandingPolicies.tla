-------------------------- MODULE StandingPolicies --------------------------
(***************************************************************************)
(* The owner's authority file, standing-policy-store.ts: the store of the  *)
(* daemon, which the policy engine asks before every step, and the one a   *)
(* command of the CLI opens for a single change.  Both replace the whole   *)
(* file, and neither locks it.                                             *)
(*                                                                         *)
(* A configuration says which domain acts on its own (one domain here) and *)
(* what became of every policy.  The stamp of the file is its mtime, which *)
(* two writes are assumed not to share.                                    *)
(***************************************************************************)
EXTENDS Integers, Sequences

CONSTANTS
  Policies,
  MaxChanges,  \* bound of the changes the owner asks for
  MaxReloads   \* bound of the daemon's restarts

ASSUME StandingPoliciesConstants == MaxChanges \in Nat /\ MaxReloads \in Nat

Stores == {"daemon", "cli"}

AuthorityConfig ==
  [auto : BOOLEAN, policies : [Policies -> {"absent", "active", "revoked"}]]

EmptyAuthority == [auto |-> FALSE, policies |-> [p \in Policies |-> "absent"]]

VARIABLES
  file,     \* [content, stamp]
  store,    \* per store, [at, config, mtime, writes]
  onDisk,   \* every configuration the file ever held
  asked,    \* how many changes the owner asked for
  reloads

policyVars == <<file, store, onDisk, asked, reloads>>

Closed == [at |-> "closed", config |-> EmptyAuthority, mtime |-> -1, writes |-> <<>>]

StandingPoliciesInit ==
  /\ file = [content |-> EmptyAuthority, stamp |-> 0]
  /\ store = [s \in Stores |-> Closed]
  /\ onDisk = {EmptyAuthority}
  /\ asked = 0 /\ reloads = 0

Open(s) == store[s].at \in {"open", "adopting"}
-----------------------------------------------------------------------------
(* load reads the file, and its time after that.                           *)

readPolicies(s) ==
  /\ store[s].at = "closed"
  /\ store' = [store EXCEPT ![s].at = "read", ![s].config = file.content]
  /\ UNCHANGED <<file, onDisk, asked, reloads>>

statPolicies(s) ==
  /\ store[s].at = "read"
  /\ store' = [store EXCEPT ![s].at = "open", ![s].mtime = file.stamp]
  /\ UNCHANGED <<file, onDisk, asked, reloads>>

\* snapshot, the read of every policy decision.
snapshot ==
  /\ Open("daemon") /\ store["daemon"].mtime # file.stamp
  /\ store' = [store EXCEPT !["daemon"].config = file.content,
                            !["daemon"].mtime = file.stamp]
  /\ UNCHANGED <<file, onDisk, asked, reloads>>
-----------------------------------------------------------------------------
(* A change: the new configuration is computed from the one the store has, *)
(* and queued behind its writes under way.                                 *)

\* A command of the CLI makes one change.
Changes(s, next) ==
  /\ Open(s) /\ asked < MaxChanges
  /\ s = "cli" => store[s].writes = <<>>
  /\ asked' = asked + 1
  /\ store' = [store EXCEPT ![s].writes = Append(@, next)]
  /\ UNCHANGED <<file, onDisk, reloads>>

setDomainLevel(s) ==
  \E level \in BOOLEAN :
    Changes(s, [store[s].config EXCEPT !.auto = level])

addPolicy(s, p) ==
  /\ \A t \in Stores : store[t].config.policies[p] = "absent"
  /\ \A c \in onDisk : c.policies[p] = "absent"
  /\ Changes(s, [store[s].config EXCEPT !.policies[p] = "active"])

\* The record stays: only its revocation is noted.
revokePolicy(s, p) ==
  /\ store[s].config.policies[p] = "active"
  /\ Changes(s, [store[s].config EXCEPT !.policies[p] = "revoked"])

Replaces(s) ==
  /\ file' = [content |-> Head(store[s].writes), stamp |-> file.stamp + 1]
  /\ onDisk' = onDisk \cup {Head(store[s].writes)}

Refused(s) ==
  IF s = "cli" THEN store' = [store EXCEPT ![s] = Closed]
  ELSE store' = [store EXCEPT ![s].writes = Tail(@)]

\* Mutant of persist: the configuration is in force before it is written.
persistFirst(s) ==
  /\ store[s].at = "open" /\ store[s].writes # <<>>
  /\ \/ /\ Replaces(s)
        /\ store' = [store EXCEPT ![s].at = "adopting",
                                  ![s].config = Head(store[s].writes)]
     \/ /\ store' = [store EXCEPT ![s].writes = Tail(@),
                                  ![s].config = Head(store[s].writes)]
        /\ UNCHANGED <<file, onDisk>>
  /\ UNCHANGED <<asked, reloads>>

\* persist, up to the rename; or the disk refuses it.
persist(s) ==
  /\ store[s].at = "open" /\ store[s].writes # <<>>
  /\ \/ Replaces(s) /\ store' = [store EXCEPT ![s].at = "adopting"]
     \/ Refused(s) /\ UNCHANGED <<file, onDisk>>
  /\ UNCHANGED <<asked, reloads>>

\* The written configuration is the store's, with the time the file has now;
\* the change is journaled and the owner told of it.  The command ends.
adopt(s) ==
  /\ store[s].at = "adopting"
  /\ store' = [store EXCEPT ![s] =
       IF s = "cli" THEN Closed
       ELSE [at |-> "open", config |-> Head(@.writes), mtime |-> file.stamp, writes |-> Tail(@.writes)]]
  /\ UNCHANGED <<file, onDisk, asked, reloads>>

\* The daemon stops, between any two steps, and is started again.
reload ==
  /\ Open("daemon") /\ reloads < MaxReloads
  /\ reloads' = reloads + 1
  /\ store' = [store EXCEPT !["daemon"] = Closed]
  /\ UNCHANGED <<file, onDisk, asked>>

StandingPoliciesNext ==
  \/ snapshot \/ reload
  \/ \E s \in Stores :
       \/ readPolicies(s) \/ statPolicies(s) \/ setDomainLevel(s)
       \/ \E p \in Policies : addPolicy(s, p) \/ revokePolicy(s, p)
       \/ persist(s) \/ adopt(s)

StandingPoliciesSpec == StandingPoliciesInit /\ [][StandingPoliciesNext]_policyVars

-----------------------------------------------------------------------------
StandingPoliciesTypeOK ==
  /\ file \in [content : AuthorityConfig, stamp : Nat]
  /\ \A s \in Stores :
       /\ store[s].at \in {"closed", "read", "open", "adopting"}
       /\ store[s].config \in AuthorityConfig /\ store[s].mtime \in Nat \cup {-1}
       /\ \A i \in DOMAIN store[s].writes : store[s].writes[i] \in AuthorityConfig
  /\ onDisk \subseteq AuthorityConfig
  /\ asked \in 0..MaxChanges /\ reloads \in 0..MaxReloads

\* Steps are judged by what the owner's file holds or held: a change that
\* never reached the disk confers nothing, whatever was queued or refused.
ViewWasOnDisk == \A s \in Stores : store[s].config \in onDisk

\* Steps are judged by a configuration that is or was on the disk, whatever was
\* queued, refused or reloaded by either store (standing-policy-store.ts).
StandingPoliciesInv == StandingPoliciesTypeOK /\ ViewWasOnDisk
=============================================================================
