--------------------------- MODULE SimplePreimage ---------------------------
(***************************************************************************)
(* The simple preimage plugin: a table from hashes to role names; who      *)
(* proves knowledge of a preimage of a hash gets the role it has there.    *)
(* The table is replaced whole by POST /admin/roles, at any time, and is   *)
(* kept in memory only.                                                    *)
(*                                                                         *)
(* The actions are those of one instance p of the plugin, which works on   *)
(* one call at a time here: calls share the table only, which they read at *)
(* once.  A proof is a record of the hash it is for and of whether it      *)
(* verifies (the circuit is external); "want" is what a check is about.    *)
(***************************************************************************)
EXTENDS FiniteSets

CONSTANTS
    Instance,   \* names of the instances of the plugin
    Hash,       \* hashes
    RoleName,   \* names of roles
    Table       \* the tables an administrator may write

Proof == [hash : Hash, sound : BOOLEAN]
ProvedRole == [provedHash : Hash, role : RoleName]

ASSUME TableAssumption == \A t \in Table : DOMAIN t \subseteq Hash /\ \A h \in DOMAIN t : t[h] \in RoleName

VARIABLES
    roles,   \* the table of each instance
    job      \* the call each instance works on

preimageVars == <<roles, job>>

NoJob == [at |-> "idle"]

\* What the client side of a proof does: baseCase asserts that the secret
\* hashes to the public input, so an honest prover's proof verifies.
ProofFor(h) == [hash |-> h, sound |-> TRUE]

-----------------------------------------------------------------------------
PreimageInit ==
    /\ roles = [p \in Instance |-> << >>]
    /\ job = [p \in Instance |-> NoJob]

\* Mutant: the instances share one table.
InitializeShared(p, table) == roles' = [q \in Instance |-> table]

\* initialize: the table of the configuration, or of the file it names.
Initialize(p, table) == roles' = [roles EXCEPT ![p] = table]

\* A call comes in.
CallVerify(p, proof) ==
    /\ job[p] = NoJob
    /\ job' = [job EXCEPT ![p] = [at |-> "find", proof |-> proof]]
    /\ UNCHANGED roles

CallCheck(p, out) ==
    /\ job[p] = NoJob
    /\ job' = [job EXCEPT ![p] = [at |-> "check", want |-> out]]
    /\ UNCHANGED roles

Refused == [at |-> "done", ok |-> FALSE]
Provides(out) == [at |-> "done", ok |-> TRUE, output |-> out]

\* verifyAndGetOutput up to its await: the role is read before the proof is
\* verified.
FindRole(p) ==
    /\ job[p].at = "find"
    /\ LET h == job[p].proof.hash
       IN  job' = [job EXCEPT ![p] =
               IF h \notin DOMAIN roles[p] THEN Refused
               ELSE [at |-> "verify", sound |-> job[p].proof.sound,
                     output |-> [provedHash |-> h, role |-> roles[p][h]]]]
    /\ UNCHANGED roles

\* verify has resolved.
VerifyProgram(p) ==
    /\ job[p].at = "verify"
    /\ job' = [job EXCEPT ![p] =
           IF job[p].sound THEN Provides(job[p].output) ELSE Refused]
    /\ UNCHANGED roles

\* Mutant: a hash that has any role now will do.
StillAdmitsHash(p, out) == out.provedHash \in DOMAIN roles[p]

\* Mutant: hash and role swapped.
StillAdmitsSwapped(p, out) == out.role \in DOMAIN roles[p]

StillAdmits(p, out) ==
    /\ out.provedHash \in DOMAIN roles[p]
    /\ roles[p][out.provedHash] = out.role

CheckOutputValidity(p) ==
    /\ job[p].at = "check"
    /\ job' = [job EXCEPT ![p] =
           IF StillAdmits(p, job[p].want) THEN Provides(job[p].want) ELSE Refused]
    /\ UNCHANGED roles

\* POST /admin/roles.  A body that is no table gets 400 and changes nothing.
SetRoles(p, table) ==
    /\ roles' = [roles EXCEPT ![p] = table]
    /\ UNCHANGED job

Work(p) == FindRole(p) \/ VerifyProgram(p) \/ CheckOutputValidity(p)
=============================================================================
