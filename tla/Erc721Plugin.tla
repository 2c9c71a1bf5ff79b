---------------------------- MODULE Erc721Plugin ----------------------------
(***************************************************************************)
(* Erc721TimelockPlugin and Erc721TimelockProver on top of the contract.   *)
(* Both read the contract's events with two queries, one after the other,  *)
(* and other transactions may come between any two of them.                *)
(*                                                                         *)
(* A session belongs to whoever knows the secret behind one commitment, so *)
(* it is named by that commitment.  The zero-knowledge proof is external:  *)
(* proveMembership succeeds for a commitment that is a leaf of the tree,   *)
(* and a proof is for the root of that tree.  held is there for the        *)
(* properties.                                                             *)
(***************************************************************************)
EXTENDS Erc721TimeLock

CONSTANTS
    Capacity,  \* number of leaves of a tree, 2^(TREE_HEIGHT - 1)
    Known      \* commitments whose secrets are used to log in

ASSUME CapacityAssumption == Capacity \in Nat \ {0} /\ Known \subseteq Hash

VARIABLES
    pc,    \* where each session stands
    seen,  \* number of events the first of the two queries saw
    root,  \* root of the session's proof and, once granted, of its output
    held   \* history: sessions whose commitment had a token locked behind it
           \* at some instant of their call that is under way

session == <<pc, seen, root>>
vars == <<chain, session, held>>

\* A session is "idle"; builds a proof ("fetch") and has one ("proved"); sends
\* it ("verify") and, its root being the root now, has it verified ("zkp");
\* has an output ("granted"); has that checked again ("check").  A proof that
\* was refused may be sent again.
NoRoot == << >>

Init == /\ ChainInit
        /\ pc = [h \in Known |-> "idle"]
        /\ seen = [h \in Known |-> 0]
        /\ root = [h \in Known |-> NoRoot]
        /\ held = {}

BackedNow == {h \in Known : Backed(h)}

\* The query for TokenLocked, the first half of fetchEligibleCommitments.
QueryLocked(h, from, to) ==
    /\ pc[h] = from
    /\ pc' = [pc EXCEPT ![h] = to]
    /\ seen' = [seen EXCEPT ![h] = Len(log)]
    /\ held' = held \cup ({h} \cap BackedNow)
    /\ UNCHANGED <<chain, root>>

\* The tree after the query for TokenUnlocked; more leaves than the tree has
\* room for make merkleTree.fill throw.
Tree(h) == CommitmentTree(seen[h], Len(log))
Fits(tree) == Cardinality(DOMAIN tree) <= Capacity

\* A call ends: the session goes on at "to" with root r.
Return(h, to, r) ==
    /\ pc' = [pc EXCEPT ![h] = to]
    /\ root' = [root EXCEPT ![h] = r]
    /\ seen' = [seen EXCEPT ![h] = 0]
    /\ held' = held \ {h}
    /\ UNCHANGED chain

\* The call failed: no proof, or an output taken for invalid.
GiveUp(h) == Return(h, "idle", NoRoot)

\* A new proof takes the place of one at hand.
FetchPublicInputs(h) == \E from \in {"idle", "proved"} : QueryLocked(h, from, "fetch")

\* getWitness, then the proof.
Prove(h) ==
    /\ pc[h] = "fetch"
    /\ IF Fits(Tree(h)) /\ h \in DOMAIN Tree(h)
       THEN Return(h, "proved", Tree(h))
       ELSE GiveUp(h)

SubmitProof(h) == QueryLocked(h, "proved", "verify")

\* Both questions of the plugin come down to one comparison.
RootIsCurrent(h) == Fits(Tree(h)) /\ root[h] = Tree(h)

\* verifyAndGetOutput after the second query: the proof's root is the root
\* now, and it is verified; or the call throws.
CompareRoot(h) ==
    /\ pc[h] = "verify" /\ RootIsCurrent(h)
    /\ pc' = [pc EXCEPT ![h] = "zkp"]
    /\ UNCHANGED <<chain, seen, root, held>>

InvalidRoot(h) == pc[h] = "verify" /\ ~ RootIsCurrent(h) /\ Return(h, "proved", root[h])

\* verify resolves, or throws: the events are not read again.
VerifyAndGetOutput(h) ==
    /\ pc[h] = "zkp"
    /\ \E to \in {"granted", "proved"} : Return(h, to, root[h])

AskValidity(h) == QueryLocked(h, "granted", "check")

\* checkOutputValidity: the output's root is the root now.
CheckOutputValidity(h) ==
    /\ pc[h] = "check"
    /\ IF RootIsCurrent(h) THEN Return(h, "granted", root[h]) ELSE GiveUp(h)

\* The JSON RPC provider does not answer the query.
ProviderFails(h) ==
    \/ pc[h] \in {"fetch", "check"} /\ GiveUp(h)
    \/ pc[h] = "verify" /\ Return(h, "proved", root[h])

SessionNext(h) ==
    \/ FetchPublicInputs(h) \/ Prove(h) \/ SubmitProof(h)
    \/ CompareRoot(h) \/ InvalidRoot(h) \/ VerifyAndGetOutput(h)
    \/ AskValidity(h) \/ CheckOutputValidity(h) \/ ProviderFails(h)

\* Transactions are mined at any time, and under the calls.
InCall(h) == pc[h] \in {"fetch", "verify", "zkp", "check"}

Mine ==
    /\ ChainNext
    /\ held' = held \cup {h \in Known : InCall(h) /\ h \in BackedNow'}
    /\ UNCHANGED session

Next == Mine \/ \E h \in Known : SessionNext(h)

Spec == Init /\ [][Next]_vars

-----------------------------------------------------------------------------
(* Properties *)

\* The plugin gives an output, and confirms it later, only if a token was
\* locked behind the commitment the proof is for at an instant of that very
\* call, whatever was unlocked or locked again since the proof was made and
\* between the queries.  When the output is given it need not be locked any
\* more: the proof is verified after the queries.
OutputsAreBacked ==
    [][\A h \in Known : pc[h] \in {"zkp", "check"} /\ pc'[h] = "granted" => h \in held]_vars
=============================================================================
