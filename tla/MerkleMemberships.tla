------------------------- MODULE MerkleMemberships -------------------------
(***************************************************************************)
(* The Merkle membership plugin and its prover, on top of TreeStorage.     *)
(* A client fetches the leaves of the trees it wants to prove membership   *)
(* in, builds one recursive proof for all of them, and sends it with the   *)
(* list of roots.  The plugin verifies the proof and then looks up one     *)
(* root after the other in one tree after the other; before every look but *)
(* at the first tree other steps may come in.  Later the application has   *)
(* the output checked, again and again.                                    *)
(*                                                                         *)
(* A leaf is the hash of a secret, and a secret is named by its leaf.      *)
(* Poseidon has no collisions, and a proof exists only for inputs that     *)
(* satisfy the circuit (o1js is external): a proof is its public output.   *)
(* during, lapsed and the field honest are there for the properties.       *)
(***************************************************************************)
EXTENDS TreeStorage, Sequences

CONSTANTS
    Order,    \* the trees in the order of the configuration
    Client,   \* clients, each with one session
    Knows,    \* Knows[c]: the leaves whose secrets client c knows
    Lists,    \* lists of [leafIndex, leaf] a client wants to prove
    Edits     \* leaves the embedder sets: [tree, index, leaf]

ASSUME MembershipAssumption ==
    /\ Order \in Seq(Tree) \ {<< >>} /\ Range(Order) = Tree
    /\ Knows \in [Client -> SUBSET Leaf]
    /\ Edits \subseteq [tree : Tree, index : Index, leaf : Leaf]
    /\ \A list \in Lists : list \in Seq([leafIndex : Index, leaf : Leaf]) \ {<< >>}
    /\ Leaf \cap [Index -> Leaf] = {}   \* no leaf is a root

VARIABLES
    ses,     \* what each client is at
    during,  \* history: roots that were current at some instant of its call
    lapsed   \* history: pairs of a tree and a root that the tree did not
             \* have at some instant of its call

memberVars == <<ses, during, lapsed>>
allVars == <<storageVars, memberVars>>

Idle == [at |-> "idle"]

CurrentRoots == IF Ready THEN {Root(mem[t]) : t \in Tree} ELSE {}
NotHeld == {x \in Tree \X [Index -> Leaf] : Root(mem[x[1]]) # x[2]}

-----------------------------------------------------------------------------
\* Mutant: the inputs of the hash are swapped after the first.
ExpectedHashSwapped(roots) ==
    LET h[k \in 1 .. Len(roots)] == IF k = 1 THEN roots[1] ELSE <<h[k - 1], roots[k]>>
    IN  h[Len(roots)]

\* computeExpectedHash: Poseidon.hash([x, acc]) along the list.
ExpectedHash(roots) ==
    LET h[k \in 1 .. Len(roots)] == IF k = 1 THEN roots[1] ELSE <<roots[k], h[k - 1]>>
    IN  h[Len(roots)]

\* baseCase: the root itself; inductiveCase: the root with the earlier output.
BaseCase(root) == root
InductiveCase(root, earlier) == <<root, earlier>>

RecursiveProof(roots) ==
    LET sp[k \in 1 .. Len(roots)] ==
          IF k = 1 THEN BaseCase(roots[1]) ELSE InductiveCase(roots[k], sp[k - 1])
    IN  sp[Len(roots)]

\* Mutant: the witness is not tied to the root.
CircuitHoldsAnyRoot(arg, leaves) == arg.leafIndex \in DOMAIN leaves

\* calculateRoot: the root of the fetched tree with the secret's leaf at the
\* index, which must be the root the proof is for.
CircuitHolds(arg, leaves) ==
    arg.treeRoot = [Root(leaves) EXCEPT ![arg.leafIndex] = arg.leaf]

-----------------------------------------------------------------------------
MemberInit ==
    /\ StorageInit
    /\ ses = [c \in Client |-> Idle]
    /\ during = [c \in Client |-> {}]
    /\ lapsed = [c \in Client |-> {}]

Goes(c, s) == ses' = [ses EXCEPT ![c] = s] /\ UNCHANGED <<storageVars, during, lapsed>>

\* GET /getTreeRoots, and the client picks what it proves.
Begin(c, list) ==
    /\ Ready /\ ses[c] = Idle
    /\ \A k \in DOMAIN list : list[k].leaf \in Knows[c]
    /\ \E roots \in [DOMAIN list -> CurrentRoots] :
         Goes(c, [at |-> "fetch", trees |-> << >>,
                  args |-> [k \in DOMAIN list |-> [treeRoot  |-> roots[k],
                                                   leafIndex |-> list[k].leafIndex,
                                                   leaf      |-> list[k].leaf]]])

\* GET /getLeaves/<root>, all of them at once and answered in any order.  The
\* tree had this root when it was looked up; its leaves are read after that,
\* and may have become others (any tree here: the circuit decides).
FetchTree(c, k) ==
    /\ Ready /\ ses[c].at = "fetch" /\ k \in DOMAIN ses[c].args \ DOMAIN ses[c].trees
    /\ \E t \in Tree :
         Goes(c, [ses[c] EXCEPT !.trees =
                    [j \in DOMAIN @ \cup {k} |-> IF j = k THEN mem[t] ELSE @[j]]])

\* 400 "tree with root ... missing", or no connection.
FetchFails(c) == ses[c].at = "fetch" /\ Goes(c, Idle)

\* baseCase and inductiveCase along the list.
Prove(c) ==
    LET args == ses[c].args
    IN  /\ ses[c].at = "fetch" /\ DOMAIN ses[c].trees = DOMAIN args
        /\ Goes(c, IF \A k \in DOMAIN args : CircuitHolds(args[k], ses[c].trees[k])
                   THEN [at   |-> "proved", args |-> args,
                         hash |-> RecursiveProof([k \in DOMAIN args |-> args[k].treeRoot])]
                   ELSE Idle)

\* A call begins.
Opens(c, s) ==
    /\ ses' = [ses EXCEPT ![c] = s]
    /\ during' = [during EXCEPT ![c] = CurrentRoots]
    /\ lapsed' = [lapsed EXCEPT ![c] = NotHeld]
    /\ UNCHANGED storageVars

\* The proof is sent with its list of roots, or with any other list: the
\* input decoder asks only that it is not empty.
Login(c, roots) ==
    /\ Ready /\ ses[c].at = "proved"
    /\ Opens(c, [at |-> "verify", roots |-> roots, hash |-> ses[c].hash,
                 honest |-> roots = [k \in DOMAIN ses[c].args |-> ses[c].args[k].treeRoot]])

\* The look for the k-th root of call s stands at the i-th tree, whose root is
\* got.  computeExpectedHash makes the tasks for all roots at once, and with
\* each of them reads the root of the first tree (first).
Look(s, k, i, got, first) ==
    [at |-> "look", roots |-> s.roots, hash |-> s.hash, honest |-> s.honest,
     k |-> k, i |-> i, got |-> got, first |-> first]

FirstLook(s) == Look(s, 1, 1, Root(mem[Order[1]]), Root(mem[Order[1]]))

\* verify resolves, or rejects; an output is checked without it.
Verified(c) == ses[c].at = "verify" /\ Goes(c, FirstLook(ses[c]))

VerifyFails(c) == ses[c].at = "verify" /\ Goes(c, Idle)

CheckOutput(c) ==
    /\ Ready /\ ses[c].at = "held"
    /\ Opens(c, FirstLook([roots  |-> ses[c].output.merkleRoots,
                           hash   |-> ses[c].output.recursiveHash,
                           honest |-> TRUE]))

Seeks(c) == ses[c].at = "look" /\ ses[c].k <= Len(ses[c].roots)
Sought(c) == ses[c].roots[ses[c].k]

\* Mutant: a root that is not found is passed over.
LookUpLenient(c) ==
    /\ Seeks(c)
    /\ Goes(c, Look(ses[c], ses[c].k + 1, 1, ses[c].first, ses[c].first))

\* findM: the tree has the root, and the next root is looked for.
LookUp(c) ==
    /\ Seeks(c) /\ ses[c].got = Sought(c)
    /\ Goes(c, Look(ses[c], ses[c].k + 1, 1, ses[c].first, ses[c].first))

\* It has not: the root of the next tree is read.
NextTree(c) ==
    /\ Seeks(c) /\ ses[c].got # Sought(c) /\ ses[c].i < Len(Order)
    /\ Goes(c, Look(ses[c], ses[c].k, ses[c].i + 1,
                    Root(mem[Order[ses[c].i + 1]]), ses[c].first))

\* Mutant: only the first root's absence is reported.
TreeMissingFirst(c) ==
    /\ Seeks(c) /\ ses[c].got # Sought(c) /\ ses[c].i = Len(Order) /\ ses[c].k = 1
    /\ Goes(c, Idle)

\* It was the last: tree_missing, an error for a proof, "invalid" for an output.
TreeMissing(c) ==
    /\ Seeks(c) /\ ses[c].got # Sought(c) /\ ses[c].i = Len(Order)
    /\ Goes(c, Idle)

\* All roots are there: the hash of the list decides.
CompareHash(c) ==
    /\ ses[c].at = "look" /\ ses[c].k = Len(ses[c].roots) + 1
    /\ Goes(c, IF ExpectedHash(ses[c].roots) = ses[c].hash
               THEN [at |-> "held", output |-> [merkleRoots   |-> ses[c].roots,
                                                recursiveHash |-> ses[c].hash]]
               ELSE Idle)

Calling(c) == ses[c].at \in {"verify", "look"}

\* The storage moves on under the clients; when its process ends, calls fail.
StorageMoves ==
    /\ StorageStep \/ \E e \in Edits : SetLeaf(e.tree, e.index, e.leaf)
    /\ ses' = [c \in Client |-> IF Ready /\ ~ Ready' /\ (Calling(c) \/ ses[c].at = "fetch")
                                THEN Idle ELSE ses[c]]
    /\ during' = [c \in Client |-> IF Calling(c) THEN during[c] \cup CurrentRoots' ELSE during[c]]
    /\ lapsed' = [c \in Client |-> IF Calling(c) THEN lapsed[c] \cup NotHeld' ELSE lapsed[c]]

\* Lists made of the roots the client has proved for and of any others it can
\* fetch, at most one longer than its own.
Presentable(args) ==
    UNION {[1 .. n -> {args[k].treeRoot : k \in DOMAIN args} \cup CurrentRoots]
             : n \in 1 .. Len(args) + 1}

\* What the server does by itself once the proof is verified.
Looks(c) == LookUp(c) \/ NextTree(c) \/ TreeMissing(c) \/ CompareHash(c)

ClientStep(c) ==
    \/ \E list \in Lists : Begin(c, list)
    \/ ses[c].at = "fetch" /\ \E k \in DOMAIN ses[c].args : FetchTree(c, k)
    \/ FetchFails(c)
    \/ Prove(c)
    \/ ses[c].at = "proved" /\ \E roots \in Presentable(ses[c].args) : Login(c, roots)
    \/ Verified(c) \/ VerifyFails(c) \/ CheckOutput(c) \/ Looks(c)

MemberNext == StorageMoves \/ \E c \in Client : ClientStep(c)

\* The server goes on with its search.  Nothing is asked of the verifier: the
\* prover's comment says that it hangs with the key of a circuit compiled from
\* a cache, and the plugin compiles with the default cache.
MemberSpec ==
    /\ MemberInit /\ [][MemberNext]_allVars
    /\ \A c \in Client : WF_allVars(Looks(c))

-----------------------------------------------------------------------------
(* Properties *)

\* An output that was handed out proves memberships: whatever list of roots
\* was sent beside the proof, in whatever order, every root in the output
\* commits to a leaf whose secret the client knows.
MembershipsAreProved ==
    \A c \in Client : ses[c].at = "held" =>
        \A root \in Range(ses[c].output.merkleRoots) :
            \E i \in Index : root[i] \in Knows[c]

\* Every root of an output was the root of a configured tree at some instant
\* of the call that accepted it last, though the roots are looked up one
\* after the other while leaves change and processes restart.
OutputsWereCurrent ==
    \A c \in Client : ses[c].at = "held" =>
        Range(ses[c].output.merkleRoots) \subseteq during[c]

\* The plugin refuses the list that was proved, or an output it has handed out,
\* only over a root that no tree kept throughout the call: each tree, at some
\* instant of it, did not have the root.  (Another tree may have had it at
\* that instant: a root that moves from tree to tree may be missed.)
RefusalsAreDue ==
    [][\A c \in Client :
         ses[c].at = "look" /\ ses'[c].at = "idle" /\ Ready' /\ ses[c].honest =>
           \E root \in Range(ses[c].roots) : \A t \in Tree : <<t, root>> \in lapsed[c]]_allVars

\* Once the proof is verified the search ends, accepted, refused or cut off by
\* the end of the process, whatever becomes of the trees meanwhile.
SearchesEnd == \A c \in Client : ses[c].at = "look" ~> ses[c].at # "look"
=============================================================================
