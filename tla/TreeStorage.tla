---------------------------- MODULE TreeStorage ----------------------------
(***************************************************************************)
(* Where the Merkle membership plugin keeps its trees: the leaves in       *)
(* memory, and a file per tree they are written to.                        *)
(*                                                                         *)
(* A tree is the function from its occupied indexes to leaves, and a root  *)
(* is what it commits to: the leaves of all indexes, Zero where none is    *)
(* set.  A file is reduced to the leaves its text begins with, the length  *)
(* of the text, and whether it still parses: FileHandle.write replaces the *)
(* beginning of the file and never truncates it.  No start of a process    *)
(* gives up half way here: when one tree fails, the process ends.          *)
(*                                                                         *)
(* A tree with a contract key, when there is a fee payer key too, is to    *)
(* have its root in a contract on the Mina blockchain.  It never gets that *)
(* far.  If the contract's account is there, it is deployed once more,     *)
(* which the network refuses; if not, its root is fetched with a method    *)
(* handed over without its object, which throws.  And a transaction that   *)
(* is sent counts as failed in any case: mkTx resolves to undefined, which *)
(* fromFailablePromise takes for an error.  So the start of such a tree    *)
(* ends with a failure after the first write to its file, the chain stays  *)
(* as it is, and no program ever reads it.                                 *)
(*                                                                         *)
(* setLeaf and persist are public methods of the storage.  Nothing in the  *)
(* repository calls the one, and the other is called at a start only: it   *)
(* is whoever embeds the storage that calls them, at any time.  careless   *)
(* and saved are there for the properties.                                 *)
(***************************************************************************)
EXTENDS FiniteSets, Functions, Naturals

CONSTANTS
    Tree,           \* configured trees
    Index,          \* indexes of leaves
    Leaf,           \* values of leaves
    Zero,           \* the value of an empty leaf
    Width,          \* Width[l]: characters the entry of leaf l takes in the file
    InitialLeaves,  \* leaves of a tree whose file is empty
    Keys,           \* sets of trees that may have been given a contract key
    MaxWrites       \* bound on the writes of a file under way

TreeLeaves == UNION {[D -> Leaf] : D \in SUBSET Index}

ASSUME StorageAssumption ==
    /\ Zero \in Leaf
    /\ Width \in [Leaf -> Nat \ {0}]
    /\ InitialLeaves \in TreeLeaves
    /\ Keys \subseteq SUBSET Tree
    /\ MaxWrites \in Nat \ {0}

VARIABLES
    mem,      \* the leaves in memory, by tree
    file,     \* the file of each tree
    keyed,    \* trees with a contract key, when there is a fee payer key
    stage,    \* of the start of each tree: "down", "read", "ready"
    writes,   \* leaves on their way to the file, by tree
    careless, \* history: trees whose text got shorter or whose writes overlapped
    saved     \* history: the indexes whose leaves ever reached the file, by tree

storageVars == <<mem, file, keyed, stage, writes, careless, saved>>

Root(m) == [i \in Index |-> IF i \in DOMAIN m THEN m[i] ELSE Zero]

\* The length of JSON.stringify(storageObj).
TextSize(m) ==
    IF DOMAIN m = {} THEN 2 ELSE 1 + FoldFunction(+, 0, [i \in DOMAIN m |-> Width[m[i]]])

EmptyFile == [leaves |-> << >>, size |-> 0, ok |-> TRUE]

\* The text of m over that of f: a longer one shows behind it.
Write(f, m) ==
    [leaves |-> m,
     size   |-> IF TextSize(m) >= f.size THEN TextSize(m) ELSE f.size,
     ok     |-> TextSize(m) >= f.size]

-----------------------------------------------------------------------------
StorageInit ==
    /\ mem = [t \in Tree |-> << >>]
    /\ file = [t \in Tree |-> EmptyFile]
    /\ keyed \in Keys
    /\ stage = [t \in Tree |-> "down"]
    /\ writes = [t \in Tree |-> {}]
    /\ careless = {}
    /\ saved = [t \in Tree |-> {}]

\* The process ends: trees are started together (traverseArray), and the Left
\* or the rejection of one fails them all.  Writes under way may be lost.
AllDown ==
    /\ mem' = [t \in Tree |-> << >>]
    /\ stage' = [t \in Tree |-> "down"]
    /\ writes' = [t \in Tree |-> {}]
    /\ UNCHANGED <<file, keyed, careless, saved>>

\* The leaves a file stands for.
Content(f) == IF f = EmptyFile THEN InitialLeaves ELSE f.leaves

\* persist: the text is made at once and written later.
StartWrite(t, m) ==
    /\ Cardinality(writes[t]) < MaxWrites
    /\ writes' = [writes EXCEPT ![t] = @ \cup {m}]
    /\ careless' = IF writes[t] = {} /\ TextSize(m) >= file[t].size
                   THEN careless ELSE careless \cup {t}

\* PersistentInMemoryStorage.initialize up to the write it ends with.
Read(t) ==
    /\ stage[t] = "down" /\ file[t].ok
    /\ mem' = [mem EXCEPT ![t] = Content(file[t])]
    /\ stage' = [stage EXCEPT ![t] = "read"]
    /\ StartWrite(t, Content(file[t]))
    /\ UNCHANGED <<file, keyed, saved>>

\* JSON.parse throws.
ReadFails(t) ==
    /\ stage[t] = "down" /\ ~ file[t].ok
    /\ AllDown

\* A write arrives; writes under way together arrive in any order.
Written(t, m) ==
    /\ m \in writes[t]
    /\ writes' = [writes EXCEPT ![t] = @ \ {m}]
    /\ file' = [file EXCEPT ![t] = Write(@, m)]
    /\ saved' = [saved EXCEPT ![t] = @ \cup DOMAIN m]
    /\ UNCHANGED <<mem, keyed, stage, careless>>

\* The first write has been waited for.
Opened(t) ==
    /\ stage[t] = "read" /\ writes[t] = {} /\ t \notin keyed
    /\ stage' = [stage EXCEPT ![t] = "ready"]
    /\ UNCHANGED <<mem, file, keyed, writes, careless, saved>>

\* The contract can be neither deployed nor asked for its root.
ContractFails(t) ==
    /\ stage[t] = "read" /\ writes[t] = {} /\ t \in keyed
    /\ AllDown

Ready == \A t \in Tree : stage[t] = "ready"

\* Mutant: the set of occupied indexes is made anew.
SetLeafForgets(t, i, l) ==
    /\ Ready
    /\ mem' = [mem EXCEPT ![t] = [j \in {i} |-> l]]
    /\ UNCHANGED <<file, keyed, stage, writes, careless, saved>>

SetLeaf(t, i, l) ==
    /\ Ready
    /\ mem' = [mem EXCEPT ![t] = [j \in DOMAIN @ \cup {i} |-> IF j = i THEN l ELSE @[j]]]
    /\ UNCHANGED <<file, keyed, stage, writes, careless, saved>>

Persist(t) ==
    /\ Ready /\ StartWrite(t, mem[t])
    /\ UNCHANGED <<mem, file, keyed, stage, saved>>

StorageEnds == (\E t \in Tree : stage[t] # "down") /\ AllDown

StorageStep ==
    \/ StorageEnds
    \/ \E t \in Tree :
         \/ Read(t) \/ ReadFails(t) \/ Opened(t) \/ ContractFails(t)
         \/ Persist(t) \/ \E m \in writes[t] : Written(t, m)

StorageNext ==
    \/ StorageStep
    \/ \E t \in Tree, i \in Index, l \in Leaf : SetLeaf(t, i, l)

StorageSpec == StorageInit /\ [][StorageNext]_storageVars

-----------------------------------------------------------------------------
(* Properties *)

\* A tree whose text never gets shorter than what is in the file and whose
\* writes are made one at a time never forgets that an index is occupied once
\* it reached its file, across any number of restarts, of starts that fail and
\* of writes lost in them.
PersistedLeavesStay ==
    \A t \in Tree \ careless :
        stage[t] # "down" => saved[t] \subseteq DOMAIN mem[t]

\* The comment on persist: "Write current state of the storage to the file."
\* Once no write is on its way, the file is the text of a state.
FilesHoldAState ==
    \A t \in Tree : stage[t] = "ready" /\ writes[t] = {} => file[t].ok
=============================================================================
