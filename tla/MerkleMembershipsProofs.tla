------------------------ MODULE MerkleMembershipsProofs ------------------------
(***************************************************************************)
(* Proofs about the storage of trees and about the Merkle membership       *)
(* plugin, for any trees, indexes, leaves, clients and lists, any number   *)
(* of writes under way, and any trees that have a contract key.            *)
(***************************************************************************)
EXTENDS MerkleMemberships, WellFoundedInduction, TLAPS

-----------------------------------------------------------------------------
(* The storage *)

AllRoots == [Index -> Leaf]

IsTreeMap(f) == f = [t \in Tree |-> f[t]]

StorageTypes ==
    /\ mem \in [Tree -> TreeLeaves]
    /\ IsTreeMap(file) /\ \A t \in Tree : file[t].leaves \in TreeLeaves
    /\ keyed \in Keys
    /\ stage \in [Tree -> {"down", "read", "ready"}]
    /\ writes \in [Tree -> SUBSET TreeLeaves]
    /\ saved \in [Tree -> SUBSET Index]

\* A file that was treated with care parses, and has at most one write on its
\* way, which covers it.
OpenInv(t) ==
    t \notin careless =>
        /\ file[t].ok
        /\ writes[t] = {} \/ \E m : writes[t] = {m} /\ TextSize(m) >= file[t].size

\* What ever reached it is in the file, in what is on its way there, and in
\* memory.
SavedInv(t) ==
    /\ t \notin careless =>
         /\ saved[t] \subseteq DOMAIN file[t].leaves
         /\ \A m \in writes[t] : saved[t] \subseteq DOMAIN m
    /\ stage[t] # "down" =>
         /\ DOMAIN file[t].leaves \subseteq DOMAIN mem[t]
         /\ \A m \in writes[t] : DOMAIN m \subseteq DOMAIN mem[t]
    /\ stage[t] = "down" => writes[t] = {}

\* A tree with a contract key never gets ready.
KeyInv == \A t \in keyed : stage[t] # "ready"

StorageInv ==
    /\ StorageTypes
    /\ \A t \in Tree : OpenInv(t) /\ SavedInv(t)
    /\ KeyInv


\* A tree is an empty one, or has one more leaf.
LEMMA EmptyTree == << >> \in TreeLeaves
  <1>1. << >> \in [{} -> Leaf]
    OBVIOUS
  <1>2. QED
    BY <1>1 DEF TreeLeaves

LEMMA SetLeafTyped ==
    ASSUME NEW m \in TreeLeaves, NEW i \in Index, NEW l \in Leaf
    PROVE  /\ [j \in DOMAIN m \cup {i} |-> IF j = i THEN l ELSE m[j]] \in TreeLeaves
           /\ DOMAIN m \subseteq Index
  <1>1. PICK D \in SUBSET Index : m \in [D -> Leaf]
    BY DEF TreeLeaves
  <1>2. [j \in DOMAIN m \cup {i} |-> IF j = i THEN l ELSE m[j]] \in [D \cup {i} -> Leaf]
    BY <1>1
  <1>3. D \cup {i} \in SUBSET Index
    OBVIOUS
  <1>4. QED
    BY <1>1, <1>2, <1>3 DEF TreeLeaves

LEMMA LeavesParts ==
    ASSUME NEW m \in TreeLeaves
    PROVE  DOMAIN m \subseteq Index /\ Root(m) \in AllRoots
  <1>1. PICK D \in SUBSET Index : m \in [D -> Leaf]
    BY DEF TreeLeaves
  <1>2. QED
    BY <1>1, StorageAssumption DEF Root, AllRoots

\* The leaves of a file, or the ones a tree begins with.
LEMMA ContentParts ==
    ASSUME NEW f, f.leaves \in TreeLeaves
    PROVE  Content(f) \in TreeLeaves /\ DOMAIN f.leaves \subseteq DOMAIN Content(f)
  <1>1. CASE f = EmptyFile
    <2>1. f.leaves = << >>
      BY <1>1 DEF EmptyFile
    <2>2. QED
      BY <1>1, <2>1, StorageAssumption DEF Content
  <1>2. CASE f # EmptyFile
    BY <1>2 DEF Content
  <1>3. QED
    BY <1>1, <1>2

\* Before any start.
LEMMA StorageInitInv == StorageInit => StorageInv
  <1> SUFFICES ASSUME StorageInit PROVE StorageInv
    OBVIOUS
  <1>1. \A t \in Tree : file[t].leaves \in TreeLeaves /\ (t \notin careless => file[t].ok)
    BY EmptyTree DEF StorageInit, EmptyFile
  <1>2. StorageTypes
    BY <1>1, EmptyTree DEF StorageInit, StorageTypes, IsTreeMap
  <1>3. keyed \subseteq Tree
    BY StorageAssumption DEF StorageInit
  <1>4. QED
    BY <1>1, <1>2, <1>3 DEF StorageInit, StorageInv, OpenInv, SavedInv, KeyInv

LEMMA KeyedTrees == StorageTypes => keyed \subseteq Tree
  BY StorageAssumption DEF StorageTypes

\* The end of the process.
LEMMA AllDownKeeps == StorageInv /\ AllDown => StorageInv'
  <1> SUFFICES ASSUME StorageInv, AllDown PROVE StorageInv'
    OBVIOUS
  <1>1. StorageTypes'
    BY EmptyTree DEF StorageInv, AllDown, StorageTypes, IsTreeMap
  <1>2. QED
    BY <1>1, KeyedTrees DEF StorageInv, AllDown, OpenInv, SavedInv, KeyInv

\* The process starts to read a file.
LEMMA ReadKeeps ==
    ASSUME StorageInv, NEW t \in Tree, Read(t)
    PROVE  StorageInv'
  <1> DEFINE m == Content(file[t])
  <1> file[t].leaves \in TreeLeaves
    BY DEF StorageInv, StorageTypes
  <1>1. m \in TreeLeaves /\ DOMAIN file[t].leaves \subseteq DOMAIN m
    BY ContentParts
  <1> HIDE DEF m
  <1>2. /\ stage[t] = "down" /\ mem' = [mem EXCEPT ![t] = m]
        /\ stage' = [stage EXCEPT ![t] = "read"]
        /\ writes' = [writes EXCEPT ![t] = @ \cup {m}]
        /\ careless' = IF writes[t] = {} /\ TextSize(m) >= file[t].size
                       THEN careless ELSE careless \cup {t}
        /\ UNCHANGED <<file, keyed, saved>>
    BY DEF Read, StartWrite, m
  <1>3. StorageTypes'
    BY <1>1, <1>2 DEF StorageInv, StorageTypes, IsTreeMap
  <1>4. \A s \in Tree : OpenInv(s)'
    BY <1>1, <1>2 DEF StorageInv, StorageTypes, OpenInv, SavedInv
  <1>5. \A s \in Tree : SavedInv(s)'
    BY <1>1, <1>2 DEF StorageInv, StorageTypes, SavedInv
  <1>6. KeyInv'
    BY <1>2, KeyedTrees DEF StorageInv, StorageTypes, KeyInv
  <1>7. QED
    BY <1>3, <1>4, <1>5, <1>6 DEF StorageInv

\* A write arrives.
LEMMA WrittenKeeps ==
    ASSUME StorageInv, NEW t \in Tree, NEW m \in writes[t], Written(t, m)
    PROVE  StorageInv'
  <1>1. m \in TreeLeaves
    BY DEF StorageInv, StorageTypes
  <1>2. PICK f : f.leaves = m /\ file' = [file EXCEPT ![t] = f]
                 /\ (TextSize(m) >= file[t].size => f.ok)
    <2> DEFINE f == Write(file[t], m)
    <2>1. f.leaves = m /\ (TextSize(m) >= file[t].size => f.ok)
      BY DEF Write
    <2>2. file' = [file EXCEPT ![t] = f]
      BY DEF Written
    <2>3. QED
      BY <2>1, <2>2
  <1>3. /\ writes' = [writes EXCEPT ![t] = @ \ {m}]
        /\ saved' = [saved EXCEPT ![t] = @ \cup DOMAIN m]
        /\ UNCHANGED <<mem, keyed, stage, careless>>
    BY DEF Written
  <1>4. DOMAIN m \subseteq Index
    BY <1>1, LeavesParts
  <1>5. StorageTypes'
    BY <1>1, <1>2, <1>3, <1>4 DEF StorageInv, StorageTypes, IsTreeMap
  <1>6. /\ file'[t] = f /\ writes'[t] = writes[t] \ {m} /\ saved'[t] = saved[t] \cup DOMAIN m
        /\ \A s \in Tree \ {t} : file'[s] = file[s] /\ writes'[s] = writes[s]
                                 /\ saved'[s] = saved[s]
    BY <1>2, <1>3 DEF StorageInv, StorageTypes, IsTreeMap
  <1>7. \A s \in Tree : OpenInv(s)'
    BY <1>2, <1>3, <1>6 DEF StorageInv, OpenInv
  <1>8. \A s \in Tree : SavedInv(s)'
    BY <1>2, <1>3, <1>6 DEF StorageInv, OpenInv, SavedInv
  <1>9. QED
    BY <1>3, <1>5, <1>7, <1>8 DEF StorageInv, KeyInv

\* The tree is written again.
LEMMA PersistKeeps ==
    ASSUME StorageInv, NEW t \in Tree, Persist(t)
    PROVE  StorageInv'
  <1> DEFINE m == mem[t]
  <1>1. m \in TreeLeaves /\ stage[t] = "ready"
    BY DEF StorageInv, StorageTypes, Persist, Ready
  <1>2. /\ writes' = [writes EXCEPT ![t] = @ \cup {m}]
        /\ careless' = IF writes[t] = {} /\ TextSize(m) >= file[t].size
                       THEN careless ELSE careless \cup {t}
        /\ UNCHANGED <<mem, file, keyed, stage, saved>>
    BY DEF Persist, StartWrite
  <1>3. StorageTypes'
    BY <1>1, <1>2 DEF StorageInv, StorageTypes, IsTreeMap
  <1>4. \A s \in Tree : OpenInv(s)'
    BY <1>1, <1>2 DEF StorageInv, StorageTypes, OpenInv
  <1>5. \A s \in Tree : SavedInv(s)'
    BY <1>1, <1>2 DEF StorageInv, StorageTypes, SavedInv
  <1>6. QED
    BY <1>2, <1>3, <1>4, <1>5 DEF StorageInv, KeyInv

\* The first write has been waited for.
LEMMA OpenedKeeps ==
    ASSUME StorageInv, NEW t \in Tree, Opened(t)
    PROVE  StorageInv'
  <1>1. /\ stage[t] = "read" /\ t \notin keyed
        /\ stage' = [stage EXCEPT ![t] = "ready"]
        /\ UNCHANGED <<mem, file, keyed, writes, careless, saved>>
    BY DEF Opened
  <1>2. StorageTypes'
    BY <1>1 DEF StorageInv, StorageTypes, IsTreeMap
  <1>3. \A s \in Tree : OpenInv(s)' /\ SavedInv(s)'
    BY <1>1 DEF StorageInv, StorageTypes, OpenInv, SavedInv
  <1>4. KeyInv'
    BY <1>1, KeyedTrees DEF StorageInv, StorageTypes, KeyInv
  <1>5. QED
    BY <1>2, <1>3, <1>4 DEF StorageInv

\* A leaf is set: memory only grows.
LEMMA SetLeafKeeps ==
    ASSUME StorageInv, NEW t \in Tree, NEW i \in Index, NEW l \in Leaf, SetLeaf(t, i, l)
    PROVE  StorageInv'
  <1> DEFINE m == [j \in DOMAIN mem[t] \cup {i} |-> IF j = i THEN l ELSE mem[t][j]]
  <1>1. mem[t] \in TreeLeaves
    BY DEF StorageInv, StorageTypes
  <1>2. m \in TreeLeaves /\ DOMAIN mem[t] \subseteq DOMAIN m
    BY <1>1, SetLeafTyped
  <1>3. mem' = [mem EXCEPT ![t] = m] /\ UNCHANGED <<file, keyed, stage, writes, careless, saved>>
    BY DEF SetLeaf
  <1> HIDE DEF m
  <1>4. StorageTypes'
    BY <1>2, <1>3 DEF StorageInv, StorageTypes, IsTreeMap
  <1>5. \A s \in Tree : DOMAIN mem[s] \subseteq DOMAIN mem'[s]
    BY <1>2, <1>3 DEF StorageInv, StorageTypes
  <1>6. \A s \in Tree : OpenInv(s)' /\ SavedInv(s)'
    BY <1>3, <1>5 DEF StorageInv, OpenInv, SavedInv
  <1>7. QED
    BY <1>3, <1>4, <1>6 DEF StorageInv, KeyInv

LEMMA StorageStepKeeps == StorageInv /\ StorageStep => StorageInv'
  <1> SUFFICES ASSUME StorageInv, StorageStep PROVE StorageInv'
    OBVIOUS
  <1>1. CASE StorageEnds
    BY <1>1, AllDownKeeps DEF StorageEnds
  <1>2. ASSUME NEW t \in Tree, ReadFails(t) \/ ContractFails(t) PROVE StorageInv'
    BY <1>2, AllDownKeeps DEF ReadFails, ContractFails
  <1>3. ASSUME NEW t \in Tree, NEW m \in writes[t], Written(t, m) PROVE StorageInv'
    BY <1>3, WrittenKeeps
  <1>4. ASSUME NEW t \in Tree, Read(t) \/ Opened(t) \/ Persist(t) PROVE StorageInv'
    BY <1>4, ReadKeeps, OpenedKeeps, PersistKeeps
  <1>5. QED
    BY <1>1, <1>2, <1>3, <1>4 DEF StorageStep

LEMMA StorageStutters == StorageInv /\ UNCHANGED storageVars => StorageInv'
  BY DEF storageVars, StorageInv, StorageTypes, OpenInv, SavedInv, KeyInv, IsTreeMap

\* The invariant of the storage: its types, what a carefully treated file
\* holds, and that a tree with a contract key never gets ready.
THEOREM StorageInductive == StorageSpec => []StorageInv
  <1>1. StorageInv /\ [StorageNext]_storageVars => StorageInv'
    <2> SUFFICES ASSUME StorageInv, [StorageNext]_storageVars PROVE StorageInv'
      OBVIOUS
    <2>1. CASE \E t \in Tree, i \in Index, l \in Leaf : SetLeaf(t, i, l)
      BY <2>1, SetLeafKeeps
    <2>2. CASE StorageStep \/ UNCHANGED storageVars
      BY <2>2, StorageStepKeeps, StorageStutters
    <2>3. QED
      BY <2>1, <2>2 DEF StorageNext
  <1>2. QED
    BY StorageInitInv, <1>1, PTL DEF StorageSpec

\* What reached the file of a tree that is treated with care is still in its
\* memory after every restart, and after every write that was lost in one.
THEOREM PersistedStay == StorageSpec => []PersistedLeavesStay
  <1>1. StorageInv => PersistedLeavesStay
    BY DEF StorageInv, SavedInv, PersistedLeavesStay
  <1>2. QED
    BY StorageInductive, <1>1, PTL

-----------------------------------------------------------------------------
(* The hash of a list of roots *)

\* Every set of numbers has a least one.
LEMMA LeastNumber ==
    ASSUME NEW T \in SUBSET Nat, T # {}
    PROVE  \E n \in T : \A m \in T : n <= m
  <1> DEFINE R == OpToRel(<, Nat)
  <1>1. IsWellFoundedOn(R, Nat)
    BY NatLessThanWellFounded
  <1> HIDE DEF R
  <1>2. PICK n \in T : \A m \in T : ~ (<<m, n>> \in R)
    BY <1>1, WFMin
  <1>3. ASSUME NEW m \in T PROVE n <= m
    <2>1. m \in Nat /\ n \in Nat /\ ~ (<<m, n>> \in R)
      BY <1>2
    <2>2. ~ (m < n)
      BY <2>1 DEF R, OpToRel
    <2>3. QED
      BY <2>1, <2>2
  <1>4. QED
    BY <1>3

\* h is the hash of the first n roots of a list, and of each part before.
HashesTo(roots, n, h) ==
    h = [k \in 1 .. n |-> IF k = 1 THEN roots[1] ELSE <<roots[k], h[k - 1]>>]

\* The recursion along a list has a solution: there is no least length at which
\* it has none.
LEMMA HashesExist ==
    ASSUME NEW roots, NEW n \in Nat
    PROVE  \E h : HashesTo(roots, n, h)
  <1> DEFINE T == {m \in Nat : ~ \E h : HashesTo(roots, m, h)}
  <1> SUFFICES ASSUME T # {} PROVE FALSE
    OBVIOUS
  <1>1. PICK m \in T : \A j \in T : m <= j
    <2> T \in SUBSET Nat
      OBVIOUS
    <2> HIDE DEF T
    <2> QED
      BY LeastNumber
  <1>2. CASE m = 0
    <2> DEFINE h == [k \in 1 .. 0 |-> roots[1]]
    <2>1. HashesTo(roots, 0, h)
      BY DEF HashesTo
    <2>2. QED
      BY <1>1, <1>2, <2>1
  <1>3. CASE m # 0
    <2>1. m \in Nat /\ m - 1 \in Nat /\ m - 1 \notin T
      BY <1>1, <1>3
    <2>2. PICK h : HashesTo(roots, m - 1, h)
      BY <2>1
    <2> DEFINE last == IF m = 1 THEN roots[1] ELSE <<roots[m], h[m - 1]>>
               g    == [k \in 1 .. m |-> IF k = m THEN last ELSE h[k]]
    <2>3. \A k \in 1 .. m - 1 :
             h[k] = IF k = 1 THEN roots[1] ELSE <<roots[k], h[k - 1]>>
      BY <2>2 DEF HashesTo
    <2> HIDE DEF last
    <2>4. ASSUME NEW k \in 1 .. m
          PROVE  g[k] = IF k = 1 THEN roots[1] ELSE <<roots[k], g[k - 1]>>
      <3>1. CASE k = m
        <4>1. k # 1 => g[k - 1] = h[k - 1]
          BY <2>1, <3>1
        <4>2. QED
          BY <2>1, <3>1, <4>1 DEF last
      <3>2. CASE k # m
        <4>1. k \in 1 .. m - 1
          BY <2>1, <3>2
        <4>2. k # 1 => g[k - 1] = h[k - 1]
          BY <2>1, <4>1
        <4>3. QED
          BY <2>3, <3>2, <4>1, <4>2
      <3>3. QED
        BY <3>1, <3>2
    <2>5. g = [k \in 1 .. m |-> IF k = 1 THEN roots[1] ELSE <<roots[k], g[k - 1]>>]
      <3>1. g = [k \in 1 .. m |-> g[k]]
        OBVIOUS
      <3> HIDE DEF g
      <3>2. QED
        BY <2>4, <3>1
    <2>6. HashesTo(roots, m, g)
      BY <2>5 DEF HashesTo
    <2>7. QED
      BY <1>1, <2>6
  <1>4. QED
    BY <1>2, <1>3

\* What the plugin computes is the end of that recursion.
LEMMA ExpectedHashIs ==
    ASSUME NEW roots, Len(roots) \in Nat
    PROVE  \E h : HashesTo(roots, Len(roots), h) /\ ExpectedHash(roots) = h[Len(roots)]
  <1> DEFINE h == CHOOSE h : h = [k \in 1 .. Len(roots) |->
                               IF k = 1 THEN roots[1] ELSE <<roots[k], h[k - 1]>>]
  <1>1. \E g : g = [k \in 1 .. Len(roots) |->
                      IF k = 1 THEN roots[1] ELSE <<roots[k], g[k - 1]>>]
    BY HashesExist DEF HashesTo
  <1>2. HashesTo(roots, Len(roots), h)
    BY <1>1 DEF HashesTo
  <1>3. ExpectedHash(roots) = h[Len(roots)]
    BY DEF ExpectedHash
  <1>4. QED
    BY <1>2, <1>3

\* The circuit, base case and inductive case, computes the same.
LEMMA CircuitHashes ==
    ASSUME NEW roots
    PROVE  RecursiveProof(roots) = ExpectedHash(roots)
  BY DEF RecursiveProof, ExpectedHash, BaseCase, InductiveCase

\* A root is no pair of a root and a hash.
LEMMA RootIsNoPair ==
    ASSUME NEW r \in AllRoots, NEW x
    PROVE  <<r, x>> \notin AllRoots
  <1> SUFFICES ASSUME <<r, x>> \in AllRoots PROVE FALSE
    OBVIOUS
  <1>1. DOMAIN <<r, x>> = Index /\ \A i \in Index : <<r, x>>[i] \in Leaf
    BY DEF AllRoots
  <1>2. 1 \in DOMAIN <<r, x>> /\ <<r, x>>[1] = r
    OBVIOUS
  <1>3. r \in Leaf
    BY <1>1, <1>2
  <1>4. QED
    BY <1>3, MembershipAssumption DEF AllRoots

\* Hashes that are equal somewhere have come from the same roots, one by one:
\* there is no least place where they have not.
LEMMA HashesAgree ==
    ASSUME NEW r \in Seq(AllRoots), NEW s \in Seq(AllRoots), NEW f, NEW g,
           HashesTo(r, Len(r), f), HashesTo(s, Len(s), g)
    PROVE  \A n \in 1 .. Len(r) : \A m \in 1 .. Len(s) :
             f[n] = g[m] => n = m /\ \A j \in 1 .. n : r[j] = s[j]
  <1> DEFINE Same(n) == \A m \in 1 .. Len(s) :
                          f[n] = g[m] => n = m /\ \A j \in 1 .. n : r[j] = s[j]
             T == {n \in 1 .. Len(r) : ~ Same(n)}
  <1> SUFFICES ASSUME T # {} PROVE FALSE
    OBVIOUS
  <1>1. PICK n \in T : \A j \in T : n <= j
    <2>1. T \in SUBSET Nat
      OBVIOUS
    <2> HIDE DEF T
    <2> QED
      BY <2>1, LeastNumber
  <1>2. n \in 1 .. Len(r) /\ ~ Same(n)
    OBVIOUS
  <1>3. PICK m \in 1 .. Len(s) : f[n] = g[m] /\ ~ (n = m /\ \A j \in 1 .. n : r[j] = s[j])
    BY <1>2
  <1>4. Len(r) \in Nat /\ Len(s) \in Nat /\ r[n] \in AllRoots /\ s[m] \in AllRoots
    BY <1>2
  <1>5. f[n] = IF n = 1 THEN r[1] ELSE <<r[n], f[n - 1]>>
    BY <1>2 DEF HashesTo
  <1>6. g[m] = IF m = 1 THEN s[1] ELSE <<s[m], g[m - 1]>>
    BY DEF HashesTo
  <1>7. CASE n = 1 /\ m = 1
    <2>1. f[n] = r[1] /\ g[m] = s[1]
      BY <1>5, <1>6, <1>7
    <2>2. r[1] = s[1] /\ \A j \in 1 .. n : j = 1
      BY <1>3, <1>7, <2>1
    <2>3. QED
      BY <1>3, <1>7, <2>2
  <1>8. CASE n = 1 /\ m # 1
    <2>1. <<s[m], g[m - 1]>> \notin AllRoots
      BY <1>4, RootIsNoPair
    <2>2. QED
      BY <1>3, <1>4, <1>5, <1>6, <1>8, <2>1
  <1>9. CASE n # 1 /\ m = 1
    <2>1. <<r[n], f[n - 1]>> \notin AllRoots
      BY <1>4, RootIsNoPair
    <2>2. QED
      BY <1>3, <1>4, <1>5, <1>6, <1>9, <2>1
  <1>10. CASE n # 1 /\ m # 1
    <2>1. <<r[n], f[n - 1]>> = <<s[m], g[m - 1]>>
      BY <1>3, <1>5, <1>6, <1>10
    <2>2. r[n] = s[m] /\ f[n - 1] = g[m - 1]
      BY <2>1
    <2>3. n - 1 \in 1 .. Len(r) /\ m - 1 \in 1 .. Len(s) /\ ~ (n <= n - 1)
      BY <1>2, <1>4, <1>10
    <2>4. Same(n - 1)
      BY <1>1, <2>3
    <2>5. n - 1 = m - 1 /\ \A j \in 1 .. n - 1 : r[j] = s[j]
      BY <2>2, <2>3, <2>4
    <2>6. n = m
      BY <1>2, <2>5
    <2>7. ASSUME NEW j \in 1 .. n PROVE r[j] = s[j]
      <3>1. j = n \/ j \in 1 .. n - 1
        BY <1>2
      <3>2. QED
        BY <2>2, <2>5, <2>6, <3>1
    <2>8. QED
      BY <1>3, <2>6, <2>7
  <1>11. QED
    BY <1>7, <1>8, <1>9, <1>10

\* The hash the plugin compares commits to the list of roots, its length and
\* its order included: a proof is accepted with no other list than its own.
THEOREM HashCommits ==
    ASSUME NEW r \in Seq(AllRoots) \ {<< >>}, NEW s \in Seq(AllRoots) \ {<< >>},
           RecursiveProof(r) = ExpectedHash(s)
    PROVE  r = s
  <1>1. Len(r) \in Nat \ {0} /\ Len(s) \in Nat \ {0}
    OBVIOUS
  <1>2. PICK f : HashesTo(r, Len(r), f) /\ ExpectedHash(r) = f[Len(r)]
    BY <1>1, ExpectedHashIs
  <1>3. PICK g : HashesTo(s, Len(s), g) /\ ExpectedHash(s) = g[Len(s)]
    BY <1>1, ExpectedHashIs
  <1>4. f[Len(r)] = g[Len(s)]
    BY <1>2, <1>3, CircuitHashes
  <1>5. Len(r) \in 1 .. Len(r) /\ Len(s) \in 1 .. Len(s)
    BY <1>1
  <1>6. Len(r) = Len(s) /\ \A j \in 1 .. Len(r) : r[j] = s[j]
    BY <1>2, <1>3, <1>4, <1>5, HashesAgree
  <1>7. QED
    BY <1>6

-----------------------------------------------------------------------------
(* The plugin and its clients *)

ArgLists(c) == Seq([treeRoot : AllRoots, leafIndex : Index, leaf : Knows[c]]) \ {<< >>}
RootLists == Seq(AllRoots) \ {<< >>}
RootsOf(args) == [k \in DOMAIN args |-> args[k].treeRoot]

\* Lists of roots each of which commits to a secret of the client.
MemberLists(c) == {r \in RootLists : \A k \in DOMAIN r : \E i \in Index : r[k][i] \in Knows[c]}

\* A hash that came out of a proof of the client.
HasProof(c, x) == \E r \in MemberLists(c) : x = RecursiveProof(r)

CallOf(c, s) ==
    /\ s.roots \in RootLists /\ HasProof(c, s.hash)
    /\ s.honest => ExpectedHash(s.roots) = s.hash

SessionOf(c, s) ==
    \/ s = Idle
    \/ /\ s.at = "fetch" /\ s = [at |-> "fetch", trees |-> s.trees, args |-> s.args]
       /\ s.args \in ArgLists(c)
    \/ /\ s.at = "proved" /\ s.args \in ArgLists(c)
       /\ RootsOf(s.args) \in MemberLists(c) /\ s.hash = RecursiveProof(RootsOf(s.args))
    \/ s.at = "verify" /\ CallOf(c, s)
    \/ /\ s.at = "look" /\ CallOf(c, s)
       /\ s.k \in 1 .. Len(s.roots) + 1 /\ s.i \in 1 .. Len(Order)
    \/ /\ s.at = "held" /\ s.output.merkleRoots \in MemberLists(c)
       /\ s.output.recursiveHash = ExpectedHash(s.output.merkleRoots)

\* What a search has seen so far, when d are the roots that have been current
\* and l the roots that trees have been without: the roots before the k-th
\* have been found, and the trees before the i-th were without the k-th.
SearchOf(s, d, l) ==
    /\ \A j \in 1 .. s.k - 1 : s.roots[j] \in d
    /\ s.first \in d /\ s.got \in d
    /\ \A r \in AllRoots : s.first # r => <<Order[1], r>> \in l
    /\ \A r \in AllRoots : s.got # r => <<Order[s.i], r>> \in l
    /\ s.k <= Len(s.roots) => \A j \in 1 .. s.i - 1 : <<Order[j], s.roots[s.k]>> \in l

\* What was current while a call has been under way, and what was found.
CallHistory(c) ==
    /\ Calling(c) => Ready /\ CurrentRoots \subseteq during[c] /\ NotHeld \subseteq lapsed[c]
    /\ ses[c].at = "look" => SearchOf(ses[c], during[c], lapsed[c])
    /\ ses[c].at = "held" => Range(ses[c].output.merkleRoots) \subseteq during[c]

MemberTypes ==
    /\ ses = [c \in Client |-> ses[c]]
    /\ during = [c \in Client |-> during[c]] /\ lapsed = [c \in Client |-> lapsed[c]]

MemberInv ==
    /\ StorageInv /\ MemberTypes
    /\ \A c \in Client : SessionOf(c, ses[c]) /\ CallHistory(c)

\* What a session is, by its stage.
LEMMA SessionParts ==
    ASSUME NEW c \in Client, NEW s, SessionOf(c, s)
    PROVE  /\ s.at \in {"idle", "fetch", "proved", "verify", "look", "held"}
           /\ s.at = "fetch" => /\ s = [at |-> "fetch", trees |-> s.trees, args |-> s.args]
                                /\ s.args \in ArgLists(c)
           /\ s.at = "proved" => /\ s.args \in ArgLists(c)
                                 /\ RootsOf(s.args) \in MemberLists(c)
                                 /\ s.hash = RecursiveProof(RootsOf(s.args))
           /\ s.at = "verify" => CallOf(c, s)
           /\ s.at = "look" => /\ CallOf(c, s)
                               /\ s.k \in 1 .. Len(s.roots) + 1 /\ s.i \in 1 .. Len(Order)
           /\ s.at = "held" => /\ s.output.merkleRoots \in MemberLists(c)
                               /\ s.output.recursiveHash = ExpectedHash(s.output.merkleRoots)
  <1> Idle.at = "idle"
    BY DEF Idle
  <1> QED
    BY DEF SessionOf

LEMMA CurrentAreRoots == StorageInv => CurrentRoots \subseteq AllRoots
  BY LeavesParts DEF StorageInv, StorageTypes, CurrentRoots

\* The trees in their order.
LEMMA OrderParts ==
    /\ Len(Order) \in Nat \ {0}
    /\ \A i \in 1 .. Len(Order) : Order[i] \in Tree
    /\ \A t \in Tree : \E i \in 1 .. Len(Order) : Order[i] = t
  <1>1. Order \in Seq(Tree) \ {<< >>} /\ Range(Order) = Tree
    BY MembershipAssumption
  <1>2. DOMAIN Order = 1 .. Len(Order) /\ Len(Order) \in Nat \ {0}
    BY <1>1
  <1>3. QED
    BY <1>1, <1>2 DEF Range

\* The root of a tree that is ready: one of the current ones, and every other
\* one is not the tree's.
LEMMA RootOfTree ==
    ASSUME StorageInv, Ready, NEW i \in 1 .. Len(Order)
    PROVE  /\ Root(mem[Order[i]]) \in CurrentRoots
           /\ \A r \in AllRoots : Root(mem[Order[i]]) # r => <<Order[i], r>> \in NotHeld
  <1>1. Order[i] \in Tree
    BY OrderParts
  <1>2. ASSUME NEW r \in AllRoots, Root(mem[Order[i]]) # r
        PROVE  <<Order[i], r>> \in NotHeld
    <2>1. <<Order[i], r>> \in Tree \X [Index -> Leaf]
      BY <1>1 DEF AllRoots
    <2>2. QED
      BY <1>2, <2>1 DEF NotHeld
  <1>3. QED
    BY <1>1, <1>2 DEF CurrentRoots

LEMMA MemberInitInv == MemberInit => MemberInv
  <1> SUFFICES ASSUME MemberInit PROVE MemberInv
    OBVIOUS
  <1>1. StorageInv
    BY StorageInitInv DEF MemberInit
  <1>2. Idle.at = "idle"
    BY DEF Idle
  <1>3. \A c \in Client : ses[c] = Idle
    BY DEF MemberInit
  <1>4. MemberTypes
    BY DEF MemberInit, MemberTypes
  <1>5. QED
    BY <1>1, <1>2, <1>3, <1>4 DEF MemberInv, SessionOf, CallHistory, Calling

\* A session moves on and nothing else changes.
LEMMA GoesKeeps ==
    ASSUME MemberInv, NEW c \in Client, NEW s, Goes(c, s), SessionOf(c, s),
           s.at \in {"verify", "look"} => Calling(c),
           s.at = "look" => SearchOf(s, during[c], lapsed[c]),
           s.at = "held" => Range(s.output.merkleRoots) \subseteq during[c]
    PROVE  MemberInv'
  <1>1. ses' = [ses EXCEPT ![c] = s] /\ UNCHANGED <<storageVars, during, lapsed>>
    BY DEF Goes
  <1>2. /\ StorageInv' /\ CurrentRoots' = CurrentRoots
        /\ Ready' = Ready /\ NotHeld' = NotHeld
    BY <1>1, StorageStutters DEF MemberInv, storageVars, CurrentRoots, Ready, NotHeld
  <1>3. MemberTypes' /\ ses'[c] = s /\ \A d \in Client \ {c} : ses'[d] = ses[d]
    BY <1>1 DEF MemberInv, MemberTypes
  <1>4. ASSUME NEW d \in Client PROVE SessionOf(d, ses'[d]) /\ CallHistory(d)'
    <2>1. SessionOf(d, ses[d]) /\ CallHistory(d) /\ CallHistory(c)
      BY DEF MemberInv
    <2>2. CASE d = c
      BY <1>1, <1>2, <1>3, <2>1, <2>2 DEF CallHistory, Calling
    <2>3. CASE d # c
      BY <1>1, <1>2, <1>3, <2>1, <2>3 DEF CallHistory, Calling
    <2>4. QED
      BY <2>2, <2>3
  <1>5. QED
    BY <1>2, <1>3, <1>4 DEF MemberInv

\* A call begins.
LEMMA OpensKeeps ==
    ASSUME MemberInv, NEW c \in Client, NEW s, Opens(c, s), SessionOf(c, s),
           Ready,
           s.at \in {"verify", "look"}, s.at = "look" => SearchOf(s, CurrentRoots, NotHeld)
    PROVE  MemberInv'
  <1>1. /\ ses' = [ses EXCEPT ![c] = s] /\ UNCHANGED storageVars
        /\ during' = [during EXCEPT ![c] = CurrentRoots]
        /\ lapsed' = [lapsed EXCEPT ![c] = NotHeld]
    BY DEF Opens
  <1>2. /\ StorageInv' /\ CurrentRoots' = CurrentRoots
        /\ Ready' = Ready /\ NotHeld' = NotHeld
    BY <1>1, StorageStutters DEF MemberInv, storageVars, CurrentRoots, Ready, NotHeld
  <1>3. /\ MemberTypes' /\ ses'[c] = s /\ \A d \in Client \ {c} : ses'[d] = ses[d]
        /\ during'[c] = CurrentRoots /\ lapsed'[c] = NotHeld
        /\ \A d \in Client \ {c} : during'[d] = during[d] /\ lapsed'[d] = lapsed[d]
    BY <1>1 DEF MemberInv, MemberTypes
  <1>4. ASSUME NEW d \in Client PROVE SessionOf(d, ses'[d]) /\ CallHistory(d)'
    <2>1. SessionOf(d, ses[d]) /\ CallHistory(d)
      BY DEF MemberInv
    <2>2. CASE d = c
      BY <1>2, <1>3, <2>2 DEF CallHistory
    <2>3. CASE d # c
      BY <1>2, <1>3, <2>1, <2>3 DEF CallHistory, Calling
    <2>4. QED
      BY <2>2, <2>3
  <1>5. QED
    BY <1>2, <1>3, <1>4 DEF MemberInv

\* A search has seen no less when more is in its history.
LEMMA SearchGrows ==
    ASSUME NEW s, NEW d, NEW l, NEW e, NEW m, SearchOf(s, d, l), d \subseteq e, l \subseteq m
    PROVE  SearchOf(s, e, m)
  BY DEF SearchOf

\* The storage moves on under the clients, whose calls may be cut off.
LEMMA StorageMovesKeeps ==
    ASSUME MemberInv, StorageMoves
    PROVE  MemberInv'
  <1>1. StorageInv'
    <2>1. CASE StorageStep
      BY <2>1, StorageStepKeeps DEF MemberInv
    <2>2. ASSUME NEW e \in Edits, SetLeaf(e.tree, e.index, e.leaf) PROVE StorageInv'
      <3>1. e.tree \in Tree /\ e.index \in Index /\ e.leaf \in Leaf
        BY MembershipAssumption
      <3>2. QED
        BY <2>2, <3>1, SetLeafKeeps DEF MemberInv
    <2>3. QED
      BY <2>1, <2>2 DEF StorageMoves
  <1>2. /\ MemberTypes'
        /\ \A c \in Client :
             /\ ses'[c] \in {Idle, ses[c]}
             /\ Ready /\ ~ Ready' /\ Calling(c) => ses'[c] = Idle
             /\ Calling(c) => during'[c] = during[c] \cup CurrentRoots'
             /\ Calling(c) => lapsed'[c] = lapsed[c] \cup NotHeld'
             /\ ~ Calling(c) => during'[c] = during[c] /\ lapsed'[c] = lapsed[c]
    BY DEF StorageMoves, MemberTypes
  <1>3. Idle.at = "idle"
    BY DEF Idle
  <1>4. ASSUME NEW c \in Client PROVE SessionOf(c, ses'[c]) /\ CallHistory(c)'
    <2>1. SessionOf(c, ses[c]) /\ CallHistory(c)
      BY DEF MemberInv
    <2>2. CASE ses'[c] = Idle
      BY <1>3, <2>2 DEF SessionOf, CallHistory, Calling
    <2>3. CASE ses'[c] = ses[c] /\ ses[c] # Idle
      <3>1. during[c] \subseteq during'[c] /\ lapsed[c] \subseteq lapsed'[c]
        BY <1>2
      <3>2. ses'[c].at = "look" => SearchOf(ses'[c], during'[c], lapsed'[c])
        BY <2>1, <2>3, <3>1, SearchGrows DEF CallHistory
      <3>3. ses'[c].at = "held" => Range(ses'[c].output.merkleRoots) \subseteq during'[c]
        BY <2>1, <2>3, <3>1 DEF CallHistory
      <3>4. Calling(c) => Ready'
        BY <1>2, <2>1, <2>3 DEF CallHistory
      <3>5. Calling(c)' <=> Calling(c)
        BY <2>3 DEF Calling
      <3>6. CallHistory(c)'
        BY <1>2, <3>2, <3>3, <3>4, <3>5 DEF CallHistory
      <3>7. QED
        BY <2>1, <2>3, <3>6
    <2>4. QED
      BY <1>2, <2>2, <2>3
  <1>5. QED
    BY <1>1, <1>2, <1>4 DEF MemberInv

\* A function from the first numbers is a list.
LEMMA IsList ==
    ASSUME NEW n \in Nat \ {0}, NEW S, NEW f \in [1 .. n -> S]
    PROVE  f \in Seq(S) \ {<< >>} /\ Len(f) = n /\ DOMAIN f = 1 .. n
  OBVIOUS

LEMMA ListParts ==
    ASSUME NEW S, NEW f \in Seq(S) \ {<< >>}
    PROVE  /\ DOMAIN f = 1 .. Len(f) /\ Len(f) \in Nat \ {0}
           /\ \A k \in DOMAIN f : f[k] \in S
  OBVIOUS

\* The roots that a list of arguments is about.
LEMMA RootsOfArgs ==
    ASSUME NEW c, NEW args \in ArgLists(c)
    PROVE  /\ RootsOf(args) \in RootLists /\ DOMAIN RootsOf(args) = DOMAIN args
           /\ DOMAIN args = 1 .. Len(args) /\ Len(args) \in Nat \ {0}
           /\ \A k \in DOMAIN args : /\ args[k].treeRoot \in AllRoots
                                     /\ args[k].leafIndex \in Index /\ args[k].leaf \in Knows[c]
                                     /\ RootsOf(args)[k] = args[k].treeRoot
  <1>1. /\ DOMAIN args = 1 .. Len(args) /\ Len(args) \in Nat \ {0}
        /\ \A k \in DOMAIN args : /\ args[k].treeRoot \in AllRoots
                                  /\ args[k].leafIndex \in Index /\ args[k].leaf \in Knows[c]
    <2> DEFINE Arg == [treeRoot : AllRoots, leafIndex : Index, leaf : Knows[c]]
    <2>1. args \in Seq(Arg) \ {<< >>}
      BY DEF ArgLists
    <2>2. \A a \in Arg : a.treeRoot \in AllRoots /\ a.leafIndex \in Index /\ a.leaf \in Knows[c]
      OBVIOUS
    <2> HIDE DEF Arg
    <2>3. QED
      BY <2>1, <2>2, ListParts
  <1>2. RootsOf(args) \in [1 .. Len(args) -> AllRoots]
    BY <1>1 DEF RootsOf
  <1>3. RootsOf(args) \in RootLists
    BY <1>1, <1>2, IsList DEF RootLists
  <1>4. QED
    BY <1>1, <1>3 DEF RootsOf

LEMMA BeginKeeps ==
    ASSUME MemberInv, NEW c \in Client, NEW list \in Lists, Begin(c, list)
    PROVE  MemberInv'
  <1>1. PICK roots \in [DOMAIN list -> CurrentRoots] :
          Goes(c, [at |-> "fetch", trees |-> << >>,
                   args |-> [k \in DOMAIN list |-> [treeRoot  |-> roots[k],
                                                    leafIndex |-> list[k].leafIndex,
                                                    leaf      |-> list[k].leaf]]])
    BY DEF Begin
  <1> DEFINE args == [k \in DOMAIN list |-> [treeRoot  |-> roots[k],
                                             leafIndex |-> list[k].leafIndex,
                                             leaf      |-> list[k].leaf]]
             s == [at |-> "fetch", trees |-> << >>, args |-> args]
  <1>2. /\ DOMAIN list = 1 .. Len(list) /\ Len(list) \in Nat \ {0}
        /\ \A k \in DOMAIN list : list[k].leafIndex \in Index /\ list[k].leaf \in Knows[c]
    <2> DEFINE Entry == [leafIndex : Index, leaf : Leaf]
    <2>1. list \in Seq(Entry) \ {<< >>}
      BY MembershipAssumption
    <2>2. \A a \in Entry : a.leafIndex \in Index
      OBVIOUS
    <2> HIDE DEF Entry
    <2>3. \A k \in DOMAIN list : list[k].leaf \in Knows[c]
      BY DEF Begin
    <2>4. QED
      BY <2>1, <2>2, <2>3, ListParts
  <1>3. CurrentRoots \subseteq AllRoots
    BY CurrentAreRoots DEF MemberInv
  <1>4. args \in [1 .. Len(list) -> [treeRoot : AllRoots, leafIndex : Index, leaf : Knows[c]]]
    BY <1>2, <1>3
  <1> HIDE DEF args
  <1>5. args \in ArgLists(c)
    BY <1>2, <1>4, IsList DEF ArgLists
  <1>6. SessionOf(c, s)
    BY <1>5 DEF SessionOf
  <1>7. Goes(c, s)
    BY <1>1 DEF args
  <1>8. QED
    BY <1>6, <1>7, GoesKeeps

LEMMA IdleKeeps ==
    ASSUME MemberInv, NEW c \in Client, Goes(c, Idle)
    PROVE  MemberInv'
  <1>1. SessionOf(c, Idle) /\ Idle.at = "idle"
    BY DEF SessionOf, Idle
  <1>2. QED
    BY <1>1, GoesKeeps

LEMMA FetchTreeKeeps ==
    ASSUME MemberInv, NEW c \in Client, NEW k, FetchTree(c, k)
    PROVE  MemberInv'
  <1>1. PICK t \in Tree :
          Goes(c, [ses[c] EXCEPT !.trees =
                [j \in DOMAIN @ \cup {k} |-> IF j = k THEN mem[t] ELSE @[j]]])
    BY DEF FetchTree
  <1>2. PICK trees : Goes(c, [ses[c] EXCEPT !.trees = trees])
    BY <1>1
  <1> DEFINE s == [ses[c] EXCEPT !.trees = trees]
  <1>3. /\ ses[c] = [at |-> "fetch", trees |-> ses[c].trees, args |-> ses[c].args]
        /\ ses[c].args \in ArgLists(c)
    BY SessionParts DEF MemberInv, FetchTree
  <1>4. s = [at |-> "fetch", trees |-> trees, args |-> ses[c].args]
    BY <1>3
  <1>5. SessionOf(c, s)
    BY <1>3, <1>4 DEF SessionOf
  <1>6. QED
    BY <1>2, <1>4, <1>5, GoesKeeps

\* A proof exists only when every root has a leaf of the client in it.
LEMMA ProveKeeps ==
    ASSUME MemberInv, NEW c \in Client, Prove(c)
    PROVE  MemberInv'
  <1> DEFINE args == ses[c].args
             s == [at |-> "proved", args |-> args, hash |-> RecursiveProof(RootsOf(args))]
  <1>1. args \in ArgLists(c)
    BY SessionParts DEF MemberInv, Prove
  <1>2. CASE \A k \in DOMAIN args : CircuitHolds(args[k], ses[c].trees[k])
    <2>1. Goes(c, s)
      BY <1>2 DEF Prove, RootsOf
    <2>2. ASSUME NEW k \in DOMAIN args PROVE \E i \in Index : RootsOf(args)[k][i] \in Knows[c]
      <3> DEFINE arg == args[k]
      <3>1. /\ arg.leafIndex \in Index /\ arg.leaf \in Knows[c]
            /\ RootsOf(args)[k] = arg.treeRoot
        BY <1>1, RootsOfArgs
      <3>2. arg.treeRoot = [Root(ses[c].trees[k]) EXCEPT ![arg.leafIndex] = arg.leaf]
        BY <1>2 DEF CircuitHolds
      <3> HIDE DEF arg
      <3>3. arg.treeRoot[arg.leafIndex] = arg.leaf
        BY <3>1, <3>2 DEF Root
      <3>4. QED
        BY <3>1, <3>3
    <2>3. RootsOf(args) \in MemberLists(c)
      BY <1>1, <2>2, RootsOfArgs DEF MemberLists
    <2>4. SessionOf(c, s)
      BY <1>1, <2>3 DEF SessionOf
    <2>5. QED
      BY <2>1, <2>4, GoesKeeps
  <1>3. CASE ~ \A k \in DOMAIN args : CircuitHolds(args[k], ses[c].trees[k])
    BY <1>3, IdleKeeps DEF Prove
  <1>4. QED
    BY <1>2, <1>3

LEMMA LoginKeeps ==
    ASSUME MemberInv, NEW c \in Client,
           NEW roots \in Presentable(ses[c].args), Login(c, roots)
    PROVE  MemberInv'
  <1> DEFINE args == ses[c].args
             honest == roots = RootsOf(args)
             s == [at |-> "verify", roots |-> roots, hash |-> ses[c].hash, honest |-> honest]
  <1>1. /\ args \in ArgLists(c) /\ RootsOf(args) \in MemberLists(c)
        /\ ses[c].hash = RecursiveProof(RootsOf(args))
    BY SessionParts DEF MemberInv, Login
  <1>2. Opens(c, s)
    BY DEF Login, RootsOf
  <1>3. roots \in RootLists
    <2>1. PICK n \in 1 .. Len(args) + 1 :
            roots \in [1 .. n -> {args[k].treeRoot : k \in DOMAIN args} \cup CurrentRoots]
      BY DEF Presentable
    <2>2. n \in Nat \ {0}
      BY <1>1, RootsOfArgs
    <2>3. {args[k].treeRoot : k \in DOMAIN args} \cup CurrentRoots \subseteq AllRoots
      BY <1>1, RootsOfArgs, CurrentAreRoots DEF MemberInv
    <2>4. roots \in [1 .. n -> AllRoots]
      BY <2>1, <2>3
    <2>5. QED
      BY <2>2, <2>4, IsList DEF RootLists
  <1>4. HasProof(c, ses[c].hash) /\ (honest => ExpectedHash(roots) = ses[c].hash)
    BY <1>1, CircuitHashes DEF HasProof
  <1> HIDE DEF honest
  <1>5. SessionOf(c, s)
    <2>1. CallOf(c, s)
      BY <1>3, <1>4 DEF CallOf
    <2>2. QED
      BY <2>1 DEF SessionOf
  <1>6. s.at = "verify" /\ Ready
    BY DEF Login
  <1> HIDE DEF s
  <1>7. QED
    BY <1>2, <1>5, <1>6, OpensKeeps

\* The search begins at the first tree, whose root is read now.
LEMMA FirstLookParts ==
    ASSUME StorageInv, Ready, NEW c, NEW s, CallOf(c, s)
    PROVE  /\ FirstLook(s).at = "look" /\ SessionOf(c, FirstLook(s))
           /\ SearchOf(FirstLook(s), CurrentRoots, NotHeld)
  <1> DEFINE t == FirstLook(s)
  <1>1. /\ t.at = "look" /\ t.roots = s.roots /\ t.hash = s.hash /\ t.honest = s.honest
        /\ t.k = 1 /\ t.i = 1 /\ t.got = Root(mem[Order[1]]) /\ t.first = Root(mem[Order[1]])
    BY DEF FirstLook, Look
  <1> HIDE DEF t
  <1>2. 1 \in 1 .. Len(Order) /\ 1 \in 1 .. Len(s.roots) + 1
    BY OrderParts, ListParts DEF CallOf, RootLists
  <1>3. CallOf(c, t)
    BY <1>1 DEF CallOf
  <1>4. SessionOf(c, t)
    BY <1>1, <1>2, <1>3 DEF SessionOf
  <1>5. SearchOf(t, CurrentRoots, NotHeld)
    BY <1>1, <1>2, RootOfTree DEF SearchOf
  <1>6. QED
    BY <1>1, <1>4, <1>5 DEF t

LEMMA VerifiedKeeps ==
    ASSUME MemberInv, NEW c \in Client, Verified(c)
    PROVE  MemberInv'
  <1> DEFINE s == FirstLook(ses[c])
  <1>1. ses[c].at = "verify" /\ Goes(c, s)
    BY DEF Verified
  <1>2. Calling(c) /\ CallHistory(c)
    BY <1>1 DEF Calling, MemberInv
  <1>3. StorageInv /\ Ready /\ CurrentRoots \subseteq during[c] /\ NotHeld \subseteq lapsed[c]
    BY <1>2 DEF MemberInv, CallHistory
  <1>4. CallOf(c, ses[c])
    BY <1>1, SessionParts DEF MemberInv
  <1>5. s.at = "look" /\ SessionOf(c, s) /\ SearchOf(s, CurrentRoots, NotHeld)
    BY <1>3, <1>4, FirstLookParts
  <1> HIDE DEF s
  <1>6. SearchOf(s, during[c], lapsed[c])
    BY <1>3, <1>5, SearchGrows
  <1>7. QED
    BY <1>1, <1>2, <1>5, <1>6, GoesKeeps

\* An output is checked again: its roots are the ones that were proved.
LEMMA CheckOutputKeeps ==
    ASSUME MemberInv, NEW c \in Client, CheckOutput(c)
    PROVE  MemberInv'
  <1> DEFINE o == ses[c].output
             call == [roots |-> o.merkleRoots, hash |-> o.recursiveHash, honest |-> TRUE]
  <1>1. Ready /\ ses[c].at = "held" /\ Opens(c, FirstLook(call))
    BY DEF CheckOutput
  <1>2. o.merkleRoots \in MemberLists(c) /\ o.recursiveHash = ExpectedHash(o.merkleRoots)
    BY <1>1, SessionParts DEF MemberInv
  <1>3. o.merkleRoots \in RootLists /\ HasProof(c, o.recursiveHash)
    BY <1>2, CircuitHashes DEF MemberLists, HasProof
  <1>4. CallOf(c, call)
    BY <1>2, <1>3 DEF CallOf
  <1> HIDE DEF call
  <1>5. /\ FirstLook(call).at = "look" /\ SessionOf(c, FirstLook(call))
        /\ SearchOf(FirstLook(call), CurrentRoots, NotHeld)
    BY <1>1, <1>4, FirstLookParts DEF MemberInv
  <1>6. QED
    BY <1>1, <1>5, OpensKeeps

\* What is known of a search under way.
LEMMA SearchParts ==
    ASSUME MemberInv, NEW c \in Client, ses[c].at = "look"
    PROVE  /\ Calling(c) /\ Ready /\ StorageInv
           /\ CurrentRoots \subseteq during[c] /\ NotHeld \subseteq lapsed[c]
           /\ CallOf(c, ses[c])
           /\ Len(ses[c].roots) \in Nat \ {0} /\ DOMAIN ses[c].roots = 1 .. Len(ses[c].roots)
           /\ \A j \in DOMAIN ses[c].roots : ses[c].roots[j] \in AllRoots
           /\ ses[c].k \in 1 .. Len(ses[c].roots) + 1 /\ ses[c].i \in 1 .. Len(Order)
           /\ SearchOf(ses[c], during[c], lapsed[c])
  <1>1. Calling(c) /\ CallHistory(c) /\ SessionOf(c, ses[c]) /\ StorageInv
    BY DEF Calling, MemberInv
  <1>2. CallOf(c, ses[c])
    BY <1>1, SessionParts
  <1>3. ses[c].roots \in RootLists
    BY <1>2 DEF CallOf
  <1>4. /\ Len(ses[c].roots) \in Nat \ {0} /\ DOMAIN ses[c].roots = 1 .. Len(ses[c].roots)
        /\ \A j \in DOMAIN ses[c].roots : ses[c].roots[j] \in AllRoots
    BY <1>3, ListParts DEF RootLists
  <1>5. QED
    BY <1>1, <1>2, <1>4, SessionParts DEF CallHistory

\* A search goes on with another root or another tree.
LEMMA SearchMoves ==
    ASSUME MemberInv, NEW c \in Client, ses[c].at = "look", NEW k, NEW i, NEW got,
           Goes(c, Look(ses[c], k, i, got, ses[c].first)),
           k \in 1 .. Len(ses[c].roots) + 1, i \in 1 .. Len(Order), got \in during[c],
           \A j \in 1 .. k - 1 : ses[c].roots[j] \in during[c],
           \A r \in AllRoots : got # r => <<Order[i], r>> \in lapsed[c],
           k <= Len(ses[c].roots) =>
             \A j \in 1 .. i - 1 : <<Order[j], ses[c].roots[k]>> \in lapsed[c]
    PROVE  MemberInv'
  <1> DEFINE s == Look(ses[c], k, i, got, ses[c].first)
  <1>1. /\ Calling(c) /\ CallOf(c, ses[c])
        /\ SearchOf(ses[c], during[c], lapsed[c])
    BY SearchParts
  <1>2. /\ s.at = "look" /\ s.roots = ses[c].roots /\ s.hash = ses[c].hash
        /\ s.honest = ses[c].honest /\ s.k = k /\ s.i = i /\ s.got = got
        /\ s.first = ses[c].first /\ Goes(c, s)
    BY DEF Look
  <1> HIDE DEF s
  <1>3. CallOf(c, s)
    BY <1>1, <1>2 DEF CallOf
  <1>4. SessionOf(c, s)
    BY <1>2, <1>3 DEF SessionOf
  <1>5. SearchOf(s, during[c], lapsed[c])
    BY <1>1, <1>2 DEF SearchOf
  <1>6. QED
    BY <1>1, <1>2, <1>4, <1>5, GoesKeeps

\* One root more has been found.
LEMMA LookUpKeeps ==
    ASSUME MemberInv, NEW c \in Client, LookUp(c)
    PROVE  MemberInv'
  <1> DEFINE roots == ses[c].roots
             k == ses[c].k
  <1>1. /\ ses[c].at = "look" /\ k <= Len(roots) /\ ses[c].got = roots[k]
        /\ Goes(c, Look(ses[c], k + 1, 1, ses[c].first, ses[c].first))
    BY DEF LookUp, Seeks, Sought
  <1>2. /\ Len(roots) \in Nat \ {0} /\ k \in 1 .. Len(roots) + 1
        /\ SearchOf(ses[c], during[c], lapsed[c])
    BY <1>1, SearchParts
  <1>3. PICK l, i : l = k + 1 /\ i = 1
    OBVIOUS
  <1>4. Goes(c, Look(ses[c], l, i, ses[c].first, ses[c].first))
    BY <1>1, <1>3
  <1>5. /\ l \in 1 .. Len(roots) + 1 /\ i \in 1 .. Len(Order)
        /\ 1 .. i - 1 = {} /\ \A j \in 1 .. l - 1 : j \in 1 .. k - 1 \/ j = k
    BY <1>1, <1>2, <1>3, OrderParts
  <1>6. /\ \A j \in 1 .. k - 1 : roots[j] \in during[c]
        /\ ses[c].first \in during[c] /\ ses[c].got \in during[c]
        /\ \A r \in AllRoots : ses[c].first # r => <<Order[i], r>> \in lapsed[c]
    BY <1>2, <1>3 DEF SearchOf
  <1>7. \A j \in 1 .. l - 1 : roots[j] \in during[c]
    BY <1>1, <1>5, <1>6
  <1>8. l <= Len(roots) => \A j \in 1 .. i - 1 : <<Order[j], roots[l]>> \in lapsed[c]
    BY <1>5
  <1>9. QED
    BY <1>1, <1>4, <1>5, <1>6, <1>7, <1>8, SearchMoves

\* One tree more has been found not to have the root.
LEMMA NextTreeKeeps ==
    ASSUME MemberInv, NEW c \in Client, NextTree(c)
    PROVE  MemberInv'
  <1> DEFINE roots == ses[c].roots
             k == ses[c].k
             i == ses[c].i
  <1>1. PICK n, next : n = i + 1 /\ next = Root(mem[Order[n]])
    OBVIOUS
  <1>2. /\ ses[c].at = "look" /\ k <= Len(roots) /\ ses[c].got # roots[k] /\ i < Len(Order)
        /\ Goes(c, Look(ses[c], k, n, next, ses[c].first))
    BY <1>1 DEF NextTree, Seeks, Sought
  <1>3. /\ Len(roots) \in Nat \ {0} /\ k \in 1 .. Len(roots) + 1 /\ i \in 1 .. Len(Order)
        /\ DOMAIN roots = 1 .. Len(roots) /\ \A j \in DOMAIN roots : roots[j] \in AllRoots
        /\ StorageInv /\ Ready
        /\ CurrentRoots \subseteq during[c] /\ NotHeld \subseteq lapsed[c]
        /\ SearchOf(ses[c], during[c], lapsed[c])
    BY <1>2, SearchParts
  <1>4. /\ n \in 1 .. Len(Order) /\ roots[k] \in AllRoots
        /\ \A j \in 1 .. n - 1 : j \in 1 .. i - 1 \/ j = i
    BY <1>1, <1>2, <1>3, OrderParts
  <1>5. /\ next \in during[c]
        /\ \A r \in AllRoots : next # r => <<Order[n], r>> \in lapsed[c]
    BY <1>1, <1>3, <1>4, RootOfTree
  <1>6. /\ \A j \in 1 .. k - 1 : roots[j] \in during[c]
        /\ <<Order[i], roots[k]>> \in lapsed[c]
        /\ \A j \in 1 .. i - 1 : <<Order[j], roots[k]>> \in lapsed[c]
    BY <1>2, <1>3, <1>4 DEF SearchOf
  <1>7. \A j \in 1 .. n - 1 : <<Order[j], roots[k]>> \in lapsed[c]
    BY <1>4, <1>6
  <1>8. QED
    BY <1>2, <1>3, <1>4, <1>5, <1>6, <1>7, SearchMoves

\* The hash is the one the proof ended with, so the roots are the ones that
\* were proved.
LEMMA CompareHashKeeps ==
    ASSUME MemberInv, NEW c \in Client, CompareHash(c)
    PROVE  MemberInv'
  <1> DEFINE roots == ses[c].roots
             s == [at |-> "held", output |-> [merkleRoots   |-> roots,
                                              recursiveHash |-> ses[c].hash]]
  <1>1. CallOf(c, ses[c]) /\ ses[c].at = "look" /\ ses[c].k = Len(roots) + 1
    BY SessionParts DEF MemberInv, CompareHash
  <1>2. CASE ExpectedHash(roots) = ses[c].hash
    <2>1. Goes(c, s)
      BY <1>2 DEF CompareHash
    <2>2. PICK r \in MemberLists(c) : ses[c].hash = RecursiveProof(r)
      BY <1>1 DEF CallOf, HasProof
    <2>3. roots \in RootLists /\ r \in RootLists
      BY <1>1, <2>2 DEF CallOf, MemberLists
    <2>4. roots = r
      BY <1>2, <2>2, <2>3, HashCommits DEF RootLists
    <2>5. /\ s.at = "held" /\ s.output.merkleRoots = roots
          /\ s.output.recursiveHash = ExpectedHash(roots)
      BY <1>2
    <2>6. SessionOf(c, s)
      BY <2>2, <2>4, <2>5 DEF SessionOf
    <2>7. \A j \in 1 .. ses[c].k - 1 : roots[j] \in during[c]
      BY <1>1, SearchParts DEF SearchOf
    <2>8. DOMAIN roots = 1 .. ses[c].k - 1
      BY <1>1, <2>3, ListParts DEF RootLists
    <2>9. Range(roots) \subseteq during[c]
      BY <2>7, <2>8 DEF Range
    <2> HIDE DEF s
    <2>10. QED
      BY <2>1, <2>5, <2>6, <2>9, GoesKeeps
  <1>3. CASE ExpectedHash(roots) # ses[c].hash
    BY <1>3, IdleKeeps DEF CompareHash
  <1>4. QED
    BY <1>2, <1>3

LEMMA ClientStepKeeps ==
    ASSUME MemberInv, NEW c \in Client, ClientStep(c)
    PROVE  MemberInv'
  <1>1. ASSUME NEW list \in Lists, Begin(c, list) PROVE MemberInv'
    BY <1>1, BeginKeeps
  <1>2. ASSUME NEW k, FetchTree(c, k) PROVE MemberInv'
    BY <1>2, FetchTreeKeeps
  <1>3. ASSUME NEW roots \in Presentable(ses[c].args), Login(c, roots) PROVE MemberInv'
    BY <1>3, LoginKeeps
  <1>4. CASE Prove(c) \/ Verified(c) \/ CheckOutput(c)
    BY <1>4, ProveKeeps, VerifiedKeeps, CheckOutputKeeps
  <1>5. CASE LookUp(c) \/ NextTree(c) \/ CompareHash(c)
    BY <1>5, LookUpKeeps, NextTreeKeeps, CompareHashKeeps
  <1>6. CASE FetchFails(c) \/ VerifyFails(c) \/ TreeMissing(c)
    BY <1>6, IdleKeeps DEF FetchFails, VerifyFails, TreeMissing
  <1>7. QED
    BY <1>1, <1>2, <1>3, <1>4, <1>5, <1>6 DEF ClientStep, Looks

LEMMA MemberStutters == MemberInv /\ UNCHANGED allVars => MemberInv'
  <1> SUFFICES ASSUME MemberInv, UNCHANGED allVars PROVE MemberInv'
    OBVIOUS
  <1>1. UNCHANGED storageVars /\ UNCHANGED <<ses, during, lapsed>>
    BY DEF allVars, memberVars
  <1>2. /\ StorageInv' /\ CurrentRoots' = CurrentRoots
        /\ Ready' = Ready /\ NotHeld' = NotHeld
    BY <1>1, StorageStutters DEF MemberInv, storageVars, CurrentRoots, Ready, NotHeld
  <1>3. QED
    BY <1>1, <1>2 DEF MemberInv, MemberTypes, CallHistory, Calling

\* The invariant of the plugin and its clients: the storage's, what a session
\* holds at each stage, and what has been current since a call began.
THEOREM MemberInductive == MemberSpec => []MemberInv
  <1>1. MemberInv /\ [MemberNext]_allVars => MemberInv'
    BY StorageMovesKeeps, ClientStepKeeps, MemberStutters DEF MemberNext
  <1>2. QED
    BY MemberInitInv, <1>1, PTL DEF MemberSpec

\* Whoever holds an output knows a secret in every tree it names, whatever
\* list was sent beside the proof.
THEOREM MembershipsProved == MemberSpec => []MembershipsAreProved
  <1>1. MemberInv => MembershipsAreProved
    <2> SUFFICES ASSUME MemberInv, NEW c \in Client, ses[c].at = "held",
                        NEW root \in Range(ses[c].output.merkleRoots)
                 PROVE  \E i \in Index : root[i] \in Knows[c]
      BY DEF MembershipsAreProved
    <2>1. ses[c].output.merkleRoots \in MemberLists(c)
      BY SessionParts DEF MemberInv
    <2>2. QED
      BY <2>1 DEF MemberLists, Range
  <1>2. QED
    BY MemberInductive, <1>1, PTL

\* The same under the plugin and its clients: no call, begun or cut off, makes
\* the storage forget an index that reached the file.
THEOREM MembersPersistedStay == MemberSpec => []PersistedLeavesStay
  <1>1. MemberInv => PersistedLeavesStay
    BY DEF MemberInv, StorageInv, SavedInv, PersistedLeavesStay
  <1>2. QED
    BY MemberInductive, <1>1, PTL

\* Every root of an output was current during the call that accepted it,
\* though the storage moved on between one look and the next.
THEOREM OutputsCurrent == MemberSpec => []OutputsWereCurrent
  <1>1. MemberInv => OutputsWereCurrent
    BY DEF MemberInv, CallHistory, OutputsWereCurrent
  <1>2. QED
    BY MemberInductive, <1>1, PTL

\* The plugin refuses the list that was proved, or an output of its own, only
\* over a root which every tree was without at some instant of the call: what
\* the search reads of a tree is the tree's root at some instant of it.
THEOREM RefusalsDueToStorage == MemberSpec => RefusalsAreDue
  <1> DEFINE Lost(c) == \E root \in Range(ses[c].roots) : \A t \in Tree : <<t, root>> \in lapsed[c]
             Due == \A c \in Client :
                      ses[c].at = "look" /\ ses'[c].at = "idle" /\ Ready' /\ ses[c].honest =>
                        Lost(c)
  <1>1. MemberInv /\ MemberInv' /\ [MemberNext]_allVars => Due
    <2> SUFFICES ASSUME MemberInv, [MemberNext]_allVars, NEW c \in Client,
                        ses[c].at = "look", ses'[c].at = "idle", Ready', ses[c].honest
                 PROVE  Lost(c)
      OBVIOUS
    <2> DEFINE roots == ses[c].roots
               k == ses[c].k
               i == ses[c].i
    <2>1. /\ CallOf(c, ses[c])
          /\ Len(roots) \in Nat \ {0} /\ DOMAIN roots = 1 .. Len(roots)
          /\ \A j \in DOMAIN roots : roots[j] \in AllRoots
          /\ k \in 1 .. Len(roots) + 1 /\ i \in 1 .. Len(Order)
          /\ SearchOf(ses[c], during[c], lapsed[c])
          /\ ses = [d \in Client |-> ses[d]]
      BY SearchParts DEF MemberInv, MemberTypes
    <2>2. ExpectedHash(roots) = ses[c].hash
      BY <2>1 DEF CallOf
    <2>3. PICK d \in Client : ClientStep(d)
      <3>1. CASE StorageMoves
        <4>1. ses'[c] = ses[c]
          BY <3>1 DEF StorageMoves
        <4>2. QED
          BY <4>1
      <3>2. CASE UNCHANGED allVars
        BY <3>2 DEF allVars, memberVars
      <3>3. QED
        BY <3>1, <3>2 DEF MemberNext
    <2>4. PICK s : ses' = [ses EXCEPT ![d] = s]
      BY <2>3
      DEF ClientStep, Looks, Begin, FetchTree, FetchFails, Prove, Login, Verified, VerifyFails,
          CheckOutput, LookUp, NextTree, TreeMissing, CompareHash, Goes, Opens
    <2>5. d = c
      BY <2>1, <2>4
    <2>6. TreeMissing(c)
      <3>1. /\ ~ (\E list \in Lists : Begin(c, list)) /\ ~ FetchFails(c) /\ ~ Prove(c)
            /\ ~ Verified(c) /\ ~ VerifyFails(c) /\ ~ CheckOutput(c)
        BY DEF Begin, FetchFails, Prove, Verified, VerifyFails, CheckOutput, Idle
      <3>2. ~ LookUp(c) /\ ~ NextTree(c)
        <4> SUFFICES ASSUME LookUp(c) \/ NextTree(c) PROVE FALSE
          OBVIOUS
        <4>1. PICK l, j, got : Goes(c, Look(ses[c], l, j, got, ses[c].first))
          BY DEF LookUp, NextTree
        <4>2. ses'[c].at = "look"
          BY <2>1, <4>1 DEF Goes, Look
        <4>3. QED
          BY <4>2
      <3>3. ~ CompareHash(c)
        BY <2>1, <2>2 DEF CompareHash, Goes
      <3>4. QED
        BY <2>3, <2>5, <3>1, <3>2, <3>3 DEF ClientStep, Looks
    <2>7. k <= Len(roots) /\ ses[c].got # roots[k] /\ i = Len(Order)
      BY <2>6 DEF TreeMissing, Seeks, Sought
    <2>8. k \in DOMAIN roots /\ roots[k] \in AllRoots
      BY <2>1, <2>7
    <2>9. /\ <<Order[i], roots[k]>> \in lapsed[c]
          /\ \A j \in 1 .. i - 1 : <<Order[j], roots[k]>> \in lapsed[c]
      BY <2>1, <2>7, <2>8 DEF SearchOf
    <2>10. \A j \in 1 .. Len(Order) : j = i \/ j \in 1 .. i - 1
      BY <2>7, OrderParts
    <2>11. \A t \in Tree : <<t, roots[k]>> \in lapsed[c]
      BY <2>9, <2>10, OrderParts
    <2>12. QED
      BY <2>8, <2>11 DEF Range
  <1>2. MemberSpec => [][Due]_allVars
    BY MemberInductive, <1>1, PTL DEF MemberSpec
  <1>3. QED
    BY <1>2 DEF RefusalsAreDue

===============================================================================
