----------------------- MODULE PluginToRoleMapperProofs -----------------------
(***************************************************************************)
(* Lemmas about the authentication mapper, for the proofs about the        *)
(* modules that use it.                                                    *)
(***************************************************************************)
EXTENDS PluginToRoleMapper, TLAPS

-----------------------------------------------------------------------------
(* Lemmas on maps from plugins *)

\* A PMap is a function on some set of plugins.
LEMMA PMapMember ==
    ASSUME NEW S, NEW f
    PROVE  f \in PMap(S) <=> \E D \in SUBSET Plugin : f \in [D -> S]
  BY DEF PMap

\* The empty object is a PMap.
LEMMA EmptyPMap == ASSUME NEW S PROVE << >> \in PMap(S)
  <1>1. << >> \in [{} -> S]
    OBVIOUS
  <1>2. QED
    BY <1>1, PMapMember

\* Adding an answer to a map of answers.
LEMMA PMapExtend ==
    ASSUME NEW S, NEW f \in PMap(S), NEW p \in Plugin, NEW v \in S
    PROVE  [q \in DOMAIN f \cup {p} |-> IF q = p THEN v ELSE f[q]] \in PMap(S)
  <1> DEFINE g == [q \in DOMAIN f \cup {p} |-> IF q = p THEN v ELSE f[q]]
  <1>1. PICK D \in SUBSET Plugin : f \in [D -> S]
    BY PMapMember
  <1>2. g \in [D \cup {p} -> S]
    BY <1>1
  <1>3. D \cup {p} \in SUBSET Plugin
    OBVIOUS
  <1>4. QED
    BY <1>2, <1>3, PMapMember

\* The domain and the values of a PMap.
LEMMA PMapParts ==
    ASSUME NEW S, NEW f \in PMap(S)
    PROVE  /\ DOMAIN f \subseteq Plugin
           /\ \A p \in DOMAIN f : f[p] \in S
  <1>1. PICK D \in SUBSET Plugin : f \in [D -> S]
    BY PMapMember
  <1>2. QED
    BY <1>1

\* A smaller range.
LEMMA PMapMono ==
    ASSUME NEW S, NEW T, S \subseteq T, NEW f \in PMap(S)
    PROVE  f \in PMap(T)
  <1>1. PICK D \in SUBSET Plugin : f \in [D -> S]
    BY PMapMember
  <1>2. f \in [D -> T]
    BY <1>1
  <1>3. QED
    BY <1>2, PMapMember

-----------------------------------------------------------------------------
(* Lemmas on the mapper *)

Answers == Output \cup {Left}

\* What requestAuth returns when it does not throw.
LEMMA RequestAuthType ==
    ASSUME NEW f \in PMap(Answers), ~ RequestAuthThrows(f)
    PROVE  RequestAuth(f) \in PluginRolesAuth
  <1> DEFINE V == {p \in DOMAIN f : f[p] # Left}
             roles == [p \in V |-> RoleMap[p][f[p]]]
             outs == [p \in V |-> [output |-> f[p], roles |-> roles[p]]]
  <1>1. /\ DOMAIN f \subseteq Plugin
        /\ \A p \in DOMAIN f : f[p] \in Answers
    BY PMapParts
  <1>2. /\ DOMAIN SplitPMap(f).valid = V
        /\ \A p \in V : SplitPMap(f).valid[p] = f[p]
    BY DEF SplitPMap
  <1>3. V \subseteq DOMAIN RoleMap
    BY <1>2 DEF RequestAuthThrows
  <1>4. \A p \in V : RoleMap[p][f[p]] \in SUBSET Role
    BY <1>1, <1>3, RoleMapperAssumption DEF Answers
  <1>5. outs \in [V -> [output : Output, roles : SUBSET Role]]
    BY <1>1, <1>4 DEF Answers
  <1>6. outs \in PluginOutputs
    BY <1>1, <1>5, PMapMember DEF PluginOutputs
  <1>7. UNION {roles[p] : p \in V} \in SUBSET Role
    BY <1>4
  <1>8. RequestAuth(f) = [authStatus |-> DetermineAuthStatus(V, SplitPMap(f).errors),
                          roles |-> UNION {roles[p] : p \in V},
                          outputs |-> outs]
    BY <1>2 DEF RequestAuth
  <1>9. QED
    BY <1>6, <1>7, <1>8 DEF PluginRolesAuth, AuthStatus, DetermineAuthStatus

\* A check that comes out full found every output valid.
LEMMA FullCheck ==
    ASSUME NEW m, NEW f, CheckAuthValidity(m, f).authStatus = "full"
    PROVE  \A p \in DOMAIN f : f[p]
  BY DEF CheckAuthValidity, DetermineAuthStatus

=============================================================================
