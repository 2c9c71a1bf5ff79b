--------------------------- MODULE AuthMapperProofs ---------------------------
(***************************************************************************)
(* Proofs about AuthMapper, for every set of plugins and outputs, every    *)
(* roleMap and every sequence of verdicts.                                 *)
(***************************************************************************)
EXTENDS AuthMapper, PluginToRoleMapperProofs

\* Each output of the response carries the roles roleMap gives for it.
OutputsCarryTheirRoles ==
    \A p \in DOMAIN auth.outputs :
        auth.outputs[p].roles = RoleMap[p][auth.outputs[p].output]

Inv == TypeOK /\ OutputsCarryTheirRoles /\ RolesAreBacked

\* It holds before any call.
LEMMA InitInv == Init => Inv
  <1> SUFFICES ASSUME Init PROVE Inv
    OBVIOUS
  <1>1. << >> \in PluginOutputs
    BY EmptyPMap DEF PluginOutputs
  <1>2. Unasked \in PluginRolesAuth
    BY <1>1 DEF Unasked, PluginRolesAuth, AuthStatus
  <1>3. TypeOK
    BY <1>2 DEF Init, TypeOK
  <1>4. DOMAIN auth.outputs = {} /\ auth.roles = {}
    BY DEF Init, Unasked
  <1>5. QED
    BY <1>3, <1>4 DEF Inv, OutputsCarryTheirRoles, RolesAreBacked

\* requestAuth establishes it.
LEMMA RequestKeeps ==
    ASSUME Inv, NEW f \in PMap(Output \cup {Left}), RequestStep(f)
    PROVE  Inv'
  <1> DEFINE V == {p \in DOMAIN f : f[p] # Left}
  <1>1. /\ ~ RequestAuthThrows(f) /\ auth' = RequestAuth(f)
        /\ asked' = TRUE /\ granted' = auth'
        /\ accepted' = {<<p, f[p]>> : p \in V}
    BY DEF RequestStep
  <1>2. /\ DOMAIN f \subseteq Plugin
        /\ \A p \in DOMAIN f : f[p] \in Output \cup {Left}
    BY PMapParts
  <1>3. auth' \in PluginRolesAuth
    BY <1>1, RequestAuthType DEF Answers
  <1>4. TypeOK'
    BY <1>1, <1>2, <1>3 DEF TypeOK
  <1>5. /\ DOMAIN SplitPMap(f).valid = V
        /\ \A p \in V : SplitPMap(f).valid[p] = f[p]
    BY DEF SplitPMap
  <1>6. /\ DOMAIN auth'.outputs = V
        /\ \A p \in V : auth'.outputs[p] = [output |-> f[p], roles |-> RoleMap[p][f[p]]]
        /\ auth'.roles = UNION {RoleMap[p][f[p]] : p \in V}
    BY <1>1, <1>5 DEF RequestAuth
  <1>7. OutputsCarryTheirRoles'
    <2>1. ASSUME NEW p \in V
          PROVE  auth'.outputs[p].roles = RoleMap[p][auth'.outputs[p].output]
      <3>1. auth'.outputs[p] = [output |-> f[p], roles |-> RoleMap[p][f[p]]]
        BY <1>6
      <3>2. /\ auth'.outputs[p].output = f[p]
            /\ auth'.outputs[p].roles = RoleMap[p][f[p]]
        BY <3>1
      <3>3. QED
        BY <3>2
    <2>2. QED
      BY <1>6, <2>1 DEF OutputsCarryTheirRoles
  <1>8. ASSUME NEW role \in auth'.roles
        PROVE  \E x \in accepted' : role \in RoleMap[x[1]][x[2]]
    <2>1. PICK p \in V : role \in RoleMap[p][f[p]]
      BY <1>6, <1>8
    <2>2. <<p, f[p]>> \in accepted'
      BY <1>1
    <2>3. QED
      BY <2>1, <2>2
  <1>9. QED
    BY <1>4, <1>7, <1>8 DEF Inv, RolesAreBacked

\* checkAuthValidity keeps it.
LEMMA CheckKeeps ==
    ASSUME Inv, NEW f \in PMap(BOOLEAN), CheckStep(f)
    PROVE  Inv'
  <1> DEFINE m == ExtractValidityCheck(auth)
             ok == {p \in DOMAIN f : f[p]}
             kept == {p \in ok : m[p].output \notin Falsy}
  <1>1. /\ DOMAIN f = DOMAIN m
        /\ auth' = CheckAuthValidity(m, f)
        /\ accepted' = {<<p, m[p].output>> : p \in ok}
        /\ UNCHANGED <<asked, granted>>
    BY DEF CheckStep
  <1>2. m \in PluginOutputs
    BY EmptyPMap DEF Inv, TypeOK, PluginRolesAuth, ExtractValidityCheck, PluginOutputs
  <1>3. /\ DOMAIN m \subseteq Plugin
        /\ \A p \in DOMAIN m : m[p] \in [output : Output, roles : SUBSET Role]
    BY <1>2, PMapParts DEF PluginOutputs
  <1>4. \A p \in DOMAIN m : m[p].roles = RoleMap[p][m[p].output]
    BY DEF Inv, OutputsCarryTheirRoles, ExtractValidityCheck
  <1>5. /\ auth'.outputs = m
        /\ auth'.roles = UNION {m[p].roles : p \in kept}
    BY <1>1 DEF CheckAuthValidity
  <1>6. auth' \in PluginRolesAuth
    <2>1. UNION {m[p].roles : p \in kept} \in SUBSET Role
      BY <1>1, <1>3
    <2>2. QED
      BY <1>1, <1>2, <2>1
      DEF CheckAuthValidity, PluginRolesAuth, AuthStatus, DetermineAuthStatus
  <1>7. TypeOK'
    BY <1>1, <1>3, <1>6 DEF Inv, TypeOK
  <1>8. OutputsCarryTheirRoles'
    BY <1>4, <1>5 DEF OutputsCarryTheirRoles
  <1>9. ASSUME NEW role \in auth'.roles
        PROVE  \E x \in accepted' : role \in RoleMap[x[1]][x[2]]
    <2>1. PICK p \in kept : role \in m[p].roles
      BY <1>5, <1>9
    <2>2. <<p, m[p].output>> \in accepted'
      BY <1>1
    <2>3. role \in RoleMap[p][m[p].output]
      BY <1>1, <1>4, <2>1
    <2>4. QED
      BY <2>2, <2>3
  <1>10. QED
    BY <1>7, <1>8, <1>9 DEF Inv, RolesAreBacked

\* So does every step.
LEMMA NextKeeps == Inv /\ [Next]_vars => Inv'
  <1> SUFFICES ASSUME Inv, [Next]_vars PROVE Inv'
    OBVIOUS
  <1>1. CASE UNCHANGED vars
    BY <1>1 DEF vars, Inv, TypeOK, OutputsCarryTheirRoles, RolesAreBacked
  <1>2. CASE \E resps \in PMap(Output \cup {Left}) : RequestStep(resps)
    BY <1>2, RequestKeeps
  <1>3. CASE \E verdicts \in PMap(BOOLEAN) : CheckStep(verdicts)
    BY <1>3, CheckKeeps
  <1>4. CASE CheckThrows
    BY <1>1, <1>4 DEF CheckThrows
  <1>5. QED
    BY <1>1, <1>2, <1>3, <1>4 DEF Next

\* A role is held only through an output its plugin admitted when last asked,
\* after any number of re-validations.
THEOREM RolesBacked == Spec => []RolesAreBacked
  <1>1. Inv => RolesAreBacked
    BY DEF Inv
  <1>2. QED
    BY <1>1, InitInv, NextKeeps, PTL DEF Spec

\* A response that every plugin turned down is never good for anything again.
THEOREM NoneFinal == Spec => NoneIsFinal
  <1>1. ASSUME [Next]_vars, asked, auth.authStatus = "none"
        PROVE  (auth'.authStatus = "none" /\ auth'.roles = {}) \/ UNCHANGED vars
    <2>1. ASSUME NEW f \in PMap(BOOLEAN), CheckStep(f)
          PROVE  auth'.authStatus = "none" /\ auth'.roles = {}
      <3>1. DOMAIN f = {} /\ auth' = CheckAuthValidity(<< >>, f)
        BY <1>1, <2>1 DEF CheckStep, ExtractValidityCheck
      <3>2. QED
        BY <3>1 DEF CheckAuthValidity, DetermineAuthStatus
    <2>2. CASE CheckThrows
      BY <2>2 DEF CheckThrows
    <2>3. QED
      BY <1>1, <2>1, <2>2 DEF Next, RequestStep
  <1>2. [Next]_vars => [asked /\ auth.authStatus = "none" =>
                            auth'.authStatus = "none" /\ auth'.roles = {}]_vars
    BY <1>1
  <1>3. QED
    BY <1>2, PTL DEF Spec, NoneIsFinal

\* The type invariant of the module, from the invariant above.
THEOREM MapperTypes == Spec => []TypeOK
  <1>1. Inv => TypeOK
    BY DEF Inv
  <1>2. QED
    BY <1>1, InitInv, NextKeeps, PTL DEF Spec

\* The roles of the login are spread over the outputs, of which a check
\* loses none.
RolesInOutputs ==
    /\ asked => granted.roles = UNION {auth.outputs[p].roles : p \in DOMAIN auth.outputs}
    /\ ~ asked => auth = Unasked /\ granted = Unasked
    /\ FullKeepsRoles

\* requestAuth establishes it.
LEMMA RequestKeepsRoles ==
    ASSUME NEW f \in PMap(Output \cup {Left}), RequestStep(f)
    PROVE  RolesInOutputs'
  <1> DEFINE V == DOMAIN SplitPMap(f).valid
             R == [p \in V |-> RoleMap[p][SplitPMap(f).valid[p]]]
  <1>1. asked' = TRUE /\ auth' = RequestAuth(f) /\ granted' = auth'
    BY DEF RequestStep
  <1>2. /\ auth'.roles = UNION {R[p] : p \in V}
        /\ DOMAIN auth'.outputs = V
        /\ \A p \in V : auth'.outputs[p].roles = R[p]
    BY <1>1 DEF RequestAuth
  <1>3. {auth'.outputs[p].roles : p \in DOMAIN auth'.outputs} = {R[p] : p \in V}
    <2> HIDE DEF V, R
    <2> QED
      BY <1>2
  <1>4. QED
    BY <1>1, <1>2, <1>3 DEF RolesInOutputs, FullKeepsRoles

\* checkAuthValidity keeps it when no output that is confirmed is falsy.
LEMMA CheckKeepsRoles ==
    ASSUME RolesInOutputs, NEW f \in PMap(BOOLEAN), CheckStep(f),
           \A p \in DOMAIN f : f[p] => ExtractValidityCheck(auth)[p].output \notin Falsy
    PROVE  RolesInOutputs'
  <1> DEFINE m == ExtractValidityCheck(auth)
             ok == {p \in DOMAIN f : f[p]}
             kept == {p \in ok : m[p].output \notin Falsy}
  <1>1. /\ asked /\ DOMAIN f = DOMAIN m /\ DOMAIN m # {}
        /\ auth' = CheckAuthValidity(m, f) /\ asked' = asked /\ granted' = granted
    BY DEF CheckStep
  <1>2. m = auth.outputs
    BY <1>1 DEF ExtractValidityCheck
  <1>3. /\ auth'.outputs = m
        /\ auth'.roles = UNION {m[p].roles : p \in kept}
        /\ auth'.authStatus = DetermineAuthStatus(ok, DOMAIN f \ ok)
    BY <1>1 DEF CheckAuthValidity
  <1>4. kept = ok
    OBVIOUS
  <1>5. auth'.authStatus = "full" => ok = DOMAIN m
    BY <1>1, <1>3 DEF DetermineAuthStatus
  <1>6. asked' => granted'.roles = UNION {auth'.outputs[p].roles : p \in DOMAIN auth'.outputs}
    BY <1>1, <1>2, <1>3 DEF RolesInOutputs
  <1>7. auth'.authStatus = "full" => auth'.roles = granted'.roles
    <2>1. CASE ok = DOMAIN m
      <3> HIDE DEF ok, m, kept
      <3> QED
        BY <1>1, <1>3, <1>4, <1>6, <2>1
    <2>2. QED
      BY <1>5, <2>1
  <1>8. QED
    BY <1>1, <1>6, <1>7 DEF RolesInOutputs, FullKeepsRoles

\* When no output is falsy, a response that is full has the roles of its
\* login, whatever verdicts came in between.
THEOREM FullKeeps == Falsy = {} => (Spec => []FullKeepsRoles)
  <1> SUFFICES ASSUME Falsy = {} PROVE Spec => []FullKeepsRoles
    OBVIOUS
  <1>1. Init => RolesInOutputs
    BY DEF Init, Unasked, RolesInOutputs, FullKeepsRoles
  <1>2. ASSUME RolesInOutputs, UNCHANGED vars PROVE RolesInOutputs'
    BY <1>2 DEF vars, RolesInOutputs, FullKeepsRoles
  <1>3. RolesInOutputs /\ [Next]_vars => RolesInOutputs'
    BY <1>2, RequestKeepsRoles, CheckKeepsRoles DEF Next, CheckThrows
  <1>4. RolesInOutputs => FullKeepsRoles
    BY DEF RolesInOutputs
  <1>5. QED
    BY <1>1, <1>3, <1>4, PTL DEF Spec

=============================================================================
