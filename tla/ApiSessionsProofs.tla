--------------------------- MODULE ApiSessionsProofs ---------------------------
(***************************************************************************)
(* Proofs about ApiSessions, for every number of requests, plugins and     *)
(* outputs, every roleMap, JWT lifetime and clock bound: its invariants,   *)
(* and that it implements ApiPromise.                                      *)
(***************************************************************************)
EXTENDS ApiSessions, PluginToRoleMapperProofs

-----------------------------------------------------------------------------
(* What the mapper returns *)

\* A response of requestAuth is about outputs that were answered, and a full
\* one has an output for every plugin asked.
LEMMA RequestAuthOutputs ==
    ASSUME NEW f \in PMap(Answers)
    PROVE  OutputsOf(RequestAuth(f)) = {<<p, f[p]>> : p \in {q \in DOMAIN f : f[q] # Left}}
  <1> DEFINE V == {p \in DOMAIN f : f[p] # Left}
  <1>1. /\ DOMAIN SplitPMap(f).valid = V
        /\ \A p \in V : SplitPMap(f).valid[p] = f[p]
    BY DEF SplitPMap
  <1>2. /\ DOMAIN RequestAuth(f).outputs = V
        /\ \A p \in V : RequestAuth(f).outputs[p].output = f[p]
    BY <1>1 DEF RequestAuth
  <1>3. QED
    BY <1>2 DEF OutputsOf

-----------------------------------------------------------------------------
(* Type correctness *)

Values == Output \cup {Left} \cup BOOLEAN
Rows == {Unissued, Gone} \cup {Stored(a) : a \in PluginRolesAuth}

\* No response yet is a response.
LEMMA NoAuthType == NoAuth \in PluginRolesAuth
  <1>1. << >> \in PluginOutputs
    BY EmptyPMap DEF PluginOutputs
  <1>2. QED
    BY <1>1 DEF NoAuth, PluginRolesAuth, AuthStatus

\* Every variable has its type at the start.
LEMMA InitType == Init => TypeOK
  <1> SUFFICES ASSUME Init PROVE TypeOK
    OBVIOUS
  <1>1. << >> \in PMap(Output) /\ << >> \in PMap(Values)
    BY EmptyPMap
  <1>2. QED
    BY <1>1, NoAuthType, SessionsAssumption DEF Init, TypeOK, Values, Pc, Reply

\* What is sent to the plugins.
LEMMA ToCheckType ==
    ASSUME TypeOK, NEW r \in Request
    PROVE  ToCheck(r) \in PluginOutputs
  <1>1. auth[r] \in PluginRolesAuth
    BY DEF TypeOK
  <1>2. << >> \in PluginOutputs
    BY EmptyPMap DEF PluginOutputs
  <1>3. QED
    BY <1>1, <1>2 DEF ToCheck, ExtractValidityCheck, PluginRolesAuth

\* Answering keeps the types of what it changes.
LEMMA AnswerType ==
    ASSUME TypeOK, NEW r \in Request, NEW code \in Reply, Answer(r, code)
    PROVE  /\ pc' \in [Request -> Pc]
           /\ reply' \in [Request -> Reply]
           /\ claims' \in [Request -> PMap(Output)]
           /\ resps' \in [Request -> PMap(Values)]
  <1>1. << >> \in PMap(Output) /\ << >> \in PMap(Values)
    BY EmptyPMap
  <1>2. QED
    BY <1>1 DEF Answer, TypeOK, Pc, Values

\* The pairs at stake in a request are pairs.
LEMMA StakeType ==
    /\ \A c \in PMap(Output) : ClaimsOf(c) \subseteq Pair
    /\ \A a \in PluginRolesAuth : OutputsOf(a) \subseteq Pair
  <1>1. ASSUME NEW c \in PMap(Output) PROVE ClaimsOf(c) \subseteq Pair
    BY PMapParts DEF ClaimsOf, Pair
  <1>2. ASSUME NEW a \in PluginRolesAuth PROVE OutputsOf(a) \subseteq Pair
    <2>1. a.outputs \in PluginOutputs
      BY DEF PluginRolesAuth
    <2>2. /\ DOMAIN a.outputs \subseteq Plugin
          /\ \A p \in DOMAIN a.outputs : a.outputs[p] \in [output : Output, roles : SUBSET Role]
      BY <2>1, PMapParts DEF PluginOutputs
    <2>3. QED
      BY <2>2 DEF OutputsOf, Pair
  <1>3. QED
    BY <1>1, <1>2

\* Receiving keeps the types of what it changes.
LEMMA ReceiveType ==
    ASSUME TypeOK, NEW r \in Request, NEW s \in Pc, NEW stake \in SUBSET Pair,
           Receive(r, s, stake)
    PROVE  /\ pc' \in [Request -> Pc]
           /\ began' \in [Request -> Nat] /\ lastValid' \in [Pair -> Nat]
           /\ wasValid' \in [Request -> SUBSET Pair]
           /\ wasInvalid' \in [Request -> SUBSET Pair]
  BY DEF Receive, TypeOK

-----------------------------------------------------------------------------
(* A step of one request leaves the others alone *)

\* What a step of r does to the other requests: nothing, but that a row of
\* the table may be deleted.
OthersUntouched(r) ==
    \A q \in Request \ {r} :
        /\ pc'[q] = pc[q] /\ claims'[q] = claims[q] /\ resps'[q] = resps[q]
        /\ auth'[q] = auth[q] /\ tok'[q] = tok[q] /\ exp'[q] = exp[q]
        /\ reply'[q] = reply[q] /\ began'[q] = began[q]
        /\ wasValid'[q] = wasValid[q] /\ wasInvalid'[q] = wasInvalid[q]
        /\ db'[q] = db[q] \/ (db[q] # Unissued /\ db'[q] = Gone)

\* A step of r keeps the invariant of every other request q: q presents no
\* refresh token of r, which has none yet.
LEMMA OthersKeep ==
    ASSUME IndInv, NEW r \in Request, pc[r] # "done", OthersUntouched(r),
           UNCHANGED <<now, valid, lastValid>>,
           NEW q \in Request \ {r}
    PROVE  RequestInv(q)'
  <1>1. RequestInv(q) /\ RequestInv(r)
    BY DEF IndInv
  <1>2. tok[q] # r
    BY <1>1 DEF RequestInv, StageInv
  <1>3. tok[q] \in Request \ {r}
    BY <1>2 DEF IndInv, TypeOK
  <1>4. /\ auth'[tok'[q]] = auth[tok[q]] /\ reply'[tok'[q]] = reply[tok[q]]
        /\ db[tok[q]] = Gone => db'[tok'[q]] = Gone
    BY <1>3 DEF OthersUntouched
  <1>5. Active(q)' = Active(q) /\ AtStake(q)' = AtStake(q)
    BY <1>4 DEF OthersUntouched, Active, AtStake
  <1>6. StageInv(q)'
    BY <1>1, <1>4 DEF RequestInv, StageInv, OthersUntouched
  <1>7. RowInv(q)'
    BY <1>1, <1>4 DEF RequestInv, RowInv, OthersUntouched, Unissued, Gone, Stored
  <1>8. ProofAnswersInv(q)' /\ CheckAnswersInv(q)'
    BY <1>1 DEF RequestInv, ProofAnswersInv, CheckAnswersInv, OthersUntouched
  <1>9. SignInv(q)'
    BY <1>1 DEF RequestInv, SignInv, OthersUntouched
  <1>10. HistoryInv(q)'
    BY <1>1, <1>5 DEF RequestInv, HistoryInv, OthersUntouched
  <1>11. QED
    BY <1>6, <1>7, <1>8, <1>9, <1>10 DEF RequestInv

\* So for a step of r it is enough to look at r.
LEMMA StepKeeps ==
    ASSUME IndInv, NEW r \in Request, pc[r] # "done", OthersUntouched(r),
           UNCHANGED <<now, valid, lastValid, pluginUp>>,
           TypeOK', RequestInv(r)'
    PROVE  IndInv'
  <1>1. ASSUME NEW q \in Request PROVE RequestInv(q)'
    BY OthersKeep
  <1>2. QED
    BY <1>1 DEF IndInv

-----------------------------------------------------------------------------
(* Each action preserves the inductive invariant *)

\* An answer about a proof is what the plugin says now.
LEMMA VerifyProofKeeps ==
    ASSUME IndInv, NEW r \in Request, NEW p \in Plugin, VerifyProof(r, p)
    PROVE  IndInv'
  <1> DEFINE out == IF pluginUp /\ <<p, claims[r][p]>> \in valid THEN claims[r][p] ELSE Left
             m == [q \in DOMAIN resps[r] \cup {p} |-> IF q = p THEN out ELSE resps[r][q]]
  <1>1. TypeOK /\ RequestInv(r)
    BY DEF IndInv
  <1>2. claims[r] \in PMap(Output) /\ resps[r] \in PMap(Values)
    BY <1>1 DEF TypeOK, Values
  <1>3. /\ pc[r] = "verify" /\ pc' = pc /\ p \in DOMAIN claims[r]
        /\ resps' = [resps EXCEPT ![r] = m]
        /\ UNCHANGED <<env, pc, reply, claims, auth, tok, exp, db, via, history>>
    BY DEF VerifyProof, ProofAccepted
  <1>4. out \in Values
    BY <1>2, <1>3, PMapParts DEF Values
  <1>5. m \in PMap(Values)
    BY <1>2, <1>4, PMapExtend
  <1>6. TypeOK'
    BY <1>1, <1>3, <1>5 DEF TypeOK, Values, env, history
  <1>7. OthersUntouched(r)
    BY <1>1, <1>3 DEF OthersUntouched, TypeOK, history
  <1>8. resps'[r] = m
    BY <1>1, <1>3 DEF TypeOK
  <1>9. ProofAnswersInv(r)'
    <2>1. AtStake(r) = ClaimsOf(claims[r]) /\ Active(r)
      BY <1>3 DEF AtStake, Active
    <2>2. <<p, claims[r][p]>> \in valid => <<p, claims[r][p]>> \in wasValid[r]
      BY <1>1, <1>3, <2>1 DEF RequestInv, HistoryInv, ClaimsOf
    <2>3. ASSUME NEW q \in DOMAIN m
          PROVE  /\ q \in DOMAIN claims[r]
                 /\ m[q] = Left \/ (m[q] = claims[r][q] /\ <<q, claims[r][q]>> \in wasValid[r])
      BY <1>1, <1>3, <2>2 DEF RequestInv, ProofAnswersInv
    <2>4. QED
      BY <1>3, <1>8, <2>3 DEF ProofAnswersInv, history
  <1>10. StageInv(r)' /\ RowInv(r)' /\ CheckAnswersInv(r)' /\ SignInv(r)'
    BY <1>1, <1>3 DEF RequestInv, StageInv, RowInv, CheckAnswersInv, SignInv, history
  <1>11. HistoryInv(r)'
    BY <1>1, <1>3 DEF RequestInv, HistoryInv, Active, AtStake, history, env
  <1>12. RequestInv(r)'
    BY <1>9, <1>10, <1>11 DEF RequestInv
  <1>13. QED
    BY <1>3, <1>6, <1>7, <1>12, StepKeeps DEF env, history

\* A verdict about an output is what the plugin says now, or an outage.
LEMMA ValidateOutputKeeps ==
    ASSUME IndInv, NEW r \in Request, NEW p \in Plugin, ValidateOutput(r, p)
    PROVE  IndInv'
  <1> DEFINE ok == pluginUp /\ <<p, ToCheck(r)[p].output>> \in valid
             m == [q \in DOMAIN resps[r] \cup {p} |-> IF q = p THEN ok ELSE resps[r][q]]
  <1>1. TypeOK /\ RequestInv(r) /\ (~ Outages => pluginUp)
    BY DEF IndInv
  <1>2. resps[r] \in PMap(Values)
    BY <1>1 DEF TypeOK, Values
  <1>3. /\ pc[r] = "check" /\ pc' = pc /\ p \in DOMAIN ToCheck(r)
        /\ resps' = [resps EXCEPT ![r] = m]
        /\ UNCHANGED <<env, pc, reply, claims, auth, tok, exp, db, via, history>>
    BY DEF ValidateOutput, OutputStillValid
  <1>4. ok \in BOOLEAN
    OBVIOUS
  <1>5. m \in PMap(Values)
    BY <1>2, <1>4, PMapExtend DEF Values
  <1>6. TypeOK'
    BY <1>1, <1>3, <1>5 DEF TypeOK, Values, env, history
  <1>7. OthersUntouched(r)
    BY <1>1, <1>3 DEF OthersUntouched, TypeOK, history
  <1>8. resps'[r] = m
    BY <1>1, <1>3 DEF TypeOK
  <1>9. CheckAnswersInv(r)'
    <2>1. AtStake(r) = OutputsOf(auth[r]) /\ Active(r)
      BY <1>1, <1>3 DEF RequestInv, StageInv, AtStake, Active
    <2>2. ToCheck(r) = auth[r].outputs
      BY <1>3 DEF ToCheck, ExtractValidityCheck
    <2> DEFINE x == <<p, auth[r].outputs[p].output>>
    <2>3. /\ x \in valid => x \in wasValid[r]
          /\ x \notin valid => x \in wasInvalid[r]
      BY <1>1, <1>3, <2>1, <2>2 DEF RequestInv, HistoryInv, OutputsOf
    <2>4. /\ ok = TRUE => x \in wasValid[r]
          /\ ok = FALSE => Outages \/ x \in wasInvalid[r]
      BY <1>1, <2>2, <2>3
    <2>5. ASSUME NEW q \in DOMAIN m
          PROVE  /\ q \in DOMAIN auth[r].outputs
                 /\ m[q] \in BOOLEAN
                 /\ m[q] = TRUE => <<q, auth[r].outputs[q].output>> \in wasValid[r]
                 /\ m[q] = FALSE =>
                       Outages \/ <<q, auth[r].outputs[q].output>> \in wasInvalid[r]
      <3>1. CASE q = p
        <4>1. m[q] = ok
          BY <3>1
        <4>2. QED
          BY <1>3, <1>4, <2>2, <2>4, <3>1, <4>1
      <3>2. CASE q # p
        <4>1. q \in DOMAIN resps[r] /\ m[q] = resps[r][q]
          BY <3>2
        <4>2. QED
          BY <1>1, <1>3, <4>1 DEF RequestInv, CheckAnswersInv
      <3>3. QED
        BY <3>1, <3>2
    <2>6. QED
      BY <1>1, <1>3, <1>8, <2>5 DEF RequestInv, CheckAnswersInv, history
  <1>10. StageInv(r)' /\ RowInv(r)' /\ ProofAnswersInv(r)' /\ SignInv(r)'
    BY <1>1, <1>3 DEF RequestInv, StageInv, RowInv, ProofAnswersInv, SignInv, history
  <1>11. HistoryInv(r)'
    BY <1>1, <1>3 DEF RequestInv, HistoryInv, Active, AtStake, history, env
  <1>12. RequestInv(r)'
    BY <1>9, <1>10, <1>11 DEF RequestInv
  <1>13. QED
    BY <1>3, <1>6, <1>7, <1>12, StepKeeps DEF env, history

\* An answer that gives the client nothing and takes nothing away.
PlainReply == {"granted", "400", "401", "500", "lost"}

\* Such an answer ends a request without a row or a JWT that counts.
LEMMA PlainAnswerKeeps ==
    ASSUME IndInv, NEW r \in Request, pc[r] # "done",
           NEW code \in PlainReply, Answer(r, code),
           UNCHANGED <<env, auth, tok, exp, db, history>>,
           via' \in [Request -> Request]
    PROVE  IndInv'
  <1>1. TypeOK /\ RequestInv(r)
    BY DEF IndInv
  <1>2. TypeOK'
    <2>1. code \in Reply
      BY DEF PlainReply, Reply
    <2>2. QED
      BY <1>1, <2>1, AnswerType DEF TypeOK, env, history, Values
  <1>3. OthersUntouched(r)
    BY <1>1 DEF OthersUntouched, Answer, TypeOK, history
  <1>4. pc'[r] = "done" /\ reply'[r] = code
    BY <1>1 DEF Answer, TypeOK
  <1>5. tok[r] \in Request /\ \A q \in Request \ {r} : reply'[q] = reply[q]
    BY <1>1, <1>3 DEF TypeOK, OthersUntouched
  <1>6. StageInv(r)'
    BY <1>1, <1>4, <1>5 DEF RequestInv, StageInv, PlainReply
  <1>7. RowInv(r)'
    BY <1>1, <1>4 DEF RequestInv, StageInv, RowInv, PlainReply
  <1>8. ProofAnswersInv(r)' /\ CheckAnswersInv(r)'
    BY <1>4 DEF ProofAnswersInv, CheckAnswersInv, PlainReply
  <1>9. SignInv(r)'
    BY <1>1, <1>4 DEF RequestInv, SignInv, history
  <1>10. HistoryInv(r)'
    BY <1>1, <1>4 DEF RequestInv, HistoryInv, Active, history, env
  <1>11. RequestInv(r)'
    BY <1>6, <1>7, <1>8, <1>9, <1>10 DEF RequestInv
  <1>12. QED
    BY <1>2, <1>3, <1>11, StepKeeps DEF env, history

\* A request that fails at the database changes nothing else.
LEMMA DatabaseFailsKeeps ==
    ASSUME IndInv, NEW r \in Request, DatabaseFails(r)
    PROVE  IndInv'
  BY PlainAnswerKeeps DEF DatabaseFails, PlainReply, sessionVars, IndInv, TypeOK

\* A request refused at once changes nothing else.
LEMMA RefuseKeeps ==
    ASSUME IndInv, NEW r \in Request, NEW code \in {"400", "401"}, Refuse(r, code)
    PROVE  IndInv'
  BY PlainAnswerKeeps DEF Refuse, PlainReply, sessionVars, IndInv, TypeOK

\* A granted request changes nothing else.
LEMMA ProtectedKeeps ==
    ASSUME IndInv, NEW r \in Request, NEW j \in Request, Protected(r, j)
    PROVE  IndInv'
  BY PlainAnswerKeeps DEF Protected, PlainReply, IndInv, TypeOK

\* A login with a full response signs a JWT for what its proofs showed.
LEMMA LoginDecideKeeps ==
    ASSUME IndInv, NEW r \in Request, LoginDecide(r)
    PROVE  IndInv'
  <1> DEFINE a == RequestAuth(resps[r])
  <1>1. /\ TypeOK /\ RequestInv(r)
        /\ pc[r] = "verify" /\ ~ RequestAuthThrows(resps[r])
        /\ UNCHANGED <<env, tok, db, via, history>>
    BY DEF IndInv, LoginDecide
  <1>2. CASE a.authStatus # "full"
    BY <1>1, <1>2, PlainAnswerKeeps DEF LoginDecide, PlainReply, TypeOK
  <1>3. CASE a.authStatus = "full"
    <2>1. /\ auth' = [auth EXCEPT ![r] = a]
          /\ exp' = [exp EXCEPT ![r] = now + JwtExpiresIn]
          /\ pc' = [pc EXCEPT ![r] = "store"]
          /\ UNCHANGED <<reply, locals>>
      BY <1>3 DEF LoginDecide
    <2>2. resps[r] \in PMap(Answers)
      <3>1. resps[r] \in PMap(Values) /\ claims[r] \in PMap(Output)
        BY <1>1 DEF TypeOK, Values
      <3>2. \A p \in DOMAIN resps[r] : resps[r][p] \in Answers
        BY <1>1, <3>1, PMapParts DEF RequestInv, ProofAnswersInv, Answers
      <3>3. PICK D \in SUBSET Plugin : resps[r] \in [D -> Values]
        BY <3>1, PMapMember
      <3>4. resps[r] \in [D -> Answers]
        BY <3>2, <3>3
      <3>5. QED
        BY <3>4, PMapMember
    <2>3. a \in PluginRolesAuth
      BY <1>1, <2>2, RequestAuthType
    <2>4. now + JwtExpiresIn \in Nat \ {0}
      BY <1>1, SessionsAssumption DEF TypeOK
    <2>5. TypeOK'
      BY <1>1, <2>1, <2>3, <2>4 DEF TypeOK, env, history, locals, Pc
    <2>6. OthersUntouched(r)
      BY <1>1, <2>1 DEF OthersUntouched, TypeOK, locals, history
    <2>7. pc'[r] = "store" /\ auth'[r] = a /\ exp'[r] = now + JwtExpiresIn
      BY <1>1, <2>1 DEF TypeOK
    <2>8. OutputsOf(a) \subseteq wasValid[r]
      <3>1. OutputsOf(a) = {<<p, resps[r][p]>> : p \in {q \in DOMAIN resps[r] : resps[r][q] # Left}}
        BY <2>2, RequestAuthOutputs
      <3>2. \A p \in DOMAIN resps[r] : resps[r][p] # Left => <<p, resps[r][p]>> \in wasValid[r]
        BY <1>1 DEF RequestInv, ProofAnswersInv
      <3>3. QED
        BY <3>1, <3>2
    <2>9. DOMAIN a.outputs # {}
      BY <1>3 DEF RequestAuth, DetermineAuthStatus
    <2>10. StageInv(r)' /\ RowInv(r)' /\ ProofAnswersInv(r)' /\ CheckAnswersInv(r)'
      BY <1>1, <2>1, <2>4, <2>7
      DEF RequestInv, StageInv, RowInv, ProofAnswersInv, CheckAnswersInv
    <2>11. SignInv(r)'
      <3>1. now + JwtExpiresIn >= began[r] + JwtExpiresIn
        BY <1>1, SessionsAssumption DEF RequestInv, HistoryInv, TypeOK
      <3>2. QED
        BY <1>1, <1>3, <2>7, <2>8, <2>9, <3>1 DEF SignInv, history
    <2>12. HistoryInv(r)'
      <3>1. AtStake(r)' = OutputsOf(a) /\ OutputsOf(a) \subseteq AtStake(r)
        <4>1. AtStake(r)' = OutputsOf(a)
          BY <1>1, <2>7 DEF AtStake, RequestInv, StageInv
        <4>2. OutputsOf(a) = {<<p, resps[r][p]>> : p \in {q \in DOMAIN resps[r] : resps[r][q] # Left}}
          BY <2>2, RequestAuthOutputs
        <4>3. AtStake(r) = {<<p, claims[r][p]>> : p \in DOMAIN claims[r]}
          BY <1>1 DEF AtStake, ClaimsOf
        <4>4. QED
          BY <1>1, <4>1, <4>2, <4>3 DEF RequestInv, ProofAnswersInv
      <3>2. Active(r)
        BY <1>1 DEF Active
      <3>3. QED
        BY <1>1, <3>1, <3>2 DEF RequestInv, HistoryInv, env, history
    <2>13. RequestInv(r)'
      BY <2>10, <2>11, <2>12 DEF RequestInv
    <2>14. QED
      BY <1>1, <2>5, <2>6, <2>13, StepKeeps DEF env, history
  <1>4. QED
    BY <1>2, <1>3

\* The row of a login holds its response.
LEMMA StoreAuthResponseKeeps ==
    ASSUME IndInv, NEW r \in Request, StoreAuthResponse(r)
    PROVE  IndInv'
  <1>1. /\ TypeOK /\ RequestInv(r) /\ pc[r] = "store"
        /\ db' = [db EXCEPT ![r] = Stored(auth[r])]
        /\ pc' = [pc EXCEPT ![r] = "stored"]
        /\ UNCHANGED <<env, reply, locals, auth, tok, exp, via, history>>
    BY DEF IndInv, StoreAuthResponse
  <1>2. TypeOK'
    BY <1>1 DEF TypeOK, Pc, locals, env, history
  <1>3. OthersUntouched(r)
    BY <1>1 DEF OthersUntouched, TypeOK, locals, history
  <1>4. pc'[r] = "stored" /\ db'[r] = Stored(auth[r])
    BY <1>1 DEF TypeOK
  <1>5. tok[r] = r /\ reply[r] = "none" /\ exp[r] # 0
    BY <1>1 DEF RequestInv, StageInv
  <1>6. StageInv(r)' /\ ProofAnswersInv(r)' /\ CheckAnswersInv(r)'
    BY <1>1, <1>4, <1>5 DEF StageInv, ProofAnswersInv, CheckAnswersInv
  <1>7. RowInv(r)'
    BY <1>1, <1>4, <1>5 DEF RowInv, Unissued, Stored
  <1>8. SignInv(r)'
    BY <1>1, <1>4 DEF RequestInv, SignInv, history
  <1>9. HistoryInv(r)'
    <2>1. AtStake(r)' = AtStake(r) /\ Active(r)
      BY <1>1, <1>4 DEF AtStake, Active
    <2>2. QED
      BY <1>1, <2>1 DEF RequestInv, HistoryInv, history, env
  <1>10. RequestInv(r)'
    BY <1>6, <1>7, <1>8, <1>9 DEF RequestInv
  <1>11. QED
    BY <1>1, <1>2, <1>3, <1>10, StepKeeps DEF env, history

\* A client that is signed in has a row.
LEMMA LoginSucceedsKeeps ==
    ASSUME IndInv, NEW r \in Request, LoginSucceeds(r)
    PROVE  IndInv'
  <1>1. /\ TypeOK /\ RequestInv(r) /\ pc[r] = "stored" /\ Answer(r, "signedIn")
        /\ UNCHANGED <<env, auth, tok, exp, db, via, history>>
    BY DEF IndInv, LoginSucceeds, sessionVars
  <1>2. TypeOK'
    BY <1>1, AnswerType DEF TypeOK, Reply, Values, env, history
  <1>3. OthersUntouched(r)
    BY <1>1 DEF OthersUntouched, Answer, TypeOK, history
  <1>4. pc'[r] = "done" /\ reply'[r] = "signedIn"
    BY <1>1 DEF Answer, TypeOK
  <1>5. tok[r] = r /\ exp[r] # 0
    BY <1>1 DEF RequestInv, StageInv
  <1>6. StageInv(r)' /\ RowInv(r)' /\ ProofAnswersInv(r)' /\ CheckAnswersInv(r)'
    BY <1>1, <1>4, <1>5
    DEF RequestInv, StageInv, RowInv, ProofAnswersInv, CheckAnswersInv
  <1>7. SignInv(r)' /\ HistoryInv(r)'
    BY <1>1, <1>4 DEF RequestInv, SignInv, HistoryInv, Active, history, env
  <1>8. RequestInv(r)'
    BY <1>6, <1>7 DEF RequestInv
  <1>9. QED
    BY <1>1, <1>2, <1>3, <1>8, StepKeeps DEF env, history

\* The row read is the response of the login the token was issued by.
LEMMA GetAuthResponseKeeps ==
    ASSUME IndInv, NEW r \in Request, GetAuthResponse(r)
    PROVE  IndInv'
  <1> DEFINE row == db[tok[r]]
  <1>1. /\ TypeOK /\ RequestInv(r) /\ pc[r] = "read"
        /\ UNCHANGED <<env, tok, exp, db, via, history>>
        /\ tok[r] \in Request
    BY DEF IndInv, GetAuthResponse, TypeOK
  <1>2. CASE ~ (row.row = "stored" /\ row.auth.authStatus # "none")
    BY <1>1, <1>2, PlainAnswerKeeps DEF GetAuthResponse, RowOf, PlainReply, TypeOK
  <1>3. CASE row.row = "stored" /\ row.auth.authStatus # "none"
    <2>1. /\ auth' = [auth EXCEPT ![r] = row.auth]
          /\ pc' = [pc EXCEPT ![r] = "check"]
          /\ UNCHANGED <<reply, locals>>
      BY <1>3 DEF GetAuthResponse, RowOf
    <2>2. row # Unissued /\ row # Gone
      BY <1>3 DEF Unissued, Gone
    <2>3. RequestInv(tok[r])
      BY <1>1 DEF IndInv
    <2>4. row.auth = auth[tok[r]]
      BY <2>2, <2>3 DEF RequestInv, RowInv, Stored
    <2>5. tok[r] # r
      BY <1>1, <2>2 DEF RequestInv, StageInv
    <2>6. /\ pc'[r] = "check" /\ auth'[r] = auth[tok[r]]
          /\ auth'[tok[r]] = auth[tok[r]] /\ reply' = reply /\ resps'[r] = << >>
      BY <1>1, <2>1, <2>4, <2>5 DEF TypeOK, RequestInv, StageInv, locals
    <2>7. TypeOK'
      BY <1>1, <2>1, <2>4 DEF TypeOK, env, history, locals, Pc
    <2>8. OthersUntouched(r)
      BY <1>1, <2>1 DEF OthersUntouched, TypeOK, locals, history
    <2>9. StageInv(r)'
      BY <1>1, <2>5, <2>6 DEF RequestInv, StageInv
    <2>10. exp[r] = 0 /\ db[r] = Unissued /\ reply[r] = "none"
      BY <1>1 DEF RequestInv, StageInv, SignInv
    <2>11. RowInv(r)' /\ ProofAnswersInv(r)' /\ CheckAnswersInv(r)' /\ SignInv(r)'
      BY <1>1, <2>6, <2>10 DEF RowInv, ProofAnswersInv, CheckAnswersInv, SignInv
    <2>12. HistoryInv(r)'
      <3>1. AtStake(r)' = AtStake(r) /\ Active(r)
        BY <1>1, <2>6 DEF AtStake, Active
      <3>2. QED
        BY <1>1, <3>1 DEF RequestInv, HistoryInv, env, history
    <2>13. RequestInv(r)'
      BY <2>9, <2>11, <2>12 DEF RequestInv
    <2>14. QED
      BY <1>1, <2>7, <2>8, <2>13, StepKeeps DEF env, history
  <1>4. QED
    BY <1>2, <1>3

\* A refresh signs a JWT for what was confirmed, or goes on to expel.
LEMMA TokenDecideKeeps ==
    ASSUME IndInv, NEW r \in Request, TokenDecide(r)
    PROVE  IndInv'
  <1> DEFINE a == CheckAuthValidity(ToCheck(r), resps[r])
  <1>1. /\ TypeOK /\ RequestInv(r) /\ pc[r] = "check"
        /\ DOMAIN resps[r] = DOMAIN ToCheck(r)
        /\ UNCHANGED <<env, auth, tok, db, via, history>>
    BY DEF IndInv, TokenDecide
  <1>2. tok[r] \in Request /\ tok[r] # r /\ auth[r] = auth[tok[r]]
    BY <1>1 DEF RequestInv, StageInv, TypeOK
  <1>3. auth[r].authStatus = "full" /\ DOMAIN auth[r].outputs # {}
    <2>1. RequestInv(tok[r]) /\ reply[tok[r]] = "signedIn"
      BY <1>1, <1>2 DEF IndInv, RequestInv, StageInv
    <2>2. QED
      BY <1>2, <2>1 DEF RequestInv, RowInv, SignInv
  <1>4. ToCheck(r) = auth[r].outputs
    BY <1>3 DEF ToCheck, ExtractValidityCheck
  <1>5. CASE a.authStatus = "full"
    <2>1. exp' = [exp EXCEPT ![r] = now + JwtExpiresIn] /\ Answer(r, "refreshed")
      BY <1>5 DEF TokenDecide
    <2>2. now + JwtExpiresIn \in Nat \ {0}
      BY <1>1, SessionsAssumption DEF TypeOK
    <2>3. TypeOK'
      BY <1>1, <2>1, <2>2, AnswerType DEF TypeOK, Reply, Values, env, history
    <2>4. OthersUntouched(r)
      BY <1>1, <2>1 DEF OthersUntouched, Answer, TypeOK, history
    <2>5. /\ pc'[r] = "done" /\ reply'[r] = "refreshed" /\ exp'[r] = now + JwtExpiresIn
          /\ reply'[tok[r]] = reply[tok[r]]
      BY <1>1, <1>2, <2>1 DEF Answer, TypeOK
    <2>6. OutputsOf(auth[r]) \subseteq wasValid[r]
      <3>1. \A p \in DOMAIN resps[r] : resps[r][p]
        BY <1>5, FullCheck
      <3>2. \A p \in DOMAIN resps[r] :
              /\ resps[r][p] \in BOOLEAN
              /\ resps[r][p] = TRUE => <<p, auth[r].outputs[p].output>> \in wasValid[r]
        BY <1>1 DEF RequestInv, CheckAnswersInv
      <3>3. \A p \in DOMAIN resps[r] : resps[r][p] = TRUE
        BY <3>1, <3>2
      <3>4. QED
        BY <1>1, <1>4, <3>2, <3>3 DEF OutputsOf
    <2>7. StageInv(r)' /\ ProofAnswersInv(r)' /\ CheckAnswersInv(r)'
      BY <1>1, <1>2, <2>5 DEF RequestInv, StageInv, ProofAnswersInv, CheckAnswersInv
    <2>8. RowInv(r)'
      BY <1>1, <2>5 DEF RequestInv, StageInv, RowInv
    <2>9. SignInv(r)'
      <3>1. now + JwtExpiresIn >= began[r] + JwtExpiresIn
        BY <1>1, SessionsAssumption DEF RequestInv, HistoryInv, TypeOK
      <3>2. QED
        BY <1>1, <1>3, <2>5, <2>6, <3>1 DEF SignInv, history
    <2>10. HistoryInv(r)'
      BY <1>1, <2>5 DEF RequestInv, HistoryInv, Active, history, env
    <2>11. RequestInv(r)'
      BY <2>7, <2>8, <2>9, <2>10 DEF RequestInv
    <2>12. QED
      BY <1>1, <2>3, <2>4, <2>11, StepKeeps DEF env, history
  <1>6. CASE a.authStatus # "full"
    <2>1. pc' = [pc EXCEPT ![r] = "expel"] /\ UNCHANGED <<exp, reply, locals>>
      BY <1>6 DEF TokenDecide
    <2>2. TypeOK'
      BY <1>1, <2>1 DEF TypeOK, env, history, locals, Pc
    <2>3. OthersUntouched(r)
      BY <1>1, <2>1 DEF OthersUntouched, TypeOK, locals, history
    <2>4. pc'[r] = "expel"
      BY <1>1, <2>1 DEF TypeOK
    <2>5. Outages \/ OutputsOf(auth[r]) \cap wasInvalid[r] # {}
      <3>1. PICK p \in DOMAIN resps[r] : ~ resps[r][p]
        BY <1>1, <1>3, <1>4, <1>6 DEF CheckAuthValidity, DetermineAuthStatus
      <3>2. resps[r][p] = FALSE
        BY <1>1, <3>1 DEF RequestInv, CheckAnswersInv
      <3>3. Outages \/ <<p, auth[r].outputs[p].output>> \in wasInvalid[r]
        BY <1>1, <3>2 DEF RequestInv, CheckAnswersInv
      <3>4. <<p, auth[r].outputs[p].output>> \in OutputsOf(auth[r])
        BY <1>1, <1>4, <3>1 DEF OutputsOf
      <3>5. QED
        BY <3>3, <3>4
    <2>6. /\ StageInv(r)' /\ RowInv(r)' /\ ProofAnswersInv(r)'
          /\ CheckAnswersInv(r)' /\ SignInv(r)'
      BY <1>1, <1>2, <2>1, <2>4, <2>5
      DEF RequestInv, StageInv, RowInv, ProofAnswersInv, CheckAnswersInv, SignInv, history
    <2>7. HistoryInv(r)'
      <3>1. AtStake(r)' = AtStake(r) /\ Active(r)
        BY <1>1, <2>4 DEF AtStake, Active
      <3>2. QED
        BY <1>1, <3>1 DEF RequestInv, HistoryInv, env, history
    <2>8. RequestInv(r)'
      BY <2>6, <2>7 DEF RequestInv
    <2>9. QED
      BY <1>1, <2>1, <2>2, <2>3, <2>8, StepKeeps DEF env, history
  <1>7. QED
    BY <1>5, <1>6

\* The row of an expelled token is one that was there.
LEMMA InvalidateRefreshTokenKeeps ==
    ASSUME IndInv, NEW r \in Request, InvalidateRefreshToken(r)
    PROVE  IndInv'
  <1>1. /\ TypeOK /\ RequestInv(r) /\ pc[r] = "expel"
        /\ db' = [db EXCEPT ![tok[r]] = Gone]
        /\ pc' = [pc EXCEPT ![r] = "deleted"]
        /\ UNCHANGED <<env, reply, locals, auth, tok, exp, via, history>>
    BY DEF IndInv, InvalidateRefreshToken
  <1>2. tok[r] \in Request /\ tok[r] # r /\ auth[r] = auth[tok[r]] /\ reply[tok[r]] = "signedIn"
    BY <1>1 DEF RequestInv, StageInv, TypeOK
  <1>3. db[tok[r]] # Unissued
    BY <1>2 DEF IndInv, RequestInv, RowInv
  <1>4. TypeOK'
    BY <1>1 DEF TypeOK, Pc, locals, env, history
  <1>5. OthersUntouched(r)
    BY <1>1, <1>2, <1>3 DEF OthersUntouched, TypeOK, locals, history
  <1>6. pc'[r] = "deleted" /\ db'[tok[r]] = Gone /\ db'[r] = db[r]
    BY <1>1, <1>2 DEF TypeOK
  <1>7. StageInv(r)' /\ ProofAnswersInv(r)' /\ CheckAnswersInv(r)'
    BY <1>1, <1>2, <1>6
    DEF RequestInv, StageInv, ProofAnswersInv, CheckAnswersInv, history
  <1>8. RowInv(r)'
    BY <1>1, <1>6 DEF RequestInv, StageInv, RowInv
  <1>9. SignInv(r)'
    BY <1>1, <1>6 DEF RequestInv, SignInv, history
  <1>10. HistoryInv(r)'
    <2>1. AtStake(r)' = AtStake(r) /\ Active(r)
      BY <1>1, <1>6 DEF AtStake, Active
    <2>2. QED
      BY <1>1, <2>1 DEF RequestInv, HistoryInv, history, env
  <1>11. RequestInv(r)'
    BY <1>7, <1>8, <1>9, <1>10 DEF RequestInv
  <1>12. QED
    BY <1>1, <1>4, <1>5, <1>11, StepKeeps DEF env, history

\* A client that is expelled has its row deleted.
LEMMA TokenExpelledKeeps ==
    ASSUME IndInv, NEW r \in Request, TokenExpelled(r)
    PROVE  IndInv'
  <1>1. /\ TypeOK /\ RequestInv(r) /\ pc[r] = "deleted" /\ Answer(r, "expelled")
        /\ UNCHANGED <<env, auth, tok, exp, db, via, history>>
    BY DEF IndInv, TokenExpelled, sessionVars
  <1>2. tok[r] \in Request /\ tok[r] # r
    BY <1>1 DEF RequestInv, StageInv, TypeOK
  <1>3. TypeOK'
    BY <1>1, AnswerType DEF TypeOK, Reply, Values, env, history
  <1>4. OthersUntouched(r)
    BY <1>1 DEF OthersUntouched, Answer, TypeOK, history
  <1>5. pc'[r] = "done" /\ reply'[r] = "expelled" /\ reply'[tok[r]] = reply[tok[r]]
    BY <1>1, <1>2 DEF Answer, TypeOK
  <1>6. StageInv(r)' /\ RowInv(r)' /\ ProofAnswersInv(r)' /\ CheckAnswersInv(r)'
    BY <1>1, <1>2, <1>5
    DEF RequestInv, StageInv, RowInv, ProofAnswersInv, CheckAnswersInv, history
  <1>7. SignInv(r)' /\ HistoryInv(r)'
    BY <1>1, <1>5 DEF RequestInv, SignInv, HistoryInv, Active, history, env
  <1>8. RequestInv(r)'
    BY <1>6, <1>7 DEF RequestInv
  <1>9. QED
    BY <1>1, <1>3, <1>4, <1>8, StepKeeps DEF env, history

\* What a login is about starts with what is admitted now.
LEMMA LoginKeeps ==
    ASSUME IndInv, NEW r \in Request, NEW c \in PMap(Output), Login(r, c)
    PROVE  IndInv'
  <1>1. /\ TypeOK /\ RequestInv(r) /\ pc[r] = "new"
        /\ Receive(r, "verify", ClaimsOf(c))
        /\ claims' = [claims EXCEPT ![r] = c]
        /\ UNCHANGED <<env, reply, resps, auth, tok, exp, db, via>>
    BY DEF IndInv, Login, Receive
  <1>2. TypeOK'
    <2>1. ClaimsOf(c) \subseteq Pair /\ "verify" \in Pc
      BY StakeType DEF Pc
    <2>2. QED
      BY <1>1, <2>1, ReceiveType DEF TypeOK, env
  <1>3. OthersUntouched(r)
    BY <1>1 DEF OthersUntouched, Receive, TypeOK
  <1>4. /\ pc'[r] = "verify" /\ claims'[r] = c /\ began'[r] = now
        /\ wasValid'[r] = ClaimsOf(c) \cap valid /\ wasInvalid'[r] = ClaimsOf(c) \ valid
    BY <1>1 DEF Receive, TypeOK
  <1>5. resps[r] = << >> /\ exp[r] = 0 /\ reply[r] = "none"
    BY <1>1 DEF RequestInv, StageInv, SignInv
  <1>6. /\ StageInv(r)' /\ RowInv(r)' /\ ProofAnswersInv(r)' /\ CheckAnswersInv(r)'
        /\ SignInv(r)'
    BY <1>1, <1>4, <1>5
    DEF RequestInv, StageInv, RowInv, ProofAnswersInv, CheckAnswersInv, SignInv
  <1>7. HistoryInv(r)'
    <2>1. AtStake(r)' = ClaimsOf(c)
      BY <1>4 DEF AtStake
    <2>2. now \in Nat
      BY <1>1, SessionsAssumption DEF TypeOK
    <2>3. QED
      BY <1>1, <1>4, <2>1, <2>2 DEF HistoryInv, env
  <1>8. RequestInv(r)'
    BY <1>6, <1>7 DEF RequestInv
  <1>9. QED
    BY <1>1, <1>2, <1>3, <1>8, StepKeeps DEF env, Receive

\* What a refresh is about starts with what is admitted now.
LEMMA TokenKeeps ==
    ASSUME IndInv, NEW r \in Request, NEW j \in Request, NEW t \in Request, Token(r, j, t)
    PROVE  IndInv'
  <1>1. /\ TypeOK /\ RequestInv(r) /\ pc[r] = "new"
        /\ t = r \/ reply[t] = "signedIn"
        /\ Receive(r, "read", OutputsOf(auth[t]))
        /\ tok' = [tok EXCEPT ![r] = t]
        /\ via' = [via EXCEPT ![r] = j]
        /\ UNCHANGED <<env, reply, claims, resps, auth, exp, db>>
    BY DEF IndInv, Token, Receive
  <1>2. TypeOK'
    <2>1. OutputsOf(auth[t]) \subseteq Pair /\ "read" \in Pc
      BY <1>1, StakeType DEF Pc, TypeOK
    <2>2. QED
      BY <1>1, <2>1, ReceiveType DEF TypeOK, env
  <1>3. OthersUntouched(r)
    BY <1>1 DEF OthersUntouched, Receive, TypeOK
  <1>4. /\ pc'[r] = "read" /\ tok'[r] = t /\ began'[r] = now
        /\ wasValid'[r] = OutputsOf(auth[t]) \cap valid
        /\ wasInvalid'[r] = OutputsOf(auth[t]) \ valid
    BY <1>1 DEF Receive, TypeOK
  <1>5. resps[r] = << >> /\ exp[r] = 0 /\ reply[r] = "none"
    BY <1>1 DEF RequestInv, StageInv, SignInv
  <1>6. /\ StageInv(r)' /\ RowInv(r)' /\ ProofAnswersInv(r)' /\ CheckAnswersInv(r)'
        /\ SignInv(r)'
    BY <1>1, <1>4, <1>5
    DEF RequestInv, StageInv, RowInv, ProofAnswersInv, CheckAnswersInv, SignInv
  <1>7. HistoryInv(r)'
    <2>1. AtStake(r)' = OutputsOf(auth[t])
      BY <1>1, <1>4 DEF AtStake
    <2>2. now \in Nat
      BY <1>1, SessionsAssumption DEF TypeOK
    <2>3. QED
      BY <1>1, <1>4, <2>1, <2>2 DEF HistoryInv, env
  <1>8. RequestInv(r)'
    BY <1>6, <1>7 DEF RequestInv
  <1>9. QED
    BY <1>1, <1>2, <1>3, <1>8, StepKeeps DEF env, Receive

-----------------------------------------------------------------------------
(* Steps of the environment *)

\* A crash ends the requests in flight and leaves rows and JWTs alone.
LEMMA CrashKeeps ==
    ASSUME IndInv, Crash
    PROVE  IndInv'
  <1>1. /\ TypeOK /\ (~ Outages => pluginUp)
        /\ UNCHANGED <<now, pluginUp, valid, sessionVars, history>>
    BY DEF IndInv, Crash
  <1>2. TypeOK'
    <2>1. << >> \in PMap(Output) /\ << >> \in PMap(Values)
      BY EmptyPMap
    <2>2. QED
      BY <1>1, <2>1 DEF Crash, TypeOK, Values, Reply, Pc, sessionVars, history
  <1>3. ASSUME NEW r \in Request PROVE RequestInv(r)'
    <2>1. RequestInv(r) /\ tok[r] \in Request /\ RequestInv(tok[r])
      BY <1>1 DEF IndInv, TypeOK
    <2>2. /\ pc'[r] = IF Active(r) THEN "done" ELSE pc[r]
          /\ reply'[r] = IF Active(r) THEN "lost" ELSE reply[r]
          /\ reply'[tok[r]] = IF Active(tok[r]) THEN "lost" ELSE reply[tok[r]]
          /\ claims'[r] = << >> /\ resps'[r] = << >>
      BY <2>1 DEF Crash
    <2>3. Active(r) => reply[r] = "none"
      BY <2>1 DEF RequestInv, StageInv, Active
    <2>4. reply[tok[r]] = "signedIn" => reply'[tok[r]] = "signedIn"
      BY <2>1, <2>2 DEF RequestInv, StageInv, Active
    <2>5. StageInv(r)'
      BY <1>1, <2>1, <2>2, <2>4 DEF RequestInv, StageInv, Active, sessionVars
    <2>6. RowInv(r)'
      BY <1>1, <2>1, <2>2, <2>3 DEF RequestInv, RowInv, sessionVars
    <2>7. ProofAnswersInv(r)' /\ CheckAnswersInv(r)' /\ SignInv(r)'
      BY <1>1, <2>1, <2>2
      DEF RequestInv, ProofAnswersInv, CheckAnswersInv, SignInv, Active, sessionVars, history
    <2>8. HistoryInv(r)'
      BY <1>1, <2>1, <2>2 DEF RequestInv, HistoryInv, Active, history
    <2>9. QED
      BY <2>5, <2>6, <2>7, <2>8 DEF RequestInv
  <1>4. QED
    BY <1>1, <1>2, <1>3 DEF IndInv

\* A change of the plugins' data is recorded for the requests about it.
LEMMA ChangeDataKeeps ==
    ASSUME IndInv, NEW p \in Plugin, NEW o \in Output, ChangeData(p, o)
    PROVE  IndInv'
  <1> DEFINE x == <<p, o>>
             seen(r) == IF Active(r) THEN AtStake(r) \cap {x} ELSE {}
  <1>1. /\ TypeOK /\ (~ Outages => pluginUp)
        /\ valid' = IF x \in valid THEN valid \ {x} ELSE valid \cup {x}
        /\ lastValid' = [lastValid EXCEPT ![x] = IF x \in valid THEN now ELSE @]
        /\ wasValid' = [r \in Request |-> wasValid[r] \cup (seen(r) \cap valid')]
        /\ wasInvalid' = [r \in Request |-> wasInvalid[r] \cup (seen(r) \ valid')]
        /\ UNCHANGED <<now, apiUp, pluginUp, pc, reply, locals, sessionVars, began>>
    BY DEF IndInv, ChangeData
  <1>2. x \in Pair /\ now \in Nat
    BY <1>1, SessionsAssumption DEF Pair, TypeOK
  <1>3. TypeOK'
    <2>1. valid' \in SUBSET Pair /\ lastValid' \in [Pair -> Nat]
      BY <1>1, <1>2 DEF TypeOK
    <2>2. \A r \in Request : seen(r) \subseteq Pair
      BY <1>2
    <2>3. /\ wasValid' \in [Request -> SUBSET Pair]
          /\ wasInvalid' \in [Request -> SUBSET Pair]
      BY <1>1, <2>2 DEF TypeOK
    <2>4. QED
      BY <1>1, <2>1, <2>3 DEF TypeOK, locals, sessionVars
  <1>4. ASSUME NEW r \in Request PROVE RequestInv(r)'
    <2>1. RequestInv(r) /\ began[r] \in Nat /\ wasValid[r] \subseteq Pair
      BY <1>1 DEF IndInv, TypeOK
    <2>2. /\ wasValid'[r] = wasValid[r] \cup (seen(r) \cap valid')
          /\ wasInvalid'[r] = wasInvalid[r] \cup (seen(r) \ valid')
      BY <1>1
    <2>3. StageInv(r)' /\ RowInv(r)'
      BY <1>1, <2>1 DEF RequestInv, StageInv, RowInv, locals, sessionVars
    <2>4. ProofAnswersInv(r)' /\ CheckAnswersInv(r)' /\ SignInv(r)'
      BY <1>1, <2>1, <2>2
      DEF RequestInv, ProofAnswersInv, CheckAnswersInv, SignInv, locals, sessionVars
    <2>5. HistoryInv(r)'
      <3>1. Active(r)' = Active(r) /\ AtStake(r)' = AtStake(r)
        BY <1>1 DEF Active, AtStake, locals, sessionVars
      <3>2. Active(r) => /\ AtStake(r) \cap valid' \subseteq wasValid'[r]
                        /\ AtStake(r) \ valid' \subseteq wasInvalid'[r]
        BY <1>1, <2>1, <2>2 DEF RequestInv, HistoryInv
      <3>3. ASSUME NEW y \in wasValid'[r]
            PROVE  y \in valid' \/ lastValid'[y] >= began[r]
        <4>1. CASE y \in valid'
          BY <4>1
        <4>2. CASE y \notin valid'
          <5>1. y \in wasValid[r] /\ y \in Pair
            BY <2>1, <2>2, <4>2
          <5>2. CASE y = x
            BY <1>1, <1>2, <2>1, <4>2, <5>2 DEF RequestInv, HistoryInv, TypeOK
          <5>3. CASE y # x
            <6>1. y \notin valid /\ lastValid'[y] = lastValid[y]
              BY <1>1, <4>2, <5>1, <5>3 DEF TypeOK
            <6>2. QED
              BY <2>1, <5>1, <6>1 DEF RequestInv, HistoryInv
          <5>4. QED
            BY <5>2, <5>3
        <4>3. QED
          BY <4>1, <4>2
      <3>4. QED
        BY <1>1, <2>1, <3>1, <3>2, <3>3 DEF RequestInv, HistoryInv
    <2>6. QED
      BY <2>3, <2>4, <2>5 DEF RequestInv
  <1>5. QED
    BY <1>1, <1>3, <1>4 DEF IndInv

\* The clock ticks, or a server starts or stops.
LEMMA SwitchKeeps ==
    ASSUME IndInv, ApiStarts \/ PluginServerStops \/ PluginServerStarts \/ Tick
    PROVE  IndInv'
  <1>11. /\ TypeOK /\ (~ Outages => pluginUp)
        /\ now \in 0..MaxTime /\ MaxTime \in Nat
        /\ apiUp \in BOOLEAN /\ pluginUp \in BOOLEAN
    BY SessionsAssumption DEF IndInv, TypeOK
  <1>12. UNCHANGED <<valid, pc, reply, locals, sessionVars, history>>
    <2>1. CASE ApiStarts
      BY <2>1 DEF ApiStarts
    <2>2. CASE PluginServerStops
      BY <2>2 DEF PluginServerStops
    <2>3. CASE PluginServerStarts
      BY <2>3 DEF PluginServerStarts
    <2>4. CASE Tick
      BY <2>4 DEF Tick
    <2>5. QED
      BY <2>1, <2>2, <2>3, <2>4
  <1>13. now' \in 0..MaxTime /\ now' >= now
    <2>1. CASE now' = now
      BY <1>11, <2>1
    <2>2. CASE Tick
      BY <1>11, <2>2 DEF Tick
    <2>3. QED
      BY <2>1, <2>2 DEF ApiStarts, PluginServerStops, PluginServerStarts
  <1>14. apiUp' \in BOOLEAN /\ pluginUp' \in BOOLEAN /\ (~ Outages => pluginUp')
    <2>1. CASE ApiStarts
      BY <1>11, <2>1 DEF ApiStarts
    <2>2. CASE PluginServerStops
      BY <1>11, <2>2 DEF PluginServerStops
    <2>3. CASE PluginServerStarts
      BY <1>11, <2>3 DEF PluginServerStarts
    <2>4. CASE Tick
      BY <1>11, <2>4 DEF Tick
    <2>5. QED
      BY <2>1, <2>2, <2>3, <2>4
  <1>1. /\ TypeOK /\ UNCHANGED <<valid, pc, reply, locals, sessionVars, history>>
        /\ now' \in 0..MaxTime /\ now' >= now /\ now \in Nat /\ now' \in Nat
        /\ apiUp' \in BOOLEAN /\ pluginUp' \in BOOLEAN
        /\ (~ Outages => pluginUp')
    BY <1>11, <1>12, <1>13, <1>14
  <1>2. TypeOK'
    BY <1>1 DEF TypeOK, locals, sessionVars, history
  <1>3. ASSUME NEW r \in Request PROVE RequestInv(r)'
    <2>1. RequestInv(r) /\ began[r] \in Nat
      BY <1>1 DEF IndInv, TypeOK
    <2>2. /\ StageInv(r)' /\ RowInv(r)' /\ ProofAnswersInv(r)' /\ CheckAnswersInv(r)'
          /\ SignInv(r)'
      BY <1>1, <2>1
      DEF RequestInv, StageInv, RowInv, ProofAnswersInv, CheckAnswersInv, SignInv,
          locals, sessionVars, history
    <2>3. HistoryInv(r)'
      <3>1. Active(r)' = Active(r) /\ AtStake(r)' = AtStake(r)
        BY <1>1 DEF Active, AtStake, locals, sessionVars
      <3>2. QED
        BY <1>1, <2>1, <3>1 DEF RequestInv, HistoryInv, history
    <2>4. QED
      BY <2>2, <2>3 DEF RequestInv
  <1>4. QED
    BY <1>1, <1>2, <1>3 DEF IndInv

-----------------------------------------------------------------------------
(* The inductive invariant holds *)

\* It holds before the first request.
LEMMA InitInd == Init => IndInv
  <1> SUFFICES ASSUME Init PROVE IndInv
    OBVIOUS
  <1>1. TypeOK
    BY InitType
  <1>2. pluginUp
    BY DEF Init
  <1>3. ASSUME NEW r \in Request PROVE RequestInv(r)
    <2>1. /\ pc[r] = "new" /\ resps[r] = << >> /\ reply[r] = "none" /\ tok[r] = r
          /\ db[r] = Unissued /\ exp[r] = 0 /\ began[r] = 0 /\ now = 0
          /\ wasValid[r] = {}
      BY DEF Init
    <2>2. StageInv(r) /\ RowInv(r)
      BY <2>1 DEF StageInv, RowInv
    <2>3. ProofAnswersInv(r) /\ CheckAnswersInv(r) /\ SignInv(r)
      BY <2>1 DEF ProofAnswersInv, CheckAnswersInv, SignInv
    <2>4. HistoryInv(r)
      BY <2>1 DEF HistoryInv, Active
    <2>5. QED
      BY <2>2, <2>3, <2>4 DEF RequestInv
  <1>4. QED
    BY <1>1, <1>2, <1>3 DEF IndInv

\* A step that changes nothing keeps it.
LEMMA StutterKeeps == IndInv /\ UNCHANGED vars => IndInv'
  <1> SUFFICES ASSUME IndInv, UNCHANGED vars PROVE IndInv'
    OBVIOUS
  <1>1. /\ UNCHANGED <<now, apiUp, pluginUp, valid, pc, reply, claims, resps>>
        /\ UNCHANGED <<auth, tok, exp, db, via, began, lastValid, wasValid, wasInvalid>>
    BY DEF vars, env, locals, sessionVars, history
  <1>2. TypeOK'
    BY <1>1 DEF IndInv, TypeOK
  <1>3. ASSUME NEW r \in Request PROVE RequestInv(r)'
    <2>1. RequestInv(r)
      BY DEF IndInv
    <2>2. Active(r)' = Active(r) /\ AtStake(r)' = AtStake(r)
      BY <1>1 DEF Active, AtStake
    <2>3. StageInv(r)' /\ RowInv(r)' /\ ProofAnswersInv(r)'
      BY <1>1, <2>1 DEF RequestInv, StageInv, RowInv, ProofAnswersInv
    <2>4. CheckAnswersInv(r)' /\ SignInv(r)'
      BY <1>1, <2>1 DEF RequestInv, CheckAnswersInv, SignInv
    <2>5. HistoryInv(r)'
      BY <1>1, <2>1, <2>2 DEF RequestInv, HistoryInv
    <2>6. QED
      BY <2>3, <2>4, <2>5 DEF RequestInv
  <1>4. QED
    BY <1>1, <1>2, <1>3 DEF IndInv

\* Every step keeps it.
LEMMA NextKeeps == IndInv /\ [Next]_vars => IndInv'
  <1> SUFFICES ASSUME IndInv, [Next]_vars PROVE IndInv'
    OBVIOUS
  <1>1. CASE UNCHANGED vars
    BY <1>1, StutterKeeps
  <1>2. CASE Environment
    <2>1. CASE ApiCrashes
      BY <2>1, CrashKeeps DEF ApiCrashes
    <2>2. CASE ApiStarts \/ PluginServerStops \/ PluginServerStarts \/ Tick
      BY <2>2, SwitchKeeps
    <2>3. CASE \E p \in Plugin, o \in Output : ChangeData(p, o)
      BY <2>3, ChangeDataKeeps
    <2>4. QED
      BY <1>2, <2>1, <2>2, <2>3 DEF Environment
  <1>3. ASSUME NEW r \in Request, Call(r) PROVE IndInv'
    <2>1. CASE LoginMalformed(r) \/ JwtRefused(r)
      BY <2>1, RefuseKeeps DEF LoginMalformed, JwtRefused
    <2>2. CASE \E c \in PMap(Output) : Login(r, c)
      BY <2>2, LoginKeeps
    <2>3. CASE \E j \in Request : Protected(r, j)
      BY <2>3, ProtectedKeeps
    <2>4. CASE \E j, t \in Request : Token(r, j, t)
      BY <2>4, TokenKeeps
    <2>5. QED
      BY <1>3, <2>1, <2>2, <2>3, <2>4 DEF Call
  <1>4. ASSUME NEW r \in Request, Handle(r) PROVE IndInv'
    <2>1. CASE \E p \in Plugin : VerifyProof(r, p)
      BY <2>1, VerifyProofKeeps
    <2>2. CASE \E p \in Plugin : ValidateOutput(r, p)
      BY <2>2, ValidateOutputKeeps
    <2>3. CASE LoginDecide(r)
      BY <2>3, LoginDecideKeeps
    <2>4. CASE LoginThrows(r)
      BY <2>4, CrashKeeps DEF LoginThrows
    <2>5. CASE StoreAuthResponse(r)
      BY <2>5, StoreAuthResponseKeeps
    <2>6. CASE GetAuthResponse(r)
      BY <2>6, GetAuthResponseKeeps
    <2>7. CASE TokenDecide(r)
      BY <2>7, TokenDecideKeeps
    <2>8. CASE InvalidateRefreshToken(r)
      BY <2>8, InvalidateRefreshTokenKeeps
    <2>9. CASE DatabaseFails(r)
      BY <2>9, DatabaseFailsKeeps
    <2>10. CASE LoginSucceeds(r)
      BY <2>10, LoginSucceedsKeeps
    <2>11. CASE TokenExpelled(r)
      BY <2>11, TokenExpelledKeeps
    <2>12. QED
      BY <1>4, <2>1, <2>2, <2>3, <2>4, <2>5, <2>6, <2>7, <2>8, <2>9, <2>10, <2>11
      DEF Handle
  <1>5. QED
    BY <1>1, <1>2, <1>3, <1>4 DEF Next

\* The inductive invariant holds in every state of the API server.
THEOREM Inductive == Spec => []IndInv
  <1>1. QED
    BY InitInd, NextKeeps, PTL DEF Spec

-----------------------------------------------------------------------------
(* What follows from it *)

\* Every variable keeps its type.
THEOREM TypeCorrect == Spec => []TypeOK
  <1>1. IndInv => TypeOK
    BY DEF IndInv
  <1>2. QED
    BY <1>1, Inductive, PTL

\* No JWT is signed for an output that no plugin admitted while the request
\* was served, whatever is revoked, crashes or is unreachable meanwhile.
THEOREM SignedValid == Spec => []SignedOutputsWereValid
  <1>1. IndInv => SignedOutputsWereValid
    BY DEF IndInv, RequestInv, SignInv, SignedOutputsWereValid
  <1>2. QED
    BY <1>1, Inductive, PTL

\* Once a client is told that an output is no longer valid, its refresh token
\* stays out of the database.
THEOREM ExpelledGone == Spec => []ExpelledTokensStayGone
  <1>1. IndInv => ExpelledTokensStayGone
    BY DEF IndInv, RequestInv, RowInv, ExpelledTokensStayGone
  <1>2. QED
    BY <1>1, Inductive, PTL

\* A client that holds a refresh token has, or had until it was deleted, a
\* row for it with the response it was signed in with.
THEOREM SignedInStored == Spec => []SignedInTokensAreStored
  <1>1. IndInv => SignedInTokensAreStored
    BY DEF IndInv, RequestInv, RowInv, SignedInTokensAreStored
  <1>2. QED
    BY <1>1, Inductive, PTL

\* A refresh never vouches for more than the login of its refresh token
\* proved, whichever JWT came along.
THEOREM RefreshKeeps == Spec => []RefreshKeepsOutputs
  <1>1. ASSUME IndInv, NEW r \in Request, reply[r] = "refreshed"
        PROVE  /\ auth[r] = auth[tok[r]]
               /\ OutputsOf(auth[r]) \subseteq wasValid[tok[r]]
    <2>1. tok[r] \in Request /\ tok[r] # r /\ auth[r] = auth[tok[r]]
      BY <1>1 DEF IndInv, TypeOK, RequestInv, StageInv
    <2>2. reply[tok[r]] = "signedIn"
      BY <1>1, <2>1 DEF IndInv, RequestInv, StageInv
    <2>3. exp[tok[r]] # 0
      BY <2>1, <2>2, <1>1 DEF IndInv, RequestInv, RowInv
    <2>4. QED
      BY <1>1, <2>1, <2>3 DEF IndInv, RequestInv, SignInv
  <1>2. IndInv => RefreshKeepsOutputs
    BY <1>1 DEF RefreshKeepsOutputs
  <1>3. QED
    BY <1>2, Inductive, PTL

\* While the plugin server does not stop, a client loses its refresh token
\* only over an output that some plugin really rejected during the request.
THEOREM ExpelledRevoked ==
    ASSUME ~ Outages PROVE Spec => []ExpelledOnlyIfRevoked
  <1>1. IndInv => ExpelledOnlyIfRevoked
    BY DEF IndInv, RequestInv, CheckAnswersInv, ExpelledOnlyIfRevoked
  <1>2. QED
    BY <1>1, Inductive, PTL

\* The only step that grants a request is GET /protected with a live JWT.
LEMMA GrantedBy ==
    ASSUME IndInv, Next, NEW r \in Request,
           reply[r] = "none", reply'[r] = "granted"
    PROVE  \E j \in Request : Protected(r, j)
  <1> SUFFICES ASSUME ~ \E j \in Request : Protected(r, j) PROVE FALSE
    OBVIOUS
  <1>1. TypeOK
    BY DEF IndInv
  <1>2. ASSUME NEW q \in Request, NEW code, Answer(q, code), code # "granted"
        PROVE  FALSE
    BY <1>1, <1>2 DEF Answer, TypeOK
  <1>3. ASSUME UNCHANGED reply PROVE FALSE
    BY <1>3
  <1>4. ASSUME Crash PROVE FALSE
    BY <1>4 DEF Crash
  <1>5. ~ Environment
    BY <1>3, <1>4 DEF Environment, ApiCrashes, ApiStarts, PluginServerStops,
        PluginServerStarts, Tick, ChangeData
  <1>6. ASSUME NEW q \in Request PROVE ~ Handle(q)
    <2>1. ASSUME NEW p \in Plugin PROVE ~ (VerifyProof(q, p) \/ ValidateOutput(q, p))
      BY <1>3 DEF VerifyProof, ProofAccepted, ValidateOutput, OutputStillValid
    <2>2. ~ LoginDecide(q) /\ ~ LoginThrows(q) /\ ~ StoreAuthResponse(q)
      BY <1>2, <1>3, <1>4 DEF LoginDecide, LoginThrows, StoreAuthResponse, locals
    <2>3. ~ GetAuthResponse(q) /\ ~ TokenDecide(q)
      BY <1>2, <1>3 DEF GetAuthResponse, TokenDecide, locals
    <2>4. ~ InvalidateRefreshToken(q) /\ ~ DatabaseFails(q)
      BY <1>2, <1>3 DEF InvalidateRefreshToken, DatabaseFails
    <2>5. ~ LoginSucceeds(q) /\ ~ TokenExpelled(q)
      BY <1>2 DEF LoginSucceeds, TokenExpelled
    <2>6. QED
      BY <2>1, <2>2, <2>3, <2>4, <2>5 DEF Handle
  <1>7. ASSUME NEW q \in Request, Call(q) PROVE FALSE
    <2>1. ~ LoginMalformed(q) /\ ~ JwtRefused(q)
      BY <1>2 DEF LoginMalformed, JwtRefused, Refuse
    <2>2. ~ \E c \in PMap(Output) : Login(q, c)
      BY <1>3 DEF Login
    <2>3. ~ \E j, t \in Request : Token(q, j, t)
      BY <1>3 DEF Token
    <2>4. ASSUME NEW j \in Request, Protected(q, j) PROVE FALSE
      <3>1. q # r
        BY <2>4
      <3>2. reply'[r] = reply[r]
        BY <1>1, <2>4, <3>1 DEF Protected, Answer, TypeOK
      <3>3. QED
        BY <3>2
    <2>5. QED
      BY <1>7, <2>1, <2>2, <2>3, <2>4 DEF Call
  <1>8. QED
    BY <1>5, <1>6, <1>7 DEF Next

\* Access to a revoked output ends within JWT_EXPIRES_IN, plus the time the
\* request that signed the JWT was in flight.
THEOREM AccessEnds == Spec => AccessWindow
  <1>1. ASSUME IndInv, [Next]_vars, NEW r \in Request,
               reply[r] = "none", reply'[r] = "granted",
               NEW x \in OutputsOf(auth[via'[r]])
        PROVE  \/ x \in valid
               \/ now < lastValid[x] + JwtExpiresIn
                        + ((exp[via'[r]] - JwtExpiresIn) - began[via'[r]])
    <2>1. Next
      BY <1>1 DEF vars
    <2>2. PICK j \in Request : Protected(r, j)
      BY <1>1, <2>1, GrantedBy
    <2>3. via'[r] = j /\ reply[j] \in {"signedIn", "refreshed"} /\ now < exp[j]
      BY <1>1, <2>2 DEF Protected, JwtAccepted, IndInv, TypeOK
    <2>4. RequestInv(j) /\ TypeOK
      BY <1>1 DEF IndInv
    <2>5. /\ now \in Nat /\ exp[j] \in Nat /\ began[j] \in Nat /\ JwtExpiresIn \in Nat
          /\ wasValid[j] \subseteq Pair
      BY <2>4, SessionsAssumption DEF TypeOK
    <2>6. exp[j] # 0
      BY <2>3, <2>5
    <2>7. x \in wasValid[j]
      BY <1>1, <2>3, <2>4, <2>6 DEF RequestInv, SignInv
    <2>8. lastValid[x] \in Nat
      BY <2>4, <2>5, <2>7 DEF TypeOK
    <2>9. x \in valid \/ lastValid[x] >= began[j]
      BY <2>4, <2>7 DEF RequestInv, HistoryInv
    <2>10. QED
      BY <2>3, <2>5, <2>8, <2>9
  <1>2. IndInv /\ [Next]_vars =>
          [\A r \in Request : reply[r] = "none" /\ reply'[r] = "granted" =>
              LET j == via'[r]
                  took == (exp[j] - JwtExpiresIn) - began[j]
              IN  \A x \in OutputsOf(auth[j]) :
                      x \in valid \/ now < lastValid[x] + JwtExpiresIn + took]_vars
    BY <1>1
  <1>3. QED
    BY <1>2, Inductive, PTL DEF Spec, AccessWindow

-----------------------------------------------------------------------------
(* ApiSessions implements ApiPromise: the initial states are mapped to     *)
(* initial states, and every step of the server to a step of the promise   *)
(* or to none.                                                             *)

\* The values the promise's variables take.
AtNow == [r \in Request |-> Stage(pc[r])]
LiveNow == [r \in Request |-> db[r].row]
FreshNow == {r \in Request : JwtAccepted(r)}

\* A request that moves on moves in the promise.
LEMMA AtMoves ==
    ASSUME TypeOK, NEW r \in Request, NEW s \in Pc, pc' = [pc EXCEPT ![r] = s]
    PROVE  AtNow' = [AtNow EXCEPT ![r] = Stage(s)]
  BY DEF TypeOK, AtNow

\* One that stays in its stage does not.
LEMMA AtStays ==
    ASSUME TypeOK, NEW r \in Request, NEW s \in Pc, pc' = [pc EXCEPT ![r] = s],
           Stage(pc[r]) = Stage(s)
    PROVE  AtNow' = AtNow
  BY DEF TypeOK, AtNow

\* A row that changes changes in the promise.
LEMMA LiveMoves ==
    ASSUME TypeOK, NEW r \in Request, NEW row, db' = [db EXCEPT ![r] = row]
    PROVE  LiveNow' = [LiveNow EXCEPT ![r] = row.row]
  BY DEF TypeOK, LiveNow

\* Where no row changes, the tokens that are good stay so.
LEMMA LiveStays == db' = db => LiveNow' = LiveNow
  BY DEF LiveNow

\* An answer that carries no JWT leaves the JWTs in circulation as they are.
LEMMA FreshStays ==
    ASSUME TypeOK, NEW r \in Request, reply[r] = "none", UNCHANGED <<now, exp>>,
           NEW code \in Reply \ {"signedIn", "refreshed"}, reply' = [reply EXCEPT ![r] = code]
    PROVE  FreshNow' = FreshNow
  BY DEF TypeOK, FreshNow, JwtAccepted

\* Where neither the clock nor an answer changes, the JWTs that are good stay so.
LEMMA FreshSame == UNCHANGED <<now, exp, reply>> => FreshNow' = FreshNow
  BY DEF FreshNow, JwtAccepted

\* What Answer and the moves of a request are in the promise.
LEMMA AnswerMapped ==
    ASSUME TypeOK, NEW r \in Request, NEW code \in Reply, Answer(r, code),
           apiUp, UNCHANGED <<tok, db, apiUp>>
    PROVE  Api!Answers(r, code)
  <1>1. AtNow' = [AtNow EXCEPT ![r] = "answered"]
    BY AtMoves DEF Answer, Pc, Stage
  <1>2. LiveNow' = LiveNow
    BY LiveStays
  <1>3. QED
    BY <1>1, <1>2 DEF Api!Answers, Answer, AtNow, LiveNow

\* A move without an answer is a move of the promise.
LEMMA MoveMapped ==
    ASSUME TypeOK, NEW r \in Request, NEW s \in Pc, pc' = [pc EXCEPT ![r] = s],
           apiUp, UNCHANGED <<reply, apiUp>>
    PROVE  Api!Moves(r, Stage(s))
  <1>1. AtNow' = [AtNow EXCEPT ![r] = Stage(s)]
    BY AtMoves
  <1>2. QED
    BY <1>1 DEF Api!Moves, AtNow

\* Nothing the promise is about has changed.
Unseen == UNCHANGED <<AtNow, reply, tok, LiveNow, FreshNow, apiUp>>

\* A step nobody can see is a stutter of the promise.
LEMMA UnseenMapped == Unseen => UNCHANGED Api!promiseVars
  BY DEF Unseen, Api!promiseVars, AtNow, LiveNow, FreshNow

-----------------------------------------------------------------------------
(* The requests *)

\* A login that is received.
LEMMA LoginMapped ==
    ASSUME IndInv, NEW r \in Request, NEW c \in PMap(Output), Login(r, c)
    PROVE  Api!AskLogin(r)
  <1>1. /\ TypeOK /\ apiUp /\ pc[r] = "new" /\ pc' = [pc EXCEPT ![r] = "verify"]
        /\ UNCHANGED <<now, reply, exp, apiUp, tok, db>>
    BY DEF Login, Receive, env, IndInv
  <1>2. Api!Moves(r, "login")
    BY <1>1, MoveMapped DEF Pc, Stage
  <1>3. LiveNow' = LiveNow /\ FreshNow' = FreshNow
    BY <1>1, LiveStays, FreshSame
  <1>4. QED
    BY <1>1, <1>2, <1>3 DEF Api!AskLogin, LiveNow, FreshNow, Stage

\* A request that is turned away at once.
LEMMA RefuseMapped ==
    ASSUME IndInv, NEW r \in Request, NEW code \in {"400", "401"}, Refuse(r, code)
    PROVE  Api!TurnAway(r, code)
  <1>1. /\ TypeOK /\ apiUp /\ pc[r] = "new" /\ Answer(r, code) /\ reply[r] = "none"
        /\ UNCHANGED <<now, exp, apiUp, tok, db>> /\ code \in Reply
    BY DEF Refuse, env, sessionVars, IndInv, RequestInv, StageInv, Reply
  <1>2. Api!Answers(r, code)
    BY <1>1, AnswerMapped
  <1>3. FreshNow' = FreshNow
    BY <1>1, FreshStays DEF Answer
  <1>4. QED
    BY <1>1, <1>2, <1>3 DEF Api!TurnAway, FreshNow, Stage

\* A refresh that is received, with a JWT that was accepted.
LEMMA TokenMapped ==
    ASSUME IndInv, NEW r \in Request, NEW j \in Request, NEW t \in Request, Token(r, j, t)
    PROVE  Api!AskToken(r, t)
  <1>1. /\ TypeOK /\ apiUp /\ pc[r] = "new" /\ pc' = [pc EXCEPT ![r] = "read"]
        /\ JwtAccepted(j) /\ (t = r \/ reply[t] = "signedIn")
        /\ tok' = [tok EXCEPT ![r] = t]
        /\ UNCHANGED <<now, reply, exp, apiUp, db>>
    BY DEF Token, Receive, env, IndInv
  <1>2. Api!Moves(r, "token")
    BY <1>1, MoveMapped DEF Pc, Stage
  <1>3. LiveNow' = LiveNow /\ FreshNow' = FreshNow
    BY <1>1, LiveStays, FreshSame
  <1>4. j \in FreshNow
    BY <1>1 DEF FreshNow
  <1>5. QED
    BY <1>1, <1>2, <1>3, <1>4 DEF Api!AskToken, LiveNow, FreshNow, Stage

\* A visit to the protected route.
LEMMA ProtectedMapped ==
    ASSUME IndInv, NEW r \in Request, NEW j \in Request, Protected(r, j)
    PROVE  Api!AskProtected(r)
  <1>1. /\ TypeOK /\ apiUp /\ pc[r] = "new" /\ Answer(r, "granted") /\ reply[r] = "none"
        /\ JwtAccepted(j) /\ UNCHANGED <<now, exp, apiUp, tok, db>> /\ "granted" \in Reply
    BY DEF Protected, env, IndInv, RequestInv, StageInv, Reply
  <1>2. Api!Answers(r, "granted")
    BY <1>1, AnswerMapped
  <1>3. FreshNow' = FreshNow
    BY <1>1, FreshStays DEF Answer
  <1>4. j \in FreshNow
    BY <1>1 DEF FreshNow
  <1>5. QED
    BY <1>1, <1>2, <1>3, <1>4 DEF Api!AskProtected, FreshNow, Stage

-----------------------------------------------------------------------------
(* A login *)

\* The decision about a login: a refusal is seen, a JWT signed is not yet.
LEMMA LoginDecideMapped ==
    ASSUME IndInv, NEW r \in Request, LoginDecide(r)
    PROVE  Api!LoginRefused(r) \/ Unseen
  <1>1. /\ TypeOK /\ apiUp /\ pc[r] = "verify" /\ reply[r] = "none" /\ db[r] = Unissued
        /\ UNCHANGED <<now, apiUp, tok, db>> /\ "401" \in Reply
    BY DEF LoginDecide, env, IndInv, RequestInv, StageInv, Reply
  <1>2. LiveNow' = LiveNow
    BY <1>1, LiveStays
  <1>3. CASE /\ exp' = [exp EXCEPT ![r] = now + JwtExpiresIn]
             /\ pc' = [pc EXCEPT ![r] = "store"]
             /\ UNCHANGED <<reply, locals>>
    <2>1. AtNow' = AtNow
      BY <1>1, <1>3, AtStays DEF Pc, Stage
    <2>2. FreshNow' = FreshNow
      BY <1>1, <1>3 DEF FreshNow, JwtAccepted, TypeOK
    <2>3. QED
      BY <1>1, <1>2, <1>3, <2>1, <2>2 DEF Unseen
  <1>4. CASE Answer(r, "401") /\ UNCHANGED <<auth, exp>>
    <2>1. Api!Answers(r, "401")
      BY <1>1, <1>4, AnswerMapped
    <2>2. FreshNow' = FreshNow
      BY <1>1, <1>4, FreshStays DEF Answer
    <2>3. QED
      BY <1>1, <2>1, <2>2 DEF Api!LoginRefused, FreshNow, Stage, Unissued
  <1>5. QED
    BY <1>3, <1>4 DEF LoginDecide

\* The INSERT issues a refresh token.
LEMMA StoreMapped ==
    ASSUME IndInv, NEW r \in Request, StoreAuthResponse(r)
    PROVE  Api!Issue(r)
  <1>1. /\ TypeOK /\ apiUp /\ pc[r] = "store" /\ db[r] = Unissued
        /\ db' = [db EXCEPT ![r] = Stored(auth[r])]
        /\ pc' = [pc EXCEPT ![r] = "stored"]
        /\ UNCHANGED <<now, reply, exp, apiUp, tok>>
    BY DEF StoreAuthResponse, env, IndInv, RequestInv, StageInv
  <1>2. Api!Moves(r, "login")
    BY <1>1, MoveMapped DEF Pc, Stage
  <1>3. LiveNow' = [LiveNow EXCEPT ![r] = "stored"] /\ FreshNow' = FreshNow
    <2>1. Stored(auth[r]).row = "stored"
      BY DEF Stored
    <2>2. LiveNow' = [LiveNow EXCEPT ![r] = Stored(auth[r]).row]
      BY <1>1, LiveMoves
    <2>3. QED
      BY <1>1, <2>1, <2>2, FreshSame
  <1>4. QED
    BY <1>1, <1>2, <1>3 DEF Api!Issue, LiveNow, FreshNow, Stage, Unissued

\* The answer of a login.
LEMMA SignInMapped ==
    ASSUME IndInv, NEW r \in Request, LoginSucceeds(r)
    PROVE  Api!SignIn(r)
  <1>1. /\ TypeOK /\ apiUp /\ pc[r] = "stored" /\ Answer(r, "signedIn") /\ reply[r] = "none"
        /\ db[r] # Unissued /\ db[r] \in {Unissued, Gone, Stored(auth[r])}
        /\ UNCHANGED <<now, exp, apiUp, tok, db>> /\ "signedIn" \in Reply
    BY DEF LoginSucceeds, env, sessionVars, IndInv, RequestInv, StageInv, RowInv, Reply
  <1>2. Api!Answers(r, "signedIn")
    BY <1>1, AnswerMapped
  <1>3. FreshNow' \in {FreshNow, FreshNow \cup {r}}
    BY <1>1 DEF FreshNow, JwtAccepted, Answer, TypeOK
  <1>4. db[r].row # "unissued"
    BY <1>1 DEF Unissued, Gone, Stored
  <1>5. QED
    BY <1>1, <1>2, <1>3, <1>4 DEF Api!SignIn, FreshNow, Stage

-----------------------------------------------------------------------------
(* A refresh *)

\* The SELECT finds the row, or the refresh is refused.
LEMMA GetMapped ==
    ASSUME IndInv, NEW r \in Request, GetAuthResponse(r)
    PROVE  Api!Look(r) \/ Api!TokenRefused(r)
  <1> DEFINE t == tok[r]
             row == db[t]
  <1>1. /\ TypeOK /\ apiUp /\ pc[r] = "read" /\ reply[r] = "none" /\ t \in Request
        /\ UNCHANGED <<now, exp, apiUp, tok, db>> /\ "401" \in Reply
    <2>1. apiUp /\ pc[r] = "read" /\ UNCHANGED <<now, exp, apiUp, tok, db>>
      BY DEF GetAuthResponse, env
    <2>2. TypeOK /\ StageInv(r)
      BY DEF IndInv, RequestInv
    <2>3. reply[r] = "none"
      BY <2>1, <2>2 DEF StageInv
    <2>4. QED
      BY <2>1, <2>2, <2>3 DEF TypeOK, Reply
  <1>2. LiveNow[t] = row.row
    BY <1>1 DEF LiveNow
  <1>3. CASE row.row = "stored" /\ row.auth.authStatus # "none"
    <2>1. pc' = [pc EXCEPT ![r] = "check"] /\ UNCHANGED reply
      BY <1>3 DEF GetAuthResponse, RowOf, locals
    <2>2. Api!Moves(r, "looked")
      BY <1>1, <2>1, MoveMapped DEF Pc, Stage
    <2>3. LiveNow' = LiveNow /\ FreshNow' = FreshNow
      BY <1>1, <2>1, LiveStays, FreshSame
    <2>4. QED
      BY <1>1, <1>3, <2>2, <2>3 DEF Api!Look, LiveNow, FreshNow, Stage
  <1>4. CASE ~ (row.row = "stored" /\ row.auth.authStatus # "none")
    <2>1. Answer(r, "401")
      BY <1>4 DEF GetAuthResponse, RowOf
    <2>2. Api!Answers(r, "401")
      BY <1>1, <2>1, AnswerMapped
    <2>3. FreshNow' = FreshNow
      BY <1>1, <2>1, FreshStays DEF Answer
    <2>4. row.row # "stored"
      <3>1. SUFFICES ASSUME row.row = "stored" PROVE FALSE
        OBVIOUS
      <3>2. t # r
        BY <1>1, <3>1 DEF IndInv, RequestInv, StageInv, Unissued
      <3>3. reply[t] = "signedIn" /\ RequestInv(t)
        BY <1>1, <3>2 DEF IndInv, RequestInv, StageInv
      <3>4. row = Stored(auth[t]) /\ exp[t] # 0
        BY <3>1, <3>3 DEF RequestInv, RowInv, Unissued, Gone
      <3>5. auth[t].authStatus = "full"
        BY <3>3, <3>4 DEF RequestInv, SignInv
      <3>6. QED
        BY <1>4, <3>1, <3>4, <3>5 DEF Stored
    <2>5. QED
      BY <1>1, <2>2, <2>3, <2>4 DEF Api!TokenRefused, FreshNow, Stage
  <1>5. QED
    BY <1>3, <1>4

\* The decision about a refresh: a new JWT is seen, the plan to expel is not yet.
LEMMA TokenDecideMapped ==
    ASSUME IndInv, NEW r \in Request, TokenDecide(r)
    PROVE  Api!Refresh(r) \/ Unseen
  <1>1. /\ TypeOK /\ apiUp /\ pc[r] = "check" /\ reply[r] = "none"
        /\ UNCHANGED <<now, apiUp, tok, db>> /\ "refreshed" \in Reply
    BY DEF TokenDecide, env, IndInv, RequestInv, StageInv, Reply
  <1>2. LiveNow' = LiveNow
    BY <1>1, LiveStays
  <1>3. CASE exp' = [exp EXCEPT ![r] = now + JwtExpiresIn] /\ Answer(r, "refreshed")
    <2>1. Api!Answers(r, "refreshed")
      BY <1>1, <1>3, AnswerMapped
    <2>2. now \in Nat /\ now < now + JwtExpiresIn
      BY <1>1, SessionsAssumption DEF TypeOK
    <2>3. exp'[r] = now + JwtExpiresIn /\ reply'[r] = "refreshed"
      BY <1>1, <1>3 DEF TypeOK, Answer
    <2>4. \A q \in Request \ {r} : exp'[q] = exp[q] /\ reply'[q] = reply[q]
      BY <1>1, <1>3 DEF TypeOK, Answer
    <2>5. FreshNow' = FreshNow \cup {r}
      BY <1>1, <2>2, <2>3, <2>4 DEF FreshNow, JwtAccepted
    <2>6. QED
      BY <1>1, <2>1, <2>5 DEF Api!Refresh, FreshNow, Stage
  <1>4. CASE pc' = [pc EXCEPT ![r] = "expel"] /\ UNCHANGED <<exp, reply, locals>>
    <2>1. AtNow' = AtNow
      BY <1>1, <1>4, AtStays DEF Pc, Stage
    <2>2. QED
      BY <1>1, <1>2, <1>4, <2>1, FreshSame DEF Unseen
  <1>5. QED
    BY <1>3, <1>4 DEF TokenDecide

\* The DELETE strikes a refresh token.
LEMMA StrikeMapped ==
    ASSUME IndInv, NEW r \in Request, InvalidateRefreshToken(r)
    PROVE  Api!Strike(r)
  <1>1. /\ TypeOK /\ apiUp /\ pc[r] = "expel" /\ tok[r] \in Request
        /\ db' = [db EXCEPT ![tok[r]] = Gone]
        /\ pc' = [pc EXCEPT ![r] = "deleted"]
        /\ UNCHANGED <<now, reply, exp, apiUp, tok>>
    BY DEF InvalidateRefreshToken, env, IndInv, TypeOK
  <1>2. Api!Moves(r, "struck")
    BY <1>1, MoveMapped DEF Pc, Stage
  <1>3. LiveNow' = [LiveNow EXCEPT ![tok[r]] = "gone"] /\ FreshNow' = FreshNow
    BY <1>1, LiveMoves, FreshSame, Gone.row = "gone" DEF Gone
  <1>4. QED
    BY <1>1, <1>2, <1>3 DEF Api!Strike, LiveNow, FreshNow, Stage

\* The answer that a token is expelled.
LEMMA ExpelMapped ==
    ASSUME IndInv, NEW r \in Request, TokenExpelled(r)
    PROVE  Api!Expel(r)
  <1>1. /\ TypeOK /\ apiUp /\ pc[r] = "deleted" /\ Answer(r, "expelled") /\ reply[r] = "none"
        /\ db[tok[r]] = Gone /\ tok[r] \in Request
        /\ UNCHANGED <<now, exp, apiUp, tok, db>> /\ "expelled" \in Reply
    <2>1. /\ apiUp /\ pc[r] = "deleted" /\ Answer(r, "expelled")
          /\ UNCHANGED <<now, exp, apiUp, tok, db>>
      BY DEF TokenExpelled, env, sessionVars
    <2>2. TypeOK /\ StageInv(r) /\ RowInv(r)
      BY DEF IndInv, RequestInv
    <2>3. reply[r] = "none" /\ db[tok[r]] = Gone
      BY <2>1, <2>2 DEF StageInv, RowInv
    <2>4. QED
      BY <2>1, <2>2, <2>3 DEF TypeOK, Reply
  <1>2. Api!Answers(r, "expelled")
    BY <1>1, AnswerMapped
  <1>3. FreshNow' = FreshNow
    BY <1>1, FreshStays DEF Answer
  <1>4. QED
    BY <1>1, <1>2, <1>3 DEF Api!Expel, FreshNow, Stage, Gone

\* An error of the database fails the request.
LEMMA DatabaseFailsMapped ==
    ASSUME IndInv, NEW r \in Request, DatabaseFails(r)
    PROVE  Api!Fail(r)
  <1>1. /\ TypeOK /\ apiUp /\ pc[r] \in {"store", "read", "expel"}
        /\ Answer(r, "500") /\ reply[r] = "none"
        /\ UNCHANGED <<now, exp, apiUp, tok, db>> /\ "500" \in Reply
        /\ pc[r] = "store" => db[r] = Unissued
    BY DEF DatabaseFails, env, sessionVars, IndInv, RequestInv, StageInv, Reply
  <1>2. Api!Answers(r, "500")
    BY <1>1, AnswerMapped
  <1>3. FreshNow' = FreshNow
    BY <1>1, FreshStays DEF Answer
  <1>4. QED
    BY <1>1, <1>2, <1>3 DEF Api!Fail, FreshNow, Stage, Unissued

-----------------------------------------------------------------------------
(* Everything else *)

\* Answers of plugins are collected out of the clients' sight.
LEMMA CollectUnseen ==
    ASSUME NEW r \in Request, NEW p \in Plugin, VerifyProof(r, p) \/ ValidateOutput(r, p)
    PROVE  Unseen
  BY DEF VerifyProof, ValidateOutput, env, Unseen, AtNow, LiveNow, FreshNow, JwtAccepted

\* A crash loses every request at work.
LEMMA CrashMapped ==
    ASSUME IndInv, apiUp, Crash
    PROVE  Api!CrashAll
  <1>1. /\ TypeOK /\ apiUp' = FALSE
        /\ pc' = [r \in Request |-> IF Active(r) THEN "done" ELSE pc[r]]
        /\ reply' = [r \in Request |-> IF Active(r) THEN "lost" ELSE reply[r]]
        /\ UNCHANGED <<now, exp, tok, db>>
    BY DEF Crash, sessionVars, IndInv
  <1>2. ASSUME NEW r \in Request
        PROVE  /\ Active(r) <=> Stage(pc[r]) \in {"login", "token", "looked", "struck"}
               /\ Active(r) => reply[r] = "none"
    <2>1. pc[r] \in Pc /\ StageInv(r)
      BY <1>1 DEF TypeOK, IndInv, RequestInv
    <2>2. QED
      BY <2>1 DEF Active, Pc, Stage, StageInv
  <1>3. /\ AtNow' = [r \in Request |-> IF AtNow[r] \in {"login", "token", "looked", "struck"}
                                       THEN "answered" ELSE AtNow[r]]
        /\ reply' = [r \in Request |-> IF AtNow[r] \in {"login", "token", "looked", "struck"}
                                       THEN "lost" ELSE reply[r]]
    <2>1. \A r \in Request : pc'[r] = IF Active(r) THEN "done" ELSE pc[r]
      BY <1>1
    <2>2. \A r \in Request : Stage(pc'[r]) = IF Active(r) THEN "answered" ELSE Stage(pc[r])
      <3>1. Stage("done") = "answered"
        BY DEF Stage
      <3>2. QED
        BY <2>1, <3>1
    <2>3. QED
      BY <1>1, <1>2, <2>2 DEF AtNow
  <1>4. FreshNow' = FreshNow
    <2>1. \A r \in Request : Active(r) => reply[r] = "none"
      BY <1>2
    <2>2. QED
      BY <1>1, <2>1 DEF FreshNow, JwtAccepted
  <1>5. LiveNow' = LiveNow
    BY <1>1, LiveStays
  <1>6. QED
    BY <1>1, <1>3, <1>4, <1>5 DEF Api!CrashAll, Api!Working, AtNow, LiveNow, FreshNow

\* The world outside: only the restart is seen.
LEMMA WorldMapped ==
    /\ ApiStarts => Api!Restart
    /\ PluginServerStops \/ PluginServerStarts => Unseen
    /\ \A p \in Plugin, o \in Output : ChangeData(p, o) => Unseen
  <1>1. ApiStarts => Api!Restart
    BY DEF ApiStarts, sessionVars, Api!Restart, JwtAccepted
  <1>2. PluginServerStops \/ PluginServerStarts => Unseen
    BY DEF PluginServerStops, PluginServerStarts, sessionVars,
           Unseen, AtNow, LiveNow, FreshNow, JwtAccepted
  <1>3. ASSUME NEW p \in Plugin, NEW o \in Output, ChangeData(p, o) PROVE Unseen
    BY <1>3 DEF ChangeData, sessionVars, Unseen, AtNow, LiveNow, FreshNow, JwtAccepted
  <1>4. QED
    BY <1>1, <1>2, <1>3

\* Time lets JWTs expire.
LEMMA TickMapped ==
    ASSUME IndInv, Tick
    PROVE  Api!Expire
  <1>1. /\ TypeOK /\ now' = now + 1
        /\ UNCHANGED <<apiUp, pc, reply, exp, tok, db>>
    BY DEF Tick, sessionVars, IndInv
  <1>2. /\ now \in Nat
        /\ \A r \in Request : exp[r] \in Nat
    BY <1>1, SessionsAssumption DEF TypeOK
  <1>3. \A r \in Request : now' < exp[r] => now < exp[r]
    BY <1>1, <1>2
  <1>4. FreshNow' \subseteq FreshNow
    BY <1>1, <1>3 DEF FreshNow, JwtAccepted
  <1>5. QED
    BY <1>1, <1>4 DEF Api!Expire, FreshNow

\* Every step is a step of the promise, or one nobody sees.
LEMMA StepMapped == IndInv /\ [Next]_vars => [Api!PromiseNext]_(Api!promiseVars)
  <1> SUFFICES ASSUME IndInv, [Next]_vars
               PROVE  Api!PromiseNext \/ UNCHANGED Api!promiseVars
    OBVIOUS
  <1>1. CASE UNCHANGED vars
    <2>1. Unseen
      BY <1>1 DEF vars, env, sessionVars, Unseen, AtNow, LiveNow, FreshNow, JwtAccepted
    <2>2. QED
      BY <2>1, UnseenMapped
  <1>2. CASE Environment
    <2>1. CASE ApiCrashes
      BY <2>1, CrashMapped DEF ApiCrashes, Api!PromiseNext
    <2>2. CASE Tick
      BY <2>2, TickMapped DEF Api!PromiseNext
    <2>3. CASE ApiStarts
      BY <2>3, WorldMapped DEF Api!PromiseNext
    <2>4. QED
      BY <1>2, <2>1, <2>2, <2>3, WorldMapped, UnseenMapped DEF Environment
  <1>3. ASSUME NEW r \in Request, Handle(r)
        PROVE  Api!PromiseNext \/ UNCHANGED Api!promiseVars
    <2>1. CASE \E p \in Plugin : VerifyProof(r, p) \/ ValidateOutput(r, p)
      BY <2>1, CollectUnseen, UnseenMapped
    <2>2. CASE LoginThrows(r)
      BY <2>2, CrashMapped DEF LoginThrows, Api!PromiseNext
    <2>3. CASE LoginDecide(r)
      <3>1. Api!LoginRefused(r) \/ Unseen
        BY <2>3, LoginDecideMapped
      <3>2. QED
        BY <3>1, UnseenMapped DEF Api!PromiseNext, Api!Serve
    <2>4. CASE TokenDecide(r)
      <3>1. Api!Refresh(r) \/ Unseen
        BY <2>4, TokenDecideMapped
      <3>2. QED
        BY <3>1, UnseenMapped DEF Api!PromiseNext, Api!Serve
    <2>5. CASE StoreAuthResponse(r)
      BY <2>5, StoreMapped DEF Api!PromiseNext, Api!Serve
    <2>6. CASE LoginSucceeds(r)
      BY <2>6, SignInMapped DEF Api!PromiseNext, Api!Serve
    <2>7. CASE GetAuthResponse(r)
      BY <2>7, GetMapped DEF Api!PromiseNext, Api!Serve
    <2>8. CASE InvalidateRefreshToken(r)
      BY <2>8, StrikeMapped DEF Api!PromiseNext, Api!Serve
    <2>9. CASE TokenExpelled(r)
      BY <2>9, ExpelMapped DEF Api!PromiseNext, Api!Serve
    <2>10. CASE DatabaseFails(r)
      BY <2>10, DatabaseFailsMapped DEF Api!PromiseNext, Api!Serve
    <2>11. QED
      BY <1>3, <2>1, <2>2, <2>3, <2>4, <2>5, <2>6, <2>7, <2>8, <2>9, <2>10 DEF Handle
  <1>4. ASSUME NEW r \in Request, Call(r)
        PROVE  Api!PromiseNext
    <2>1. CASE LoginMalformed(r) \/ JwtRefused(r)
      <3>1. Api!TurnAway(r, "400") \/ Api!TurnAway(r, "401")
        BY <2>1, RefuseMapped DEF LoginMalformed, JwtRefused
      <3>2. QED
        BY <3>1 DEF Api!PromiseNext, Api!Asked
    <2>2. CASE \E c \in PMap(Output) : Login(r, c)
      BY <2>2, LoginMapped DEF Api!PromiseNext, Api!Asked
    <2>3. CASE \E j \in Request : Protected(r, j)
      BY <2>3, ProtectedMapped DEF Api!PromiseNext, Api!Asked
    <2>4. CASE \E j \in Request : \E t \in Request : Token(r, j, t)
      BY <2>4, TokenMapped DEF Api!PromiseNext, Api!Asked
    <2>5. QED
      BY <1>4, <2>1, <2>2, <2>3, <2>4 DEF Call
  <1>5. QED
    BY <1>1, <1>2, <1>3, <1>4 DEF Next

\* The API server keeps its promise to its clients.
THEOREM PromiseImplemented == Spec => ImplementsPromise
  <1>1. Init => Api!PromiseInit
    BY DEF Init, Api!PromiseInit, Stage, Unissued, JwtAccepted
  <1>2. QED
    BY <1>1, StepMapped, Inductive, PTL DEF Spec, ImplementsPromise, Api!PromiseSpec
================================================================================
