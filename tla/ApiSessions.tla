----------------------------- MODULE ApiSessions -----------------------------
(***************************************************************************)
(* The demo API server: requests POST /login, POST /token and              *)
(* GET /protected, interleaved with each other, with the changes of the    *)
(* plugins' data, with stops of the plugin server and with crashes of the  *)
(* API server itself.                                                      *)
(*                                                                         *)
(* A login asks the plugin server to verify one proof after the other      *)
(* (PluginServerProxyHost runs the requests in sequence), maps the answers *)
(* to an authentication response, signs a JWT and then stores the response *)
(* in SQLite under a fresh refresh token.  A /token request presents a JWT *)
(* and a refresh token, reads the stored response, asks the plugin server  *)
(* about each output again, and signs a new JWT or deletes the row.  Every *)
(* await of the handlers is a point where other steps may come in.         *)
(*                                                                         *)
(* A request is a model value and makes one call.  The JWT and the refresh *)
(* token it obtains are named after it (crypto.randomBytes is fresh).  A   *)
(* plugin is reduced to its promise: at the instant it looks, it accepts   *)
(* exactly the pairs <<plugin, output>> in "valid".  now, began, lastValid,*)
(* wasValid and wasInvalid are there for the properties; the code reads    *)
(* the clock for JWTs only.                                                *)
(***************************************************************************)
EXTENDS PluginToRoleMapper, Naturals

CONSTANTS
    Request,       \* requests made to the API server
    JwtExpiresIn,  \* lifetime of a JWT
    MaxTime,       \* bound: the clock stops here
    Outages        \* whether the plugin server may stop

ASSUME SessionsAssumption ==
    /\ JwtExpiresIn \in Nat \ {0}
    /\ MaxTime \in Nat
    /\ Outages \in BOOLEAN

VARIABLES
    now,         \* the clock
    apiUp,       \* the API server runs
    pluginUp,    \* the plugin server runs
    valid,       \* pairs <<plugin, output>> the plugins' data admits now
    pc,          \* where each request stands
    claims,      \* the outputs a login's proofs are for, by plugin
    resps,       \* answers collected so far, by plugin
    auth,        \* the authentication response at hand
    tok,         \* the login whose refresh token a /token request presents
    exp,         \* expiry of the JWT signed for a request, 0 if none
    reply,       \* what the client was told
    db,          \* the table refresh_tokens, by issuing login
    via,         \* the request whose JWT was presented
    began,       \* history: when the request was received
    lastValid,   \* history: the last instant a pair was admitted
    wasValid,    \* history: pairs at stake admitted at some instant of the request
    wasInvalid   \* history: pairs at stake not admitted at some instant of it

locals == <<claims, resps>>
sessionVars == <<auth, tok, exp, db, via>>
history == <<began, lastValid, wasValid, wasInvalid>>
env == <<now, apiUp, pluginUp, valid>>
vars == <<env, pc, reply, locals, sessionVars, history>>

Pair == Plugin \X Output
Unissued == [row |-> "unissued"]
Gone == [row |-> "gone"]
Stored(a) == [row |-> "stored", auth |-> a]
NoAuth == [authStatus |-> "none", roles |-> {}, outputs |-> << >>]

Pc == {"new", "verify", "store", "stored", "read", "check", "expel", "deleted", "done"}
Reply == {"none", "signedIn", "refreshed", "granted", "expelled",
          "400", "401", "500", "lost"}

\* The response a /token request obtained from the database, as sent to the
\* plugins.
ToCheck(r) == ExtractValidityCheck(auth[r])
OutputsOf(a) == {<<p, a.outputs[p].output>> : p \in DOMAIN a.outputs}

Active(r) == pc[r] \notin {"new", "done"}

\* The pairs a request is about: those its proofs are for, or those its
\* refresh token stands for.
ClaimsOf(c) == {<<p, c[p]>> : p \in DOMAIN c}
AtStake(r) == IF pc[r] = "verify" THEN ClaimsOf(claims[r]) ELSE OutputsOf(auth[tok[r]])

\* Mutant: expired JWTs go as well.
JwtAcceptedForever(j) == reply[j] \in {"signedIn", "refreshed"}

\* A JWT a client holds, and has not expired.
JwtAccepted(j) == /\ reply[j] \in {"signedIn", "refreshed"}
                  /\ now < exp[j]

-----------------------------------------------------------------------------
Init ==
    /\ now = 0 /\ apiUp = TRUE /\ pluginUp = TRUE
    /\ valid \in SUBSET Pair
    /\ pc = [r \in Request |-> "new"]
    /\ claims = [r \in Request |-> << >>]
    /\ resps = [r \in Request |-> << >>]
    /\ auth = [r \in Request |-> NoAuth]
    /\ tok = [r \in Request |-> r]
    /\ exp = [r \in Request |-> 0]
    /\ reply = [r \in Request |-> "none"]
    /\ db = [r \in Request |-> Unissued]
    /\ via = [r \in Request |-> r]
    /\ began = [r \in Request |-> 0]
    /\ lastValid = [x \in Pair |-> 0]
    /\ wasValid = [r \in Request |-> {}]
    /\ wasInvalid = [r \in Request |-> {}]

\* The client gets its answer and the handler's local variables are gone.
Answer(r, code) == /\ pc' = [pc EXCEPT ![r] = "done"]
                   /\ reply' = [reply EXCEPT ![r] = code]
                   /\ claims' = [claims EXCEPT ![r] = << >>]
                   /\ resps' = [resps EXCEPT ![r] = << >>]

\* The server receives request r, about the pairs in stake, and works on it
\* at s.
Receive(r, s, stake) ==
    /\ apiUp /\ pc[r] = "new"
    /\ pc' = [pc EXCEPT ![r] = s]
    /\ began' = [began EXCEPT ![r] = now]
    /\ wasValid' = [wasValid EXCEPT ![r] = stake \cap valid]
    /\ wasInvalid' = [wasInvalid EXCEPT ![r] = stake \ valid]
    /\ UNCHANGED lastValid

\* The server receives request r and answers it at once.
Refuse(r, code) ==
    /\ apiUp /\ pc[r] = "new"
    /\ Answer(r, code)
    /\ UNCHANGED <<env, sessionVars, history>>

-----------------------------------------------------------------------------
(* POST /login *)

\* The body decodes to a map of plugin inputs; each input is a proof that
\* supports one output.
Login(r, c) ==
    /\ Receive(r, "verify", ClaimsOf(c))
    /\ claims' = [claims EXCEPT ![r] = c]
    /\ UNCHANGED <<env, reply, resps, auth, tok, exp, db, via>>

\* The body is not a map: authRequestEncDecoder.decode fails.
LoginMalformed(r) == Refuse(r, "400")

\* verifyProof: plugin p accepts a proof that supports output o.
ProofAccepted(p, o) == pluginUp /\ <<p, o>> \in valid

\* The plugin server answers (or the HTTP request fails) for one plugin.
\* The order is that of the keys of the body: any order.
VerifyProof(r, p) ==
    /\ apiUp /\ pc[r] = "verify"
    /\ p \in DOMAIN claims[r] \ DOMAIN resps[r]
    /\ LET out == IF ProofAccepted(p, claims[r][p])
                  THEN claims[r][p] ELSE Left
       IN  resps' = [resps EXCEPT ![r] =
               [q \in DOMAIN resps[r] \cup {p} |-> IF q = p THEN out ELSE resps[r][q]]]
    /\ UNCHANGED <<env, pc, reply, claims, auth, tok, exp, db, via, history>>

\* All answers are in and every plugin has roles: a full response gets a JWT
\* and goes on to the database, any other is refused.
LoginDecide(r) ==
    /\ apiUp /\ pc[r] = "verify"
    /\ DOMAIN resps[r] = DOMAIN claims[r]
    /\ ~ RequestAuthThrows(resps[r])
    /\ LET a == RequestAuth(resps[r])
       IN  IF a.authStatus = "full"
           THEN /\ auth' = [auth EXCEPT ![r] = a]
                /\ exp' = [exp EXCEPT ![r] = now + JwtExpiresIn]
                /\ pc' = [pc EXCEPT ![r] = "store"]
                /\ UNCHANGED <<reply, locals>>
           ELSE /\ Answer(r, "401")
                /\ UNCHANGED <<auth, exp>>
    /\ UNCHANGED <<env, tok, db, via, history>>

\* Mutant: the INSERT is not waited for, and is lost.
StoreNothing(r) ==
    /\ apiUp /\ pc[r] = "store"
    /\ pc' = [pc EXCEPT ![r] = "stored"]
    /\ UNCHANGED <<env, reply, locals, sessionVars, history>>

\* storeAuthResponse: the INSERT.
StoreAuthResponse(r) ==
    /\ apiUp /\ pc[r] = "store"
    /\ db' = [db EXCEPT ![r] = Stored(auth[r])]
    /\ pc' = [pc EXCEPT ![r] = "stored"]
    /\ UNCHANGED <<env, reply, locals, auth, tok, exp, via, history>>

\* The JWT and the refresh token go to the client.
LoginSucceeds(r) ==
    /\ apiUp /\ pc[r] = "stored"
    /\ Answer(r, "signedIn")
    /\ UNCHANGED <<env, sessionVars, history>>

-----------------------------------------------------------------------------
(* POST /token and GET /protected, behind passport's JWT strategy *)

\* No JWT, or one that has expired.
JwtRefused(r) == Refuse(r, "401")

\* Any accepted JWT goes, whichever login the refresh token t is from; a
\* token never issued is r itself.
Token(r, j, t) ==
    /\ JwtAccepted(j)
    /\ t = r \/ reply[t] = "signedIn"
    /\ Receive(r, "read", OutputsOf(auth[t]))
    /\ tok' = [tok EXCEPT ![r] = t]
    /\ via' = [via EXCEPT ![r] = j]
    /\ UNCHANGED <<env, reply, claims, resps, auth, exp, db>>

\* Mutant: the row of the login the JWT is from.
RowOfJwt(r) == db[via[r]]

\* The row that the hash of the presented refresh token selects.
RowOf(r) == db[tok[r]]

\* getAuthResponseByToken and the checks of what it returned.
GetAuthResponse(r) ==
    /\ apiUp /\ pc[r] = "read"
    /\ LET row == RowOf(r)
       IN  IF row.row = "stored" /\ row.auth.authStatus # "none"
           THEN /\ auth' = [auth EXCEPT ![r] = row.auth]
                /\ pc' = [pc EXCEPT ![r] = "check"]
                /\ UNCHANGED <<reply, locals>>
           ELSE /\ Answer(r, "401")
                /\ UNCHANGED auth
    /\ UNCHANGED <<env, tok, exp, db, via, history>>

\* validateOutput: plugin p still admits output o.
OutputStillValid(p, o) == pluginUp /\ <<p, o>> \in valid

\* One request to the plugin server; whatever fails counts as invalid.
ValidateOutput(r, p) ==
    /\ apiUp /\ pc[r] = "check"
    /\ p \in DOMAIN ToCheck(r) \ DOMAIN resps[r]
    /\ LET ok == OutputStillValid(p, ToCheck(r)[p].output)
       IN  resps' = [resps EXCEPT ![r] =
               [q \in DOMAIN resps[r] \cup {p} |-> IF q = p THEN ok ELSE resps[r][q]]]
    /\ UNCHANGED <<env, pc, reply, claims, auth, tok, exp, db, via, history>>

\* A response that is still full gets a new JWT.
TokenDecide(r) ==
    /\ apiUp /\ pc[r] = "check"
    /\ DOMAIN resps[r] = DOMAIN ToCheck(r)
    /\ LET a == CheckAuthValidity(ToCheck(r), resps[r])
       IN  IF a.authStatus = "full"
           THEN /\ exp' = [exp EXCEPT ![r] = now + JwtExpiresIn]
                /\ Answer(r, "refreshed")
           ELSE /\ pc' = [pc EXCEPT ![r] = "expel"]
                /\ UNCHANGED <<exp, reply, locals>>
    /\ UNCHANGED <<env, auth, tok, db, via, history>>

\* Mutant: the DELETE is forgotten.
InvalidateNothing(r) ==
    /\ apiUp /\ pc[r] = "expel"
    /\ pc' = [pc EXCEPT ![r] = "deleted"]
    /\ UNCHANGED <<env, reply, locals, sessionVars, history>>

\* invalidateRefreshToken: the DELETE.
InvalidateRefreshToken(r) ==
    /\ apiUp /\ pc[r] = "expel"
    /\ db' = [db EXCEPT ![tok[r]] = Gone]
    /\ pc' = [pc EXCEPT ![r] = "deleted"]
    /\ UNCHANGED <<env, reply, locals, auth, tok, exp, via, history>>

\* 401 "output no longer valid".
TokenExpelled(r) ==
    /\ apiUp /\ pc[r] = "deleted"
    /\ Answer(r, "expelled")
    /\ UNCHANGED <<env, sessionVars, history>>

\* GET /protected.
Protected(r, j) ==
    /\ apiUp /\ pc[r] = "new"
    /\ JwtAccepted(j)
    /\ Answer(r, "granted")
    /\ via' = [via EXCEPT ![r] = j]
    /\ UNCHANGED <<env, auth, tok, exp, db, history>>

\* Hashing or a statement fails: both handlers catch it and answer 500.
DatabaseFails(r) ==
    /\ apiUp /\ pc[r] \in {"store", "read", "expel"}
    /\ Answer(r, "500")
    /\ UNCHANGED <<env, sessionVars, history>>

-----------------------------------------------------------------------------
(* Crashes and the world outside *)

\* Every request in flight loses its connection; SQLite and JWTs survive.
Crash ==
    /\ apiUp' = FALSE
    /\ pc' = [r \in Request |-> IF Active(r) THEN "done" ELSE pc[r]]
    /\ reply' = [r \in Request |-> IF Active(r) THEN "lost" ELSE reply[r]]
    /\ claims' = [r \in Request |-> << >>]
    /\ resps' = [r \in Request |-> << >>]
    /\ UNCHANGED <<now, pluginUp, valid, sessionVars, history>>

\* Mutant: the exception is swallowed and nobody answers.
LoginThrowsSilently(r) ==
    /\ apiUp /\ pc[r] = "verify"
    /\ DOMAIN resps[r] = DOMAIN claims[r]
    /\ RequestAuthThrows(resps[r])
    /\ UNCHANGED vars

\* requestAuth rejects, MinAuthBinaryStrategy.authenticate has no catch and
\* passport drops the promise: an unhandled rejection, which ends the
\* Node process.
LoginThrows(r) ==
    /\ apiUp /\ pc[r] = "verify"
    /\ DOMAIN resps[r] = DOMAIN claims[r]
    /\ RequestAuthThrows(resps[r])
    /\ Crash

ApiCrashes == apiUp /\ Crash

ApiStarts ==
    /\ ~ apiUp
    /\ apiUp' = TRUE
    /\ UNCHANGED <<now, pluginUp, valid, pc, reply, locals, sessionVars, history>>

PluginServerStops ==
    /\ Outages /\ pluginUp
    /\ pluginUp' = FALSE
    /\ UNCHANGED <<now, apiUp, valid, pc, reply, locals, sessionVars, history>>

PluginServerStarts ==
    /\ ~ pluginUp
    /\ pluginUp' = TRUE
    /\ UNCHANGED <<now, apiUp, valid, pc, reply, locals, sessionVars, history>>

\* The data behind plugin p changes (roles set, leaf set, token locked or
\* unlocked ...): output o is admitted from now on, or no longer.
ChangeData(p, o) ==
    /\ valid' = IF <<p, o>> \in valid THEN valid \ {<<p, o>>} ELSE valid \cup {<<p, o>>}
    /\ lastValid' = [lastValid EXCEPT ![<<p, o>>] = IF <<p, o>> \in valid THEN now ELSE @]
    /\ LET seen(r) == IF Active(r) THEN AtStake(r) \cap {<<p, o>>} ELSE {}
       IN  /\ wasValid' = [r \in Request |-> wasValid[r] \cup (seen(r) \cap valid')]
           /\ wasInvalid' = [r \in Request |-> wasInvalid[r] \cup (seen(r) \ valid')]
    /\ UNCHANGED <<now, apiUp, pluginUp, pc, reply, locals, sessionVars, began>>

Tick ==
    /\ now < MaxTime
    /\ now' = now + 1
    /\ UNCHANGED <<apiUp, pluginUp, valid, pc, reply, locals, sessionVars, history>>

-----------------------------------------------------------------------------
\* The steps the server takes by itself once it has received r.
Handle(r) ==
    \/ \E p \in Plugin : VerifyProof(r, p) \/ ValidateOutput(r, p)
    \/ LoginDecide(r) \/ LoginThrows(r) \/ StoreAuthResponse(r) \/ LoginSucceeds(r)
    \/ GetAuthResponse(r) \/ TokenDecide(r)
    \/ InvalidateRefreshToken(r) \/ TokenExpelled(r)
    \/ DatabaseFails(r)

Call(r) ==
    \/ LoginMalformed(r) \/ JwtRefused(r)
    \/ \E c \in PMap(Output) : Login(r, c)
    \/ \E j \in Request : Protected(r, j) \/ \E t \in Request : Token(r, j, t)

Environment ==
    \/ ApiCrashes \/ ApiStarts \/ PluginServerStops \/ PluginServerStarts \/ Tick
    \/ \E p \in Plugin, o \in Output : ChangeData(p, o)

Next == Environment \/ \E r \in Request : Call(r) \/ Handle(r)

Spec == Init /\ [][Next]_vars

\* The event loop runs every ready continuation, and fetch gives up on a
\* silent plugin server after 300 seconds.  Clients, data and crashes are
\* not fair.
FairSpec == Spec /\ \A r \in Request : WF_vars(Handle(r))

-----------------------------------------------------------------------------
(* Properties *)

\* Every variable keeps its type.
TypeOK ==
    /\ now \in 0..MaxTime /\ apiUp \in BOOLEAN /\ pluginUp \in BOOLEAN
    /\ valid \in SUBSET Pair
    /\ pc \in [Request -> Pc]
    /\ claims \in [Request -> PMap(Output)]
    /\ resps \in [Request -> PMap(Output \cup {Left} \cup BOOLEAN)]
    /\ auth \in [Request -> PluginRolesAuth]
    /\ tok \in [Request -> Request] /\ via \in [Request -> Request]
    /\ exp \in [Request -> Nat] /\ reply \in [Request -> Reply]
    /\ db \in [Request -> {Unissued, Gone} \cup {Stored(a) : a \in PluginRolesAuth}]
    /\ began \in [Request -> Nat] /\ lastValid \in [Pair -> Nat]
    /\ wasValid \in [Request -> SUBSET Pair] /\ wasInvalid \in [Request -> SUBSET Pair]

\* A JWT is signed (index.ts 154, 223) only if the plugins admitted each of
\* its outputs at some instant while that very request was served: what was
\* revoked before a request came in never gets it a JWT.
SignedOutputsWereValid ==
    \A r \in Request : exp[r] # 0 => OutputsOf(auth[r]) \subseteq wasValid[r]

\* GET /protected looks at the JWT only, so it serves revoked outputs for a
\* while: never more than JWT_EXPIRES_IN plus the time the request that
\* signed the JWT took.
AccessWindow ==
    [][\A r \in Request : reply[r] = "none" /\ reply'[r] = "granted" =>
          LET j == via'[r]
              took == (exp[j] - JwtExpiresIn) - began[j]
          IN  \A x \in OutputsOf(auth[j]) :
                  x \in valid \/ now < lastValid[x] + JwtExpiresIn + took]_vars

\* A refresh token whose holder was told "output no longer valid" is out of
\* the database for good, whatever other requests with the same token do.
ExpelledTokensStayGone ==
    \A r \in Request : reply[r] = "expelled" => db[tok[r]] = Gone

\* A login answered with tokens has stored what the refresh token stands for,
\* crashes between signing and storing included.
SignedInTokensAreStored ==
    \A r \in Request : reply[r] = "signedIn" => db[r] \in {Gone, Stored(auth[r])}

\* What a refresh vouches for is what the login of its refresh token proved,
\* not what the JWT presented along with it was signed for.
RefreshKeepsOutputs ==
    \A r \in Request : reply[r] = "refreshed" =>
        /\ auth[r] = auth[tok[r]]
        /\ OutputsOf(auth[r]) \subseteq wasValid[tok[r]]

\* A client is told "output no longer valid" (index.ts 220) and loses its
\* refresh token only if some output was not valid at some instant of the
\* request.
ExpelledOnlyIfRevoked ==
    \A r \in Request : reply[r] = "expelled" =>
        OutputsOf(auth[r]) \cap wasInvalid[r] # {}

\* Every request the server receives is answered, or its connection is lost
\* in a crash.
EveryRequestEnds == \A r \in Request : Active(r) ~> pc[r] = "done"

-----------------------------------------------------------------------------
\* What a client sees of all this.
Stage(s) ==
    CASE s = "new" -> "idle"
      [] s \in {"verify", "store", "stored"} -> "login"
      [] s = "read" -> "token"
      [] s \in {"check", "expel"} -> "looked"
      [] s = "deleted" -> "struck"
      [] s = "done" -> "answered"

Api == INSTANCE ApiPromise WITH
    at    <- [r \in Request |-> Stage(pc[r])],
    live  <- [r \in Request |-> db[r].row],
    fresh <- {r \in Request : JwtAccepted(r)},
    up    <- apiUp

\* The server keeps its promise to the clients: a refresh token is in the
\* database before its client learns it and out of it before its client is
\* told so, no answer comes from nowhere, a JWT is good until it expires, and
\* crashes lose connections but no token.
ImplementsPromise == Api!PromiseSpec

-----------------------------------------------------------------------------
(* The inductive invariant behind the properties, by what it is about *)

\* A request before, during and after its handler.
StageInv(r) ==
    /\ pc[r] # "done" => reply[r] = "none" /\ (pc[r] # "stored" => db[r] = Unissued)
    /\ pc[r] \in {"new", "read"} => resps[r] = << >>
    /\ pc[r] \in {"new", "verify", "store", "stored"} => tok[r] = r
    /\ pc[r] \in {"store", "stored"} => exp[r] # 0
    /\ tok[r] # r => reply[tok[r]] = "signedIn"
    /\ pc[r] \in {"check", "expel", "deleted"} \/ reply[r] \in {"refreshed", "expelled"} =>
           tok[r] # r /\ auth[r] = auth[tok[r]]

\* The row of a login: there before it is answered, until it is deleted.
RowInv(r) ==
    /\ pc[r] = "stored" \/ reply[r] = "signedIn" => db[r] # Unissued
    /\ db[r] \in {Unissued, Gone, Stored(auth[r])}
    /\ reply[r] = "signedIn" => exp[r] # 0
    /\ pc[r] = "deleted" \/ reply[r] = "expelled" => db[tok[r]] = Gone

\* The answers collected so far are what the plugins said at some instant.
ProofAnswersInv(r) == pc[r] = "verify" =>
    \A p \in DOMAIN resps[r] :
        /\ p \in DOMAIN claims[r]
        /\ \/ resps[r][p] = Left
           \/ resps[r][p] = claims[r][p] /\ <<p, claims[r][p]>> \in wasValid[r]

CheckAnswersInv(r) ==
    /\ pc[r] = "check" =>
        \A p \in DOMAIN resps[r] :
            /\ p \in DOMAIN auth[r].outputs
            /\ resps[r][p] \in BOOLEAN
            /\ resps[r][p] = TRUE => <<p, auth[r].outputs[p].output>> \in wasValid[r]
            /\ resps[r][p] = FALSE =>
                  Outages \/ <<p, auth[r].outputs[p].output>> \in wasInvalid[r]
    /\ pc[r] \in {"expel", "deleted"} \/ reply[r] = "expelled" =>
          Outages \/ OutputsOf(auth[r]) \cap wasInvalid[r] # {}

\* What a signed JWT stands for.
SignInv(r) == exp[r] # 0 =>
    /\ pc[r] \in {"store", "stored", "done"}
    /\ auth[r].authStatus = "full" /\ DOMAIN auth[r].outputs # {}
    /\ OutputsOf(auth[r]) \subseteq wasValid[r]
    /\ exp[r] >= began[r] + JwtExpiresIn

\* The history variables say what they are meant to.
HistoryInv(r) ==
    /\ Active(r) => /\ AtStake(r) \cap valid \subseteq wasValid[r]
                    /\ AtStake(r) \ valid \subseteq wasInvalid[r]
    /\ began[r] <= now
    /\ \A x \in wasValid[r] : x \in valid \/ lastValid[x] >= began[r]

RequestInv(r) ==
    /\ StageInv(r) /\ RowInv(r) /\ ProofAnswersInv(r) /\ CheckAnswersInv(r)
    /\ SignInv(r) /\ HistoryInv(r)

IndInv ==
    /\ TypeOK
    /\ ~ Outages => pluginUp
    /\ \A r \in Request : RequestInv(r)

=============================================================================
