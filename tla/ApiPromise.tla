----------------------------- MODULE ApiPromise -----------------------------
(***************************************************************************)
(* What a client of the demo API server may rely on, whatever plugins,     *)
(* proofs and the clock do behind it: when a request gets which answer,    *)
(* what becomes of refresh tokens, and that a JWT is good from its answer  *)
(* until it expires.  ApiSessions implements this; Clients builds on it.   *)
(***************************************************************************)
CONSTANT Request   \* requests; the tokens a request obtains bear its name

VARIABLES
    at,     \* where each request stands
    reply,  \* what its client was told
    tok,    \* the login whose refresh token it presents; itself for others
    live,   \* the refresh token of each login
    fresh,  \* requests that obtained a JWT that has not expired
    up      \* the server runs

promiseVars == <<at, reply, tok, live, fresh, up>>

Working == {"login", "token", "looked", "struck"}

PromiseInit ==
    /\ at = [r \in Request |-> "idle"]
    /\ reply = [r \in Request |-> "none"]
    /\ tok = [r \in Request |-> r]
    /\ live = [r \in Request |-> "unissued"]
    /\ fresh = {} /\ up = TRUE

Moves(r, s) == up /\ at' = [at EXCEPT ![r] = s] /\ UNCHANGED <<reply, up>>

Answers(r, code) ==
    /\ up
    /\ at' = [at EXCEPT ![r] = "answered"] /\ reply' = [reply EXCEPT ![r] = code]
    /\ UNCHANGED <<tok, live, up>>

\* POST /login; POST /token with a fresh JWT and the refresh token of t, or
\* one that was never issued (t is r); GET /protected; and what is refused
\* without a look.
AskLogin(r) == at[r] = "idle" /\ Moves(r, "login") /\ UNCHANGED <<tok, live, fresh>>

AskToken(r, t) ==
    /\ at[r] = "idle" /\ fresh # {}
    /\ t = r \/ reply[t] = "signedIn"
    /\ Moves(r, "token")
    /\ tok' = [tok EXCEPT ![r] = t]
    /\ UNCHANGED <<live, fresh>>

AskProtected(r) ==
    at[r] = "idle" /\ fresh # {} /\ Answers(r, "granted") /\ UNCHANGED fresh

TurnAway(r, code) == at[r] = "idle" /\ Answers(r, code) /\ UNCHANGED fresh

-----------------------------------------------------------------------------
\* The refresh token of a login exists before the client learns it.
Issue(r) ==
    /\ at[r] = "login" /\ live[r] = "unissued"
    /\ live' = [live EXCEPT ![r] = "stored"]
    /\ Moves(r, "login")
    /\ UNCHANGED <<tok, fresh>>

\* A JWT that was signed long before may have expired.
SignIn(r) ==
    /\ at[r] = "login" /\ live[r] # "unissued"
    /\ Answers(r, "signedIn")
    /\ fresh' \in {fresh, fresh \cup {r}}

LoginRefused(r) ==
    /\ at[r] = "login" /\ live[r] = "unissued"
    /\ Answers(r, "401")
    /\ UNCHANGED fresh

\* A refresh token that is stored is looked into; no other gets anywhere.
Look(r) ==
    /\ at[r] = "token" /\ live[tok[r]] = "stored"
    /\ Moves(r, "looked")
    /\ UNCHANGED <<tok, live, fresh>>

TokenRefused(r) ==
    /\ at[r] = "token" /\ live[tok[r]] # "stored"
    /\ Answers(r, "401")
    /\ UNCHANGED fresh

Refresh(r) ==
    /\ at[r] = "looked"
    /\ Answers(r, "refreshed")
    /\ fresh' = fresh \cup {r}

\* It stands for outputs that are revoked, or that the plugin server cannot be
\* asked about, which the server does not tell apart: it is struck out first,
\* and then the client is told.
Strike(r) ==
    /\ at[r] = "looked"
    /\ live' = [live EXCEPT ![tok[r]] = "gone"]
    /\ Moves(r, "struck")
    /\ UNCHANGED <<tok, fresh>>

Expel(r) ==
    /\ at[r] = "struck" /\ live[tok[r]] = "gone"
    /\ Answers(r, "expelled")
    /\ UNCHANGED fresh

\* The database fails; a login or a deletion it has made is not lost.
Fail(r) ==
    /\ at[r] \in {"token", "looked"} \/ (at[r] = "login" /\ live[r] = "unissued")
    /\ Answers(r, "500")
    /\ UNCHANGED fresh

\* Every connection is lost, and no token.
CrashAll ==
    /\ up /\ up' = FALSE
    /\ at' = [r \in Request |-> IF at[r] \in Working THEN "answered" ELSE at[r]]
    /\ reply' = [r \in Request |-> IF at[r] \in Working THEN "lost" ELSE reply[r]]
    /\ UNCHANGED <<tok, live, fresh>>

Restart == ~ up /\ up' = TRUE /\ UNCHANGED <<at, reply, tok, live, fresh>>

Expire ==
    /\ fresh' \in SUBSET fresh
    /\ UNCHANGED <<at, reply, tok, live, up>>

-----------------------------------------------------------------------------
Serve(r) ==
    \/ Issue(r) \/ SignIn(r) \/ LoginRefused(r)
    \/ Look(r) \/ TokenRefused(r) \/ Refresh(r) \/ Strike(r) \/ Expel(r)
    \/ Fail(r)

Asked(r) ==
    \/ AskLogin(r) \/ AskProtected(r) \/ TurnAway(r, "400") \/ TurnAway(r, "401")
    \/ \E t \in Request : AskToken(r, t)

PromiseNext ==
    \/ \E r \in Request : Asked(r) \/ Serve(r)
    \/ CrashAll \/ Restart \/ Expire

PromiseSpec == PromiseInit /\ [][PromiseNext]_promiseVars
=============================================================================
