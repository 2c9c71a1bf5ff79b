---------------------------- MODULE ClientsProofs ----------------------------
(***************************************************************************)
(* Proofs about the clients of the demo API server: which tokens a page    *)
(* shows and two files hold, and when a refresh is refused, for any number *)
(* of commands and clicks.                                                 *)
(***************************************************************************)
EXTENDS Clients, TLAPS

-----------------------------------------------------------------------------
(* The server's side *)

Refreshing == {"token", "looked", "struck"}

\* A refresh token belongs to a login that is over, and only that of a login
\* gets anywhere.
ReplyInv ==
    /\ at \in [Request -> {"idle", "login", "answered"} \cup Refreshing]
    /\ DOMAIN reply = Request
    /\ tok \in [Request -> Request]
    /\ live \in [Request -> {"unissued", "stored", "gone"}]
    /\ \A r \in Request :
          /\ at[r] # "answered" => reply[r] = "none"
          /\ at[r] \in {"idle", "login"} => tok[r] = r
          /\ at[r] \in {"idle"} \cup Refreshing => live[r] = "unissued"
          /\ reply[r] = "signedIn" => tok[r] = r /\ live[r] # "unissued"
          /\ at[r] = "token" => tok[r] = r \/ reply[tok[r]] = "signedIn"
          /\ at[r] \in {"looked", "struck"} \/ reply[r] = "refreshed"
               => reply[tok[r]] = "signedIn"
          /\ r \in fresh => reply[r] # "none"

\* What no step of the server ever takes back.
Lasting ==
    \A r \in Request :
        /\ at[r] # "idle" => at'[r] # "idle" /\ tok'[r] = tok[r]
        /\ at[r] = "answered" => at'[r] = "answered" /\ reply'[r] = reply[r]
        /\ at[r] = "login" => at'[r] \in {"login", "answered"} /\ reply'[r] # "refreshed"
        /\ at[r] \in Refreshing =>
              /\ at'[r] \in Refreshing \cup {"answered"} /\ reply'[r] # "signedIn"
              /\ reply'[r] = "401" => tok[r] = r \/ live'[tok[r]] = "gone"
        /\ live[r] = "gone" => live'[r] = "gone"
        /\ at[r] = "answered" /\ r \notin fresh => r \notin fresh'

\* A request that is answered, or moves on.
LEMMA AnswersKeep ==
    ASSUME ReplyInv, NEW r \in Request, NEW code \in {"401", "400", "500", "granted", "expelled"},
           at[r] # "answered", Answers(r, code), UNCHANGED fresh,
           at[r] \in Refreshing /\ code = "401" => live[tok[r]] # "stored"
    PROVE  ReplyInv' /\ Lasting
  <1>1. /\ at' = [at EXCEPT ![r] = "answered"] /\ reply' = [reply EXCEPT ![r] = code]
        /\ UNCHANGED <<tok, live, up, fresh>>
    BY DEF Answers
  <1>2. \A q \in Request : q # r => at'[q] = at[q] /\ reply'[q] = reply[q]
    BY <1>1 DEF ReplyInv
  <1>3. at'[r] = "answered" /\ reply'[r] = code
    BY <1>1 DEF ReplyInv
  <1>4. \A q \in Request : reply[q] # "none" => reply'[q] = reply[q]
    BY <1>2 DEF ReplyInv
  <1>5. ReplyInv'
    BY <1>1, <1>2, <1>3, <1>4 DEF ReplyInv, Refreshing
  <1>6. Lasting
    BY <1>1, <1>2, <1>3, <1>4 DEF Lasting, ReplyInv, Refreshing
  <1>7. QED
    BY <1>5, <1>6

\* Requests come in.
LEMMA AskedKeeps ==
    ASSUME ReplyInv, NEW r \in Request, Asked(r)
    PROVE  ReplyInv' /\ Lasting
  <1>1. CASE AskLogin(r)
    BY <1>1 DEF AskLogin, Moves, ReplyInv, Lasting, Refreshing
  <1>2. ASSUME NEW t \in Request, AskToken(r, t) PROVE ReplyInv' /\ Lasting
    <2>1. /\ at[r] = "idle" /\ (t = r \/ reply[t] = "signedIn")
          /\ at' = [at EXCEPT ![r] = "token"] /\ tok' = [tok EXCEPT ![r] = t]
          /\ UNCHANGED <<reply, live, fresh, up>>
      BY <1>2 DEF AskToken, Moves
    <2>2. \A q \in Request : q # r => at'[q] = at[q] /\ tok'[q] = tok[q]
      BY <2>1 DEF ReplyInv
    <2>3. at'[r] = "token" /\ tok'[r] = t /\ reply[r] = "none"
      BY <2>1 DEF ReplyInv
    <2>4. ReplyInv'
      BY <2>1, <2>2, <2>3 DEF ReplyInv, Refreshing
    <2>5. Lasting
      BY <2>1, <2>2, <2>3 DEF ReplyInv, Lasting, Refreshing
    <2>6. QED
      BY <2>4, <2>5
  <1>3. CASE AskProtected(r) \/ TurnAway(r, "400") \/ TurnAway(r, "401")
    BY <1>3, AnswersKeep DEF AskProtected, TurnAway, Refreshing
  <1>4. QED
    BY <1>1, <1>2, <1>3 DEF Asked

\* Requests are served.
LEMMA ServeKeeps ==
    ASSUME ReplyInv, NEW r \in Request, Serve(r)
    PROVE  ReplyInv' /\ Lasting
  <1>1. CASE Issue(r)
    BY <1>1 DEF Issue, Moves, ReplyInv, Lasting, Refreshing
  <1>2. CASE SignIn(r)
    <2>1. /\ at[r] = "login" /\ live[r] # "unissued"
          /\ at' = [at EXCEPT ![r] = "answered"] /\ reply' = [reply EXCEPT ![r] = "signedIn"]
          /\ UNCHANGED <<tok, live, up>> /\ fresh' \subseteq fresh \cup {r}
      BY <1>2 DEF SignIn, Answers
    <2>2. \A q \in Request : q # r => at'[q] = at[q] /\ reply'[q] = reply[q]
      BY <2>1 DEF ReplyInv
    <2>3. at'[r] = "answered" /\ reply'[r] = "signedIn" /\ reply[r] = "none" /\ tok[r] = r
      BY <2>1 DEF ReplyInv
    <2>4. ReplyInv'
      BY <2>1, <2>2, <2>3 DEF ReplyInv, Refreshing
    <2>5. Lasting
      BY <2>1, <2>2, <2>3 DEF ReplyInv, Lasting, Refreshing
    <2>6. QED
      BY <2>4, <2>5
  <1>3. CASE LoginRefused(r) \/ TokenRefused(r) \/ Expel(r) \/ Fail(r)
    BY <1>3, AnswersKeep DEF LoginRefused, TokenRefused, Expel, Fail, Refreshing
  <1>4. CASE Look(r)
    <2>1. /\ at[r] = "token" /\ live[tok[r]] = "stored"
          /\ at' = [at EXCEPT ![r] = "looked"]
          /\ UNCHANGED <<reply, up, tok, live, fresh>>
      BY <1>4 DEF Look, Moves
    <2>2. reply[tok[r]] = "signedIn"
      BY <2>1 DEF ReplyInv, Refreshing
    <2>3. QED
      BY <2>1, <2>2 DEF ReplyInv, Lasting, Refreshing
  <1>5. CASE Refresh(r)
    <2>1. /\ at[r] = "looked"
          /\ at' = [at EXCEPT ![r] = "answered"] /\ reply' = [reply EXCEPT ![r] = "refreshed"]
          /\ UNCHANGED <<tok, live, up>> /\ fresh' = fresh \cup {r}
      BY <1>5 DEF Refresh, Answers
    <2>2. \A q \in Request : q # r => at'[q] = at[q] /\ reply'[q] = reply[q]
      BY <2>1 DEF ReplyInv
    <2>3. /\ at'[r] = "answered" /\ reply'[r] = "refreshed" /\ reply[r] = "none"
          /\ reply[tok[r]] = "signedIn" /\ tok[r] # r
      BY <2>1 DEF ReplyInv
    <2>4. \A q \in Request : reply[q] = "signedIn" => reply'[q] = "signedIn"
      BY <2>2, <2>3
    <2>5. ReplyInv'
      BY <2>1, <2>2, <2>3, <2>4 DEF ReplyInv, Refreshing
    <2>6. Lasting
      BY <2>1, <2>2, <2>3, <2>4 DEF ReplyInv, Lasting, Refreshing
    <2>7. QED
      BY <2>5, <2>6
  <1>6. CASE Strike(r)
    <2>1. /\ at[r] = "looked" /\ at' = [at EXCEPT ![r] = "struck"]
          /\ live' = [live EXCEPT ![tok[r]] = "gone"]
          /\ UNCHANGED <<reply, up, tok, fresh>>
      BY <1>6 DEF Strike, Moves
    <2>2. tok[r] \in Request /\ reply[tok[r]] = "signedIn" /\ at[tok[r]] = "answered"
      BY <2>1 DEF ReplyInv
    <2>3. \A q \in Request : live'[q] = IF q = tok[r] THEN "gone" ELSE live[q]
      BY <2>1, <2>2 DEF ReplyInv
    <2>4. \A q \in Request : at'[q] = IF q = r THEN "struck" ELSE at[q]
      BY <2>1 DEF ReplyInv
    <2>5. ReplyInv'
      BY <2>1, <2>2, <2>3, <2>4 DEF ReplyInv, Refreshing
    <2>6. Lasting
      BY <2>1, <2>2, <2>3, <2>4 DEF ReplyInv, Lasting, Refreshing
    <2>7. QED
      BY <2>5, <2>6
  <1>7. QED
    BY <1>1, <1>2, <1>3, <1>4, <1>5, <1>6 DEF Serve

\* Every step of the promise keeps it.
LEMMA PromiseKeeps ==
    ASSUME ReplyInv, [PromiseNext]_promiseVars
    PROVE  ReplyInv' /\ Lasting
  <1>1. CASE UNCHANGED promiseVars
    BY <1>1 DEF promiseVars, ReplyInv, Lasting, Refreshing
  <1>2. CASE CrashAll
    <2>1. \A r \in Request :
             /\ at'[r] = IF at[r] \in Working THEN "answered" ELSE at[r]
             /\ reply'[r] = IF at[r] \in Working THEN "lost" ELSE reply[r]
      BY <1>2 DEF CrashAll
    <2>2. \A r \in Request : at[r] \in Working <=> at[r] \in {"login"} \cup Refreshing
      BY DEF Working, Refreshing
    <2>3. /\ at' \in [Request -> {"idle", "login", "answered"} \cup Refreshing]
          /\ DOMAIN reply' = Request /\ UNCHANGED <<tok, live, fresh>>
      BY <1>2 DEF CrashAll, ReplyInv, Refreshing
    <2>4. \A r \in Request : reply[r] # "none" => reply'[r] = reply[r]
      BY <2>1, <2>2 DEF ReplyInv, Refreshing
    <2>5. ReplyInv'
      BY <2>1, <2>2, <2>3, <2>4 DEF ReplyInv, Refreshing
    <2>6. Lasting
      BY <2>1, <2>2, <2>3, <2>4 DEF ReplyInv, Lasting, Refreshing
    <2>7. QED
      BY <2>5, <2>6
  <1>3. CASE Restart \/ Expire
    BY <1>3 DEF Restart, Expire, ReplyInv, Lasting, Refreshing
  <1>4. QED
    BY <1>1, <1>2, <1>3, AskedKeeps, ServeKeeps DEF PromiseNext

-----------------------------------------------------------------------------
(* Commands, clicks, files and the page *)

Signed == {"signedIn", "refreshed"}

\* What a JWT and a refresh token that a file or the page holds are.
JwtAtHand(j) == j = "blank" \/ (j \in Request /\ reply[j] \in Signed)
TokenAtHand(t) == t = "blank" \/ (t \in Request /\ reply[t] = "signedIn")

\* A refresh is about the refresh token its command or click began with.
Presents(r, t) == tok[r] = t \/ (t = "blank" /\ tok[r] = r)

RefusalDue(r) ==
    \/ cmd[r].jwt = "blank" \/ cmd[r].token = "blank"
    \/ cmd[r].jwt \notin fresh \/ live[cmd[r].token] = "gone"

\* Where each command and click is, and where its request is meanwhile.
CmdInv(r) ==
    /\ cmd[r].at \in {"unused", "read", "send", "asked", "truncate", "fill", "web", "exit"}
    /\ cmd[r].at \in {"unused", "read", "send"} => at[r] = "idle"
    /\ cmd[r].at \in {"read", "send"} => JwtAtHand(cmd[r].jwt)
    /\ cmd[r].at = "send" => TokenAtHand(cmd[r].token)
    /\ cmd[r].at = "asked" => cmd[r].kind \in {"login", "refresh", "protected"}
    /\ cmd[r].at = "web" => cmd[r].kind \in {"login", "refresh"}
    /\ cmd[r].at \in {"asked", "web"} /\ cmd[r].kind = "login" =>
          at[r] \in {"login", "answered"} /\ reply[r] # "refreshed"
    /\ cmd[r].at \in {"asked", "web"} /\ cmd[r].kind = "refresh" =>
          /\ TokenAtHand(cmd[r].token)
          /\ at[r] \in Refreshing \cup {"answered"} /\ reply[r] # "signedIn"
          /\ at[r] \in Refreshing \/ reply[r] = "refreshed" => Presents(r, cmd[r].token)
    /\ cmd[r].at = "asked" /\ cmd[r].kind = "refresh" =>
          JwtAtHand(cmd[r].jwt) /\ (reply[r] = "401" => RefusalDue(r))
    /\ cmd[r].at = "asked" /\ cmd[r].kind = "protected" =>
          at[r] = "answered" /\ reply[r] \notin Signed
    /\ cmd[r].at \in {"truncate", "fill"} =>
          /\ at[r] = "answered"
          /\ cmd[r] = [at |-> cmd[r].at, kind |-> cmd[r].kind, f |-> cmd[r].f]
          /\ \/ cmd[r].kind = "login" /\ reply[r] = "signedIn" /\ cmd[r].f \in {"jwt", "token"}
             \/ cmd[r].kind = "refresh" /\ reply[r] = "refreshed" /\ cmd[r].f = "jwt"

HoldingsInv ==
    /\ DOMAIN cmd = Request
    /\ DOMAIN file = {"jwt", "token"}
    /\ file["jwt"] = "missing" \/ JwtAtHand(file["jwt"])
    /\ file["token"] = "missing" \/ TokenAtHand(file["token"])
    /\ page = NoTokens \/
         /\ page = Tokens(page.jwt, page.token)
         /\ page.jwt \in Request /\ page.token \in Request
         /\ reply[page.jwt] \in Signed /\ reply[page.token] = "signedIn"
         /\ tok[page.jwt] = page.token

ClientInv == ReplyInv /\ HoldingsInv /\ \A r \in Request : CmdInv(r)

\* What the server does in the background disturbs nobody.
LEMMA CommandLasts ==
    ASSUME ReplyInv, ReplyInv', Lasting, NEW r \in Request, CmdInv(r), UNCHANGED cmd[r],
           at[r] = "idle" => at'[r] = "idle"
    PROVE  CmdInv(r)'
  <1>1. \A q \in Request : reply[q] \in Signed => reply'[q] = reply[q] /\ tok'[q] = tok[q]
    BY DEF ReplyInv, Lasting, Signed
  <1>2. \A x : (JwtAtHand(x) => JwtAtHand(x)') /\ (TokenAtHand(x) => TokenAtHand(x)')
    BY <1>1 DEF JwtAtHand, TokenAtHand, Signed
  <1>3. CASE cmd[r].at \in {"unused", "read", "send", "exit"}
    <2>1. cmd[r].at \in {"read", "send"} => JwtAtHand(cmd[r].jwt)'
      BY <1>2 DEF CmdInv, JwtAtHand
    <2>2. cmd[r].at = "send" => TokenAtHand(cmd[r].token)'
      BY <1>2 DEF CmdInv, TokenAtHand
    <2>3. QED
      BY <1>3, <2>1, <2>2 DEF CmdInv
  <1>4. CASE cmd[r].at \in {"truncate", "fill"}
    BY <1>1, <1>4 DEF CmdInv, Signed, Lasting
  <1>5. CASE cmd[r].at \in {"asked", "web"} /\ cmd[r].kind \in {"login", "protected"}
    BY <1>5 DEF CmdInv, Lasting, ReplyInv
  <1>6. CASE cmd[r].at \in {"asked", "web"} /\ cmd[r].kind = "refresh"
    <2> DEFINE t == cmd[r].token
               j == cmd[r].jwt
    <2>1. TokenAtHand(t)' /\ (cmd[r].at = "asked" => JwtAtHand(j)')
      BY <1>2, <1>6 DEF CmdInv, JwtAtHand, TokenAtHand
    <2>2. at'[r] \in Refreshing \cup {"answered"} /\ reply'[r] # "signedIn" /\ tok'[r] = tok[r]
      BY <1>6 DEF CmdInv, Lasting, Refreshing
    <2>3. at'[r] \in Refreshing \/ reply'[r] = "refreshed" => tok[r] = t \/ (t = "blank" /\ tok[r] = r)
      BY <1>6 DEF CmdInv, Lasting, Refreshing, Presents, ReplyInv
    <2>4. ASSUME cmd[r].at = "asked", reply'[r] = "401"
          PROVE  j = "blank" \/ t = "blank" \/ j \notin fresh' \/ live'[t] = "gone"
      <3>1. CASE at[r] = "answered"
        <4>1. RefusalDue(r)
          BY <1>6, <2>4, <3>1 DEF CmdInv, Lasting
        <4>2. j \in Request => at[j] = "answered"
          BY <1>6, <2>4, FileAssumption DEF CmdInv, JwtAtHand, ReplyInv, Signed
        <4>3. j = "blank" \/ j \in Request
          BY <1>6, <2>4 DEF CmdInv, JwtAtHand
        <4>4. t = "blank" \/ t \in Request
          BY <1>6 DEF CmdInv, TokenAtHand
        <4>5. QED
          BY <4>1, <4>2, <4>3, <4>4 DEF RefusalDue, Lasting
      <3>2. CASE at[r] \in Refreshing
        <4>1. tok[r] = r \/ live'[tok[r]] = "gone"
          BY <2>4, <3>2 DEF Lasting
        <4>2. t = "blank" \/ (t \in Request /\ reply[t] = "signedIn" /\ tok[r] = t)
          BY <1>6, <3>2 DEF CmdInv, TokenAtHand, Presents
        <4>3. reply[r] = "none"
          BY <3>2 DEF ReplyInv, Refreshing
        <4>4. QED
          BY <4>1, <4>2, <4>3
      <3>3. QED
        BY <1>6, <3>1, <3>2 DEF CmdInv
    <2>5. QED
      BY <1>6, <2>1, <2>2, <2>3, <2>4 DEF CmdInv, Presents, RefusalDue
  <1>7. QED
    BY <1>3, <1>4, <1>5, <1>6 DEF CmdInv

\* Nor does it touch what is written or shown.
LEMMA HoldingsLast ==
    ASSUME ReplyInv, Lasting, HoldingsInv, UNCHANGED <<file, page>>, DOMAIN cmd' = Request
    PROVE  HoldingsInv'
  <1>1. \A q \in Request : reply[q] \in Signed => reply'[q] = reply[q] /\ tok'[q] = tok[q]
    BY DEF ReplyInv, Lasting, Signed
  <1>2. \A x : (JwtAtHand(x) => JwtAtHand(x)') /\ (TokenAtHand(x) => TokenAtHand(x)')
    BY <1>1 DEF JwtAtHand, TokenAtHand, Signed
  <1>3. QED
    BY <1>1, <1>2 DEF HoldingsInv, JwtAtHand, TokenAtHand, NoTokens, Tokens, Signed

\* A command or a click makes at most one request, and leaves others alone.
LEMMA ActorFrame ==
    ASSUME ClientInv, NEW r \in Request, User(r) \/ Goes(r)
    PROVE  /\ [PromiseNext]_promiseVars
           /\ DOMAIN cmd' = Request
           /\ \A q \in Request : q # r => cmd'[q] = cmd[q] /\ (at[q] = "idle" => at'[q] = "idle")
  <1>1. ASSUME NEW j, NEW t, AsksToken(r, j, t) PROVE Asked(r)
    <2>1. CASE j \in fresh
      BY <1>1, <2>1 DEF AsksToken, Asked
    <2>2. QED
      BY <1>1, <2>1 DEF AsksToken, Asked
  <1>2. ASSUME NEW j, AsksProtected(r, j) PROVE Asked(r)
    BY <1>2 DEF AsksProtected, Asked
  <1>3. Asked(r) \/ UNCHANGED promiseVars
    BY <1>1, <1>2 DEF User, Goes, LoginCommand, PageLogin, ReadJwt, Killed, PageRefresh,
       PageProtected, PageUnreachable, ReadRefreshToken, SendRefresh, SendProtected,
       CannotConnect, Heard, Truncate, Fill, PageShows, Asked
  <1>4. \A q \in Request : q # r /\ at[q] = "idle" => at'[q] = "idle"
    <2>1. CASE Asked(r)
      BY <2>1 DEF Asked, AskLogin, AskToken, AskProtected, TurnAway, Moves, Answers,
                  ClientInv, ReplyInv
    <2>2. QED
      BY <1>3, <2>1 DEF promiseVars
  <1>5. \E c : cmd' = [cmd EXCEPT ![r] = c]
    BY DEF User, Goes, LoginCommand, PageLogin, ReadJwt, Killed, PageRefresh,
       PageProtected, PageUnreachable, ReadRefreshToken, SendRefresh, SendProtected,
       CannotConnect, Heard, Truncate, Fill, PageShows, Starts, Becomes, Clicked
  <1>6. QED
    BY <1>3, <1>4, <1>5 DEF PromiseNext, ClientInv, HoldingsInv

\* A refresh that is sent, by a command or by the page.
LEMMA AsksTokenSends ==
    ASSUME ClientInv, NEW r \in Request, NEW j, NEW t, AsksToken(r, j, t),
           JwtAtHand(j), TokenAtHand(t)
    PROVE  /\ at[r] = "idle" /\ UNCHANGED live
           /\ \/ at'[r] = "token" /\ reply'[r] = "none" /\ (tok'[r] = t \/ (t = "blank" /\ tok'[r] = r))
              \/ at'[r] = "answered" /\ reply'[r] = "401" /\ j \notin fresh'
           /\ \A q \in Request : q # r => reply'[q] = reply[q]
  <1>1. CASE j \in fresh
    <2>1. AskToken(r, IF t \in Request THEN t ELSE r)
      BY <1>1 DEF AsksToken
    <2>2. PICK x \in Request : AskToken(r, x) /\ (x = t \/ (t = "blank" /\ x = r))
      BY <2>1 DEF TokenAtHand
    <2>3. QED
      BY <2>2 DEF AskToken, Moves, ClientInv, ReplyInv
  <1>2. CASE j \notin fresh
    BY <1>2 DEF AsksToken, TurnAway, Answers, ClientInv, ReplyInv
  <1>3. QED
    BY <1>1, <1>2

\* Commands keep the invariant.
LEMMA CommandKeeps ==
    ASSUME ClientInv, NEW r \in Request, User(r) \/ Goes(r), ReplyInv', Lasting
    PROVE  CmdInv(r)' /\ HoldingsInv'
  <1>1. /\ CmdInv(r) /\ r \in DOMAIN cmd /\ DOMAIN cmd' = Request /\ DOMAIN file = {"jwt", "token"}
        /\ \A q \in Request : reply[q] \in Signed => reply'[q] = reply[q] /\ tok'[q] = tok[q]
        /\ \A q \in Request : reply[q] = "signedIn" => tok[q] = q
    BY ActorFrame DEF ClientInv, HoldingsInv, ReplyInv, Lasting, Signed
  <1>2. \A x : (JwtAtHand(x) => JwtAtHand(x)') /\ (TokenAtHand(x) => TokenAtHand(x)')
    BY <1>1 DEF JwtAtHand, TokenAtHand, Signed
  <1>3. UNCHANGED <<file, page>> => HoldingsInv'
    BY <1>1, HoldingsLast DEF ClientInv
  <1>4. CASE LoginCommand(r) \/ PageLogin(r)
    <2>1. at[r] = "idle" /\ at'[r] = "login" /\ reply'[r] = "none" /\ UNCHANGED <<file, page>>
      BY <1>4 DEF LoginCommand, PageLogin, AskLogin, Moves, ClientInv, ReplyInv, Clicked
    <2>2. cmd'[r] \in {[at |-> "asked", kind |-> "login"], [at |-> "web", kind |-> "login"]}
      BY <1>1, <1>4 DEF LoginCommand, PageLogin, Starts, Clicked
    <2>3. QED
      BY <1>3, <2>1, <2>2 DEF CmdInv
  <1>5. ASSUME NEW k \in {"refresh", "protected"}, ReadJwt(r, k) PROVE CmdInv(r)' /\ HoldingsInv'
    <2>1. /\ cmd[r] = Unused /\ UNCHANGED <<promiseVars, file, page>>
          /\ cmd'[r] = IF file["jwt"] = "missing" THEN Exited(1)
                       ELSE [at |-> "read", kind |-> k, jwt |-> file["jwt"]]
      BY <1>1, <1>5 DEF ReadJwt, Starts
    <2>2. at[r] = "idle"
      BY <1>1, <2>1 DEF CmdInv, Unused
    <2>3. file["jwt"] = "missing" \/ JwtAtHand(file["jwt"])
      BY DEF ClientInv, HoldingsInv
    <2>4. QED
      BY <1>3, <2>1, <2>2, <2>3 DEF CmdInv, Exited, JwtAtHand, promiseVars
  <1>6. CASE ReadRefreshToken(r)
    <2>1. /\ cmd[r].at = "read" /\ UNCHANGED <<promiseVars, file, page>>
          /\ cmd'[r] = IF file["token"] = "missing" THEN Exited(1)
                       ELSE [at |-> "send", jwt |-> cmd[r].jwt, token |-> file["token"]]
      BY <1>1, <1>6 DEF ReadRefreshToken, Becomes
    <2>2. file["token"] = "missing" \/ TokenAtHand(file["token"])
      BY DEF ClientInv, HoldingsInv
    <2>3. QED
      BY <1>1, <1>3, <2>1, <2>2 DEF CmdInv, Exited, JwtAtHand, TokenAtHand, promiseVars
  <1>7. CASE SendRefresh(r)
    <2> DEFINE j == cmd[r].jwt
               t == cmd[r].token
    <2>1. /\ cmd[r].at = "send" /\ AsksToken(r, j, t) /\ UNCHANGED <<file, page>>
          /\ cmd'[r] = [at |-> "asked", kind |-> "refresh", jwt |-> j, token |-> t]
      BY <1>1, <1>7 DEF SendRefresh, Becomes
    <2>2. JwtAtHand(j) /\ TokenAtHand(t)
      BY <1>1, <2>1 DEF CmdInv
    <2>3. /\ \/ at'[r] = "token" /\ reply'[r] = "none" /\ (tok'[r] = t \/ (t = "blank" /\ tok'[r] = r))
             \/ at'[r] = "answered" /\ reply'[r] = "401" /\ j \notin fresh'
      BY <2>1, <2>2, AsksTokenSends
    <2>4. /\ j = "blank" \/ (j \in Request /\ reply'[j] \in Signed)
          /\ t = "blank" \/ (t \in Request /\ reply'[t] = "signedIn")
      BY <1>1, <2>2 DEF JwtAtHand, TokenAtHand, Signed
    <2> HIDE DEF j, t
    <2>5. QED
      BY <1>3, <2>1, <2>3, <2>4
         DEF CmdInv, JwtAtHand, TokenAtHand, Presents, RefusalDue, Refreshing
  <1>8. CASE SendProtected(r)
    <2>1. /\ AsksProtected(r, cmd[r].jwt) /\ UNCHANGED <<file, page>>
          /\ cmd'[r] = [at |-> "asked", kind |-> "protected"]
      BY <1>1, <1>8 DEF SendProtected, Becomes
    <2>2. at'[r] = "answered" /\ reply'[r] \in {"granted", "401"}
      BY <2>1 DEF AsksProtected, AskProtected, TurnAway, Answers, ClientInv, ReplyInv
    <2>3. QED
      BY <1>3, <2>1, <2>2 DEF CmdInv, Signed
  <1>9. CASE CannotConnect(r) \/ Killed(r)
    <2>1. (\E c : cmd'[r] = Exited(c)) /\ UNCHANGED <<file, page>>
      BY <1>1, <1>9 DEF CannotConnect, Killed, Becomes
    <2>2. QED
      BY <1>3, <2>1 DEF CmdInv, Exited
  <1>10. CASE Heard(r)
    <2>1. /\ cmd[r].at = "asked" /\ at[r] = "answered" /\ UNCHANGED <<promiseVars, file, page>>
          /\ \/ /\ reply[r] \in Signed
                /\ cmd'[r] = [at |-> "truncate", kind |-> cmd[r].kind, f |-> "jwt"]
             \/ \E c : cmd'[r] = Exited(c)
      BY <1>1, <1>10 DEF Heard, Becomes, Signed
    <2>2. reply[r] \in Signed => \/ cmd[r].kind = "login" /\ reply[r] = "signedIn"
                                 \/ cmd[r].kind = "refresh" /\ reply[r] = "refreshed"
      <3>1. cmd[r].kind \in {"login", "refresh", "protected"}
        BY <1>1, <2>1 DEF CmdInv
      <3>2. /\ cmd[r].kind = "login" => reply[r] # "refreshed"
            /\ cmd[r].kind = "refresh" => reply[r] # "signedIn"
            /\ cmd[r].kind = "protected" => reply[r] \notin Signed
        BY <1>1, <2>1 DEF CmdInv
      <3>3. QED
        BY <3>1, <3>2 DEF Signed
    <2>3. CASE cmd'[r].at = "exit"
      BY <1>3, <2>1, <2>3 DEF CmdInv
    <2>4. CASE reply[r] \in Signed /\ cmd'[r] = [at |-> "truncate", kind |-> cmd[r].kind, f |-> "jwt"]
      <3>1. CmdInv(r)'
        BY <2>1, <2>2, <2>4 DEF CmdInv, promiseVars
      <3>2. QED
        BY <1>3, <2>1, <3>1
    <2>5. \A c : Exited(c).at = "exit"
      BY DEF Exited
    <2>6. QED
      BY <2>1, <2>3, <2>4, <2>5
  <1>11. CASE Truncate(r)
    <2>1. /\ cmd[r].at = "truncate" /\ UNCHANGED <<promiseVars, page>>
          /\ file' = [file EXCEPT ![cmd[r].f] = "blank"]
          /\ cmd' = [cmd EXCEPT ![r] = [cmd[r] EXCEPT !.at = "fill"]]
      BY <1>11 DEF Truncate, Becomes
    <2>2. \/ cmd[r].kind = "login" /\ reply[r] = "signedIn" /\ cmd[r].f \in {"jwt", "token"}
          \/ cmd[r].kind = "refresh" /\ reply[r] = "refreshed" /\ cmd[r].f = "jwt"
      BY <1>1, <2>1 DEF CmdInv
    <2>3. cmd'[r].at = "fill" /\ cmd'[r].kind = cmd[r].kind /\ cmd'[r].f = cmd[r].f
      BY <1>1, <2>1 DEF CmdInv
    <2>4. CmdInv(r)'
      BY <1>1, <2>1, <2>2, <2>3 DEF CmdInv, promiseVars
    <2>5. HoldingsInv'
      BY <1>1, <2>1 DEF ClientInv, HoldingsInv, JwtAtHand, TokenAtHand, promiseVars, NoTokens, Tokens
    <2>6. QED
      BY <2>4, <2>5
  <1>12. CASE Fill(r)
    <2>1. /\ cmd[r].at = "fill" /\ UNCHANGED <<promiseVars, page>>
          /\ file' = [file EXCEPT ![cmd[r].f] = r]
          /\ \/ /\ cmd[r].kind = "login" /\ cmd[r].f = "jwt"
                /\ cmd'[r] = [cmd[r] EXCEPT !.at = "truncate", !.f = "token"]
             \/ cmd'[r] = Exited(0)
      BY <1>1, <1>12 DEF Fill, Becomes
    <2>2. \/ cmd[r].kind = "login" /\ reply[r] = "signedIn" /\ cmd[r].f \in {"jwt", "token"}
          \/ cmd[r].kind = "refresh" /\ reply[r] = "refreshed" /\ cmd[r].f = "jwt"
      BY <1>1, <2>1 DEF CmdInv
    <2>3. CmdInv(r)'
      <3>1. CASE cmd'[r].at = "exit"
        BY <3>1 DEF CmdInv
      <3>2. CASE /\ cmd[r].kind = "login"
                 /\ cmd'[r] = [cmd[r] EXCEPT !.at = "truncate", !.f = "token"]
        <4>1. cmd'[r] = [at |-> "truncate", kind |-> "login", f |-> "token"]
          BY <1>1, <2>1, <3>2 DEF CmdInv
        <4>2. reply[r] = "signedIn" /\ at[r] = "answered"
          BY <1>1, <2>1, <2>2, <3>2 DEF CmdInv
        <4>3. QED
          BY <2>1, <4>1, <4>2 DEF CmdInv, promiseVars
      <3>3. QED
        BY <2>1, <3>1, <3>2 DEF Exited
    <2>4. HoldingsInv'
      BY <1>1, <2>1, <2>2
         DEF ClientInv, HoldingsInv, JwtAtHand, TokenAtHand, promiseVars, NoTokens, Tokens, Signed
    <2>5. QED
      BY <2>3, <2>4
  <1>13. CASE PageRefresh(r)
    <2> DEFINE j == page.jwt
               t == page.token
    <2>1. /\ page.ok /\ AsksToken(r, j, t) /\ UNCHANGED <<file, page>>
          /\ cmd'[r] = [at |-> "web", kind |-> "refresh", token |-> t]
      BY <1>1, <1>13 DEF PageRefresh, Clicked
    <2>2. JwtAtHand(j) /\ TokenAtHand(t)
      BY <2>1 DEF ClientInv, HoldingsInv, NoTokens, JwtAtHand, TokenAtHand
    <2>3. \/ at'[r] = "token" /\ reply'[r] = "none" /\ (tok'[r] = t \/ (t = "blank" /\ tok'[r] = r))
          \/ at'[r] = "answered" /\ reply'[r] = "401" /\ j \notin fresh'
      BY <2>1, <2>2, AsksTokenSends
    <2>4. t = "blank" \/ (t \in Request /\ reply'[t] = "signedIn")
      BY <1>1, <2>2 DEF TokenAtHand, Signed
    <2> HIDE DEF j, t
    <2>5. QED
      BY <1>3, <2>1, <2>3, <2>4 DEF CmdInv, TokenAtHand, Presents, Refreshing
  <1>14. CASE PageProtected(r)
    BY <1>1, <1>3, <1>14 DEF PageProtected, Clicked, CmdInv, Exited
  <1>15. CASE PageUnreachable(r)
    <2>1. cmd'[r] = Exited(1) /\ page' = NoTokens /\ UNCHANGED <<promiseVars, file>>
      BY <1>1, <1>15 DEF PageUnreachable, Clicked
    <2>2. QED
      BY <1>1, <2>1 DEF CmdInv, Exited, ClientInv, HoldingsInv, JwtAtHand, TokenAtHand, promiseVars
  <1>16. CASE PageShows(r)
    <2>1. /\ cmd[r].at = "web" /\ at[r] = "answered" /\ UNCHANGED <<promiseVars, file>>
          /\ cmd'[r] = Exited(0)
          /\ \/ reply[r] = "signedIn" /\ page' = Tokens(r, r)
             \/ reply[r] = "refreshed" /\ page' = Tokens(r, cmd[r].token)
             \/ page' = NoTokens
      BY <1>1, <1>16 DEF PageShows, Becomes
    <2>2. reply[r] = "refreshed" =>
            /\ cmd[r].token \in Request /\ tok[r] = cmd[r].token
            /\ reply[cmd[r].token] = "signedIn"
      <3>1. reply[r] = "refreshed" =>
              Presents(r, cmd[r].token) /\ TokenAtHand(cmd[r].token) /\ reply[tok[r]] = "signedIn"
        BY <1>1, <2>1 DEF CmdInv, ClientInv, ReplyInv
      <3>2. reply[r] = "refreshed" => tok[r] # r
        BY <3>1
      <3>3. QED
        BY <3>1, <3>2 DEF Presents, ClientInv, ReplyInv
    <2>3. CmdInv(r)'
      BY <2>1 DEF CmdInv, Exited
    <2>4. HoldingsInv'
      BY <1>1, <2>1, <2>2 DEF ClientInv, HoldingsInv, JwtAtHand, TokenAtHand, promiseVars,
                              NoTokens, Tokens, Signed
    <2>5. QED
      BY <2>3, <2>4
  <1>17. QED
    BY <1>4, <1>5, <1>6, <1>7, <1>8, <1>9, <1>10, <1>11, <1>12, <1>13, <1>14, <1>15, <1>16
       DEF User, Goes

\* The first state.
LEMMA ClientInitInv == ClientInit => ClientInv
  <1> SUFFICES ASSUME ClientInit PROVE ClientInv
    OBVIOUS
  <1>1. ReplyInv
    BY DEF ClientInit, PromiseInit, ReplyInv, Refreshing
  <1>2. HoldingsInv
    BY DEF ClientInit, HoldingsInv, NoTokens
  <1>3. ASSUME NEW r \in Request PROVE CmdInv(r)
    BY DEF ClientInit, PromiseInit, CmdInv, Unused
  <1>4. QED
    BY <1>1, <1>2, <1>3 DEF ClientInv

\* A step is the server's, or that of one command or click; either way what it
\* does to the promise is a step of the promise.
LEMMA ClientSteps ==
    ASSUME ClientInv, [ClientNext]_allVars
    PROVE  /\ ReplyInv' /\ Lasting
           /\ \/ /\ UNCHANGED clientVars
                 /\ \A q \in Request : at[q] = "idle" => at'[q] = "idle"
              \/ \E r \in Request : User(r) \/ Goes(r)
  <1>1. CASE UNCHANGED allVars
    <2>1. UNCHANGED promiseVars /\ UNCHANGED clientVars
      BY <1>1 DEF allVars
    <2>2. QED
      BY <2>1, PromiseKeeps DEF ClientInv, promiseVars
  <1>2. CASE ServerSide
    <2>1. [PromiseNext]_promiseVars /\ UNCHANGED clientVars
      BY <1>2 DEF ServerSide, PromiseNext
    <2>2. ASSUME NEW q \in Request, at[q] = "idle" PROVE at'[q] = "idle"
      <3>1. CASE CrashAll
        BY <2>2, <3>1 DEF CrashAll, Working
      <3>2. CASE Restart \/ Expire
        BY <2>2, <3>2 DEF Restart, Expire
      <3>3. ASSUME NEW r \in Request, Serve(r) PROVE at'[q] = "idle"
        BY <2>2, <3>3 DEF Serve, Issue, SignIn, LoginRefused, Look, TokenRefused, Refresh,
                          Strike, Expel, Fail, Moves, Answers, ClientInv, ReplyInv
      <3>4. QED
        BY <1>2, <3>1, <3>2, <3>3 DEF ServerSide
    <2>3. QED
      BY <2>1, <2>2, PromiseKeeps DEF ClientInv
  <1>3. ASSUME NEW r \in Request, User(r) \/ Goes(r) PROVE ReplyInv' /\ Lasting
    BY <1>3, ActorFrame, PromiseKeeps DEF ClientInv
  <1>4. QED
    BY <1>1, <1>2, <1>3 DEF ClientNext

\* Every step keeps the invariant.
LEMMA ClientKeeps == ClientInv /\ [ClientNext]_allVars => ClientInv'
  <1> SUFFICES ASSUME ClientInv, [ClientNext]_allVars PROVE ClientInv'
    OBVIOUS
  <1>1. ReplyInv' /\ Lasting
    BY ClientSteps
  <1>2. CASE /\ UNCHANGED clientVars
             /\ \A q \in Request : at[q] = "idle" => at'[q] = "idle"
    <2>1. UNCHANGED <<cmd, file, page>>
      BY <1>2 DEF clientVars
    <2>2. HoldingsInv'
      BY <1>1, <2>1, HoldingsLast DEF ClientInv, HoldingsInv
    <2>3. ASSUME NEW r \in Request PROVE CmdInv(r)'
      BY <1>1, <1>2, <2>1, CommandLasts DEF ClientInv
    <2>4. QED
      BY <1>1, <2>2, <2>3 DEF ClientInv
  <1>3. ASSUME NEW r \in Request, User(r) \/ Goes(r) PROVE ClientInv'
    <2>1. CmdInv(r)' /\ HoldingsInv'
      BY <1>1, <1>3, CommandKeeps
    <2>2. ASSUME NEW q \in Request, q # r PROVE CmdInv(q)'
      <3>1. cmd'[q] = cmd[q] /\ (at[q] = "idle" => at'[q] = "idle")
        BY <1>3, <2>2, ActorFrame
      <3>2. QED
        BY <1>1, <3>1, CommandLasts DEF ClientInv
    <2>3. QED
      BY <1>1, <2>1, <2>2 DEF ClientInv
  <1>4. QED
    BY <1>2, <1>3, ClientSteps

\* What a page shows is of one login, in whatever order answers arrive: a
\* refresh brings the refresh token it began with.
THEOREM OneLoginOnThePage == ClientSpec => []PageIsOfOneLogin
  <1>1. ClientInv => PageIsOfOneLogin
    BY DEF ClientInv, HoldingsInv, PageIsOfOneLogin, LoginOf, NoTokens
  <1>2. QED
    BY <1>1, ClientInitInv, ClientKeeps, PTL DEF ClientSpec

\* A refresh is refused only for a blank file, an expired JWT, or a refresh
\* token that was struck out.
THEOREM RefusalsOfRefreshes == ClientSpec => []RefreshRefusalIsDue
  <1>1. ClientInv => RefreshRefusalIsDue
    BY DEF ClientInv, CmdInv, RefreshRefusalIsDue, RefusalDue
  <1>2. QED
    BY <1>1, ClientInitInv, ClientKeeps, PTL DEF ClientSpec

-----------------------------------------------------------------------------
(* The files *)

\* What the history variables mean: two commands that run at once have both
\* overlapped, and a login that is writing has mixed the files.
AloneInv ==
    /\ \A r \in Request : r \in Running \ overlapped => Running = {r}
    /\ \A r \in Request :
          cmd[r].at \in {"truncate", "fill"} /\ cmd[r].kind = "login"
            /\ (cmd[r].at = "fill" \/ cmd[r].f = "token") => mixed

\* A command alone finds the refresh token file as it read it, and the JWT
\* file as it wrote it.
TokenFileIs(t) == file["token"] \in Request => file["token"] = t

FilesInv ==
    /\ ~ mixed /\ file["jwt"] \in Request => TokenFileIs(tok[file["jwt"]])
    /\ \A r \in Request :
          /\ r \notin overlapped =>
                /\ cmd[r].at = "send" \/ (cmd[r].at = "asked" /\ cmd[r].kind = "refresh")
                     => TokenFileIs(cmd[r].token)
                /\ cmd[r].at = "truncate" /\ cmd[r].kind = "refresh" => TokenFileIs(tok[r])
                /\ cmd[r].at \in {"truncate", "fill"} /\ cmd[r].kind = "login"
                     /\ cmd[r].f = "token" => file["jwt"] = r
          /\ cmd[r].at = "fill" /\ cmd[r].kind = "refresh" /\ ~ mixed => TokenFileIs(tok[r])

FileInv == ClientInv /\ AloneInv /\ FilesInv

\* A step that only moves one command, without a word to the files: it starts,
\* or goes on, or is over.
Moved(r) ==
    /\ UNCHANGED <<file, mixed>>
    /\ \/ overlapped' = overlapped /\ (r \in Running' => r \in Running)
       \/ overlapped' = IF Running = {} THEN overlapped ELSE overlapped \cup Running \cup {r}
    /\ cmd'[r].at # "fill"
    /\ cmd'[r].at = "send" => cmd'[r].token = file["token"]
    /\ cmd'[r].at = "asked" /\ cmd'[r].kind = "refresh" =>
          cmd[r].at = "send" /\ cmd'[r].token = cmd[r].token
    /\ cmd'[r].at = "truncate" => cmd[r].at = "asked" /\ cmd'[r].f = "jwt"
                                   /\ cmd'[r].kind = cmd[r].kind

\* What each command does to files and history.
LEMMA FileSteps ==
    ASSUME ClientInv, NEW r \in Request, User(r) \/ Goes(r)
    PROVE  Moved(r) \/ Truncate(r) \/ Fill(r)
  <1>1. r \in DOMAIN cmd
    BY DEF ClientInv, HoldingsInv
  <1>2. CASE LoginCommand(r)
    BY <1>1, <1>2 DEF LoginCommand, Starts, Moved
  <1>3. ASSUME NEW k, ReadJwt(r, k) PROVE Moved(r)
    <2>1. cmd'[r].at \in {"exit", "read"}
      BY <1>1, <1>3 DEF ReadJwt, Starts, Exited
    <2>2. QED
      BY <1>3, <2>1 DEF ReadJwt, Starts, Moved
  <1>4. CASE PageLogin(r) \/ PageRefresh(r) \/ PageProtected(r) \/ PageUnreachable(r)
    <2>1. cmd'[r].at \in {"exit", "web"} /\ UNCHANGED <<file, mixed, overlapped>>
      BY <1>1, <1>4 DEF PageLogin, PageRefresh, PageProtected, PageUnreachable, Clicked, Exited
    <2>2. QED
      BY <2>1 DEF Moved, Running
  <1>5. CASE CannotConnect(r) \/ Killed(r) \/ PageShows(r)
    <2>1. cmd'[r].at = "exit" /\ UNCHANGED <<file, mixed, overlapped>>
      BY <1>1, <1>5 DEF CannotConnect, Killed, PageShows, Becomes, Exited
    <2>2. QED
      BY <2>1 DEF Moved, Running
  <1>6. CASE ReadRefreshToken(r)
    <2>1. /\ cmd[r].at = "read" /\ UNCHANGED <<file, mixed, overlapped>>
          /\ cmd'[r].at = "exit" \/ (cmd'[r].at = "send" /\ cmd'[r].token = file["token"])
      BY <1>1, <1>6 DEF ReadRefreshToken, Becomes, Exited
    <2>2. QED
      BY <2>1 DEF Moved, Running
  <1>7. CASE SendRefresh(r) \/ SendProtected(r)
    <2>1. /\ cmd[r].at \in {"read", "send"} /\ cmd'[r].at = "asked"
          /\ UNCHANGED <<file, mixed, overlapped>>
          /\ \/ cmd'[r].kind = "protected"
             \/ cmd[r].at = "send" /\ cmd'[r].token = cmd[r].token
      BY <1>1, <1>7 DEF SendRefresh, SendProtected, Becomes
    <2>2. QED
      BY <2>1 DEF Moved, Running
  <1>8. CASE Heard(r)
    <2>1. /\ cmd[r].at = "asked" /\ UNCHANGED <<file, mixed, overlapped>>
          /\ \/ cmd'[r] = [at |-> "truncate", kind |-> cmd[r].kind, f |-> "jwt"]
             \/ cmd'[r].at = "exit"
      BY <1>1, <1>8 DEF Heard, Becomes, Exited
    <2>2. QED
      BY <2>1 DEF Moved, Running
  <1>9. QED
    BY <1>2, <1>3, <1>4, <1>5, <1>6, <1>7, <1>8 DEF User, Goes

\* Who runs alone stays alone, or overlaps with who starts.
LEMMA AloneKeeps ==
    ASSUME FileInv, NEW r \in Request, User(r) \/ Goes(r)
    PROVE  AloneInv'
  <1>1. /\ \A q \in Request : q # r => cmd'[q] = cmd[q]
        /\ \A q \in Request : q # r => (q \in Running' <=> q \in Running)
    BY ActorFrame DEF FileInv, Running
  <1>2. Running \subseteq Request /\ Running' \subseteq Request
    BY DEF Running
  <1>3. CASE Moved(r)
    <2>1. ASSUME NEW q \in Request, q \in Running', q \notin overlapped' PROVE Running' = {q}
      <3>1. CASE overlapped' = overlapped /\ (r \in Running' => r \in Running)
        <4>1. q \in Running
          BY <1>1, <2>1, <3>1
        <4>2. Running = {q}
          BY <2>1, <3>1, <4>1 DEF FileInv, AloneInv
        <4>3. QED
          BY <1>1, <1>2, <2>1, <3>1, <4>2
      <3>2. CASE overlapped' = IF Running = {} THEN overlapped ELSE overlapped \cup Running \cup {r}
        <4>1. Running = {}
          BY <1>1, <2>1, <3>2
        <4>2. QED
          BY <1>1, <1>2, <2>1, <4>1
      <3>3. QED
        BY <1>3, <3>1, <3>2 DEF Moved
    <2>2. QED
      BY <1>1, <1>3, <2>1 DEF Moved, FileInv, AloneInv
  <1>4. CASE Truncate(r)
    <2>1. /\ cmd[r].at = "truncate" /\ cmd' = [cmd EXCEPT ![r] = [cmd[r] EXCEPT !.at = "fill"]]
          /\ UNCHANGED overlapped /\ mixed' = (mixed \/ cmd[r].kind = "login" \/ r \in overlapped)
      BY <1>4 DEF Truncate, Becomes
    <2>2. cmd'[r].at = "fill" /\ cmd'[r].kind = cmd[r].kind
      BY <2>1 DEF FileInv, ClientInv, HoldingsInv, CmdInv
    <2>3. Running' = Running
      BY <1>1, <1>2, <2>1, <2>2 DEF Running
    <2>4. QED
      BY <1>1, <2>1, <2>2, <2>3 DEF FileInv, AloneInv
  <1>5. CASE Fill(r)
    <2> DEFINE more == cmd[r].kind = "login" /\ cmd[r].f = "jwt"
    <2>1. /\ cmd[r].at = "fill" /\ UNCHANGED overlapped /\ r \in Running
          /\ cmd' = [cmd EXCEPT ![r] = IF more THEN [cmd[r] EXCEPT !.at = "truncate", !.f = "token"]
                                       ELSE Exited(0)]
          /\ mixed' = (mixed /\ (more \/ cmd[r].kind # "login" \/ r \in overlapped))
      BY <1>5 DEF Fill, Becomes, Running
    <2>2. \/ more /\ cmd'[r].at = "truncate" /\ cmd'[r].kind = "login"
          \/ ~ more /\ cmd'[r].at = "exit"
      BY <2>1 DEF FileInv, ClientInv, HoldingsInv, CmdInv, Exited
    <2>3. \A q \in Running' : q \in Running
      BY <1>1, <1>2, <2>1
    <2>4. ASSUME NEW q \in Request, q \in Running', q \notin overlapped' PROVE Running' = {q}
      BY <2>1, <2>3, <2>4 DEF FileInv, AloneInv
    <2>5. ASSUME NEW q \in Request, cmd'[q].at \in {"truncate", "fill"}, cmd'[q].kind = "login",
                 cmd'[q].at = "fill" \/ cmd'[q].f = "token"
          PROVE  mixed'
      <3>1. CASE q = r
        BY <2>1, <2>2, <2>5, <3>1 DEF FileInv, AloneInv
      <3>2. CASE q # r
        <4>1. mixed /\ q \in Running
          BY <1>1, <2>5, <3>2 DEF FileInv, AloneInv, Running
        <4>2. r \in overlapped
          BY <2>1, <3>2, <4>1 DEF FileInv, AloneInv
        <4>3. QED
          BY <2>1, <4>1, <4>2
      <3>3. QED
        BY <3>1, <3>2
    <2>6. QED
      BY <2>4, <2>5 DEF AloneInv
  <1>6. QED
    BY <1>3, <1>4, <1>5, FileSteps DEF FileInv

\* What FilesInv says of one command.
FilesOf(q) ==
    /\ q \notin overlapped =>
          /\ cmd[q].at = "send" \/ (cmd[q].at = "asked" /\ cmd[q].kind = "refresh")
               => TokenFileIs(cmd[q].token)
          /\ cmd[q].at = "truncate" /\ cmd[q].kind = "refresh" => TokenFileIs(tok[q])
          /\ cmd[q].at \in {"truncate", "fill"} /\ cmd[q].kind = "login"
               /\ cmd[q].f = "token" => file["jwt"] = q
    /\ cmd[q].at = "fill" /\ cmd[q].kind = "refresh" /\ ~ mixed => TokenFileIs(tok[q])

\* A command that does not move: its files are as they were.
LEMMA FilesLast ==
    ASSUME ClientInv, Lasting, UNCHANGED <<file, mixed>>, NEW q \in Request, FilesOf(q),
           UNCHANGED cmd[q], q \notin overlapped' => q \notin overlapped
    PROVE  FilesOf(q)'
  <1>1. cmd[q].at \in {"truncate", "fill"} => tok'[q] = tok[q]
    BY DEF ClientInv, CmdInv, Lasting
  <1>2. QED
    BY <1>1 DEF FilesOf, TokenFileIs

\* The JWT in the file stays that of its login.
LEMMA JwtFileLasts ==
    ASSUME ClientInv, Lasting, UNCHANGED file["jwt"], UNCHANGED file["token"], mixed' = mixed,
           ~ mixed /\ file["jwt"] \in Request => TokenFileIs(tok[file["jwt"]])
    PROVE  ~ mixed' /\ file'["jwt"] \in Request => TokenFileIs(tok[file["jwt"]])'
  <1>1. file["jwt"] \in Request => tok'[file["jwt"]] = tok[file["jwt"]]
    BY FileAssumption DEF ClientInv, HoldingsInv, JwtAtHand, Lasting, ReplyInv, Signed
  <1>2. QED
    BY <1>1 DEF TokenFileIs

\* A command that moves and writes nothing.
LEMMA MovedFiles ==
    ASSUME FileInv, NEW r \in Request, User(r) \/ Goes(r), Moved(r), ClientInv', Lasting
    PROVE  FilesOf(r)'
  <1>1. CmdInv(r) /\ CmdInv(r)' /\ r \in DOMAIN cmd /\ FilesOf(r)
    BY DEF FileInv, ClientInv, HoldingsInv, FilesInv, FilesOf
  <1>2. UNCHANGED file /\ cmd'[r].at # "fill" /\ (r \notin overlapped' => r \notin overlapped)
    BY DEF Moved
  <1>3. CASE cmd'[r].at = "send"
    <2>1. cmd'[r].token = file["token"]
      BY <1>3 DEF Moved
    <2>2. QED
      BY <1>2, <1>3, <2>1 DEF FilesOf, TokenFileIs
  <1>4. CASE cmd'[r].at = "asked" /\ cmd'[r].kind = "refresh"
    <2>1. cmd[r].at = "send" /\ cmd'[r].token = cmd[r].token
      BY <1>4 DEF Moved
    <2>2. QED
      BY <1>1, <1>2, <1>4, <2>1 DEF FilesOf, TokenFileIs
  <1>5. CASE cmd'[r].at = "truncate"
    <2>1. cmd[r].at = "asked" /\ cmd'[r].f = "jwt" /\ cmd'[r].kind = cmd[r].kind
      BY <1>5 DEF Moved
    <2>2. ASSUME cmd[r].kind = "refresh", r \notin overlapped' PROVE TokenFileIs(tok[r])'
      <3>1. TokenFileIs(cmd[r].token)
        BY <1>1, <1>2, <2>1, <2>2 DEF FilesOf
      <3>2. reply'[r] = "refreshed" /\ at[r] # "idle"
        BY <1>1, <1>5, <2>1, <2>2 DEF CmdInv, Refreshing
      <3>3. Presents(r, cmd[r].token) /\ tok'[r] = tok[r]
        <4>1. at[r] \in Refreshing \cup {"answered"}
          BY <1>1, <2>1, <2>2 DEF CmdInv
        <4>2. at[r] = "answered" => reply'[r] = reply[r]
          BY DEF Lasting
        <4>3. QED
          BY <1>1, <2>1, <2>2, <3>2, <4>1, <4>2 DEF CmdInv, Lasting
      <3>4. QED
        BY <1>2, <3>1, <3>3, FileAssumption DEF Presents, TokenFileIs
    <2>3. QED
      BY <1>2, <1>5, <2>1, <2>2 DEF FilesOf
  <1>6. CASE cmd'[r].at \notin {"send", "asked", "truncate", "fill"} \/ (cmd'[r].at = "asked" /\ cmd'[r].kind # "refresh")
    BY <1>6 DEF FilesOf
  <1>7. QED
    BY <1>2, <1>3, <1>4, <1>5, <1>6

\* The files after a step of a command.
LEMMA FilesKeep ==
    ASSUME FileInv, NEW r \in Request, User(r) \/ Goes(r), ClientInv', Lasting
    PROVE  FilesInv'
  <1>1. /\ \A q \in Request : q # r => cmd'[q] = cmd[q]
        /\ \A q \in Request : FilesOf(q)
        /\ ~ mixed /\ file["jwt"] \in Request => TokenFileIs(tok[file["jwt"]])
        /\ DOMAIN file = {"jwt", "token"} /\ r \in DOMAIN cmd
    BY ActorFrame DEF FileInv, FilesInv, FilesOf, ClientInv, HoldingsInv
  <1>2. ((\A q \in Request : FilesOf(q)') /\
         (~ mixed' /\ file'["jwt"] \in Request => TokenFileIs(tok[file["jwt"]])')) => FilesInv'
    BY DEF FilesInv, FilesOf
  <1>3. CASE Moved(r)
    <2>1. UNCHANGED <<file, mixed>> /\ \A q \in Request : q \notin overlapped' => q \notin overlapped
      BY <1>3 DEF Moved
    <2>2. \A q \in Request : FilesOf(q)'
      BY <1>1, <1>3, <2>1, FilesLast, MovedFiles DEF FileInv
    <2>3. ~ mixed' /\ file'["jwt"] \in Request => TokenFileIs(tok[file["jwt"]])'
      BY <1>1, <2>1, JwtFileLasts DEF FileInv
    <2>4. QED
      BY <1>2, <2>2, <2>3
  \* A command that writes and has not overlapped is alone.
  <1>4. ASSUME cmd[r].at \in {"truncate", "fill"}, r \notin overlapped,
               NEW q \in Request, q # r
        PROVE  cmd[q].at \in {"unused", "exit", "web"}
    BY <1>4 DEF FileInv, AloneInv, Running
  <1>5. ASSUME cmd[r].at \in {"truncate", "fill"}, NEW q \in Request, q # r, q \notin overlapped
        PROVE  cmd[q].at \in {"unused", "exit", "web"}
    BY <1>5 DEF FileInv, AloneInv, Running
  <1>6. CASE Truncate(r)
    <2>1. /\ cmd[r].at = "truncate" /\ UNCHANGED <<promiseVars, page, overlapped>>
          /\ file' = [file EXCEPT ![cmd[r].f] = "blank"]
          /\ mixed' = (mixed \/ cmd[r].kind = "login" \/ r \in overlapped)
          /\ cmd' = [cmd EXCEPT ![r] = [cmd[r] EXCEPT !.at = "fill"]]
      BY <1>6 DEF Truncate, Becomes
    <2>2. cmd'[r].at = "fill" /\ cmd'[r].kind = cmd[r].kind /\ cmd'[r].f = cmd[r].f
      <3>1. cmd[r] = [at |-> cmd[r].at, kind |-> cmd[r].kind, f |-> cmd[r].f]
        BY <2>1 DEF FileInv, ClientInv, CmdInv
      <3>2. cmd'[r] = [cmd[r] EXCEPT !.at = "fill"]
        BY <1>1, <2>1
      <3>3. QED
        BY <3>1, <3>2
    <2>3. /\ UNCHANGED tok /\ cmd[r].f \in {"jwt", "token"}
          /\ cmd[r].kind = "login" \/ (cmd[r].kind = "refresh" /\ cmd[r].f = "jwt")
      BY <2>1 DEF promiseVars, FileInv, ClientInv, CmdInv
    <2>4. file'["token"] \in Request => file["token"] = file'["token"]
      BY <1>1, <2>1, <2>3, FileAssumption
    <2>5. \A t : TokenFileIs(t) => TokenFileIs(t)'
      BY <2>4 DEF TokenFileIs
    <2>6. ~ mixed' => file'["jwt"] \notin Request
      BY <1>1, <2>1, <2>3, FileAssumption
    <2>7. FilesOf(r)'
      <3>1. CASE cmd[r].kind = "login"
        BY <1>1, <2>1, <2>2, <2>3, <3>1 DEF FilesOf
      <3>2. CASE cmd[r].kind = "refresh"
        <4>1. r \notin overlapped => TokenFileIs(tok[r])
          BY <1>1, <2>1, <3>2 DEF FilesOf
        <4>2. ~ mixed' => TokenFileIs(tok[r])'
          BY <2>1, <2>3, <2>5, <4>1 DEF TokenFileIs
        <4>3. QED
          BY <2>2, <3>2, <4>2 DEF FilesOf
      <3>3. QED
        BY <2>3, <3>1, <3>2
    <2>8. ASSUME NEW q \in Request, q # r PROVE FilesOf(q)'
      <3>1. cmd'[q] = cmd[q] /\ FilesOf(q)
        BY <1>1, <2>8
      <3>2. q \notin overlapped' => cmd'[q].at \in {"unused", "exit", "web"}
        BY <1>5, <2>1, <2>8, <3>1
      <3>3. cmd[q].at = "fill" /\ cmd[q].kind = "refresh" /\ ~ mixed' => TokenFileIs(tok[q])'
        BY <2>1, <2>3, <2>5, <3>1 DEF FilesOf, TokenFileIs
      <3>4. QED
        BY <3>1, <3>2, <3>3 DEF FilesOf
    <2>9. QED
      BY <1>2, <2>6, <2>7, <2>8
  <1>7. CASE Fill(r)
    <2> DEFINE more == cmd[r].kind = "login" /\ cmd[r].f = "jwt"
    <2>1. /\ cmd[r].at = "fill" /\ UNCHANGED <<promiseVars, page, overlapped>>
          /\ file' = [file EXCEPT ![cmd[r].f] = r]
          /\ cmd' = [cmd EXCEPT ![r] = IF more THEN [cmd[r] EXCEPT !.at = "truncate", !.f = "token"]
                                       ELSE Exited(0)]
          /\ mixed' = (mixed /\ (more \/ cmd[r].kind # "login" \/ r \in overlapped))
      BY <1>7 DEF Fill, Becomes
    <2>2. /\ UNCHANGED tok /\ cmd[r].f \in {"jwt", "token"}
          /\ \/ cmd[r].kind = "login" /\ tok[r] = r
             \/ cmd[r].kind = "refresh" /\ cmd[r].f = "jwt"
      BY <2>1 DEF promiseVars, FileInv, ClientInv, CmdInv, ReplyInv
    <2>3. FilesOf(r)
      BY <1>1
    <2>4. CASE more
      <3>1. mixed /\ mixed'
        BY <2>1, <2>4 DEF FileInv, AloneInv
      <3>2. cmd'[r] = [at |-> "truncate", kind |-> "login", f |-> "token"]
        BY <1>1, <2>1, <2>4 DEF FileInv, ClientInv, CmdInv
      <3>3. file'["jwt"] = r /\ file'["token"] = file["token"]
        BY <1>1, <2>1, <2>4
      <3>4. FilesOf(r)'
        BY <3>2, <3>3 DEF FilesOf
      <3>5. ASSUME NEW q \in Request, q # r PROVE FilesOf(q)'
        <4>1. q \notin overlapped' => cmd'[q].at \in {"unused", "exit", "web"}
          BY <1>1, <1>5, <2>1, <3>5
        <4>2. QED
          BY <3>1, <4>1 DEF FilesOf
      <3>6. QED
        BY <1>2, <3>1, <3>4, <3>5
    <2>5. CASE cmd[r].kind = "refresh"
      <3>1. (mixed' <=> mixed) /\ cmd'[r].at = "exit"
        BY <1>1, <2>1, <2>5 DEF Exited
      <3>2. file'["jwt"] = r /\ file'["token"] = file["token"]
        BY <1>1, <2>1, <2>2, <2>5
      <3>3. ~ mixed => TokenFileIs(tok[r])
        BY <2>1, <2>3, <2>5 DEF FilesOf
      <3>4. FilesOf(r)'
        BY <3>1 DEF FilesOf
      <3>5. ASSUME NEW q \in Request, q # r PROVE FilesOf(q)'
        <4>1. q \notin overlapped' => cmd'[q].at \in {"unused", "exit", "web"}
          BY <1>1, <1>5, <2>1, <3>5
        <4>2. FilesOf(q) /\ cmd'[q] = cmd[q]
          BY <1>1, <3>5
        <4>3. QED
          BY <2>2, <3>1, <3>2, <4>1, <4>2 DEF FilesOf, TokenFileIs
      <3>6. ~ mixed' => TokenFileIs(tok[file["jwt"]])'
        BY <2>2, <3>1, <3>2, <3>3 DEF TokenFileIs
      <3>7. QED
        BY <1>2, <3>4, <3>5, <3>6
    <2>6. CASE cmd[r].kind = "login" /\ cmd[r].f = "token"
      <3>1. /\ cmd'[r].at = "exit" /\ mixed /\ (mixed' <=> r \in overlapped)
        BY <1>1, <2>1, <2>6 DEF Exited, FileInv, AloneInv
      <3>2. file'["jwt"] = file["jwt"] /\ file'["token"] = r
        BY <1>1, <2>1, <2>6
      <3>3. FilesOf(r)'
        BY <3>1 DEF FilesOf
      <3>4. ASSUME NEW q \in Request, q # r PROVE FilesOf(q)'
        <4>1. q \notin overlapped' => cmd'[q].at \in {"unused", "exit", "web"}
          BY <1>1, <1>5, <2>1, <3>4
        <4>2. ~ mixed' => cmd'[q].at \in {"unused", "exit", "web"}
          BY <1>1, <1>4, <2>1, <3>1, <3>4
        <4>3. QED
          BY <4>1, <4>2 DEF FilesOf
      <3>5. ~ mixed' => TokenFileIs(tok[file["jwt"]])'
        <4>1. ~ mixed' => file["jwt"] = r
          BY <2>1, <2>3, <2>6, <3>1 DEF FilesOf
        <4>2. QED
          BY <2>2, <2>6, <3>2, <4>1 DEF TokenFileIs
      <3>6. QED
        BY <1>2, <3>3, <3>4, <3>5
    <2>7. QED
      BY <2>2, <2>4, <2>5, <2>6
  <1>8. QED
    BY <1>3, <1>6, <1>7, FileSteps DEF FileInv

\* The files stay of one login, unless a login was cut off or two commands
\* overlapped: a refresh writes the JWT of the login it read.
THEOREM OneLoginInTheFiles == ClientSpec => []FilesAreOfOneLogin
  <1>1. ClientInit => FileInv
    <2> SUFFICES ASSUME ClientInit PROVE FileInv
      OBVIOUS
    <2>1. /\ file["jwt"] \notin Request
          /\ \A r \in Request : cmd[r].at = "unused"
      BY FileAssumption DEF ClientInit, Unused
    <2>2. AloneInv
      BY <2>1 DEF AloneInv, Running
    <2>3. FilesInv
      BY <2>1 DEF FilesInv
    <2>4. QED
      BY <2>2, <2>3, ClientInitInv DEF FileInv
  <1>2. FileInv /\ [ClientNext]_allVars => FileInv'
    <2> SUFFICES ASSUME FileInv, [ClientNext]_allVars PROVE FileInv'
      OBVIOUS
    <2>1. ClientInv' /\ Lasting
      BY ClientKeeps, ClientSteps DEF FileInv
    <2>2. CASE UNCHANGED clientVars
      <3>1. UNCHANGED <<cmd, file, mixed, overlapped>> /\ Running' = Running
        BY <2>2 DEF clientVars, Running
      <3>2. AloneInv'
        BY <3>1 DEF FileInv, AloneInv
      <3>3. \A q \in Request : FilesOf(q)'
        BY <2>1, <3>1, FilesLast DEF FileInv, FilesInv, FilesOf
      <3>4. ~ mixed' /\ file'["jwt"] \in Request => TokenFileIs(tok[file["jwt"]])'
        BY <2>1, <3>1, JwtFileLasts DEF FileInv, FilesInv
      <3>5. QED
        BY <2>1, <3>2, <3>3, <3>4 DEF FileInv, FilesInv, FilesOf
    <2>3. ASSUME NEW r \in Request, User(r) \/ Goes(r) PROVE FileInv'
      BY <2>1, <2>3, AloneKeeps, FilesKeep DEF FileInv
    <2>4. QED
      BY <2>2, <2>3, ClientSteps DEF FileInv
  <1>3. FileInv => FilesAreOfOneLogin
    BY DEF FileInv, FilesInv, TokenFileIs, FilesAreOfOneLogin, LoginOf
  <1>4. QED
    BY <1>1, <1>2, <1>3, PTL DEF ClientSpec

=============================================================================
