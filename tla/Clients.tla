------------------------------- MODULE Clients -------------------------------
(***************************************************************************)
(* The demo's clients on top of ApiPromise: the commands of the headless  *)
(* client, which share a file for the JWT and one for the refresh token,   *)
(* and a page in a browser, which shows the last response it got.          *)
(*                                                                         *)
(* A command and a click make one request, and are named after it.  Both   *)
(* overlap with each other and with everything the server does; a command  *)
(* may be killed at any point.  A token is named after the request it was  *)
(* obtained by.  fs.writeFile truncates the file and then writes, so that  *)
(* a reader, or a crash, may find it blank.                                *)
(***************************************************************************)
EXTENDS ApiPromise

\* What a file holds that holds no token.
ASSUME FileAssumption == "missing" \notin Request /\ "blank" \notin Request

VARIABLES
    cmd,    \* what each command or click is at
    file,   \* contents of the files "jwt" and "token"
    page,   \* the tokens the page shows, or NoTokens
    mixed,  \* history: the files may be of different logins
    overlapped  \* history: commands that had another one beside them

clientVars == <<cmd, file, page, mixed, overlapped>>
allVars == <<promiseVars, clientVars>>

Unused == [at |-> "unused"]
Exited(c) == [at |-> "exit", code |-> c]
NoTokens == [ok |-> FALSE]
Tokens(j, t) == [ok |-> TRUE, jwt |-> j, token |-> t]

Running == {r \in Request : cmd[r].at \notin {"unused", "exit", "web"}}

ClientInit ==
    /\ PromiseInit
    /\ cmd = [r \in Request |-> Unused]
    /\ file = [f \in {"jwt", "token"} |-> "missing"]
    /\ page = NoTokens
    /\ mixed = FALSE /\ overlapped = {}

Starts(r, s) ==
    /\ cmd[r] = Unused
    /\ cmd' = [cmd EXCEPT ![r] = s]
    /\ overlapped' = IF Running = {} THEN overlapped ELSE overlapped \cup Running \cup {r}

Becomes(r, s) == cmd' = [cmd EXCEPT ![r] = s] /\ UNCHANGED overlapped

\* Mutant: the body carries no refresh token.
AsksTokenless(r, j, t) == IF j \in fresh THEN AskToken(r, r) ELSE TurnAway(r, "401")

\* What the server makes of a JWT and a refresh token.  A blank or an expired
\* JWT is refused; a blank refresh token was never issued.
AsksToken(r, j, t) ==
    IF j \in fresh THEN AskToken(r, IF t \in Request THEN t ELSE r) ELSE TurnAway(r, "401")

AsksProtected(r, j) == IF j \in fresh THEN AskProtected(r) ELSE TurnAway(r, "401")

-----------------------------------------------------------------------------
(* The headless client *)

\* login: the proof of one plugin is generated and sent.
LoginCommand(r) ==
    /\ AskLogin(r)
    /\ Starts(r, [at |-> "asked", kind |-> "login"])
    /\ UNCHANGED <<file, page, mixed>>

\* refresh and accessProtected begin with the JWT file.
ReadJwt(r, k) ==
    /\ Starts(r, IF file["jwt"] = "missing" THEN Exited(1)
                 ELSE [at |-> "read", kind |-> k, jwt |-> file["jwt"]])
    /\ UNCHANGED <<promiseVars, file, page, mixed>>

ReadRefreshToken(r) ==
    /\ cmd[r].at = "read" /\ cmd[r].kind = "refresh"
    /\ Becomes(r, IF file["token"] = "missing" THEN Exited(1)
                  ELSE [at |-> "send", jwt |-> cmd[r].jwt, token |-> file["token"]])
    /\ UNCHANGED <<promiseVars, file, page, mixed>>

SendRefresh(r) ==
    /\ cmd[r].at = "send"
    /\ AsksToken(r, cmd[r].jwt, cmd[r].token)
    /\ Becomes(r, [at |-> "asked", kind |-> "refresh",
                   jwt |-> cmd[r].jwt, token |-> cmd[r].token])
    /\ UNCHANGED <<file, page, mixed>>

SendProtected(r) ==
    /\ cmd[r].at = "read" /\ cmd[r].kind = "protected"
    /\ AsksProtected(r, cmd[r].jwt)
    /\ Becomes(r, [at |-> "asked", kind |-> "protected"])
    /\ UNCHANGED <<file, page, mixed>>

\* Mutant: only refresh handles it.
CannotConnectRefresh(r) ==
    /\ ~ up /\ cmd[r].at = "send"
    /\ Becomes(r, Exited(1))
    /\ UNCHANGED <<promiseVars, file, page, mixed>>

\* Nobody listens: an ioFailure.
CannotConnect(r) ==
    /\ ~ up /\ cmd[r].at \in {"read", "send"}
    /\ Becomes(r, Exited(1))
    /\ UNCHANGED <<promiseVars, file, page, mixed>>

\* The response: tokens are written, the message of the protected route is
\* shown, and anything else ends the command with an error.
Heard(r) ==
    /\ cmd[r].at = "asked" /\ at[r] = "answered"
    /\ Becomes(r, CASE reply[r] \in {"signedIn", "refreshed"} ->
                         [at |-> "truncate", kind |-> cmd[r].kind, f |-> "jwt"]
                    [] reply[r] = "granted" -> Exited(0)
                    [] OTHER -> Exited(1))
    /\ UNCHANGED <<promiseVars, file, page, mixed>>

Truncate(r) ==
    /\ cmd[r].at = "truncate"
    /\ file' = [file EXCEPT ![cmd[r].f] = "blank"]
    /\ mixed' = (mixed \/ cmd[r].kind = "login" \/ r \in overlapped)
    /\ Becomes(r, [cmd[r] EXCEPT !.at = "fill"])
    /\ UNCHANGED <<promiseVars, page>>

\* Mutant: a refresh goes on to the refresh token, as a login does.
FillBoth(r) ==
    /\ cmd[r].at = "fill"
    /\ file' = [file EXCEPT ![cmd[r].f] = r]
    /\ LET more == cmd[r].f = "jwt"
       IN  /\ Becomes(r, IF more THEN [cmd[r] EXCEPT !.at = "truncate", !.f = "token"]
                         ELSE Exited(0))
           /\ mixed' = (mixed /\ (more \/ cmd[r].kind # "login" \/ r \in overlapped))
    /\ UNCHANGED <<promiseVars, page>>

\* A login goes on with the refresh token; a refresh has none to write.
Fill(r) ==
    /\ cmd[r].at = "fill"
    /\ file' = [file EXCEPT ![cmd[r].f] = r]
    /\ LET more == cmd[r].kind = "login" /\ cmd[r].f = "jwt"
       IN  /\ Becomes(r, IF more THEN [cmd[r] EXCEPT !.at = "truncate", !.f = "token"]
                         ELSE Exited(0))
           /\ mixed' = (mixed /\ (more \/ cmd[r].kind # "login" \/ r \in overlapped))
    /\ UNCHANGED <<promiseVars, page>>

\* The user interrupts a command; its request goes on without it.
Killed(r) ==
    /\ r \in Running
    /\ Becomes(r, Exited(2))
    /\ UNCHANGED <<promiseVars, file, page, mixed>>

-----------------------------------------------------------------------------
(* The page *)

Clicked(r, s) ==
    /\ cmd[r] = Unused /\ cmd' = [cmd EXCEPT ![r] = s]
    /\ UNCHANGED <<file, mixed, overlapped>>

PageLogin(r) ==
    /\ AskLogin(r)
    /\ Clicked(r, [at |-> "web", kind |-> "login"])
    /\ UNCHANGED page

\* refreshAuth, with the tokens on the page when the button is pressed.
PageRefresh(r) ==
    /\ page.ok
    /\ AsksToken(r, page.jwt, page.token)
    /\ Clicked(r, [at |-> "web", kind |-> "refresh", token |-> page.token])
    /\ UNCHANGED page

\* The answer goes to another part of the page.
PageProtected(r) ==
    /\ page.ok
    /\ AsksProtected(r, page.jwt)
    /\ Clicked(r, Exited(0))
    /\ UNCHANGED page

\* fetch fails, and the error takes the place of the tokens.
PageUnreachable(r) ==
    /\ ~ up
    /\ Clicked(r, Exited(1))
    /\ page' = NoTokens
    /\ UNCHANGED promiseVars

\* Mutant: the new JWT joins the tokens on the page by now.
PageShowsNow(r) ==
    /\ cmd[r].at = "web" /\ at[r] = "answered"
    /\ page' = IF reply[r] = "signedIn" THEN Tokens(r, r)
               ELSE IF reply[r] = "refreshed" /\ page.ok THEN Tokens(r, page.token)
               ELSE NoTokens
    /\ Becomes(r, Exited(0))
    /\ UNCHANGED <<promiseVars, file, mixed>>

\* Any response replaces the one before, also an error; a refresh brings the
\* tokens it began with, but for the JWT.
PageShows(r) ==
    /\ cmd[r].at = "web" /\ at[r] = "answered"
    /\ page' = IF reply[r] = "signedIn" THEN Tokens(r, r)
               ELSE IF reply[r] = "refreshed" THEN Tokens(r, cmd[r].token)
               ELSE NoTokens
    /\ Becomes(r, Exited(0))
    /\ UNCHANGED <<promiseVars, file, mixed>>

-----------------------------------------------------------------------------
\* What a started command or click does by itself.
Goes(r) ==
    \/ ReadRefreshToken(r) \/ SendRefresh(r) \/ SendProtected(r) \/ CannotConnect(r)
    \/ Heard(r) \/ Truncate(r) \/ Fill(r) \/ PageShows(r)

User(r) ==
    \/ LoginCommand(r) \/ PageLogin(r)
    \/ ReadJwt(r, "refresh") \/ ReadJwt(r, "protected") \/ Killed(r)
    \/ PageRefresh(r) \/ PageProtected(r) \/ PageUnreachable(r)

ServerSide ==
    /\ CrashAll \/ Restart \/ Expire \/ \E r \in Request : Serve(r)
    /\ UNCHANGED clientVars

ClientNext == ServerSide \/ \E r \in Request : User(r) \/ Goes(r)

\* The server ends what it has begun (EveryRequestEnds in ApiSessions), and so
\* do the processes of the clients.  Each makes a few steps only, so that it
\* is enough that some step is made.
ClientSpec ==
    /\ ClientInit /\ [][ClientNext]_allVars
    /\ WF_allVars((\E r \in Request : Serve(r)) /\ UNCHANGED clientVars)
    /\ WF_allVars(\E r \in Request : Goes(r))

-----------------------------------------------------------------------------
(* Properties *)

\* The login a JWT goes back to.
LoginOf(j) == tok[j]

\* The JWT and the refresh token on the page are always of one login, whatever
\* order the answers of overlapping clicks arrive in.
PageIsOfOneLogin == page.ok => LoginOf(page.jwt) = page.token

\* So are the two files, once a login command has run alone to its end and as
\* long as no login is interrupted and no two commands overlap; refreshes may
\* fail and be interrupted meanwhile.
FilesAreOfOneLogin ==
    ~ mixed /\ file["jwt"] \in Request /\ file["token"] \in Request =>
        LoginOf(file["jwt"]) = file["token"]

\* The server refuses a refresh command only when a file it read was blank,
\* its JWT has expired, or the refresh token was struck from the database.
\* (That happens when the server finds it to stand for revoked outputs, or
\* takes an outage of the plugin server for that.)
RefreshRefusalIsDue ==
    \A r \in Request :
        cmd[r].at = "asked" /\ cmd[r].kind = "refresh" /\ reply[r] = "401" =>
            \/ cmd[r].jwt = "blank" \/ cmd[r].token = "blank"
            \/ cmd[r].jwt \notin fresh
            \/ live[cmd[r].token] = "gone"

\* All commands and clicks come to their end, whether the server answers,
\* crashes or stays down: from some time on nobody waits.
ClientsEnd == <>[](\A r \in Request : cmd[r].at \in {"unused", "exit"})
=============================================================================
