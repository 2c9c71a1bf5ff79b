----------------------------- MODULE PluginHost -----------------------------
(***************************************************************************)
(* The life of one authentication response (AuthMapper.tla) with the       *)
(* plugin hosts that ask the plugins: the proxy, which sends one HTTP      *)
(* request per plugin to the plugin server, one after the other, and the   *)
(* host that keeps the plugins in the process of the application and asks  *)
(* them all at once.                                                       *)
(*                                                                         *)
(* The proxy turns whatever fails into an error of that plugin.  The host  *)
(* in memory rejects the whole call when a plugin is not there, or when an *)
(* output to be checked does not decode; and the task that stores the      *)
(* output of a plugin returns nothing, so that every output is undefined.  *)
(***************************************************************************)
EXTENDS AuthMapper, PluginServer

CONSTANTS
    Hosts,      \* hosts to consider: "proxy", "memory"
    Claims,     \* proofs a client may send, by plugin
    Undefined   \* the output "undefined"

ASSUME HostAssumption ==
    /\ Hosts \subseteq {"proxy", "memory"}
    /\ Instance \subseteq Plugin
    /\ ProvedRole \cup {Undefined} \subseteq Output
    /\ Claims \subseteq PMap(Proof) \ {<< >>}
    /\ Falsy \cap ProvedRole = {}   \* objects are truthy

VARIABLES
    host,  \* which of the hosts is in use
    kind,  \* the call under way: "none", "request" or "check"
    todo,  \* what is to be sent, by plugin
    sent,  \* plugins sent to and not yet heard of
    got,   \* answers so far, by plugin
    fails, \* the call will reject
    seen,  \* history: pairs the plugins admitted at some instant of the call
    lapsed \* history: plugins that could not admit at some instant of the call

callVars == <<kind, todo, sent, got, fails>>
history == <<seen, lapsed>>
hostVars == <<vars, serverVars, host, callVars, history>>

\* The pairs the plugins' tables admit now.
AdmittedPairs ==
    UNION {{<<p, [provedHash |-> h, role |-> roles[p][h]]>> : h \in DOMAIN roles[p]}
             : p \in ActivePlugins}

\* The plugins that do not admit what the call claims of them.
Lapses ==
    {p \in DOMAIN todo :
        {<<p, o>> : o \in IF kind = "check" THEN {todo[p]}
                          ELSE ClaimOf([at |-> "find", proof |-> todo[p]])}
          \cap AdmittedPairs = {}}

NothingSent == kind' = "none" /\ todo' = << >> /\ sent' = {} /\ got' = << >> /\ fails' = FALSE

HostInit ==
    /\ Init /\ ServerInit
    /\ host \in Hosts
    /\ kind = "none" /\ todo = << >> /\ sent = {} /\ got = << >> /\ fails = FALSE
    /\ seen = {} /\ lapsed = {}

Open(k, what) ==
    /\ kind = "none"
    /\ kind' = k /\ todo' = what
    /\ sent' = {} /\ got' = << >> /\ fails' = FALSE
    /\ host = "memory" => server = "up"
    /\ UNCHANGED <<vars, serverVars, host>>
    /\ seen' = AdmittedPairs
    /\ lapsed' = Lapses'

\* The application calls requestAuth, and then checkAuthValidity on the
\* response at hand, again and again.
CallRequestAuth(claims) == ~ asked /\ Open("request", claims)

CallCheckAuth ==
    LET outputs == ExtractValidityCheck(auth)
    IN  /\ asked /\ DOMAIN outputs # {}
        /\ Open("check", [p \in DOMAIN outputs |-> outputs[p].output])

\* Plugin p is asked, if it is there and what it is asked about decodes.
AskPlugin(p) ==
    /\ p \in ActivePlugins
    /\ IF kind = "request" THEN CallVerify(p, todo[p])
       ELSE todo[p] \in ProvedRole /\ CallCheck(p, todo[p])

Unaskable(p) == p \notin ActivePlugins \/ (kind = "check" /\ todo[p] \notin ProvedRole)

\* The answer for a plugin that refused or failed.
No == IF kind = "request" THEN Left ELSE FALSE

Hears(p, answer) ==
    got' = [q \in DOMAIN got \cup {p} |-> IF q = p THEN answer ELSE got[q]]

\* Whose turn it is: in the proxy no request starts before the last one has
\* its answer.
Turn(p) ==
    /\ kind # "none" /\ p \in DOMAIN todo \ (DOMAIN got \cup sent)
    /\ host = "proxy" => sent = {}

Send(p) ==
    /\ Turn(p) /\ AskPlugin(p)
    /\ sent' = sent \cup {p}
    /\ UNCHANGED <<vars, lifecycle, host, kind, todo, got, fails, history>>

\* Mutant: what cannot be checked counts as still valid.
CannotSendTrusting(p) ==
    /\ Turn(p) /\ Unaskable(p)
    /\ Hears(p, IF kind = "request" THEN Left ELSE TRUE)
    /\ fails' = (host = "memory" \/ fails)
    /\ UNCHANGED <<vars, serverVars, host, kind, todo, sent, history>>

\* The server is down, has no such plugin, or the output does not decode.
\* The proxy records an error of the plugin, the host in memory fails.
CannotSend(p) ==
    /\ Turn(p) /\ Unaskable(p)
    /\ Hears(p, No)
    /\ fails' = (host = "memory" \/ fails)
    /\ UNCHANGED <<vars, serverVars, host, kind, todo, sent, history>>

\* mkRequest: a connection that breaks, a status that is not 2xx and a body
\* the schema rejects are all errors.
ProxyAnswer(j) ==
    LET resp == IF kind = "request" THEN HandleVerifyProof(j) ELSE HandleValidateOutput(j)
    IN  IF j = Lost \/ resp.status # 200 THEN No
        ELSE IF kind = "request" THEN resp.output ELSE TRUE

\* The output goes to a record that is never returned.
MemoryAnswer(j) ==
    IF ~ j.ok THEN No ELSE IF kind = "request" THEN Undefined ELSE TRUE

Answer(p) == IF host = "proxy" THEN ProxyAnswer(job[p]) ELSE MemoryAnswer(job[p])

\* Mutant: an answer that will not come is waited for.
ReceiveAnswer(p) ==
    /\ p \in sent /\ job[p].at = "done"
    /\ Hears(p, Answer(p))
    /\ sent' = sent \ {p}
    /\ job' = [job EXCEPT ![p] = NoJob]
    /\ UNCHANGED <<vars, lifecycle, roles, host, kind, todo, fails, history>>

Receive(p) ==
    /\ p \in sent /\ job[p].at \in {"done", "lost"}
    /\ Hears(p, Answer(p))
    /\ sent' = sent \ {p}
    /\ job' = [job EXCEPT ![p] = NoJob]
    /\ UNCHANGED <<vars, lifecycle, roles, host, kind, todo, fails, history>>

AllHeard == kind # "none" /\ DOMAIN got = DOMAIN todo

\* The mapper goes on with the answers.
Map ==
    /\ AllHeard /\ ~ fails
    /\ IF kind = "request" THEN RequestStep(got) ELSE CheckStep(got)
    /\ NothingSent
    /\ UNCHANGED <<serverVars, host, history>>

\* The call rejects, and the application is where it was.
Reject ==
    /\ AllHeard
    /\ fails \/ (kind = "request" /\ RequestAuthThrows(got))
    /\ NothingSent
    /\ UNCHANGED <<vars, serverVars, host, history>>

\* What happens at the server is seen by the call under way.  The plugins in
\* memory end with the application itself, and with them the life this module
\* is about.
ServerStep ==
    /\ Boot \/ Administer \/ \E p \in Instance : PluginWorks(p)
    /\ server = "up" /\ server' = "down" => host = "proxy"
    /\ UNCHANGED <<vars, host, callVars>>
    /\ seen' = IF kind = "none" THEN seen ELSE seen \cup AdmittedPairs'
    /\ lapsed' = lapsed \cup Lapses'

\* What the host does by itself once it is called.
HostStep ==
    \/ Map \/ Reject
    \/ \E p \in Plugin : Send(p) \/ CannotSend(p) \/ (p \in Instance /\ Receive(p))

HostNext ==
    \/ \E c \in Claims : CallRequestAuth(c)
    \/ CallCheckAuth \/ HostStep \/ ServerStep

\* The event loops run what is ready; fetch fails once a connection breaks.
HostSpec ==
    /\ HostInit /\ [][HostNext]_hostVars
    /\ WF_hostVars(HostStep)
    /\ WF_hostVars(ServerStep /\ \E p \in Instance : PluginWorks(p))

-----------------------------------------------------------------------------
(* Properties *)

\* Whenever a call of the proxy returns with a response, at login or at a later
\* check, all that the mapper counts as admitted was in the table of its plugin
\* at some instant of that very call: nothing is carried over from an earlier
\* call that admitted the same, from another plugin or a server that ended.
AcceptedWereAdmitted ==
    [][host = "proxy" /\ kind # "none" /\ kind' = "none" /\ asked' =>
         accepted' \subseteq seen]_hostVars

\* A plugin counts against a response only when its table, at some instant of
\* the call, did not support what the call claims, or its server did not
\* serve: a table posted and posted back is the only way to lose an output
\* that holds before and after.
RefusalsHaveCause ==
    [][\A p \in DOMAIN got' \ DOMAIN got : got'[p] = No => p \in lapsed]_hostVars

\* Every call of the host ends, whatever ends meanwhile.
CallsEnd == kind # "none" ~> kind = "none"

\* The interface of the host in memory: a plugin that verified its input gives
\* the output it generated.
OutputsAreHandedOn ==
    kind = "request" => \A p \in DOMAIN got : got[p] \in ProvedRole \cup {Left}
=============================================================================
