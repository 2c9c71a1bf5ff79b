---------------------------- MODULE PluginServer ----------------------------
(***************************************************************************)
(* The plugin server: it reads its configuration, initialises the plugins  *)
(* the configuration names, installs routes and serves; it may end at any  *)
(* time and is started again.  Its plugins are simple preimage plugins     *)
(* (SimplePreimage.tla), and requests reach them by name.                  *)
(*                                                                         *)
(* Reading fails in two ways.  A file that is missing or that the schema   *)
(* rejects is replaced by the default configuration; one that is not JSON  *)
(* makes JSON.parse throw inside TE.chain, the task rejects and the        *)
(* process ends.  A plugin that cannot be initialised fails them all, but  *)
(* only after the others have had their turn; nobody reads the Left that   *)
(* main() resolves to, so the process ends without a word.                 *)
(***************************************************************************)
EXTENDS SimplePreimage

CONSTANTS
    Configs,        \* configurations an administrator may write
    DefaultConfig,  \* the configuration of a server without a usable file
    Broken          \* the configuration of a plugin that cannot be initialised

\* A configuration maps names of plugins to tables, or to Broken: a module
\* that is not found, a configuration its decoder rejects, or an initialize
\* that fails.
ASSUME ConfigAssumption ==
    /\ Broken \notin Table
    /\ \A c \in Configs \cup {DefaultConfig} :
         DOMAIN c \subseteq Instance /\ \A p \in DOMAIN c : c[p] \in Table \cup {Broken}

VARIABLES
    server,  \* "down", "loading" or "up"
    file,    \* the configuration file
    cfg,     \* the configuration the running server has read
    loaded   \* plugins it has tried so far, and whether they were initialised

lifecycle == <<server, file, cfg, loaded>>
serverVars == <<lifecycle, preimageVars>>

\* A file that is missing or that the schema rejects, and one that is not JSON.
Unreadable == {[kind |-> k] : k \in {"unusable", "noJson"}}
Written == {[kind |-> "config", plugins |-> c] : c \in Configs}

ServerInit ==
    /\ server = "down"
    /\ file \in Unreadable \cup Written
    /\ cfg = << >> /\ loaded = << >>
    /\ PreimageInit

\* The administrator writes the file; the server reads it when it starts.
WriteConfig(f) ==
    /\ file' = f
    /\ UNCHANGED <<server, cfg, loaded, preimageVars>>

\* readConfigurationFallback; with a file that is not JSON a start changes
\* nothing.
ReadConfiguration ==
    /\ server = "down" /\ file.kind # "noJson"
    /\ server' = "loading"
    /\ cfg' = IF file.kind = "config" THEN file.plugins ELSE DefaultConfig
    /\ UNCHANGED <<loaded, file, preimageVars>>

\* Mutant: the plugin is not among those that failed.
InitializePluginAnyway(p) ==
    /\ server = "loading"
    /\ p \in DOMAIN cfg \ DOMAIN loaded
    /\ loaded' = [q \in DOMAIN loaded \cup {p} |-> IF q = p THEN TRUE ELSE loaded[q]]
    /\ IF cfg[p] = Broken THEN UNCHANGED roles ELSE Initialize(p, cfg[p])
    /\ UNCHANGED <<server, file, cfg, job>>

\* One plugin is imported, its configuration decoded and initialize awaited:
\* one after the other, in the order of their names (any order here).
InitializePlugin(p) ==
    /\ server = "loading"
    /\ p \in DOMAIN cfg \ DOMAIN loaded
    /\ loaded' = [q \in DOMAIN loaded \cup {p} |-> IF q = p THEN cfg[p] # Broken ELSE loaded[q]]
    /\ IF cfg[p] = Broken THEN UNCHANGED roles ELSE Initialize(p, cfg[p])
    /\ UNCHANGED <<server, file, cfg, job>>

AllTried == server = "loading" /\ DOMAIN loaded = DOMAIN cfg

\* main() resolves to the Left that collects the failures.
GiveUp ==
    /\ AllTried /\ \E p \in DOMAIN loaded : ~ loaded[p]
    /\ server' = "down" /\ cfg' = << >> /\ loaded' = << >>
    /\ roles' = [p \in Instance |-> << >>]
    /\ UNCHANGED <<file, job>>

\* setupAllRoutes and startServing.
StartServing ==
    /\ AllTried /\ \A p \in DOMAIN loaded : loaded[p]
    /\ server' = "up"
    /\ UNCHANGED <<file, cfg, loaded, preimageVars>>

\* Connections break: whoever waits for an answer gets an error instead.
Lost == [at |-> "lost"]

\* The process ends, and with it the tables and the calls under way.
ServerEnds ==
    /\ server # "down"
    /\ server' = "down" /\ cfg' = << >> /\ loaded' = << >>
    /\ roles' = [p \in Instance |-> << >>]
    /\ job' = [p \in Instance |-> IF job[p] = NoJob THEN NoJob ELSE Lost]
    /\ UNCHANGED file

-----------------------------------------------------------------------------
\* The plugins requests reach (askPluginInstance).
ActivePlugins == IF server = "up" THEN DOMAIN cfg ELSE {}

\* What the handlers of POST /verifyProof and POST /validateOutput make of the
\* answer of a plugin, or of there being none.
HandleVerifyProof(j) ==
    IF j.ok THEN [status |-> 200, output |-> j.output] ELSE [status |-> 400]

HandleValidateOutput(j) == [status |-> IF j.ok THEN 200 ELSE 400]

\* POST /plugins/<p>/admin/roles; the fallback route answers 404 for the
\* others.
PostRoles(p, table) ==
    /\ p \in ActivePlugins
    /\ SetRoles(p, table)
    /\ UNCHANGED lifecycle

\* A plugin takes one step of the call it works on.
PluginWorks(p) == Work(p) /\ UNCHANGED lifecycle

\* Tables, files, starts and ends: everything but the calls.
Administer ==
    \/ \E f \in Unreadable \cup Written : WriteConfig(f)
    \/ \E p \in Instance, t \in Table : PostRoles(p, t)
    \/ ServerEnds

Boot == ReadConfiguration \/ GiveUp \/ StartServing \/ \E p \in Instance : InitializePlugin(p)

-----------------------------------------------------------------------------
(* Properties *)

\* A server that answers has every plugin of its configuration, none of them
\* half made: one plugin that cannot be initialised keeps all from service,
\* whatever order they are tried in and whatever the file became meanwhile.
ServesAllOrNothing ==
    server = "up" => \A p \in DOMAIN cfg : cfg[p] # Broken /\ roles[p] \in Table

\* Between an administrator's orders the tables of a serving server stay: a
\* server that begins to serve has the tables of its configuration, and
\* forgot what was posted to the one before it.
StartsFromConfig ==
    [][server # "up" /\ server' = "up" =>
         \A p \in Instance : roles'[p] = IF p \in DOMAIN cfg' THEN cfg'[p] ELSE << >>]_serverVars

-----------------------------------------------------------------------------
\* Every call as the promise of a plugin sees it: the outputs of instance p
\* are the pairs <<p, output>>.
ClaimOf(j) ==
    IF j.at = "check" THEN {j.want}
    ELSE IF j.proof.sound THEN [provedHash : {j.proof.hash}, role : RoleName] ELSE {}

PromisedCall(p, j) ==
    CASE j.at \in {"find", "check"} -> [st |-> "asked", claim |-> {p} \X ClaimOf(j)]
      [] \/ j.at = "verify" /\ j.sound
         \/ j.at = "done" /\ j.ok -> [st |-> "admits", output |-> <<p, j.output>>]
      [] \/ j.at = "verify" /\ ~ j.sound
         \/ j.at = "done" /\ ~ j.ok -> [st |-> "refuses"]
      [] OTHER -> [st |-> "idle"]

TableOutputs ==
    UNION {{<<p, [provedHash |-> h, role |-> roles[p][h]]>> : h \in DOMAIN roles[p]}
             : p \in Instance}

Promise == INSTANCE PluginPromise WITH
    Caller   <- Instance,
    Out      <- Instance \X ProvedRole,
    admitted <- TableOutputs,
    call     <- [p \in Instance |-> PromisedCall(p, job[p])]

\* Each call of a plugin, however its steps interleave with posted tables,
\* is decided by the table of one instant between the call and its answer.
PromiseKept == Promise!PromiseSpec
=============================================================================
