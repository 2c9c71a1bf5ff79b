-------------------------- MODULE PluginToRoleMapper --------------------------
(***************************************************************************)
(* The authentication mapper of minauth: it turns the answers a plugin     *)
(* host collected from the plugins into one authentication response, at    *)
(* login (requestAuth) and again when a stored response is re-validated    *)
(* (checkAuthValidity).  Pure operators; the sessions of the API server    *)
(* are built from them.                                                    *)
(*                                                                         *)
(* A PMap of the code (a JavaScript object from plugin names to values) is *)
(* a function whose domain is a set of plugins.  An Either is an output or *)
(* Left; an OutputValidity is a Boolean.  Messages are left out.           *)
(***************************************************************************)
CONSTANTS
    Plugin,   \* names of plugins
    Output,   \* (encoded) outputs plugins give
    Falsy,    \* outputs JavaScript holds to be false: 0, "", false, null
    Role,     \* roles of the application
    RoleMap,  \* RoleMap[p][o]: roles the application gives for output o of p
    Left      \* an answer that is an error

ASSUME RoleMapperAssumption ==
    /\ Falsy \subseteq Output
    /\ DOMAIN RoleMap \subseteq Plugin
    /\ \A p \in DOMAIN RoleMap : RoleMap[p] \in [Output -> SUBSET Role]
    /\ Left \notin Output

PMap(S) == UNION {[D -> S] : D \in SUBSET Plugin}

AuthStatus == {"none", "partial", "full"}

PluginOutputs == PMap([output : Output, roles : SUBSET Role])

PluginRolesAuth ==
    [authStatus : AuthStatus, roles : SUBSET Role, outputs : PluginOutputs]

-----------------------------------------------------------------------------
\* The two halves of a map of Eithers: the plugins that failed, and the
\* outputs of those that did not.
SplitPMap(resps) ==
    LET failed == {p \in DOMAIN resps : resps[p] = Left}
    IN  [errors |-> failed,
         valid  |-> [p \in DOMAIN resps \ failed |-> resps[p]]]

\* Mutant: the errors do not make a response partial.
DetermineAuthStatusLenient(valid, errors) == IF valid = {} THEN "none" ELSE "full"

DetermineAuthStatus(valid, errors) ==
    IF valid = {} THEN "none" ELSE IF errors # {} THEN "partial" ELSE "full"

\* requestAuth rejects when the mapper calls roleMap[pluginName] for a plugin
\* the application has no entry for (a TypeError), and when no plugin is asked
\* at all: sequenceS maps the first task of an empty record, which is not
\* there.
RequestAuthThrows(resps) ==
    \/ DOMAIN resps = {}
    \/ ~ (DOMAIN SplitPMap(resps).valid \subseteq DOMAIN RoleMap)

\* Mutant: the outputs without their roles.
RequestAuthNoRoles(resps) ==
    LET split == SplitPMap(resps)
        ok    == DOMAIN split.valid
    IN  [authStatus |-> DetermineAuthStatus(ok, split.errors),
         roles      |-> UNION {RoleMap[p][split.valid[p]] : p \in ok},
         outputs    |-> [p \in ok |-> [output |-> split.valid[p]]]]

RequestAuth(resps) ==
    LET split == SplitPMap(resps)
        ok    == DOMAIN split.valid
        roles == [p \in ok |-> RoleMap[p][split.valid[p]]]
    IN  [authStatus |-> DetermineAuthStatus(ok, split.errors),
         roles      |-> UNION {roles[p] : p \in ok},
         outputs    |-> [p \in ok |-> [output |-> split.valid[p], roles |-> roles[p]]]]

\* Mutant: a response that failed is checked again as well.
ExtractWhole(auth) == auth.outputs

\* What is sent to the plugins when a response is re-validated.
ExtractValidityCheck(auth) ==
    IF auth.authStatus = "none" THEN << >> ELSE auth.outputs

\* Mutants: the roles of all plugins are kept; a plugin counts as valid only
\* when its output is truthy.
CheckAuthValidityKeepsAll(outputRoleMap, resps) ==
    LET ok == {p \in DOMAIN resps : resps[p]}
    IN  [authStatus |-> DetermineAuthStatus(ok, DOMAIN resps \ ok),
         roles      |-> UNION {outputRoleMap[p].roles : p \in DOMAIN resps},
         outputs    |-> outputRoleMap]

CheckAuthValidityTruthy(outputRoleMap, resps) ==
    LET ok == {p \in DOMAIN resps : resps[p] /\ outputRoleMap[p].output \notin Falsy}
    IN  [authStatus |-> DetermineAuthStatus(ok, DOMAIN resps \ ok),
         roles      |-> UNION {outputRoleMap[p].roles : p \in ok},
         outputs    |-> outputRoleMap]

\* The roles of a plugin are kept when "valid[pluginName]" is truthy, so a
\* valid plugin whose output is falsy loses them.  The outputs are returned
\* whole, those of the plugins that failed included.
CheckAuthValidity(outputRoleMap, resps) ==
    LET ok   == {p \in DOMAIN resps : resps[p]}
        kept == {p \in ok : outputRoleMap[p].output \notin Falsy}
    IN  [authStatus |-> DetermineAuthStatus(ok, DOMAIN resps \ ok),
         roles      |-> UNION {outputRoleMap[p].roles : p \in kept},
         outputs    |-> outputRoleMap]

=============================================================================
