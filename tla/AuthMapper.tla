----------------------------- MODULE AuthMapper -----------------------------
(***************************************************************************)
(* The life of one authentication response under IAuthMapper, as any       *)
(* application built on minauth may use it: requestAuth once, and then     *)
(* checkAuthValidity again and again on what extractValidityCheck takes    *)
(* from the response at hand.  The plugin host's answers are free: each    *)
(* plugin may fail, admit or reject every time it is asked.  (The demo API *)
(* server re-validates the stored response; here the result of one check   *)
(* is what the next one is about.)                                         *)
(***************************************************************************)
EXTENDS PluginToRoleMapper

VARIABLES
    asked,     \* requestAuth has returned
    auth,      \* the response at hand
    granted,   \* the response of requestAuth
    accepted   \* history: pairs <<plugin, output>> admitted by the last call

vars == <<asked, auth, granted, accepted>>

Unasked == [authStatus |-> "none", roles |-> {}, outputs |-> << >>]

Init == asked = FALSE /\ auth = Unasked /\ granted = Unasked /\ accepted = {}

\* The call has its answers and returns.
RequestStep(resps) ==
    /\ ~ asked
    /\ asked' = TRUE
    /\ ~ RequestAuthThrows(resps)
    /\ auth' = RequestAuth(resps)
    /\ granted' = auth'
    /\ accepted' = {<<p, resps[p]>> : p \in {q \in DOMAIN resps : resps[q] # Left}}

CheckStep(verdicts) ==
    LET toCheck == ExtractValidityCheck(auth)
    IN  /\ asked
        /\ DOMAIN verdicts = DOMAIN toCheck
        /\ DOMAIN verdicts # {}
        /\ auth' = CheckAuthValidity(toCheck, verdicts)
        /\ accepted' = {<<p, toCheck[p].output>> : p \in {q \in DOMAIN verdicts : verdicts[q]}}
        /\ UNCHANGED <<asked, granted>>

\* A response that none of the plugins supports leaves nothing to ask, and the
\* host rejects the empty map of outputs.
CheckThrows ==
    /\ asked
    /\ DOMAIN ExtractValidityCheck(auth) = {}
    /\ UNCHANGED vars

Next ==
    \/ CheckThrows
    \/ \E resps \in PMap(Output \cup {Left}) : RequestStep(resps)
    \/ \E verdicts \in PMap(BOOLEAN) : CheckStep(verdicts)

Spec == Init /\ [][Next]_vars

-----------------------------------------------------------------------------
(* Properties *)

\* Every variable keeps its type.
TypeOK ==
    /\ auth \in PluginRolesAuth
    /\ asked \in BOOLEAN /\ granted \in PluginRolesAuth
    /\ accepted \in SUBSET (Plugin \X Output)

\* A role is held only through an output its plugin admitted when last asked
\* and that the application gives that role for, however often and with what
\* verdicts the response was re-validated in between.
RolesAreBacked ==
    \A role \in auth.roles : \E x \in accepted : role \in RoleMap[x[1]][x[2]]

\* A response re-validated as "full" has every role it had at login: nothing
\* is lost for good by checks that failed in between.  The comment before
\* checkAuthValidity says that "the auth response will shrink" when a plugin
\* fails and cannot be sent again later; but the roles and the status shrink,
\* and the outputs, which are what is checked again, are returned whole.
FullKeepsRoles ==
    auth.authStatus = "full" => auth.roles = granted.roles

\* A response about which every plugin said no once is never good for
\* anything again, whatever the plugins say later.
NoneIsFinal == [][asked /\ auth.authStatus = "none" =>
                     auth'.authStatus = "none" /\ auth'.roles = {}]_vars
=============================================================================
