---------------------------- MODULE PluginPromise ----------------------------
(***************************************************************************)
(* What a plugin promises an application (IMinAuthPlugin): a call          *)
(* (verifyAndGetOutput or checkOutputValidity) is decided by the plugin's  *)
(* data as it stands at one instant between the call and its answer.       *)
(*                                                                         *)
(* A call brings a claim: the outputs its input could support.  A proof    *)
(* that does not verify supports none; the check of an output supports     *)
(* that output.  The plugin answers with an output that is both claimed    *)
(* and admitted, and refuses when there is none.                           *)
(***************************************************************************)
CONSTANTS
    Caller,   \* calls that may be under way at once
    Out       \* outputs of the plugin

VARIABLES
    admitted, \* the outputs the plugin's data admits now
    call      \* what became of each call

Idle == [st |-> "idle"]
Asked(claim) == [st |-> "asked", claim |-> claim]
Admits(o) == [st |-> "admits", output |-> o]
Refuses == [st |-> "refuses"]

PromiseInit ==
    /\ admitted \in SUBSET Out
    /\ call = [c \in Caller |-> Idle]

\* The data changes under the calls.
Change == admitted' \in SUBSET Out /\ UNCHANGED call

Ask(c) ==
    /\ call[c] = Idle
    /\ \E claim \in SUBSET Out : call' = [call EXCEPT ![c] = Asked(claim)]
    /\ UNCHANGED admitted

\* The instant that decides.
Decide(c) ==
    /\ call[c].st = "asked"
    /\ LET fit == call[c].claim \cap admitted
       IN  IF fit = {} THEN call' = [call EXCEPT ![c] = Refuses]
           ELSE \E o \in fit : call' = [call EXCEPT ![c] = Admits(o)]
    /\ UNCHANGED admitted

\* The caller has its answer.
Return(c) ==
    /\ call[c].st \in {"admits", "refuses"}
    /\ call' = [call EXCEPT ![c] = Idle]
    /\ UNCHANGED admitted

\* The process of the plugin ends: no call is ever answered, and the data is
\* what the next start makes it.
Lose ==
    /\ admitted' \in SUBSET Out
    /\ call' = [c \in Caller |-> Idle]

PromiseNext ==
    \/ Change \/ Lose
    \/ \E c \in Caller : Ask(c) \/ Decide(c) \/ Return(c)

PromiseSpec == PromiseInit /\ [][PromiseNext]_<<admitted, call>>
=============================================================================
