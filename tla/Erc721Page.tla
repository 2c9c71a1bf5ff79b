----------------------------- MODULE Erc721Page -----------------------------
(***************************************************************************)
(* The page for the ERC721 time lock plugin: it lists the commitments that *)
(* are eligible, fetched from the contract's events every ten seconds, and *)
(* its user has proofs built and sent (Erc721Plugin.tla).                  *)
(*                                                                         *)
(* The interval is set up in an effect that depends on the logger in the   *)
(* props.  The parent makes a logger each time it renders, and it renders  *)
(* when the user types and when a proof or an answer comes back: each time *)
(* the ten seconds begin anew.  A poll asks two queries, so that a new one *)
(* could overtake it; isFetchingRef keeps them apart.                      *)
(*                                                                         *)
(* Interval ticks of the clock make ten seconds.  A page that is loaded    *)
(* anew loses what it had, the polls under way included.  What the user    *)
(* typed is left out: any secret may be proved for.                        *)
(***************************************************************************)
EXTENDS Erc721Plugin

CONSTANT Interval  \* ticks between two polls

ASSUME IntervalAssumption == Interval \in Nat \ {0}

VARIABLES
    prover,    \* the prover of the page: "compiling", "ready" or "failed"
    waited,    \* ticks since the interval was set up
    fetching,  \* isFetchingRef
    polls,     \* polls under way: the number of events their first query saw
    list       \* the commitments shown, and the number of events behind them

pageVars == <<prover, waited, fetching, polls, list>>
allVars == <<vars, pageVars>>

NoList == [of |-> {}, at |-> 0]

PageInit ==
    /\ Init
    /\ prover = "compiling" /\ waited = 0
    /\ fetching = FALSE /\ polls = {} /\ list = NoList

-----------------------------------------------------------------------------
\* erc721TimelockProverInitialize: the addresses come from the plugin's routes,
\* the circuit is compiled here; each step may fail.
Outcomes == {"ready", "failed"}

\* The prover is set, and the interval with it; a failure, or no wallet, is
\* logged, and nothing else ever happens.
Compiled ==
    /\ prover = "compiling"
    /\ prover' \in Outcomes
    /\ waited' = 0
    /\ UNCHANGED <<vars, fetching, polls, list>>

\* The page is loaded anew, or another plugin is picked and this one again: a
\* proof is lost, what the server has begun or granted is not.
Reload ==
    /\ prover # "compiling"
    /\ prover' = "compiling" /\ waited' = 0
    /\ fetching' = FALSE /\ polls' = {} /\ list' = NoList
    /\ pc' = [h \in Known |-> IF pc[h] \in {"fetch", "proved"} THEN "idle" ELSE pc[h]]
    /\ root' = [h \in Known |-> IF pc'[h] = "idle" THEN NoRoot ELSE root[h]]
    /\ seen' = [h \in Known |-> IF pc'[h] = "idle" THEN 0 ELSE seen[h]]
    /\ held' = {h \in held : pc'[h] # "idle"}
    /\ UNCHANGED chain

\* The user types.
Type ==
    /\ prover = "ready" /\ waited' = 0
    /\ UNCHANGED <<vars, prover, fetching, polls, list>>

Clock ==
    /\ prover = "ready" /\ waited < Interval
    /\ waited' = waited + 1
    /\ UNCHANGED <<vars, prover, fetching, polls, list>>

-----------------------------------------------------------------------------
(* Polls *)

\* Mutant: polls may overlap.
PollBeginsAlways ==
    /\ waited = Interval /\ waited' = 0
    /\ fetching' = TRUE /\ polls' = polls \cup {Len(log)}
    /\ UNCHANGED <<vars, prover, list>>

\* The interval is over: a poll begins, and its first query is answered,
\* unless there is one under way.
PollBegins ==
    /\ waited = Interval /\ waited' = 0
    /\ IF fetching THEN UNCHANGED <<fetching, polls>>
       ELSE fetching' = TRUE /\ polls' = {Len(log)}
    /\ UNCHANGED <<vars, prover, list>>

\* The second query is answered, and the list is shown.
PollEnds(n) ==
    /\ n \in polls
    /\ list' = [of |-> DOMAIN CommitmentTree(n, Len(log)), at |-> n]
    /\ fetching' = FALSE /\ polls' = polls \ {n}
    /\ UNCHANGED <<vars, prover, waited>>

\* Mutant: without "finally".
PollFailsForGood(n) ==
    /\ n \in polls /\ polls' = polls \ {n}
    /\ UNCHANGED <<vars, prover, waited, fetching, list>>

\* A query fails: the list stays.
PollFails(n) ==
    /\ n \in polls
    /\ fetching' = FALSE /\ polls' = polls \ {n}
    /\ UNCHANGED <<vars, prover, waited, list>>

-----------------------------------------------------------------------------
(* Clicks *)

\* Generate Proof and Submit Proof need the prover.
Click(h) ==
    /\ prover = "ready"
    /\ FetchPublicInputs(h) \/ SubmitProof(h)
    /\ UNCHANGED pageVars

\* What the page does not see: the plugin goes on with a proof, and the
\* application has outputs checked.
Behind(h) ==
    /\ \/ CompareRoot(h) \/ AskValidity(h) \/ CheckOutputValidity(h)
       \/ pc[h] = "check" /\ ProviderFails(h)
    /\ UNCHANGED pageVars

\* A proof or an answer comes back, and the page renders.
Renders(h) ==
    /\ \/ Prove(h) \/ InvalidRoot(h) \/ VerifyAndGetOutput(h)
       \/ pc[h] # "check" /\ ProviderFails(h)
    /\ waited' = 0
    /\ UNCHANGED <<prover, fetching, polls, list>>

PageNext ==
    \/ Mine /\ UNCHANGED pageVars
    \/ Compiled \/ Reload \/ Type \/ Clock \/ PollBegins
    \/ \E n \in polls : PollEnds(n) \/ PollFails(n)
    \/ \E h \in Known : Click(h) \/ Behind(h) \/ Renders(h)

\* Time passes.  The page leaves ten seconds of quiet now and again, and the
\* provider does not fail each poll.
PageSpec ==
    /\ PageInit /\ [][PageNext]_allVars
    /\ WF_allVars(Clock)
    /\ SF_allVars(PollBegins)
    /\ WF_allVars(\E n \in polls : PollEnds(n) \/ PollFails(n))
    /\ SF_allVars(\E n \in polls : PollEnds(n))

-----------------------------------------------------------------------------
(* Properties *)

\* What the page lists never goes back: a list is never replaced by one from
\* an older look at the contract, however long a poll takes and whatever the
\* user does meanwhile, until the page is loaded anew.
ListNeverGoesBack == [][list' = NoList \/ list'.at >= list.at]_allVars

\* A page that stays open catches up: once nothing is locked or unlocked any
\* more, it lists what is eligible, whatever polls failed or were put off.
ListCatchesUp ==
    <>[](prover = "ready") => <>[](list.of = DOMAIN CommitmentTree(Len(log), Len(log)))
=============================================================================
