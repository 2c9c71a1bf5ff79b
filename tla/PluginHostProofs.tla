--------------------------- MODULE PluginHostProofs ---------------------------
(***************************************************************************)
(* Proofs about the plugin server and the plugin hosts, for any plugins,   *)
(* tables, configurations and claims, and for either host: the server's    *)
(* tables, the promise of its plugins, and what an application may         *)
(* conclude from the answers a host collects.                              *)
(***************************************************************************)
EXTENDS PluginHost, AuthMapperProofs

-----------------------------------------------------------------------------
(* The server, asked by anyone *)

\* A plugin that serves is asked.
AskedOf(p) ==
    /\ p \in ActivePlugins
    /\ \/ \E proof \in Proof : CallVerify(p, proof)
       \/ \E out \in ProvedRole : CallCheck(p, out)
    /\ UNCHANGED lifecycle

\* Its answer is taken, or the error of a connection that broke.
TakenFrom(p) ==
    /\ job[p].at \in {"done", "lost"}
    /\ job' = [job EXCEPT ![p] = NoJob]
    /\ UNCHANGED <<lifecycle, roles>>

ServerNext ==
    \/ Boot \/ Administer
    \/ \E p \in Instance : PluginWorks(p) \/ AskedOf(p) \/ TakenFrom(p)

\* What a call of a plugin can be.
Job ==
    {NoJob, Lost, Refused}
      \cup [at : {"find"}, proof : Proof]
      \cup [at : {"check"}, want : ProvedRole]
      \cup [at : {"verify"}, sound : BOOLEAN, output : ProvedRole]
      \cup [at : {"done"}, ok : {TRUE}, output : ProvedRole]

IsConfig(c) == DOMAIN c \subseteq Instance /\ \A p \in DOMAIN c : c[p] \in Table \cup {Broken}

ServerTypeOK ==
    /\ server \in {"down", "loading", "up"}
    /\ file \in Unreadable \cup Written
    /\ IsConfig(cfg)
    /\ DOMAIN loaded \subseteq DOMAIN cfg
    /\ roles \in [Instance -> Table \cup {<< >>}]
    /\ job \in [Instance -> Job]

\* Until the server is up, a plugin has the table of the configuration or
\* none; from then on, every plugin configured has a table.  Only the plugins
\* of a server that is up work on calls.
ServerInv ==
    /\ ServerTypeOK
    /\ server = "down" => DOMAIN loaded = {}
    /\ \A p \in DOMAIN loaded : loaded[p] = (cfg[p] # Broken)
    /\ server # "up" =>
         \A p \in Instance : roles[p] = IF p \in DOMAIN loaded /\ loaded[p] THEN cfg[p] ELSE << >>
    /\ ServesAllOrNothing
    /\ \A p \in Instance : job[p] \in {NoJob, Lost} \/ p \in ActivePlugins

\* It holds in the first state.
LEMMA ServerInitInv == ServerInit => ServerInv
  BY DEF ServerInit, PreimageInit, ServerInv, ServerTypeOK, IsConfig, ServesAllOrNothing, Job

\* What a call is at each point.
LEMMA JobKinds ==
    ASSUME NEW j \in Job
    PROVE  /\ j.at = "find" => j \in [at : {"find"}, proof : Proof]
           /\ j.at = "check" => j \in [at : {"check"}, want : ProvedRole]
           /\ j.at = "verify" => j \in [at : {"verify"}, sound : BOOLEAN, output : ProvedRole]
           /\ j.at = "done" => j = Refused \/ j \in [at : {"done"}, ok : {TRUE}, output : ProvedRole]
           /\ j.at = "lost" => j = Lost
  <1>1. NoJob.at = "idle" /\ Lost.at = "lost" /\ Refused.at = "done"
    BY DEF NoJob, Lost, Refused
  <1>2. CASE j \in [at : {"find"}, proof : Proof]
    BY <1>2
  <1>3. CASE j \in [at : {"check"}, want : ProvedRole]
    BY <1>3
  <1>4. CASE j \in [at : {"verify"}, sound : BOOLEAN, output : ProvedRole]
    BY <1>4
  <1>5. CASE j \in [at : {"done"}, ok : {TRUE}, output : ProvedRole]
    BY <1>5
  <1>6. CASE j \in {NoJob, Lost, Refused}
    BY <1>1, <1>6
  <1>7. QED
    BY <1>2, <1>3, <1>4, <1>5, <1>6 DEF Job

\* A table gives hashes names of roles.
LEMMA TablesAreTables ==
    ASSUME ServerInv, NEW p \in Instance, NEW h \in DOMAIN roles[p]
    PROVE  h \in Hash /\ roles[p][h] \in RoleName
  BY TableAssumption DEF ServerInv, ServerTypeOK

\* Reading a configuration keeps it: the default one is one.
LEMMA ReadKeeps == ServerInv /\ ReadConfiguration => ServerInv'
  <1> SUFFICES ASSUME ServerInv, ReadConfiguration PROVE ServerInv'
    OBVIOUS
  <1>1. IsConfig(cfg')
    BY ConfigAssumption DEF ServerInv, ServerTypeOK, ReadConfiguration, IsConfig, Unreadable, Written
  <1>2. QED
    BY <1>1
    DEF ServerInv, ServerTypeOK, ReadConfiguration, ServesAllOrNothing, preimageVars, ActivePlugins

\* So does a plugin's turn.
LEMMA InitializeKeeps ==
    ASSUME ServerInv, NEW p \in Instance, InitializePlugin(p)
    PROVE  ServerInv'
  <1> USE DEF ServerInv, ServerTypeOK, InitializePlugin
  <1>1. /\ DOMAIN loaded' = DOMAIN loaded \cup {p} /\ loaded'[p] = (cfg[p] # Broken)
        /\ \A q \in DOMAIN loaded : loaded'[q] = loaded[q]
    OBVIOUS
  <1>2. roles' \in [Instance -> Table \cup {<< >>}]
    BY DEF Initialize, IsConfig
  <1>3. \A q \in Instance : roles'[q] = IF q \in DOMAIN loaded' /\ loaded'[q] THEN cfg[q] ELSE << >>
    BY <1>1 DEF Initialize
  <1>4. QED
    BY <1>1, <1>2, <1>3 DEF ServesAllOrNothing, ActivePlugins

\* And the end of the start, in either way.
LEMMA BootEndsKeep == ServerInv /\ (GiveUp \/ StartServing) => ServerInv'
  <1> USE DEF ServerInv, ServerTypeOK, ServesAllOrNothing, ActivePlugins
  <1>1. ASSUME ServerInv, GiveUp PROVE ServerInv'
    BY <1>1 DEF GiveUp, AllTried, IsConfig
  <1>2. ASSUME ServerInv, StartServing PROVE ServerInv'
    BY <1>2 DEF StartServing, AllTried, preimageVars, IsConfig
  <1>3. QED
    BY <1>1, <1>2

\* What administrators do.
LEMMA AdministerKeeps == ServerInv /\ Administer => ServerInv'
  <1> USE DEF ServerInv, ServerTypeOK, ServesAllOrNothing, ActivePlugins
  <1>1. ASSUME ServerInv, NEW f \in Unreadable \cup Written, WriteConfig(f) PROVE ServerInv'
    BY <1>1 DEF WriteConfig, preimageVars
  <1>2. ASSUME ServerInv, NEW p \in Instance, NEW t \in Table, PostRoles(p, t) PROVE ServerInv'
    BY <1>2 DEF PostRoles, SetRoles, lifecycle, IsConfig
  <1>3. ASSUME ServerInv, ServerEnds PROVE ServerInv'
    BY <1>3 DEF ServerEnds, IsConfig, Job
  <1>4. QED
    BY <1>1, <1>2, <1>3 DEF Administer

\* A call that moves on is still a call.
LEMMA JobMoves ==
    ASSUME ServerInv, NEW p \in ActivePlugins, NEW j \in Job,
           job' = [job EXCEPT ![p] = j], UNCHANGED <<lifecycle, roles>>
    PROVE  ServerInv'
  BY DEF ServerInv, ServerTypeOK, ServesAllOrNothing, ActivePlugins, lifecycle, IsConfig

\* What a plugin makes of a call.
LEMMA WorkKeeps ==
    ASSUME ServerInv, NEW p \in Instance, PluginWorks(p)
    PROVE  ServerInv'
  <1>1. /\ UNCHANGED <<lifecycle, roles>>
        /\ job[p] \in Job
    BY DEF PluginWorks, Work, FindRole, VerifyProgram, CheckOutputValidity, ServerInv, ServerTypeOK
  <1>2. p \in ActivePlugins
    BY DEF PluginWorks, Work, FindRole, VerifyProgram, CheckOutputValidity, ServerInv, NoJob, Lost
  <1>3. CASE FindRole(p)
    <2>1. job[p].proof \in Proof
      BY <1>1, <1>3, JobKinds DEF FindRole
    <2>2. CASE job[p].proof.hash \in DOMAIN roles[p]
      <3> DEFINE j == [at |-> "verify", sound |-> job[p].proof.sound,
                       output |-> [provedHash |-> job[p].proof.hash,
                                   role |-> roles[p][job[p].proof.hash]]]
      <3>1. j \in Job
        BY <2>1, <2>2, TablesAreTables DEF Job, Proof, ProvedRole
      <3>2. job' = [job EXCEPT ![p] = j]
        BY <1>3, <2>2 DEF FindRole
      <3>3. QED
        BY <1>1, <1>2, <3>1, <3>2, JobMoves
    <2>3. CASE job[p].proof.hash \notin DOMAIN roles[p]
      <3>1. job' = [job EXCEPT ![p] = Refused] /\ Refused \in Job
        BY <1>3, <2>3 DEF FindRole, Job
      <3>2. QED
        BY <1>1, <1>2, <3>1, JobMoves
    <2>4. QED
      BY <2>2, <2>3
  <1>4. CASE VerifyProgram(p)
    <2>1. job[p].output \in ProvedRole
      BY <1>1, <1>4, JobKinds DEF VerifyProgram
    <2>2. Provides(job[p].output) \in Job /\ Refused \in Job
      BY <2>1 DEF Provides, Job
    <2>3. QED
      BY <1>1, <1>2, <1>4, <2>2, JobMoves DEF VerifyProgram
  <1>5. CASE CheckOutputValidity(p)
    <2>1. job[p].want \in ProvedRole
      BY <1>1, <1>5, JobKinds DEF CheckOutputValidity
    <2>2. Provides(job[p].want) \in Job /\ Refused \in Job
      BY <2>1 DEF Provides, Job
    <2>3. QED
      BY <1>1, <1>2, <1>5, <2>2, JobMoves DEF CheckOutputValidity
  <1>6. QED
    BY <1>3, <1>4, <1>5 DEF PluginWorks, Work

\* Every step of the server keeps the invariant.
LEMMA ServerNextKeeps == ServerInv /\ [ServerNext]_serverVars => ServerInv'
  <1> SUFFICES ASSUME ServerInv, [ServerNext]_serverVars PROVE ServerInv'
    OBVIOUS
  <1>1. CASE UNCHANGED serverVars
    BY <1>1 DEF serverVars, lifecycle, preimageVars, ServerInv, ServerTypeOK, ServesAllOrNothing,
                ActivePlugins, IsConfig
  <1>2. CASE Boot
    BY <1>2, ReadKeeps, InitializeKeeps, BootEndsKeep DEF Boot
  <1>3. CASE Administer
    BY <1>3, AdministerKeeps
  <1>4. ASSUME NEW p \in Instance, AskedOf(p) PROVE ServerInv'
    <2>1. PICK j \in Job : job' = [job EXCEPT ![p] = j]
      BY <1>4 DEF AskedOf, CallVerify, CallCheck, Job
    <2>2. QED
      BY <1>4, <2>1, JobMoves DEF AskedOf, CallVerify, CallCheck
  <1>5. ASSUME NEW p \in Instance, TakenFrom(p) PROVE ServerInv'
    BY <1>5 DEF TakenFrom, lifecycle, ServerInv, ServerTypeOK, ServesAllOrNothing, ActivePlugins,
                IsConfig, Job
  <1>6. QED
    BY <1>1, <1>2, <1>3, <1>4, <1>5, WorkKeeps DEF ServerNext

-----------------------------------------------------------------------------
(* Every host *)

\* The call under way is about a claim, or about the outputs of the response
\* at hand, and its answers are of the right kind.
CallOK ==
    /\ kind \in {"none", "request", "check"}
    /\ kind = "none" => DOMAIN todo = {} /\ DOMAIN got = {} /\ ~ fails
    /\ kind = "request" =>
         ~ asked /\ todo \in PMap(Proof) /\ got \in PMap(Output \cup {Left})
    /\ kind = "check" =>
         /\ asked /\ got \in PMap(BOOLEAN)
         /\ DOMAIN todo = DOMAIN ExtractValidityCheck(auth) /\ DOMAIN todo # {}
         /\ \A p \in DOMAIN todo : todo[p] = ExtractValidityCheck(auth)[p].output
         /\ \A p \in DOMAIN got : got[p] => todo[p] \in ProvedRole
    /\ DOMAIN got \cup sent \subseteq DOMAIN todo

\* A plugin is sent to while it works on the call, or its answer waits, or
\* its connection broke; with the plugins in memory the server stays up, and
\* the proxy has no failure of its own.
SentOK ==
    /\ host \in {"proxy", "memory"}
    /\ sent \cap DOMAIN got = {}
    /\ sent = {p \in Instance : job[p] # NoJob}
    /\ host = "memory" /\ kind # "none" => server = "up"
    /\ host = "proxy" => fails = FALSE
    /\ \A p \in Instance : job[p] = Lost => host = "proxy"

\* What a plugin works on is what the call asks; what it found was admitted,
\* and what it refuses or will never answer has lapsed, during the call.
JobOK(p) ==
    /\ job[p].at = "find" => kind = "request" /\ job[p].proof = todo[p]
    /\ job[p].at = "check" => kind = "check" /\ job[p].want = todo[p]
    /\ job[p].at = "verify" =>
         kind = "request" /\ <<p, job[p].output>> \in seen /\ (~ job[p].sound => p \in lapsed)
    /\ job[p].at = "done" =>
         IF job[p].ok THEN <<p, job[p].output>> \in seen /\ (kind = "check" => job[p].output = todo[p])
         ELSE p \in lapsed
    /\ job[p].at = "lost" => p \in lapsed

\* The history of the call has its present.
HistoryOK ==
    /\ kind # "none" => AdmittedPairs \subseteq seen
    /\ Lapses \subseteq lapsed

\* A positive answer to the proxy is about an output that was admitted.
AnswersOK ==
    host = "proxy" => \A p \in DOMAIN got :
        /\ kind = "request" /\ got[p] # Left => <<p, got[p]>> \in seen
        /\ kind = "check" /\ got[p] => <<p, todo[p]>> \in seen

HostInv ==
    ServerInv /\ CallOK /\ SentOK /\ (\A p \in Instance : JobOK(p)) /\ HistoryOK /\ AnswersOK

\* What is admitted is an output of a plugin that serves.
LEMMA AdmittedIsServed ==
    ASSUME ServerInv, NEW x \in AdmittedPairs
    PROVE  x[1] \in ActivePlugins /\ x[2] \in ProvedRole
  <1>1. PICK p \in ActivePlugins :
           \E h \in DOMAIN roles[p] : x = <<p, [provedHash |-> h, role |-> roles[p][h]]>>
    BY DEF AdmittedPairs
  <1>2. PICK h \in DOMAIN roles[p] : x = <<p, [provedHash |-> h, role |-> roles[p][h]]>>
    BY <1>1
  <1>3. p \in Instance
    BY DEF ActivePlugins, ServerInv, ServerTypeOK, IsConfig
  <1>4. QED
    BY <1>2, <1>3, TablesAreTables DEF ProvedRole

\* What a serving plugin has in its table is admitted.
LEMMA TabledIsAdmitted ==
    ASSUME NEW p \in ActivePlugins, NEW h \in DOMAIN roles[p]
    PROVE  <<p, [provedHash |-> h, role |-> roles[p][h]]>> \in AdmittedPairs
  BY DEF AdmittedPairs

\* And nothing else is.
LEMMA AdmittedIsTabled ==
    ASSUME NEW p, NEW o, <<p, o>> \in AdmittedPairs
    PROVE  o.provedHash \in DOMAIN roles[p] /\ roles[p][o.provedHash] = o.role
  <1>1. PICK q \in ActivePlugins :
           \E h \in DOMAIN roles[q] : <<p, o>> = <<q, [provedHash |-> h, role |-> roles[q][h]]>>
    BY DEF AdmittedPairs
  <1>2. PICK h \in DOMAIN roles[q] : <<p, o>> = <<q, [provedHash |-> h, role |-> roles[q][h]]>>
    BY <1>1
  <1>3. p = q /\ o = [provedHash |-> h, role |-> roles[q][h]]
    BY <1>2
  <1>4. QED
    BY <1>3

\* A plugin that is asked for what it does not admit lapses.
LEMMA CheckLapses ==
    ASSUME kind = "check", NEW p \in DOMAIN todo, <<p, todo[p]>> \notin AdmittedPairs
    PROVE  p \in Lapses
  BY DEF Lapses

\* So does one whose table has no role for the hash, and one that is shown a
\* proof that does not verify.
LEMMA ProofLapses ==
    ASSUME kind = "request", NEW p \in DOMAIN todo,
           \A r \in RoleName :
               todo[p].sound =>
                   <<p, [provedHash |-> todo[p].hash, role |-> r]>> \notin AdmittedPairs
    PROVE  p \in Lapses
  <1> DEFINE claim == ClaimOf([at |-> "find", proof |-> todo[p]])
  <1>1. claim = IF todo[p].sound THEN [provedHash : {todo[p].hash}, role : RoleName] ELSE {}
    BY DEF ClaimOf
  <1>2. ASSUME NEW o \in claim PROVE <<p, o>> \notin AdmittedPairs
    <2>1. todo[p].sound /\ o \in [provedHash : {todo[p].hash}, role : RoleName]
      BY <1>1, <1>2
    <2>2. o = [provedHash |-> todo[p].hash, role |-> o.role] /\ o.role \in RoleName
      BY <2>1
    <2>3. QED
      BY <2>1, <2>2
  <1> HIDE DEF claim
  <1>3. {<<p, o>> : o \in claim} \cap AdmittedPairs = {}
    BY <1>2
  <1>4. QED
    BY <1>3 DEF Lapses, claim

\* And, whatever is asked, one that does not serve.
LEMMA AbsentLapses ==
    ServerInv /\ kind \in {"request", "check"} => DOMAIN todo \ ActivePlugins \subseteq Lapses
  <1> SUFFICES ASSUME ServerInv, kind \in {"request", "check"},
                      NEW p \in DOMAIN todo \ ActivePlugins
               PROVE  p \in Lapses
    OBVIOUS
  <1>1. \A o : <<p, o>> \notin AdmittedPairs
    BY AdmittedIsServed
  <1>2. QED
    BY <1>1, CheckLapses, ProofLapses

\* What is admitted changes with the server's tables only.
LEMMA AdmittedStays == UNCHANGED <<lifecycle, roles>> => AdmittedPairs' = AdmittedPairs
  BY DEF AdmittedPairs, ActivePlugins, lifecycle

LEMMA LapsesStay == UNCHANGED <<lifecycle, roles, todo, kind>> => Lapses' = Lapses
  BY AdmittedStays DEF Lapses, lifecycle

\* The parts of a map of answers, after one more.
LEMMA HearsParts ==
    ASSUME NEW p, NEW answer, Hears(p, answer)
    PROVE  /\ DOMAIN got' = DOMAIN got \cup {p} /\ got'[p] = answer
           /\ \A q \in DOMAIN got \ {p} : got'[q] = got[q]
  BY DEF Hears

-----------------------------------------------------------------------------
(* Every step of a host *)

\* Before any call.
LEMMA HostInitInv == HostInit => HostInv
  <1> SUFFICES ASSUME HostInit PROVE HostInv
    OBVIOUS
  <1>1. ServerInv
    BY ServerInitInv DEF HostInit
  <1>2. CallOK /\ HistoryOK /\ AnswersOK
    BY DEF HostInit, CallOK, HistoryOK, AnswersOK, Lapses
  <1>3. SentOK /\ \A p \in Instance : JobOK(p)
    BY HostAssumption DEF HostInit, ServerInit, PreimageInit, SentOK, JobOK, NoJob, Lost
  <1>4. QED
    BY <1>1, <1>2, <1>3 DEF HostInv

\* Whatever is sent is a proof or an output that decodes.
LEMMA SentIsAsked ==
    ASSUME HostInv, NEW p \in Plugin, Send(p)
    PROVE  AskedOf(p) /\ p \in Instance
  <1>1. p \in Instance
    BY DEF Send, AskPlugin, ActivePlugins, HostInv, ServerInv, ServerTypeOK, IsConfig
  <1>2. kind = "request" => todo[p] \in Proof
    BY PMapParts DEF HostInv, CallOK, Send, Turn
  <1>3. QED
    BY <1>1, <1>2 DEF Send, AskPlugin, AskedOf

\* A host's steps are steps of the server, or none.
LEMMA HostIsServer == HostInv /\ [HostNext]_hostVars => [ServerNext]_serverVars
  <1> SUFFICES ASSUME HostInv, [HostNext]_hostVars PROVE [ServerNext]_serverVars
    OBVIOUS
  <1>1. CASE UNCHANGED hostVars
    BY <1>1 DEF hostVars
  <1>2. ASSUME NEW c \in Claims, CallRequestAuth(c) PROVE UNCHANGED serverVars
    BY <1>2 DEF CallRequestAuth, Open
  <1>3. ASSUME CallCheckAuth PROVE UNCHANGED serverVars
    BY <1>3 DEF CallCheckAuth, Open
  <1>4. ASSUME Map \/ Reject PROVE UNCHANGED serverVars
    BY <1>4 DEF Map, Reject
  <1>5. ASSUME NEW p \in Plugin, Send(p) PROVE ServerNext
    BY <1>5, SentIsAsked DEF ServerNext
  <1>6. ASSUME NEW p \in Plugin, CannotSend(p) PROVE UNCHANGED serverVars
    BY <1>6 DEF CannotSend
  <1>7. ASSUME NEW p \in Instance, Receive(p) PROVE ServerNext
    BY <1>7 DEF Receive, TakenFrom, ServerNext
  <1>8. ASSUME ServerStep PROVE ServerNext
    BY <1>8 DEF ServerStep, ServerNext
  <1>9. QED
    BY <1>1, <1>2, <1>3, <1>4, <1>5, <1>6, <1>7, <1>8 DEF HostNext, HostStep

\* A call is opened on a claim, or on the outputs at hand.
LEMMA OpenKeeps ==
    ASSUME HostInv, ServerInv',
           (\E c \in Claims : CallRequestAuth(c)) \/ CallCheckAuth
    PROVE  HostInv'
  <1>1. PICK k \in {"request", "check"} : \E what : Open(k, what)
    BY DEF CallRequestAuth, CallCheckAuth
  <1>2. /\ kind = "none" /\ sent = {} /\ sent' = {} /\ DOMAIN got' = {}
        /\ UNCHANGED <<vars, lifecycle, roles, job, host>> /\ (host = "memory" => server = "up")
        /\ seen' = AdmittedPairs /\ lapsed' = Lapses' /\ fails' = FALSE
    BY <1>1 DEF Open, serverVars, preimageVars, HostInv, CallOK
  <1>3. CallOK'
    <2>1. CASE CallCheckAuth
      <3>1. /\ kind' = "check" /\ asked' /\ auth' = auth /\ got' = << >>
            /\ todo' = [p \in DOMAIN ExtractValidityCheck(auth) |-> ExtractValidityCheck(auth)[p].output]
            /\ DOMAIN ExtractValidityCheck(auth) # {}
        BY <2>1 DEF CallCheckAuth, Open, vars
      <3>2. ExtractValidityCheck(auth)' = ExtractValidityCheck(auth)
        BY <3>1 DEF ExtractValidityCheck
      <3>3. QED
        BY <1>2, <3>1, <3>2, EmptyPMap DEF CallOK
    <2>2. ASSUME NEW c \in Claims, CallRequestAuth(c) PROVE CallOK'
      <3>1. /\ kind' = "request" /\ ~ asked' /\ todo' = c /\ got' = << >>
        BY <2>2 DEF CallRequestAuth, Open, vars
      <3>2. QED
        BY <1>2, <3>1, HostAssumption, EmptyPMap DEF CallOK
    <2>3. QED
      BY <2>1, <2>2
  <1>4. SentOK'
    BY <1>2 DEF HostInv, SentOK, lifecycle
  <1>5. \A p \in Instance : JobOK(p)'
    <2>1. \A p \in Instance : job'[p] = NoJob
      BY <1>2 DEF HostInv, SentOK
    <2>2. QED
      BY <2>1 DEF JobOK, NoJob
  <1>6. HistoryOK' /\ AnswersOK'
    BY <1>2, AdmittedStays DEF HistoryOK, AnswersOK
  <1>7. QED
    BY <1>3, <1>4, <1>5, <1>6 DEF HostInv

\* A plugin is sent to.
LEMMA SendKeeps ==
    ASSUME HostInv, ServerInv', NEW p \in Plugin, Send(p)
    PROVE  HostInv'
  <1>1. /\ kind \in {"request", "check"} /\ p \in DOMAIN todo \ (DOMAIN got \cup sent)
        /\ sent' = sent \cup {p} /\ p \in Instance /\ p \in ActivePlugins
        /\ UNCHANGED <<vars, lifecycle, roles, host, kind, todo, got, fails, history>>
    BY SentIsAsked DEF Send, Turn, HostInv, CallOK, AskedOf, CallVerify, CallCheck
  <1>2. job \in [Instance -> Job]
    BY DEF HostInv, ServerInv, ServerTypeOK
  <1>3. PICK j : /\ job' = [job EXCEPT ![p] = j] /\ j # NoJob /\ j # Lost
                 /\ \/ kind = "request" /\ j = [at |-> "find", proof |-> todo[p]]
                    \/ kind = "check" /\ j = [at |-> "check", want |-> todo[p]]
    <2>1. CASE kind = "request"
      BY <1>1, <2>1 DEF Send, AskPlugin, CallVerify, NoJob, Lost
    <2>2. CASE kind = "check"
      BY <1>1, <2>2 DEF Send, AskPlugin, CallCheck, NoJob, Lost
    <2>3. QED
      BY <1>1, <2>1, <2>2
  <1>4. CallOK'
    BY <1>1 DEF HostInv, CallOK, vars, ExtractValidityCheck
  <1>5. SentOK'
    BY <1>1, <1>2, <1>3 DEF HostInv, SentOK, lifecycle
  <1>6. ASSUME NEW q \in Instance PROVE JobOK(q)'
    <2>1. CASE q = p
      <3>1. job'[q] = j
        BY <1>2, <1>3, <2>1
      <3>2. QED
        BY <1>1, <1>3, <2>1, <3>1 DEF JobOK
    <2>2. CASE q # p
      BY <1>1, <1>2, <1>3, <2>2 DEF HostInv, JobOK, history
    <2>3. QED
      BY <2>1, <2>2
  <1>7. HistoryOK' /\ AnswersOK'
    BY <1>1, AdmittedStays, LapsesStay DEF HostInv, HistoryOK, AnswersOK, history
  <1>8. QED
    BY <1>4, <1>5, <1>6, <1>7 DEF HostInv

\* What an answer must be for the invariant to stay.
GoodAnswer(p, answer) ==
    /\ kind = "request" => answer \in Output \cup {Left}
    /\ kind = "check" => answer \in BOOLEAN /\ (answer => todo[p] \in ProvedRole)
    /\ host = "proxy" /\ kind = "request" /\ answer # Left => <<p, answer>> \in seen
    /\ host = "proxy" /\ kind = "check" /\ answer => <<p, todo[p]>> \in seen

\* An answer is heard.
LEMMA HearsKeeps ==
    ASSUME HostInv, NEW p \in Plugin, NEW answer, p \in DOMAIN todo \ DOMAIN got,
           kind \in {"request", "check"}, Hears(p, answer), GoodAnswer(p, answer),
           UNCHANGED <<vars, lifecycle, roles, host, kind, todo, history>>,
           sent' \subseteq sent \ {p}
    PROVE  CallOK' /\ HistoryOK' /\ AnswersOK'
  <1>1. /\ DOMAIN got' = DOMAIN got \cup {p} /\ got'[p] = answer
        /\ \A q \in DOMAIN got \ {p} : got'[q] = got[q]
    BY HearsParts
  <1>2. kind = "request" => got' \in PMap(Output \cup {Left})
    BY PMapExtend DEF Hears, GoodAnswer, HostInv, CallOK
  <1>3. kind = "check" => got' \in PMap(BOOLEAN)
    BY PMapExtend DEF Hears, GoodAnswer, HostInv, CallOK
  <1>4. CallOK'
    <2>1. kind = "check" => \A q \in DOMAIN got' : got'[q] => todo[q] \in ProvedRole
      BY <1>1 DEF HostInv, CallOK, GoodAnswer
    <2>2. QED
      BY <1>1, <1>2, <1>3, <2>1 DEF HostInv, CallOK, vars, ExtractValidityCheck
  <1>5. HistoryOK'
    BY AdmittedStays, LapsesStay DEF HostInv, HistoryOK, history
  <1>6. AnswersOK'
    BY <1>1 DEF HostInv, AnswersOK, GoodAnswer, history
  <1>7. QED
    BY <1>4, <1>5, <1>6

\* A plugin that cannot be asked gets its answer at once.
LEMMA CannotSendKeeps ==
    ASSUME HostInv, ServerInv', NEW p \in Plugin, CannotSend(p)
    PROVE  HostInv'
  <1>1. /\ kind \in {"request", "check"} /\ p \in DOMAIN todo \ (DOMAIN got \cup sent)
        /\ Hears(p, No)
        /\ UNCHANGED <<vars, serverVars, lifecycle, roles, job, host, kind, todo, sent, history>>
    BY DEF CannotSend, Turn, HostInv, CallOK, serverVars, preimageVars
  <1>2. GoodAnswer(p, No)
    BY <1>1 DEF GoodAnswer, No
  <1>3. CallOK' /\ HistoryOK' /\ AnswersOK'
    BY <1>1, <1>2, HearsKeeps
  <1>4. SentOK'
    <2>1. DOMAIN got' = DOMAIN got \cup {p}
      BY <1>1, HearsParts
    <2>2. host' = "proxy" => fails' = FALSE
      BY <1>1 DEF CannotSend, HostInv, SentOK
    <2>3. QED
      BY <1>1, <2>1, <2>2 DEF HostInv, SentOK, lifecycle
  <1>5. \A q \in Instance : JobOK(q)'
    BY <1>1 DEF HostInv, JobOK, history
  <1>6. QED
    BY <1>3, <1>4, <1>5 DEF HostInv

\* The answer to a call that is over is about what the call found.
LEMMA AnswerIsGood ==
    ASSUME HostInv, NEW p \in Instance, p \in sent, job[p].at \in {"done", "lost"}
    PROVE  GoodAnswer(p, Answer(p)) /\ (Answer(p) = No => p \in lapsed)
  <1>1. /\ kind \in {"request", "check"} /\ p \in DOMAIN todo /\ JobOK(p) /\ job[p] \in Job
        /\ host \in {"proxy", "memory"}
    BY DEF HostInv, CallOK, SentOK, ServerInv, ServerTypeOK
  <1>2. ProvedRole \subseteq Output /\ Undefined \in Output /\ Left \notin Output
    BY HostAssumption, RoleMapperAssumption
  <1>3. CASE job[p] = Lost
    <2>1. host = "proxy" /\ p \in lapsed
      BY <1>1, <1>3 DEF HostInv, SentOK, JobOK, Lost
    <2>2. Answer(p) = No
      BY <1>3, <2>1 DEF Answer, ProxyAnswer
    <2>3. QED
      BY <2>1, <2>2 DEF GoodAnswer, No
  <1>4. CASE job[p] = Refused
    <2>1. p \in lapsed
      BY <1>1, <1>4 DEF JobOK, Refused
    <2>2. Answer(p) = No
      BY <1>1, <1>4 DEF Answer, ProxyAnswer, MemoryAnswer, HandleVerifyProof, HandleValidateOutput, Refused
    <2>3. QED
      BY <2>1, <2>2 DEF GoodAnswer, No
  <1>5. CASE job[p] \in [at : {"done"}, ok : {TRUE}, output : ProvedRole]
    <2>1. job[p].at = "done" /\ job[p].ok /\ job[p].output \in ProvedRole
      BY <1>5
    <2>2. job[p] # Lost
      BY <2>1 DEF Lost
    <2>3. <<p, job[p].output>> \in seen /\ (kind = "check" => job[p].output = todo[p])
      BY <1>1, <2>1 DEF JobOK
    <2>4. CASE kind = "request"
      <3>1. Answer(p) = IF host = "proxy" THEN job[p].output ELSE Undefined
        BY <1>1, <2>1, <2>2, <2>4 DEF Answer, ProxyAnswer, MemoryAnswer, HandleVerifyProof
      <3>2. QED
        BY <1>2, <2>1, <2>3, <2>4, <3>1 DEF GoodAnswer, No
    <2>5. CASE kind = "check"
      <3>1. Answer(p) = TRUE
        BY <1>1, <2>1, <2>2, <2>5 DEF Answer, ProxyAnswer, MemoryAnswer, HandleValidateOutput
      <3>2. QED
        BY <2>1, <2>3, <2>5, <3>1 DEF GoodAnswer, No
    <2>6. QED
      BY <1>1, <2>4, <2>5
  <1>6. QED
    BY <1>1, <1>3, <1>4, <1>5, JobKinds

\* An answer is taken.
LEMMA ReceiveKeeps ==
    ASSUME HostInv, ServerInv', NEW p \in Instance, Receive(p)
    PROVE  HostInv'
  <1>1. /\ p \in sent /\ job[p].at \in {"done", "lost"} /\ Hears(p, Answer(p))
        /\ sent' = sent \ {p} /\ job' = [job EXCEPT ![p] = NoJob]
        /\ UNCHANGED <<vars, lifecycle, roles, host, kind, todo, fails, history>>
    BY DEF Receive
  <1>2. /\ p \in Plugin /\ p \in DOMAIN todo \ DOMAIN got /\ kind \in {"request", "check"}
        /\ job \in [Instance -> Job]
    BY <1>1, HostAssumption DEF HostInv, CallOK, SentOK, ServerInv, ServerTypeOK
  <1>3. CallOK' /\ HistoryOK' /\ AnswersOK'
    BY <1>1, <1>2, AnswerIsGood, HearsKeeps
  <1>4. SentOK'
    <2>1. sent' \cap DOMAIN got' = {}
      BY <1>1, HearsParts DEF HostInv, SentOK
    <2>2. sent' = {q \in Instance : job'[q] # NoJob}
      BY <1>1, <1>2 DEF HostInv, SentOK
    <2>3. \A q \in Instance : job'[q] = Lost => host' = "proxy"
      BY <1>1, <1>2 DEF HostInv, SentOK, NoJob, Lost
    <2>4. QED
      BY <1>1, <2>1, <2>2, <2>3 DEF HostInv, SentOK, lifecycle
  <1>5. ASSUME NEW q \in Instance PROVE JobOK(q)'
    <2>1. CASE q = p
      BY <1>1, <1>2, <2>1 DEF JobOK, NoJob
    <2>2. CASE q # p
      BY <1>1, <1>2, <2>2 DEF HostInv, JobOK, history
    <2>3. QED
      BY <2>1, <2>2
  <1>6. QED
    BY <1>3, <1>4, <1>5 DEF HostInv

\* The call is over.
LEMMA CallEndKeeps ==
    ASSUME HostInv, ServerInv', Map \/ Reject
    PROVE  HostInv'
  <1>1. /\ DOMAIN got = DOMAIN todo /\ NothingSent
        /\ UNCHANGED <<lifecycle, roles, job, host, history>>
    BY DEF Map, Reject, AllHeard, serverVars, preimageVars
  <1>2. sent = {} /\ sent' = {}
    BY <1>1 DEF HostInv, CallOK, SentOK, NothingSent
  <1>3. CallOK' /\ HistoryOK' /\ AnswersOK'
    BY <1>1 DEF NothingSent, CallOK, HistoryOK, AnswersOK, Lapses
  <1>4. SentOK'
    BY <1>1, <1>2 DEF HostInv, SentOK, NothingSent
  <1>5. \A q \in Instance : JobOK(q)'
    <2>1. \A q \in Instance : job'[q] = NoJob
      BY <1>1, <1>2 DEF HostInv, SentOK
    <2>2. QED
      BY <2>1 DEF JobOK, NoJob
  <1>6. QED
    BY <1>3, <1>4, <1>5 DEF HostInv

\* A call a plugin works on stays in order while the histories grow.
LEMMA JobStays ==
    ASSUME NEW q \in Instance, JobOK(q), job'[q] = job[q], UNCHANGED <<kind, todo>>,
           seen \subseteq seen', lapsed \subseteq lapsed'
    PROVE  JobOK(q)'
  BY DEF JobOK

\* What a plugin finds is admitted as it looks, and what it refuses is not.
LEMMA WorkIsSeen ==
    ASSUME HostInv, NEW p \in Instance, PluginWorks(p), UNCHANGED <<kind, todo>>,
           seen \subseteq seen', lapsed \subseteq lapsed', Lapses' \subseteq lapsed'
    PROVE  JobOK(p)' /\ job'[p] # NoJob /\ job'[p] # Lost /\ job[p] # NoJob
  <1>1. /\ UNCHANGED <<lifecycle, roles>> /\ JobOK(p)
        /\ job \in [Instance -> Job] /\ job[p] \in Job
        /\ job[p].at \in {"find", "verify", "check"}
    BY DEF PluginWorks, Work, FindRole, VerifyProgram, CheckOutputValidity,
           HostInv, ServerInv, ServerTypeOK
  <1>2. p \in ActivePlugins /\ job[p] # NoJob
    BY <1>1 DEF HostInv, ServerInv, NoJob, Lost
  <1>3. /\ p \in DOMAIN todo /\ kind \in {"request", "check"} /\ kind # "none"
    BY <1>2 DEF HostInv, CallOK, SentOK
  <1>4. AdmittedPairs \subseteq seen /\ Lapses \subseteq lapsed' /\ Lapses' = Lapses
    BY <1>1, <1>3, LapsesStay DEF HostInv, HistoryOK
  <1>5. CASE FindRole(p)
    <2> DEFINE h == job[p].proof.hash
    <2>1. job[p].proof = todo[p] /\ kind = "request"
      BY <1>1, <1>5 DEF JobOK, FindRole
    <2>2. CASE h \in DOMAIN roles[p]
      <3> DEFINE o == [provedHash |-> h, role |-> roles[p][h]]
      <3>1. <<p, o>> \in seen'
        BY <1>2, <1>4, <2>2, TabledIsAdmitted
      <3>2. ~ todo[p].sound => p \in lapsed'
        BY <1>3, <1>4, <2>1, ProofLapses
      <3>3. job'[p] = [at |-> "verify", sound |-> todo[p].sound, output |-> o]
        BY <1>1, <1>5, <2>1, <2>2 DEF FindRole
      <3> HIDE DEF o
      <3>4. QED
        BY <1>2, <2>1, <3>1, <3>2, <3>3 DEF JobOK, NoJob, Lost
    <2>3. CASE h \notin DOMAIN roles[p]
      <3>1. \A r : <<p, [provedHash |-> h, role |-> r]>> \notin AdmittedPairs
        <4>1. SUFFICES ASSUME NEW r, <<p, [provedHash |-> h, role |-> r]>> \in AdmittedPairs
                       PROVE  FALSE
          OBVIOUS
        <4>2. [provedHash |-> h, role |-> r].provedHash \in DOMAIN roles[p]
          BY <4>1, AdmittedIsTabled
        <4>3. QED
          BY <2>3, <4>2
      <3>2. p \in lapsed'
        BY <1>3, <1>4, <2>1, <3>1, ProofLapses
      <3>3. job'[p] = Refused
        BY <1>1, <1>5, <2>3 DEF FindRole
      <3>4. QED
        BY <1>2, <3>2, <3>3 DEF JobOK, Refused, NoJob, Lost
    <2>4. QED
      BY <2>2, <2>3
  <1>6. CASE VerifyProgram(p)
    <2>1. /\ <<p, job[p].output>> \in seen' /\ kind = "request"
          /\ ~ job[p].sound => p \in lapsed'
      BY <1>1, <1>6 DEF JobOK, VerifyProgram
    <2>2. job'[p] = IF job[p].sound THEN Provides(job[p].output) ELSE Refused
      BY <1>1, <1>6 DEF VerifyProgram
    <2>3. QED
      BY <1>2, <2>1, <2>2 DEF JobOK, Provides, Refused, NoJob, Lost
  <1>7. CASE CheckOutputValidity(p)
    <2>1. job[p].want = todo[p] /\ kind = "check" /\ todo[p] \in ProvedRole
      BY <1>1, <1>7, JobKinds DEF JobOK, CheckOutputValidity
    <2>2. job'[p] = IF StillAdmits(p, todo[p]) THEN Provides(todo[p]) ELSE Refused
      BY <1>1, <1>7, <2>1 DEF CheckOutputValidity
    <2>3. CASE StillAdmits(p, todo[p])
      <3> DEFINE h == todo[p].provedHash
      <3>1. h \in DOMAIN roles[p] /\ todo[p] = [provedHash |-> h, role |-> roles[p][h]]
        BY <2>1, <2>3 DEF StillAdmits, ProvedRole
      <3>2. <<p, todo[p]>> \in seen'
        BY <1>2, <1>4, <3>1, TabledIsAdmitted
      <3>3. QED
        BY <1>2, <2>1, <2>2, <2>3, <3>2 DEF JobOK, Provides, NoJob, Lost
    <2>4. CASE ~ StillAdmits(p, todo[p])
      <3>1. <<p, todo[p]>> \notin AdmittedPairs
        BY <2>4, AdmittedIsTabled DEF StillAdmits
      <3>2. p \in lapsed'
        BY <1>3, <1>4, <2>1, <3>1, CheckLapses
      <3>3. QED
        BY <1>2, <2>2, <2>4, <3>2 DEF JobOK, Refused, NoJob, Lost
    <2>5. QED
      BY <2>3, <2>4
  <1>8. QED
    BY <1>5, <1>6, <1>7 DEF PluginWorks, Work

\* The server moves on under the call.
LEMMA ServerStepKeeps ==
    ASSUME HostInv, ServerInv', ServerStep
    PROVE  HostInv'
  <1>1. /\ UNCHANGED <<vars, host, kind, todo, sent, got, fails>>
        /\ seen \subseteq seen' /\ (kind # "none" => AdmittedPairs' \subseteq seen')
        /\ lapsed \subseteq lapsed' /\ Lapses' \subseteq lapsed'
    BY DEF ServerStep, callVars
  <1>2. job \in [Instance -> Job]
    BY DEF HostInv, ServerInv, ServerTypeOK
  <1>3. CallOK' /\ HistoryOK' /\ AnswersOK'
    <2>1. CallOK'
      BY <1>1 DEF HostInv, CallOK, vars, ExtractValidityCheck
    <2>2. HistoryOK'
      BY <1>1 DEF HistoryOK
    <2>3. AnswersOK'
      BY <1>1 DEF HostInv, AnswersOK
    <2>4. QED
      BY <2>1, <2>2, <2>3
  <1>4. host = "memory" /\ kind # "none" => server' = "up"
    <2>1. host = "memory" /\ kind # "none" => server = "up"
      BY DEF HostInv, SentOK
    <2>2. server = "up" => server' \in {"up", "down"}
      BY DEF ServerStep, Boot, ReadConfiguration, InitializePlugin, GiveUp, StartServing, AllTried,
             Administer, WriteConfig, PostRoles, ServerEnds, PluginWorks, lifecycle
    <2>3. QED
      BY <2>1, <2>2 DEF ServerStep
  <1>5. ASSUME NEW p \in Instance, PluginWorks(p) PROVE SentOK' /\ \A q \in Instance : JobOK(q)'
    <2>1. JobOK(p)' /\ job'[p] # NoJob /\ job'[p] # Lost /\ job[p] # NoJob
      BY <1>1, <1>5, WorkIsSeen
    <2>2. \A q \in Instance \ {p} : job'[q] = job[q]
      BY <1>2, <1>5 DEF PluginWorks, Work, FindRole, VerifyProgram, CheckOutputValidity
    <2>3. \A q \in Instance : JobOK(q)'
      BY <1>1, <2>1, <2>2, JobStays DEF HostInv
    <2>4. SentOK'
      BY <1>1, <1>4, <2>1, <2>2 DEF HostInv, SentOK
    <2>5. QED
      BY <2>3, <2>4
  <1>6. ASSUME ServerEnds PROVE SentOK' /\ \A q \in Instance : JobOK(q)'
    <2>1. \A q \in Instance : job'[q] = IF job[q] = NoJob THEN NoJob ELSE Lost
      BY <1>6 DEF ServerEnds
    <2>2. \A q \in Instance : job[q] # NoJob => q \in lapsed' /\ host = "proxy"
      <3>1. SUFFICES ASSUME NEW q \in Instance, job[q] # NoJob
                     PROVE  q \in lapsed' /\ host = "proxy"
        OBVIOUS
      <3>2. q \in DOMAIN todo /\ kind \in {"request", "check"} /\ host \in {"proxy", "memory"}
        BY <3>1 DEF HostInv, CallOK, SentOK
      <3>3. host = "proxy"
        BY <1>4, <1>6, <3>2 DEF ServerEnds
      <3>4. ServerInv' /\ (kind \in {"request", "check"})' => (DOMAIN todo \ ActivePlugins \subseteq Lapses)'
        BY AbsentLapses, PTL
      <3>5. q \in (DOMAIN todo \ ActivePlugins)'
        BY <1>1, <1>6, <3>2 DEF ServerEnds, ActivePlugins
      <3>6. QED
        BY <1>1, <3>2, <3>3, <3>4, <3>5
    <2>3. SentOK'
      BY <1>1, <1>4, <2>1, <2>2 DEF HostInv, SentOK, NoJob, Lost
    <2>4. ASSUME NEW q \in Instance PROVE JobOK(q)'
      <3>1. job'[q] = NoJob \/ (job'[q] = Lost /\ q \in lapsed')
        BY <2>1, <2>2
      <3>2. QED
        BY <3>1 DEF JobOK, NoJob, Lost
    <2>5. QED
      BY <2>3, <2>4
  <1>7. ASSUME job' = job PROVE SentOK' /\ \A q \in Instance : JobOK(q)'
    BY <1>1, <1>4, <1>7, JobStays DEF HostInv, SentOK
  <1>8. \/ job' = job \/ ServerEnds \/ \E p \in Instance : PluginWorks(p)
    BY DEF ServerStep, Boot, ReadConfiguration, InitializePlugin, GiveUp, StartServing,
           Administer, WriteConfig, PostRoles, SetRoles, preimageVars
  <1>9. QED
    BY <1>3, <1>5, <1>6, <1>7, <1>8 DEF HostInv

\* Every step keeps it.
LEMMA HostNextKeeps == HostInv /\ [HostNext]_hostVars => HostInv'
  <1> SUFFICES ASSUME HostInv, [HostNext]_hostVars PROVE HostInv'
    OBVIOUS
  <1>1. ServerInv'
    BY HostIsServer, ServerNextKeeps DEF HostInv
  <1>2. CASE UNCHANGED hostVars
    <2>1. UNCHANGED <<vars, lifecycle, roles, job, host, kind, todo, sent, got, fails, seen, lapsed>>
      BY <1>2 DEF hostVars, serverVars, preimageVars, callVars, history
    <2>2. CallOK'
      BY <2>1 DEF HostInv, CallOK, vars, ExtractValidityCheck
    <2>3. SentOK' /\ AnswersOK'
      BY <2>1 DEF HostInv, SentOK, AnswersOK, lifecycle
    <2>4. \A p \in Instance : JobOK(p)'
      BY <2>1, JobStays DEF HostInv
    <2>5. HistoryOK'
      BY <2>1, AdmittedStays, LapsesStay DEF HostInv, HistoryOK
    <2>6. QED
      BY <1>1, <2>2, <2>3, <2>4, <2>5 DEF HostInv
  <1>3. CASE HostNext
    BY <1>1, <1>3, OpenKeeps, SendKeeps, CannotSendKeeps, ReceiveKeeps, CallEndKeeps, ServerStepKeeps
    DEF HostNext, HostStep
  <1>4. QED
    BY <1>2, <1>3

\* The invariant of the hosts and of the server they ask.
THEOREM HostInductive == HostSpec => []HostInv
  BY HostInitInv, HostNextKeeps, PTL DEF HostSpec

-----------------------------------------------------------------------------
(* The server keeps the promise of its plugins *)

\* What the promise sees of a call.
CallNow == [p \in Instance |-> PromisedCall(p, job[p])]

\* A call that is not under way is none.
LEMMA NoCall == ASSUME NEW p PROVE PromisedCall(p, NoJob) = Promise!Idle /\ PromisedCall(p, Lost) = Promise!Idle
  BY DEF PromisedCall, NoJob, Lost, Promise!Idle

\* One that has not looked is undecided.
LEMMA CallAsked ==
    ASSUME NEW p, NEW j, j.at \in {"find", "check"}
    PROVE  PromisedCall(p, j) = Promise!Asked({p} \X ClaimOf(j))
  BY DEF PromisedCall, Promise!Asked

\* One that has looked is decided.
LEMMA CallAdmits ==
    ASSUME NEW p, NEW j, (j.at = "verify" /\ j.sound) \/ (j.at = "done" /\ j.ok)
    PROVE  PromisedCall(p, j) = Promise!Admits(<<p, j.output>>)
  BY DEF PromisedCall, Promise!Admits

LEMMA CallRefuses ==
    ASSUME NEW p, NEW j, (j.at = "verify" /\ ~ j.sound) \/ (j.at = "done" /\ ~ j.ok)
    PROVE  PromisedCall(p, j) = Promise!Refuses
  BY DEF PromisedCall, Promise!Refuses

\* A call that moves on moves in the promise.
LEMMA CallMoves ==
    ASSUME ServerInv, NEW p \in Instance, NEW j, job' = [job EXCEPT ![p] = j]
    PROVE  CallNow' = [CallNow EXCEPT ![p] = PromisedCall(p, j)]
  BY DEF ServerInv, ServerTypeOK, CallNow

\* The tables' outputs are outputs.
LEMMA TablesTyped == ServerInv => TableOutputs \in SUBSET (Instance \X ProvedRole)
  <1> SUFFICES ASSUME ServerInv, NEW x \in TableOutputs PROVE x \in Instance \X ProvedRole
    OBVIOUS
  <1>1. PICK p \in Instance :
           \E h \in DOMAIN roles[p] : x = <<p, [provedHash |-> h, role |-> roles[p][h]]>>
    BY DEF TableOutputs
  <1>2. QED
    BY <1>1, TablesAreTables DEF ProvedRole

\* What a call may claim is an output.
LEMMA ClaimsTyped ==
    ASSUME NEW j, \/ j \in [at : {"find"}, proof : Proof]
                  \/ j \in [at : {"check"}, want : ProvedRole]
    PROVE  ClaimOf(j) \in SUBSET ProvedRole
  <1>1. CASE j \in [at : {"find"}, proof : Proof]
    BY <1>1 DEF ClaimOf, Proof, ProvedRole
  <1>2. CASE j \in [at : {"check"}, want : ProvedRole]
    BY <1>2 DEF ClaimOf
  <1>3. QED
    BY <1>1, <1>2

\* Membership in what the tables admit.
LEMMA TabledOutputs ==
    ASSUME NEW p \in Instance, NEW o
    PROVE  <<p, o>> \in TableOutputs
             <=> \E h \in DOMAIN roles[p] : o = [provedHash |-> h, role |-> roles[p][h]]
  <1>1. ASSUME <<p, o>> \in TableOutputs
        PROVE  \E h \in DOMAIN roles[p] : o = [provedHash |-> h, role |-> roles[p][h]]
    <2>1. PICK q \in Instance :
             \E h \in DOMAIN roles[q] : <<p, o>> = <<q, [provedHash |-> h, role |-> roles[q][h]]>>
      BY <1>1 DEF TableOutputs
    <2>2. QED
      BY <2>1
  <1>2. ASSUME NEW h \in DOMAIN roles[p], o = [provedHash |-> h, role |-> roles[p][h]]
        PROVE  <<p, o>> \in TableOutputs
    BY <1>2 DEF TableOutputs
  <1>3. QED
    BY <1>1, <1>2

\* The look of a plugin decides its call: it admits what is both claimed and
\* in its table, and refuses when nothing is.
LEMMA LookDecides ==
    ASSUME ServerInv, NEW p \in Instance, job[p].at \in {"find", "check"},
           NEW j, job' = [job EXCEPT ![p] = j], roles' = roles,
           \/ \E o \in ClaimOf(job[p]) :
                <<p, o>> \in TableOutputs /\ PromisedCall(p, j) = Promise!Admits(<<p, o>>)
           \/ /\ \A o \in ClaimOf(job[p]) : <<p, o>> \notin TableOutputs
              /\ PromisedCall(p, j) = Promise!Refuses
    PROVE  Promise!Decide(p)
  <1> DEFINE fit == ({p} \X ClaimOf(job[p])) \cap TableOutputs
  <1>1. CallNow[p] = Promise!Asked({p} \X ClaimOf(job[p]))
    BY CallAsked DEF CallNow
  <1>2. CallNow' = [CallNow EXCEPT ![p] = PromisedCall(p, j)]
    BY CallMoves
  <1> TableOutputs' = TableOutputs
    BY DEF TableOutputs
  <1>3. \/ fit = {} /\ PromisedCall(p, j) = Promise!Refuses
        \/ fit # {} /\ \E x \in fit : PromisedCall(p, j) = Promise!Admits(x)
    <2>1. ASSUME NEW o \in ClaimOf(job[p]), <<p, o>> \in TableOutputs PROVE <<p, o>> \in fit
      BY <2>1
    <2>2. ASSUME \A o \in ClaimOf(job[p]) : <<p, o>> \notin TableOutputs PROVE fit = {}
      BY <2>2
    <2> HIDE DEF fit
    <2>3. QED
      BY <2>1, <2>2
  <1> HIDE DEF fit
  <1>4. /\ CallNow[p].st = "asked" /\ CallNow[p].claim \cap TableOutputs = fit
        /\ TableOutputs' = TableOutputs
        /\ IF fit = {} THEN CallNow' = [CallNow EXCEPT ![p] = Promise!Refuses]
           ELSE \E x \in fit : CallNow' = [CallNow EXCEPT ![p] = Promise!Admits(x)]
    <2>1. CallNow[p].st = "asked" /\ CallNow[p].claim = {p} \X ClaimOf(job[p])
      BY <1>1 DEF Promise!Asked
    <2>2. CallNow[p].claim \cap TableOutputs = fit
      BY <2>1 DEF fit
    <2>3. QED
      BY <1>2, <1>3, <2>1, <2>2
  <1>5. QED
    BY <1>4 DEF Promise!Decide, CallNow

\* What a plugin does with a call is its decision, or no step of the promise.
LEMMA WorkPromised ==
    ASSUME ServerInv, NEW p \in Instance, PluginWorks(p)
    PROVE  Promise!Decide(p) \/ UNCHANGED <<TableOutputs, CallNow>>
  <1>1. /\ UNCHANGED <<lifecycle, roles>> /\ job[p] \in Job
    BY DEF PluginWorks, Work, FindRole, VerifyProgram, CheckOutputValidity, ServerInv, ServerTypeOK
  <1>2. CASE FindRole(p)
    <2> DEFINE h == job[p].proof.hash
    <2>1. job[p] \in [at : {"find"}, proof : Proof]
      BY <1>1, <1>2, JobKinds DEF FindRole
    <2>2. /\ job[p].at \in {"find", "check"}
          /\ ClaimOf(job[p]) =
               IF job[p].proof.sound THEN [provedHash : {h}, role : RoleName] ELSE {}
      BY <2>1 DEF ClaimOf
    <2>3. CASE h \in DOMAIN roles[p]
      <3> DEFINE o == [provedHash |-> h, role |-> roles[p][h]]
                 j == [at |-> "verify", sound |-> job[p].proof.sound, output |-> o]
      <3>1. job' = [job EXCEPT ![p] = j]
        BY <1>2, <2>3 DEF FindRole
      <3>2. CASE job[p].proof.sound
        <4>1. o \in ClaimOf(job[p]) /\ <<p, o>> \in TableOutputs
          BY <2>2, <2>3, <3>2, TablesAreTables, TabledOutputs
        <4>2. PromisedCall(p, j) = Promise!Admits(<<p, o>>)
          BY <3>2, CallAdmits
        <4> HIDE DEF j, o
        <4>3. QED
          BY <1>1, <2>2, <3>1, <4>1, <4>2, LookDecides
      <3>3. CASE ~ job[p].proof.sound
        <4>1. PromisedCall(p, j) = Promise!Refuses
          BY <3>3, CallRefuses
        <4> HIDE DEF j
        <4>2. QED
          BY <1>1, <2>2, <3>1, <3>3, <4>1, LookDecides
      <3>4. QED
        BY <3>2, <3>3
    <2>4. CASE h \notin DOMAIN roles[p]
      <3>1. job' = [job EXCEPT ![p] = Refused] /\ PromisedCall(p, Refused) = Promise!Refuses
        BY <1>2, <2>4, CallRefuses DEF FindRole, Refused
      <3>2. ASSUME NEW o \in ClaimOf(job[p]) PROVE <<p, o>> \notin TableOutputs
        <4>1. o.provedHash = h
          BY <2>2, <3>2
        <4>2. QED
          BY <2>4, <4>1, TabledOutputs
      <3>3. QED
        BY <1>1, <2>2, <3>1, <3>2, LookDecides
    <2>5. QED
      BY <2>3, <2>4
  <1>3. CASE VerifyProgram(p)
    <2>1. job[p] \in [at : {"verify"}, sound : BOOLEAN, output : ProvedRole]
      BY <1>1, <1>3, JobKinds DEF VerifyProgram
    <2> DEFINE j == IF job[p].sound THEN Provides(job[p].output) ELSE Refused
    <2>2. job' = [job EXCEPT ![p] = j]
      BY <1>3 DEF VerifyProgram
    <2>3. PromisedCall(p, j) = PromisedCall(p, job[p])
      <3>1. CASE job[p].sound
        BY <2>1, <3>1, CallAdmits DEF Provides
      <3>2. CASE ~ job[p].sound
        BY <2>1, <3>2, CallRefuses DEF Refused
      <3>3. QED
        BY <3>1, <3>2
    <2> HIDE DEF j
    <2>4. CallNow' = [CallNow EXCEPT ![p] = PromisedCall(p, job[p])]
      BY <2>2, <2>3, CallMoves
    <2>5. CallNow' = CallNow
      BY <2>4 DEF CallNow
    <2>6. QED
      BY <1>1, <2>5 DEF TableOutputs
  <1>4. CASE CheckOutputValidity(p)
    <2> DEFINE o == job[p].want
    <2>1. o \in ProvedRole /\ job[p].at \in {"find", "check"} /\ ClaimOf(job[p]) = {o}
      BY <1>1, <1>4, JobKinds DEF CheckOutputValidity, ClaimOf
    <2>2. StillAdmits(p, o) <=> <<p, o>> \in TableOutputs
      BY <2>1, TabledOutputs DEF StillAdmits, ProvedRole
    <2>3. CASE StillAdmits(p, o)
      <3>1. job' = [job EXCEPT ![p] = Provides(o)]
            /\ PromisedCall(p, Provides(o)) = Promise!Admits(<<p, o>>)
        BY <1>4, <2>3, CallAdmits DEF CheckOutputValidity, Provides
      <3> HIDE DEF o
      <3>2. QED
        BY <1>1, <2>1, <2>2, <2>3, <3>1, LookDecides
    <2>4. CASE ~ StillAdmits(p, o)
      <3>1. job' = [job EXCEPT ![p] = Refused] /\ PromisedCall(p, Refused) = Promise!Refuses
        BY <1>4, <2>4, CallRefuses DEF CheckOutputValidity, Refused
      <3> HIDE DEF o
      <3>2. QED
        BY <1>1, <2>1, <2>2, <2>4, <3>1, LookDecides
    <2>5. QED
      BY <2>3, <2>4
  <1>5. QED
    BY <1>2, <1>3, <1>4 DEF PluginWorks, Work

\* Every step of the server is one of the promise, or none.
LEMMA StepPromised ==
    ServerInv /\ ServerInv' /\ [ServerNext]_serverVars
      => Promise!PromiseNext \/ UNCHANGED <<TableOutputs, CallNow>>
  <1> SUFFICES ASSUME ServerInv, ServerInv', [ServerNext]_serverVars
               PROVE  Promise!PromiseNext \/ UNCHANGED <<TableOutputs, CallNow>>
    OBVIOUS
  <1>1. TableOutputs' \in SUBSET (Instance \X ProvedRole)
    <2>1. ServerInv' => (TableOutputs \in SUBSET (Instance \X ProvedRole))'
      BY TablesTyped, PTL
    <2>2. QED
      BY <2>1
  <1>2. ASSUME job' = job PROVE Promise!PromiseNext
    BY <1>1, <1>2 DEF Promise!PromiseNext, Promise!Change
  <1>3. ASSUME ServerEnds PROVE Promise!PromiseNext
    <2>1. \A p \in Instance : job'[p] \in {NoJob, Lost}
      BY <1>3 DEF ServerEnds
    <2>2. CallNow' = [p \in Instance |-> Promise!Idle]
      BY <2>1, NoCall DEF CallNow
    <2>3. QED
      BY <1>1, <2>2 DEF CallNow, Promise!PromiseNext, Promise!Lose
  <1>4. ASSUME NEW p \in Instance, AskedOf(p) PROVE Promise!PromiseNext
    <2>1. job[p] = NoJob /\ CallNow[p] = Promise!Idle /\ TableOutputs' = TableOutputs
      BY <1>4, NoCall DEF AskedOf, CallVerify, CallCheck, CallNow, TableOutputs
    <2>2. PICK j : /\ job' = [job EXCEPT ![p] = j]
                   /\ j.at \in {"find", "check"}
                   /\ \/ j \in [at : {"find"}, proof : Proof]
                      \/ j \in [at : {"check"}, want : ProvedRole]
      <3>1. ASSUME NEW proof \in Proof, CallVerify(p, proof)
            PROVE  /\ job' = [job EXCEPT ![p] = [at |-> "find", proof |-> proof]]
                   /\ [at |-> "find", proof |-> proof] \in [at : {"find"}, proof : Proof]
        BY <3>1 DEF CallVerify
      <3>2. ASSUME NEW out \in ProvedRole, CallCheck(p, out)
            PROVE  /\ job' = [job EXCEPT ![p] = [at |-> "check", want |-> out]]
                   /\ [at |-> "check", want |-> out] \in [at : {"check"}, want : ProvedRole]
        BY <3>2 DEF CallCheck
      <3>3. QED
        BY <1>4, <3>1, <3>2 DEF AskedOf
    <2>3. {p} \X ClaimOf(j) \in SUBSET (Instance \X ProvedRole)
      BY <2>2, ClaimsTyped
    <2>4. CallNow' = [CallNow EXCEPT ![p] = Promise!Asked({p} \X ClaimOf(j))]
      <3>1. PromisedCall(p, j) = Promise!Asked({p} \X ClaimOf(j))
        BY <2>2, CallAsked
      <3>2. CallNow' = [CallNow EXCEPT ![p] = PromisedCall(p, j)]
        BY <2>2, CallMoves
      <3>3. QED
        BY <3>1, <3>2
    <2>5. Promise!Ask(p)
      BY <2>1, <2>3, <2>4 DEF Promise!Ask, CallNow
    <2>6. QED
      BY <2>5 DEF Promise!PromiseNext
  <1>5. ASSUME NEW p \in Instance, TakenFrom(p)
        PROVE  Promise!PromiseNext \/ UNCHANGED <<TableOutputs, CallNow>>
    <2>1. /\ CallNow' = [CallNow EXCEPT ![p] = Promise!Idle] /\ TableOutputs' = TableOutputs
          /\ job[p] \in Job
      <3>1. job' = [job EXCEPT ![p] = NoJob] /\ roles' = roles
        BY <1>5 DEF TakenFrom
      <3>2. CallNow' = [CallNow EXCEPT ![p] = PromisedCall(p, NoJob)]
        BY <3>1, CallMoves
      <3>3. TableOutputs' = TableOutputs
        BY <3>1 DEF TableOutputs
      <3>4. QED
        BY <3>2, <3>3, NoCall DEF ServerInv, ServerTypeOK
    <2>2. CASE job[p].at = "done"
      <3>1. CallNow[p].st \in {"admits", "refuses"}
        <4>1. job[p].ok \/ ~ job[p].ok
          OBVIOUS
        <4>2. QED
          BY <2>2, <4>1, CallAdmits, CallRefuses DEF CallNow, Promise!Admits, Promise!Refuses
      <3>2. Promise!Return(p)
        BY <2>1, <3>1 DEF Promise!Return, CallNow
      <3>3. QED
        BY <3>2 DEF Promise!PromiseNext
    <2>3. CASE job[p].at = "lost"
      <3>1. CallNow[p] = Promise!Idle
        BY <2>1, <2>3, JobKinds, NoCall DEF CallNow
      <3>2. CallNow' = CallNow
        BY <2>1, <3>1 DEF CallNow
      <3>3. QED
        BY <2>1, <3>2
    <2>4. QED
      BY <1>5, <2>2, <2>3 DEF TakenFrom
  <1>6. ASSUME NEW p \in Instance, PluginWorks(p)
        PROVE  Promise!PromiseNext \/ UNCHANGED <<TableOutputs, CallNow>>
    BY <1>6, WorkPromised DEF Promise!PromiseNext
  <1>7. \/ job' = job \/ ServerEnds
        \/ \E p \in Instance : PluginWorks(p) \/ AskedOf(p) \/ TakenFrom(p)
    BY DEF ServerNext, serverVars, preimageVars, Boot, ReadConfiguration, InitializePlugin, GiveUp,
           StartServing, Administer, WriteConfig, PostRoles, SetRoles
  <1>8. QED
    BY <1>2, <1>3, <1>4, <1>5, <1>6, <1>7

-----------------------------------------------------------------------------
(* What the server promises *)

\* A server that serves has every plugin of its configuration, with a table.
THEOREM ServesAll == HostSpec => []ServesAllOrNothing
  <1>1. HostInv => ServesAllOrNothing
    BY DEF HostInv, ServerInv
  <1>2. QED
    BY <1>1, HostInductive, PTL

\* It begins with the tables of its configuration: what was posted before is
\* forgotten.
THEOREM StartsClean == HostSpec => StartsFromConfig
  <1>1. ASSUME ServerInv, [ServerNext]_serverVars, server # "up", server' = "up"
        PROVE  \A p \in Instance : roles'[p] = IF p \in DOMAIN cfg' THEN cfg'[p] ELSE << >>
    <2>1. StartServing
      BY <1>1 DEF ServerNext, serverVars, lifecycle, preimageVars, Boot, ReadConfiguration,
                  InitializePlugin, GiveUp, Administer, WriteConfig, PostRoles, ActivePlugins,
                  ServerEnds, PluginWorks, AskedOf, TakenFrom
    <2>2. QED
      BY <1>1, <2>1 DEF StartServing, AllTried, preimageVars, ServerInv
  <1>2. HostInv /\ [HostNext]_hostVars =>
          [server # "up" /\ server' = "up" =>
             \A p \in Instance : roles'[p] = IF p \in DOMAIN cfg' THEN cfg'[p] ELSE << >>]_serverVars
    BY <1>1, HostIsServer DEF HostInv
  <1>3. QED
    BY <1>2, HostInductive, PTL DEF HostSpec, StartsFromConfig

\* Each call of a plugin is decided by the table of one instant: the server
\* implements the promise.
THEOREM PromiseHeld == HostSpec => PromiseKept
  <1>1. HostInit => Promise!PromiseInit
    <2> SUFFICES ASSUME HostInit PROVE Promise!PromiseInit
      OBVIOUS
    <2>1. ServerInv /\ \A p \in Instance : job[p] = NoJob
      BY ServerInitInv DEF HostInit, ServerInit, PreimageInit
    <2>2. \A p \in Instance : PromisedCall(p, job[p]) = Promise!Idle
      BY <2>1, NoCall
    <2>3. QED
      BY <2>1, <2>2, TablesTyped DEF Promise!PromiseInit
  <1>2. HostInv /\ HostInv' /\ [HostNext]_hostVars
          => Promise!PromiseNext \/ UNCHANGED <<TableOutputs, CallNow>>
    BY HostIsServer, StepPromised DEF HostInv
  <1>3. UNCHANGED <<TableOutputs, CallNow>>
          => UNCHANGED <<TableOutputs, [p \in Instance |-> PromisedCall(p, job[p])]>>
    BY DEF CallNow
  <1>4. QED
    BY <1>1, <1>2, <1>3, HostInductive, PTL DEF HostSpec, PromiseKept, Promise!PromiseSpec

-----------------------------------------------------------------------------
(* What the application may conclude *)

\* With either host, the life of a response is one of AuthMapper.
THEOREM HostIsMapper == HostSpec => Spec
  <1>1. HostInit => Init
    BY DEF HostInit
  <1>2. ASSUME HostInv, Map PROVE Next
    <2>1. kind \in {"request", "check"}
      BY <1>2 DEF Map, AllHeard, HostInv, CallOK
    <2>2. CASE kind = "request"
      <3>1. RequestStep(got) /\ got \in PMap(Output \cup {Left})
        BY <1>2, <2>2 DEF Map, HostInv, CallOK
      <3>2. QED
        BY <3>1 DEF Next
    <2>3. CASE kind = "check"
      <3>1. CheckStep(got) /\ got \in PMap(BOOLEAN)
        BY <1>2, <2>3 DEF Map, HostInv, CallOK
      <3>2. QED
        BY <3>1 DEF Next
    <2>4. QED
      BY <2>1, <2>2, <2>3
  <1>3. HostInv /\ [HostNext]_hostVars => [Next]_vars
    BY <1>2 DEF HostNext, HostStep, CallRequestAuth, CallCheckAuth, Open, Send, CannotSend, Receive,
                Reject, ServerStep, hostVars
  <1>4. QED
    BY <1>1, <1>3, HostInductive, PTL DEF HostSpec, Spec

\* So what holds of AuthMapper holds with the hosts: types, roles that are
\* backed, and that a response all plugins turned down stays worthless.
THEOREM HostMapperSafe == HostSpec => []TypeOK /\ []RolesAreBacked /\ NoneIsFinal
  BY HostIsMapper, MapperTypes, RolesBacked, NoneFinal, PTL

\* A response that is full has the roles of its login: what no check can
\* confirm, as it does not decode, is all that could be falsy.
THEOREM HostFullKeeps == HostSpec => []FullKeepsRoles
  <1>1. HostInit => RolesInOutputs
    BY DEF HostInit, Init, Unasked, RolesInOutputs, FullKeepsRoles
  <1>2. ASSUME HostInv, RolesInOutputs, Map PROVE RolesInOutputs'
    <2>1. kind \in {"request", "check"}
      BY <1>2 DEF Map, AllHeard, HostInv, CallOK
    <2>2. CASE kind = "request"
      BY <1>2, <2>2, RequestKeepsRoles DEF Map, HostInv, CallOK
    <2>3. CASE kind = "check"
      <3>1. CheckStep(got) /\ got \in PMap(BOOLEAN)
        BY <1>2, <2>3 DEF Map, HostInv, CallOK
      <3>2. ASSUME NEW p \in DOMAIN got, got[p]
            PROVE  ExtractValidityCheck(auth)[p].output \notin Falsy
        BY <1>2, <2>3, <3>2, HostAssumption DEF Map, AllHeard, HostInv, CallOK
      <3>3. QED
        BY <1>2, <3>1, <3>2, CheckKeepsRoles
    <2>4. QED
      BY <2>1, <2>2, <2>3
  <1>3. RolesInOutputs /\ UNCHANGED vars => RolesInOutputs'
    BY DEF vars, RolesInOutputs, FullKeepsRoles
  <1>4. HostInv /\ RolesInOutputs /\ [HostNext]_hostVars => RolesInOutputs'
    BY <1>2, <1>3 DEF HostNext, HostStep, CallRequestAuth, CallCheckAuth, Open, Send, CannotSend,
                      Receive, Reject, ServerStep, hostVars
  <1>5. RolesInOutputs => FullKeepsRoles
    BY DEF RolesInOutputs
  <1>6. QED
    BY <1>1, <1>4, <1>5, HostInductive, PTL DEF HostSpec

\* What the mapper counts as admitted was in the table of its plugin during
\* that very call.
THEOREM AdmittedInTheCall == HostSpec => AcceptedWereAdmitted
  <1>1. ASSUME HostInv, Map, host = "proxy" PROVE accepted' \subseteq seen
    <2>1. AnswersOK /\ kind \in {"request", "check"}
      BY <1>1 DEF Map, AllHeard, HostInv, CallOK
    <2>2. CASE kind = "request"
      <3>1. accepted' = {<<p, got[p]>> : p \in {q \in DOMAIN got : got[q] # Left}}
        BY <1>1, <2>2 DEF Map, RequestStep
      <3>2. QED
        BY <1>1, <2>1, <2>2, <3>1 DEF AnswersOK
    <2>3. CASE kind = "check"
      <3>1. /\ DOMAIN got = DOMAIN todo
            /\ \A p \in DOMAIN todo : todo[p] = ExtractValidityCheck(auth)[p].output
        BY <1>1, <2>3 DEF Map, AllHeard, HostInv, CallOK
      <3>2. accepted' = {<<p, ExtractValidityCheck(auth)[p].output>> : p \in {q \in DOMAIN got : got[q]}}
        BY <1>1, <2>3 DEF Map, CheckStep
      <3>3. QED
        BY <1>1, <2>1, <2>3, <3>1, <3>2 DEF AnswersOK
    <2>4. QED
      BY <2>1, <2>2, <2>3
  <1>2. ASSUME HostInv, Reject, host = "proxy" PROVE ~ asked'
    <2>1. kind = "request" /\ UNCHANGED asked
      BY <1>2 DEF Reject, HostInv, SentOK, vars
    <2>2. QED
      BY <1>2, <2>1 DEF HostInv, CallOK
  <1>3. HostInv /\ [HostNext]_hostVars =>
          [host = "proxy" /\ kind # "none" /\ kind' = "none" /\ asked' => accepted' \subseteq seen]_hostVars
    <2> SUFFICES ASSUME HostInv, HostNext, host = "proxy", kind # "none", kind' = "none", asked'
                 PROVE  accepted' \subseteq seen
      BY DEF hostVars, callVars
    <2>1. CASE Map \/ Reject
      BY <1>1, <1>2, <2>1
    <2>2. CASE \/ CallCheckAuth \/ ServerStep \/ \E c \in Claims : CallRequestAuth(c)
               \/ \E p \in Plugin : Send(p) \/ CannotSend(p) \/ (p \in Instance /\ Receive(p))
      <3>1. kind' = kind \/ kind = "none"
        BY <2>2 DEF CallRequestAuth, CallCheckAuth, Open, Send, CannotSend, Receive, ServerStep,
                    callVars
      <3>2. QED
        BY <3>1
    <2>3. QED
      BY <2>1, <2>2 DEF HostNext, HostStep
  <1>4. QED
    BY <1>3, HostInductive, PTL DEF HostSpec, AcceptedWereAdmitted

\* A plugin counts against a response only when it did not support the claim,
\* or did not serve, at some instant of the call.
THEOREM RefusalsDue == HostSpec => RefusalsHaveCause
  <1> DEFINE Cause == \A p \in DOMAIN got' \ DOMAIN got : got'[p] = No => p \in lapsed
  <1>1. ASSUME HostInv, NEW p \in Plugin, CannotSend(p) PROVE Cause
    <2>1. /\ kind \in {"request", "check"} /\ p \in DOMAIN todo /\ Hears(p, No)
          /\ Unaskable(p) /\ ServerInv /\ Lapses \subseteq lapsed
      BY <1>1 DEF CannotSend, Turn, HostInv, CallOK, HistoryOK
    <2>2. p \in Lapses
      <3>1. CASE p \notin ActivePlugins
        BY <2>1, <3>1, AbsentLapses
      <3>2. CASE kind = "check" /\ todo[p] \notin ProvedRole
        <4>1. <<p, todo[p]>> \notin AdmittedPairs
          BY <2>1, <3>2, AdmittedIsServed
        <4>2. QED
          BY <2>1, <3>2, <4>1, CheckLapses
      <3>3. QED
        BY <2>1, <3>1, <3>2 DEF Unaskable
    <2>3. DOMAIN got' = DOMAIN got \cup {p}
      BY <2>1, HearsParts
    <2>4. QED
      BY <2>1, <2>2, <2>3
  <1>2. ASSUME HostInv, NEW p \in Instance, Receive(p) PROVE Cause
    <2>1. Hears(p, Answer(p)) /\ (Answer(p) = No => p \in lapsed)
      BY <1>2, AnswerIsGood DEF Receive
    <2>2. DOMAIN got' = DOMAIN got \cup {p} /\ got'[p] = Answer(p)
      BY <2>1, HearsParts
    <2>3. QED
      BY <2>1, <2>2
  <1>3. ASSUME got' \in {got, << >>} PROVE Cause
    BY <1>3
  <1> HIDE DEF Cause
  <1>4. HostInv /\ [HostNext]_hostVars => [Cause]_hostVars
    BY <1>1, <1>2, <1>3
    DEF HostNext, HostStep, CallRequestAuth, CallCheckAuth, Open, Send, Map, Reject, NothingSent,
        ServerStep, callVars
  <1>5. QED
    BY <1>4, HostInductive, PTL DEF HostSpec, RefusalsHaveCause, Cause

===============================================================================
