# MinAuth in TLA+

MinAuth lets a web application grant access on zero-knowledge proofs. Plugins verify proofs and say later
whether what was proved still holds; an application turns their answers into roles, JWTs and refresh tokens.
This directory holds TLA+ modules of the system in `src/`, TLC configurations that check them on small
instances, and theorems about them that TLAPS proves for every value of the constants. `PROJECT.json` maps
every definition to the lines it translates and lists the runs, the mutants that show each property can fail,
the hazards of the code and where the code and its documents disagree.

## 1. The system

    headless client ---- /login, /token, /protected ----> API server -- /verifyProof, /validateOutput --> plugin server
      files: jwt, token                                     SQLite table refresh_tokens                     plugins:
    browser page ------- the same, and                      roleMap, mapper, plugin host                      roles, trees,
      tokens, provers    /plugins/<name>/... (proxied)                                                        Ethereum events

| part | state it keeps | operations | hard behaviour |
|---|---|---|---|
| API server (`minauth-demo-server/src/api-server`, `minauth-passport.ts`) | requests in flight, the table `refresh_tokens`; JWTs are held by clients only | `POST /login`, `POST /token`, `GET /protected`, each with a passport strategy in front | every `await` lets other requests in; two requests with one refresh token; crashes between statements; an unreachable plugin server |
| token store (`setup_jwt_passport.ts`) | the SQLite file | store, get, invalidate, each on a connection of its own that creates the table on demand | look-then-create without a lock |
| authentication mapper (`authmapper/`) | none; the response it returns lives in the JWT and in the table | `requestAuth`, `extractValidityCheck`, `checkAuthValidity` | partial failures; a response re-validated many times; truthiness of outputs |
| plugin host proxy (`plugin-server-proxy-host.ts`) | none | one HTTP request per plugin, in sequence; errors per plugin | failures, "no such plugin" and "invalid" are one answer; answers of different instants |
| plugin host in one process (`in-memory-pluginhost.ts`) | the active plugins | the same interface, all plugins at once | one plugin that is missing rejects the call; outputs are lost |
| plugin server (`tools/plugin-server`, `plugin-fp-api.ts`, `pluginruntime.ts`) | configuration, plugins | start, `/verifyProof`, `/validateOutput`, the plugins' own routes | unreadable configurations, one plugin of several that fails; restarts |
| simple preimage plugin | roles by hash, in memory | verify, check, `/admin/roles` | roles replaced while a proof is verified |
| storage of Merkle trees (`treestorage.ts`) | trees in memory and in a file; a root on chain that no start gets to | start, `setLeaf`, `persist` | writes that overlap or are shorter; starts that fail; restarts |
| Merkle membership plugin and prover | none of its own | leaves, recursive proof, verify, check | an `await` between the looks at any two trees, while they change; a verifier that may hang |
| ERC721 time lock plugin and prover | none of its own: they read the events of a contract | verify, check, public inputs | two queries see two different blocks; an `await` of the verifier between them and the output; order of events |
| time lock contract (`ERC721TimeLock.sol`) | lists of locked tokens | `lockToken`, `unlockToken` | removal by swap and pop; stale indices |
| headless client | two files | `login`, `refresh`, `accessProtected` | files truncated and written one after the other; commands overlap or are killed |
| browser client | tokens on the page, the prover, the list of commitments | click, type, poll | answers out of order; polls that overtake each other, or never come |

What makes each part correct, in a sentence each: the API server signs nothing that the plugins did not
admit while it worked on that request, does not resurrect what it deleted, stores before it promises, and
answers; the mapper never grants a role without an admitted output behind it; the table survives its own
creation; a plugin decides a call by its data at one instant of it; a host takes no answer for more than it
was, and every call of it ends; the plugin server serves all of its configuration or nothing; the contract
owes exactly what it holds; the time lock plugin admits a commitment only if a token was locked behind it during
the call, and the Merkle plugin only proved memberships in trees that were current; what reached a file of a
tree stays, and the file can be read again;
the tokens a client keeps belong together.

## 2. Modules

| module | models | checked through |
|---|---|---|
| `PluginToRoleMapper` | the functions of `plugin-to-role-mapper.ts`, as operators | `AuthMapper`, `ApiSessions` |
| `AuthMapper` | the life of one authentication response under any sequence of answers | `PluginHost` |
| `ApiSessions` | the API server with its requests, its table, the proxy and the plugins' data | `MCApiSessions` |
| `ApiPromise` | what clients may rely on: answers, refresh tokens, lifetimes (abstract) | `ApiSessions` implements it, `Clients` builds on it |
| `TokenStore` | the table below the single steps of `ApiSessions`: its creation and the statements | itself |
| `Clients` | the commands with their files and the page with its tokens, over `ApiPromise` | itself |
| `PluginPromise` | what a plugin promises: a call is decided at one instant (abstract) | `PluginServer` implements it |
| `SimplePreimage` | a plugin with a table of roles that is replaced under its calls | `PluginHost` |
| `PluginServer` | configuration, start, service and end of the server, over `SimplePreimage` | `PluginHost` |
| `PluginHost` | either host between the mapper and the server: `AuthMapper` and `PluginServer` composed | `MCPluginHost` |
| `TimeLock` | the promise of a time lock, without lists or events (abstract) | `Erc721TimeLock` implements it |
| `Erc721TimeLock` | the contract, its events, and the tree of commitments the client builds from them | `MCErc721TimeLock` |
| `Erc721Plugin` | proofs, their verification and the checks of their outputs, over `Erc721TimeLock` | `Erc721Page` |
| `Erc721Page` | the page that polls, proves and submits, over `Erc721Plugin` | `MCErc721Page` |
| `TreeStorage` | trees in memory and in files | `MCTreeStorage`, `MemberSpec` |
| `MerkleMemberships` | fetching, proving, verifying and checking memberships, over `TreeStorage` | `MCMerkleMemberships` |
| `PluginToRoleMapperProofs`, `AuthMapperProofs`, `ApiSessionsProofs` (and its promise), `TokenStoreProofs`, `ClientsProofs`, `PluginHostProofs` (and the server, its plugins and their promise), `Erc721Proofs` (contract, plugin and page), `MerkleMembershipsProofs` (and the storage) | theorems | TLAPS |

An `MC` module gives constants their values; a definition with the comment "Mutant:" is a plausible bug in the
definition after it, and no specification uses it.

### PluginToRoleMapper and AuthMapper

A `PMap` of the code is a function whose domain is a set of plugins, an `Either` is an output or `Left`, an
`OutputValidity` is a Boolean, and messages are left out. The operators carry the code's names.
`RequestAuthThrows` is the `TypeError` of `roleMap[pluginName](...)` when the application has no entry for a
plugin. `Falsy` is the set of outputs that JavaScript holds to be false: `CheckAuthValidity` keeps the roles of
a plugin only if its output is truthy (line 290), and the model says so: a confirmed output `0`, `""` or
`false` loses its roles while the status stays "full". In `AuthMapper` every check is about what the last check
returned, as an application may use `IAuthMapper`; the demo server, modelled in `ApiSessions`, re-validates the
stored response each time.

### ApiSessions and ApiPromise

A request is a model value; `pc` tells which `await` it stands at.

| action | code |
|---|---|
| `Login`, `LoginMalformed` | the body reaches `MinAuthBinaryStrategy.authenticate` and decodes, or not |
| `VerifyProof(r, p)` | one request to `/verifyProof` returns, or fails, for plugin `p` |
| `LoginDecide`, `LoginThrows` | `requestAuth` maps the answers; the JWT is signed, the login refused, or nobody catches the rejection and the process dies |
| `StoreAuthResponse`, `LoginSucceeds` | the INSERT; then the answer with both tokens |
| `Token`, `JwtRefused` | passport's JWT strategy lets a `/token` request in, or not |
| `GetAuthResponse` | the SELECT and the checks of its result |
| `ValidateOutput(r, p)` | one request to `/validateOutput` returns, or fails |
| `TokenDecide` | the response is still full and a new JWT is signed, or the token is to be deleted |
| `InvalidateRefreshToken`, `TokenExpelled` | the DELETE; then 401 "output no longer valid" |
| `Protected` | `GET /protected` with an accepted JWT |
| `DatabaseFails` | any of the three functions of the token store throws, and the handler answers 500 |
| `ApiCrashes`, `ApiStarts` | the process ends and is started again: connections and locals are lost, the table and the JWTs are not |
| `PluginServerStops`, `PluginServerStarts`, `ChangeData`, `Tick` | the world outside |

The plugins are reduced to their promise: `valid` is the set of pairs of a plugin and an output that its data
admits now, it changes at any time, and a plugin that is asked answers for the instant it looks; this is what
`PluginPromise` states and the run `PluginHost` checks of a plugin. The keys of a body are in any order, so the
sequence of plugins is any. `/token` checks the JWT and the refresh token apart from each other, so
`Token(r, j, t)` has one of each, of any two logins; it needs a JWT that has not expired, so a client that is
late must log in again. A JWT and a refresh token are named after the request that obtained them. `now` is read
by the code for JWTs only; `began`, `lastValid`, `wasValid` and `wasInvalid` are history variables: no action
reads them in its guard.

`ApiPromise` keeps of this what a client can tell: where a request stands, its answer, whether a refresh token
is unissued, stored or gone, and which JWTs are good. `ImplementsPromise` maps the stages of `ApiSessions` to
its own (`Stage`), the rows to `live` and the accepted JWTs to `fresh`.

### TokenStore

Each call of the three functions looks for the table, creates it, and runs its statement, as three steps. What
`ApiSessions` takes for one step is this one's `Run`; the failures here are its `DatabaseFails`: two first
calls that both find no table make the slower one fail. A lock that SQLite does not give up in time is also a
`DatabaseFails` of `ApiSessions` and is not repeated here.

### Clients

A command of the headless client is a process that reads files, sends one request, and writes files; each read,
the sending, the answer, each truncation and each write is a step, and it may be killed between any two.
`fs.writeFile` truncates first, so a file may be found `"blank"`. A click on the page sends one request, with
the tokens that are on the page then, and its answer replaces whatever is there, also when it is an error. Up
to all requests overlap, and the server crashes, restarts and lets JWTs expire meanwhile (`ServerSide`, the
actions of `ApiPromise`).

### SimplePreimage, PluginServer, PluginPromise

`FindRole` is `verifyAndGetOutput` up to its `await`, `VerifyProgram` what follows; `SetRoles` may come between.
`PluginServer` reads a configuration (`ReadConfiguration`: a missing or rejected file falls back to the default,
one that is not JSON ends the process), initialises plugin after plugin, and serves all or ends. Its plugins are
simple preimage plugins, the only ones with state that a request changes. `Promise` in `PluginServer` maps a
call to `PluginPromise`: the instant that decides is `FindRole` for a proof, and the look for a check.

### PluginHost

One application with one response: `CallRequestAuth` once, then `CallCheckAuth` again and again. `Turn` is the
difference between the hosts: the proxy sends to one plugin after the other (`ApplicativeSeq`, although the
comments at lines 63 and 75 speak of "in parallel"), the host in memory to all. `Receive` takes an answer, or
the error of a broken connection (`Lost`). With the host in memory the server's state is that of the
application's own process, which does not end within this module. `seen` and `lapsed` are history variables
about the call under way.

### TimeLock, Erc721TimeLock, Erc721Plugin and Erc721Page

Each action of `Erc721TimeLock` is a transaction that succeeds; one that fails a `require` changes nothing.
The client's `lockToken` is two of them, `Approve` and `LockToken`, and anything may come in between. The
contract takes the address of any token contract; the tokens here are of contracts that keep to ERC721, as
`ERC721Mock.sol` does, and custody of any others is not claimed. The
index given to `unlockToken` is any index of the sender's list: one that was read before the list changed
included. `CommitmentTree(n, m)` is `fetchEligibleCommitments` when the first query saw `n` events and the
second saw `m`: a JavaScript Map by token id that keeps the place of the first and the hash of the last
`TokenLocked`, from which every `TokenUnlocked` deletes, and then the tree's `leafMap`. A root is as good as
the indexed leaves (the hash is taken for injective). `LockOf` reads the abstract lock of a token off the
lists, and `KeepsPromise` says that the contract is a `TimeLock`.

`Erc721Plugin` puts sessions on top: a session builds a proof, has it verified, and has its output checked any
number of times. Each of the three reads the events with two queries, and a transaction may be mined between
them. `verifyAndGetOutput` is three steps: the first query, the second with the comparison of the roots
(`CompareRoot`, `InvalidRoot`), and the verifier's answer (`VerifyAndGetOutput`), before which transactions may
be mined again. The zero-knowledge proof is external: it exists for a leaf of the tree, and is for the root of
that tree. `Known` are the commitments whose secrets are used; the others are locked by the rest of the world.
The history `held` has the sessions whose commitment had a token locked behind it at some instant of the call
that is under way.

`Erc721Page` adds the component on the page. Its interval for polls is set up again at each render of the
parent, which is where typing, a proof or an answer puts the next poll off by ten seconds; `isFetchingRef`
keeps polls apart; a reload drops the polls under way.

### TreeStorage and MerkleMemberships

A file is the leaves its text begins with, the length of the text, and whether it parses: `FileHandle.write`
replaces the beginning of the file and never truncates it, so a shorter text leaves a tail (`Write`). Writes
under way together arrive in any order. A start reads the file (`Read`), writes it back (`Written`), and is
`Opened`; the failure of one tree is the end of the process (`AllDown`). `careless` collects the trees whose
text got shorter or whose writes overlapped, `saved` the indexes whose leaves ever reached the file of a tree.
`setLeaf` and `persist` are public methods that nothing in the repository calls but the start: the model lets
whoever embeds the storage call them at any time.

A tree with a contract key is to have its root in a contract on the Mina blockchain, and no such tree ever starts
(`ContractFails`). `deployContractIfNecessary` deploys when the account exists (313-326), which the network
refuses: `fundNewAccount` pays for an account that is there already, and a deployed one allows no change of its
key. When the account does not exist it fetches the root with `this.contract.treeRoot.fetch`, handed over
without its object (222), which throws. And a transaction that was sent counts as failed in any case, because
`mkTx` resolves to `undefined` (294-299) and `fromFailablePromise` takes that for an error (`taskeither.ts`
26-30). All of it is behind the first write to the file, which is what such a tree leaves behind. The chain is therefore no state of the model.

`MerkleMemberships` lets clients prove and present while the storage moves. `ExpectedHash` is the loop over the
list of roots, `RecursiveProof` what the circuit computes along it; both are recursive functions, and the
plugin compares them. A client may send a proof with any list made of the roots it has proved for and of all
roots it can fetch at the moment, up to one longer than its own (`Presentable`): shorter, longer, permuted and
repeated lists included.

A search stands at one tree for one root: `findM` awaits between the trees, and `ApplicativeSeq` between the
roots, so each of `LookUp`, `NextTree` and `TreeMissing` is a step, and storage moves between any two. `got` is
the root of the tree as it was read when the search came to it. One detail of the code shows: `traverse` makes
the tasks of all roots before it runs the first, and making one calls `getTree`, which reads the root of the
first tree there and then (`getRoot` is `TE.of` of the root now). The first tree is thus looked at once, at the
beginning, for all roots of the list (`first`).

## 3. Runs

| run | instance | distinct states | what it shows |
|---|---|---|---|
| `Sessions` | 3 requests, 2 plugins, 1 output, outages, no clock | 1 920 064 | `TypeOK`; `SignedOutputsWereValid`: what a JWT vouches for was admitted at some instant of the request that signed it; `ExpelledTokensStayGone`: no race of two refreshes brings a row back; `SignedInTokensAreStored`: no crash separates a client's tokens from their row; `RefreshKeepsOutputs`: a refresh is about the login of its refresh token, whichever JWT comes with it |
| `SessionExpiry` | 3 requests, 1 plugin, a falsy output, clock up to 2, JWTs live for 1 tick, no outages | 1 235 453 | `AccessWindow`: `/protected` serves a revoked output for less than a JWT's lifetime plus the time its request took; `ExpelledOnlyIfRevoked`: without outages a refresh token is lost only over an output that was not admitted; `ImplementsPromise`: the API server is an `ApiPromise` |
| `SessionLiveness` | 2 requests, 2 plugins, one of them not in the roleMap, outages, no clock | 76 278 | `EveryRequestEnds`, answered or lost in a crash |
| `Clients` | 3 commands or clicks of any kind | 950 268 | `PageIsOfOneLogin`, `FilesAreOfOneLogin`: tokens that are kept together belong together; `RefreshRefusalIsDue`: why a refresh may be refused; `ClientsEnd` |
| `PluginHost` | 2 plugins, 2 hashes, tables that change roles and come and go, either host, readable and unreadable configurations | 193 136 | `TypeOK`; `RolesAreBacked`, `NoneIsFinal` about the response; `ServesAllOrNothing`, `StartsFromConfig` about the server; `PromiseKept`: its plugins implement `PluginPromise`; `AcceptedWereAdmitted`, `RefusalsHaveCause`: what a host makes of their answers; `CallsEnd` |
| `TokenStore` | 4 calls, 2 tokens, no table at first | 2 034 753 | `StoredRowsStay`, `FailuresOnlyAtStart` |
| `TimeLock` | 3 tokens, two of which share an id, 2 users, 2 hashes, 4 events, clock up to 2 | 31 212 | `ChainTypeOK`, `Custody`, `EventsTellTheLists`, `FirstLockIsEligible`, and `KeepsPromise`, the refinement of `TimeLock` |
| `Erc721Page` | 2 commitments, one with a session, 2 tokens of one contract, a tree with room for 1, 4 events | 261 664 | `OutputsAreBacked`: an output is given or confirmed only if a token was locked behind its commitment at an instant of that very call; `ListNeverGoesBack`, `ListCatchesUp` about the page |
| `Memberships` | 2 trees, with and without a contract key for one, 1 client with lists of one and two roots, a leaf struck off and put back, files written | 786 214 | `MembershipsAreProved`: outputs name only trees in which the client knows a secret; `OutputsWereCurrent`: their roots were current during the call; `RefusalsAreDue`: a refusal is over a root that each tree lacked at an instant of the call; `PersistedLeavesStay`: what reached a file that is treated with care stays; `SearchesEnd` |

Three runs end in a counterexample: what a comment of the code says of the program is not what it does.

| run | property | the behaviour found |
|---|---|---|
| `MemoryHost` | `OutputsAreHandedOn` | a plugin in the process of the application verifies its input, and the host answers `undefined` for it |
| `Relock` | `LockedAreEligible` | a token that was locked, unlocked and locked again is not among the "currently locked tokens" |
| `TreeStorage` | `FilesHoldAState` | a leaf with a shorter decimal form is set and persisted, and the end of the longer text stays behind it: the file is not the text of a state, and the next start fails |

What the models say besides, where it is no property of a run:

- An outage of the plugin server expels: a refresh during it deletes the refresh token with "output no longer
  valid" although nothing was revoked. `ExpelledOnlyIfRevoked` is therefore stated for `~ Outages`.
- A falsy output that a plugin confirms loses the roles of the plugin, and the status stays "full". The theorem
  `FullKeeps` about `AuthMapper` alone therefore assumes that no output is falsy. Behind a host the assumption is
  not needed (`HostFullKeeps`): the outputs of the plugins are objects, and `undefined`, which the host in memory
  hands on, is confirmed by no check, as it does not decode.
- The comment before `checkAuthValidity` (`plugin-to-role-mapper.ts` 250-253) says that "the auth response will
  shrink" when a plugin fails, and that the same response cannot be sent again later to see whether it works
  then. The code parts from it: status and roles shrink, but the outputs, which are what is checked the next time,
  are returned whole (297-301), failed plugins included. `FullKeeps` states the opposite of the comment: a
  response that is full again has all its roles again. Only a response that failed for every plugin is beyond
  help (`NoneIsFinal`).
- The time lock plugin may give an output for a token that is no longer locked: it reads no events after the
  comparison of the roots, and the verification comes behind that. `OutputsAreBacked` says that it was locked
  at an instant of the call, and no more; the next check finds out.
- Every root of a list is looked up at instants of its own: two trees may never have had the roots of one
  accepted list at the same time. `OutputsWereCurrent` says no more. And a root that one tree gets and another
  loses during a search may be missed, although some tree had it all the time: `RefusalsAreDue` says that each
  tree lacked it at an instant of the call, not that all did at one.
- The root of a tree on chain is never read or changed successfully, as said under `TreeStorage`. The doc of the
  start ("compile and deploy the tree root storage contract if necessary", "update the on-chain root to the one
  available", `treestorage.ts` 277-283) says otherwise.
- `setLeaf` of a tree on chain is documented as not updating the root there (261-264), and does; the comments of
  `getWitness` (71-79) are the other way round too.
- The proxy's `isReady` asks for a route `/isReady` that the plugin server does not install
  (`plugin-server-proxy-host.ts` 51-55), so it is never ready. Nothing modelled asks.
- `hexToUInt8Array` (`erc721timelock.ts` 158-190) does not pad a text of an odd length, which
  `test/hex-conversion.test.ts:63-66` expects.

### Bounds and why they are enough

- Requests: every property of the sessions is about a login and at most two requests that follow it (two
  refreshes that race for one row, or a JWT of one login with the refresh token of another, or a login and a
  `/protected`), so three requests meet every pattern the properties name. Three commands or clicks are a login
  and two that race, or two logins and a refresh between them. The theorems hold for any number.
- Plugins and outputs: two plugins give a partial response and verdicts taken at two instants; one output per
  plugin suffices in the sessions because outputs are only compared there, and `PluginHost` has outputs of two
  hashes and two roles, and tables under which the role of a hash changes or the hash goes.
- Time: the lifetime is one tick and the clock goes one further, so a JWT expires, is renewed and expires
  again, and a request may be received before a tick and sign after it. Where no property reads the clock
  (`MaxTime = 0`) it stands still.
- Events: four events are the first number with lock, unlock and lock again of one token next to a lock of
  another. `MaxTime` and `MaxEvents` are guards of the model only; no theorem depends on their values.
- Sessions of the time lock plugin do not see each other, only the contract, so that one commitment with a
  session and one without meet every case; `Capacity = 1` with two commitments lets the tree overflow.
  `Interval = 1` is the first at which a render can put a poll off.
- Trees: two trees are the first number between which a search awaits; a list of two roots is the first between
  whose looks it awaits. Both trees begin with the same leaf; the edits make their roots differ, and let a root
  go and come back (in the second tree by a restart) while a search is at the other tree. Leaves of two widths make texts that grow, shrink and tie, and one write under way at a time
  is what can be lost in a restart; the proofs are for any number. The run `TreeStorage` needs one tree with one
  leaf for its counterexample.
- Clients of the Merkle plugin: one. Sessions share nothing but the trees, and a proof that is presented by
  somebody else than who made it, or twice, is not covered: an output is tied to what its own client knows.
- Symmetry is declared over requests, plugins, outputs, users, hashes and tokens only where no constant
  distinguishes them, and in no run with a liveness property.

`CHECK_DEADLOCK FALSE` is there where the system may really stop: every request has been made, every call has
returned, or the bounded log is full. The runs `PluginHost`, `MemoryHost`, `TreeStorage` and `Memberships` are
checked for deadlock.

### Fairness

- `FairSpec` (sessions) asks weak fairness of `Handle(r)`, the steps the server takes by itself once it has
  received `r`. Node's event loop runs each continuation that is ready; a promise that waits for the plugin
  server settles, as `fetch` of Node 18 and later gives up on headers after 300 seconds; SQLite answers or
  reports an error. A request whose `requestAuth` throws is not answered by anyone: it ends because an unhandled
  rejection ends the process (`LoginThrows`), and its mutant shows that liveness hangs on that.
- `HostSpec`: the host goes on with what is ready, and so does each plugin with a call. Nothing is asked of
  administrators or of the server's life: a call that was cut off is `Lost`, and is heard of.
- `MemberSpec`: the plugin goes on with a search it has begun (`Looks`), which waits for nothing but promises
  that are resolved. Nothing is asked of clients or of the storage, and nothing of the verifier: the Merkle prover
  disables the cache of its compilation because verification of a serialized proof "will hang" with the key of a
  cached circuit (`prover.ts` 205-208), and the plugin compiles with the default cache (`plugin.ts` 361-365). So
  `SearchesEnd` begins where `verify` has resolved, and whether a login ends is not claimed.
- `ClientSpec`: the server ends what it has begun, which is `EveryRequestEnds`, and commands that are started
  go on. Nothing is asked of users, and a server that crashed need not come back.
- `PageSpec`: time passes and polls are answered, one way or another. Two assumptions are strong, and are about
  the world: the user leaves the page alone for ten seconds now and again (`SF` of `PollBegins`, as each
  keystroke begins the interval anew), and the provider does not fail every poll (`SF` of `PollEnds`). Without
  either the list need not catch up.

## 4. Theorems

| theorem | says |
|---|---|
| `ApiSessionsProofs!Inductive` | `Spec => []IndInv` |
| `TypeCorrect`, `SignedValid`, `ExpelledGone`, `SignedInStored`, `RefreshKeeps` | the invariants of the run `Sessions` |
| `ExpelledRevoked` | `~ Outages` and `Spec` give `ExpelledOnlyIfRevoked` |
| `AccessEnds` | the action property `AccessWindow` |
| `ApiSessionsProofs!PromiseImplemented` | `Spec => ImplementsPromise`: the API server implements what clients rely on |
| `ClientsProofs!OneLoginOnThePage`, `RefusalsOfRefreshes`, `OneLoginInTheFiles` | the safety properties of the run `Clients` |
| `AuthMapperProofs!MapperTypes`, `RolesBacked`, `NoneFinal` | types; roles are backed, for every `roleMap`; failing for every plugin is final |
| `AuthMapperProofs!FullKeeps` | without falsy outputs a full response keeps the roles of all its plugins |
| `TokenStoreProofs!OnlyFirstCallsCollide`, `RowsStay` | `FailuresOnlyAtStart` and `StoredRowsStay` for any number of calls |
| `PluginHostProofs!HostInductive` | `HostSpec => []HostInv` |
| `ServesAll`, `StartsClean` | `ServesAllOrNothing` and `StartsFromConfig` about the plugin server |
| `PromiseHeld` | `HostSpec => PromiseKept`: the plugins of the server implement `PluginPromise` |
| `HostIsMapper`, `HostMapperSafe`, `HostFullKeeps` | with either host, a response lives as `AuthMapper` says; so its safety properties hold there, and a full response has all its roles whatever is falsy besides |
| `AdmittedInTheCall`, `RefusalsDue` | the action properties `AcceptedWereAdmitted` and `RefusalsHaveCause` |
| `Erc721Proofs!CustodyHolds`, `ChainTypesHold`, `EventsAreTrue`, `FirstLocksAreEligible` | the invariants of the run `TimeLock` |
| `Erc721Proofs!PromiseIsKept` | `ChainSpec => KeepsPromise`: the contract implements `TimeLock` |
| `Erc721Proofs!ListOnlyAdvances`, `OutputsBacked` | `ListNeverGoesBack` and `OutputsAreBacked`, from `PageSpec` |
| `MerkleMembershipsProofs!StorageInductive` | `StorageSpec => []StorageInv` |
| `PersistedStay`, `MembersPersistedStay` | `PersistedLeavesStay`, of the storage alone and under the membership plugin |
| `HashCommits` | lists of roots whose hashes, in the circuit and in the plugin, are equal are the same list |
| `MemberInductive` | `MemberSpec => []MemberInv` |
| `MembershipsProved`, `OutputsCurrent`, `RefusalsDueToStorage` | the other safety properties of the run `Memberships` |

They rest on the assumptions the modules name and on nothing else: `RoleMapperAssumption` (the roleMap gives
sets of roles to plugins and outputs, `Left` is no output), `SessionsAssumption` (a JWT lives for at least a
tick), `TokenAssumption`, `FileAssumption` (a blank or missing file is no token), `TableAssumption` and
`ConfigAssumption` (tables map hashes to roles; a broken configuration is no table), `HostAssumption` (the
outputs of the plugins are objects, and truthy), `TimeLockAssumption` (the vault is no user),
`CapacityAssumption`, `IntervalAssumption`, `StorageAssumption` (files hold trees), `MembershipAssumption` (lists
are not empty, and no leaf is a root: each is a hash of inputs of its own kind). No set need be finite. TLC
evaluates each on the runs.

**The sessions.** None of the properties is inductive. That a refresh is about its login needs that the row it
read was the login's response, that a login's response never changes once signed, and that the refresh token
was given out by a login that is over. `IndInv` says so, request by request:

- `StageInv`: what is still untouched at each stage, and that a request beyond its SELECT has the response of
  the login its refresh token is from;
- `RowInv`: a row is unissued, gone, or the login's response, it is there when the client has its tokens, and
  it is gone from the DELETE on;
- `ProofAnswersInv`, `CheckAnswersInv`: an answer collected so far was true at an instant of the request, and a
  negative one is a revocation or an outage;
- `SignInv`: a signed JWT is for a full, non-empty response whose outputs were admitted during the request,
  and expires no earlier than a lifetime after the request began;
- `HistoryInv`: the history variables mean what they are meant to.

The proof has one lemma per action. A step of request `r` changes nothing of another request but the row it
presents, and that only from issued to gone; this is `OthersUntouched`, and `StepKeeps` turns it into the
invariant of the others, so that each action's lemma is about its own request only. The steps of the world
outside (crash, data, clock) touch all requests, and have a lemma each. Each property then follows from
`IndInv`, and `AccessWindow` from `IndInv` and the one action that answers "granted".

**The promise to clients.** The second half of `ApiSessionsProofs` maps each action of `ApiSessions` under `IndInv` to an action of
`ApiPromise` or to a stutter, one lemma per action. `IndInv` is needed where the promise knows less than the
server: that a login is answered only with its row in place, and that "expelled" is said only of a row that is
gone.

**The clients.** `ClientsProofs` takes the server as `ApiPromise` gives it. `ReplyInv` says what an answer
entails, `CmdInv` what a command or click holds at each point (the token it sent, the answer it writes),
`HoldingsInv` that what is in the files and on the page was signed. These give the page and the refusals. The
files need two more: `AloneInv`, that two commands at once have both overlapped and that a login that is
writing has mixed the files, and `FilesInv`, that a command alone finds the refresh token as it read it.
`Lasting` collects what no step of the server takes back (answers, the login of a token, a struck token), so
that the server's steps need one argument for all of them.

**The mapper.** `PluginToRoleMapperProofs` states what each operator returns (types, where roles come from, when
the status is "none"); `AuthMapperProofs` lifts this to the state machine.

**The table.** A call that will run its statement has found the table or made it, and nothing drops a table that
is there; `RowInv` is `StoredRowsStay` with what each call that has begun is about.

**The contract.** `Custody` with the types (`ChainInv`) is inductive; the lemma `SwapAndPop` says what a removal
leaves. `EventsInv` ties the lists to the log in both directions: a listed token has an event that locked it
and is the latest about it, and a locking that no later event undoes is listed. An unlocking needs `Custody`
for the second direction, as the entry removed must be the only one of its token. `FirstLockIsEligible` adds
that what is unlocked was locked before. For the refinement, `LockOf` chooses an entry of the token; `Custody`
makes the choice unique (`LockOfListed`), so that each step changes the lock of its own token only
(`LockOfSame`), and `ListsAreShort` bounds positions by the length of the log, which `LockOf` searches.

**The page.** `TreeIsBacked`: a commitment in the tree of `n` and `m` events, with `m` all of them, is that of a
listed token. The place that gives the commitment is the last locking of its id among the first `n` (a greatest
member exists by well-foundedness of the bounded naturals), no unlocking of that id is among the `m`, and
`EventsInv` then finds the entry. A session whose root is the root now is therefore backed at that instant
(`CurrentIsBacked`), as a proof's root contains its commitment (`SessionInv`). What is backed at an instant of a
call is in `held`: `QueryLocked` and `Mine` put it there. So a session that has passed the comparison and waits
for the verifier is in `held`, whatever is mined meanwhile (`HeldInv`). This gives
`OutputsAreBacked`; `ListNeverGoesBack` follows from one poll at a time.

**The server and the hosts.** `HostInv` has the server's part and the application's. `ServerInv`: the tables
have their types, a server that is up serves all of its configuration, and only plugins of a server that is up
work on a call. `CallOK`, `SentOK` and `JobOK` follow a call from the application to the plugin and back: what a
plugin works on is what this call claims of it, and what it has decided was so at an instant that the histories
have recorded; `HistoryOK` and `AnswersOK` carry that over to the answers the host has collected, and from
there to the response. `HostIsServer` reduces every step of the composition to a step of the server as seen by
any host (`ServerNext`), about which `PromiseHeld` and the server's properties are proved once. For
`HostIsMapper` the host's collected answers are an input that `AuthMapper` would have chosen, and everything else
is a stutter; the lemmas of `AuthMapperProofs` about one request and one check are then used again for
`HostFullKeeps`, where it is the answers that rule falsy outputs out.

**The storage.** `OpenInv`: a file that was treated with care parses, and has at most one write on its way,
which covers its text. `SavedInv`: what reached the file is in each text that is on its way, which is in memory,
so nothing is lost whichever write a crash takes, and a start reads back at least that. `KeyInv`: a tree with a
contract key is never ready, so that whenever the plugin answers there is none.

**The memberships.** What a session holds at each stage is `SessionOf`: a proof has a hash that the circuit made
of a list of roots, each of which commits to a secret of the client (`CircuitHolds` fixes the leaf at the index).
The plugin sees the list it is sent and the hash only. That both lists are the same is `HashCommits`. The hash is
a recursive function along a list; that it exists, and that equal hashes come from equal lists, is shown by
taking a least length or place where it would fail (`LeastNumber`, from the well-foundedness of the natural
numbers). A root is never taken for a longer list, as it is no pair of a root and a hash (`RootIsNoPair`, from
the assumption that no leaf is a root). `SearchOf` follows a search from tree to tree: what is current now is in
`during` and what is not is in `lapsed`; `got` was the root of the tree the search stands at, at an instant of
the call, and `first` that of the first tree; the roots found so far are in `during`, and the root that is sought
was lacked by each tree that the search has left behind. A tree may get the root again once the search has left
it: this is why the invariant is about each tree at an instant of its own.

Only model-checked: the liveness properties `EveryRequestEnds`, `ClientsEnd`, `CallsEnd`, `SearchesEnd`
and `ListCatchesUp`, as liveness under fairness is beyond the prover. Every other property of a passing run is a
theorem.

## 5. What is not modelled, and why

- Cryptography: proofs, hashes and signatures are taken for what they promise; the circuits are external.
- The encoding of commitments as hexadecimal strings and bytes32, and of outputs as JSON.
- Logging, schema checks beyond "decodes or not", HTTP status codes the client does not tell apart.
- The configuration hash in the output of the time lock plugin: it does not change while a server runs.
- The routes proxied under `/plugins`, `/health`, and `isReady`: no state of the server changes.
- Of the page: layout, the overlay (its component is not in the repository, and a failed initialisation never
  takes it down), the form for leaves of the Merkle component, which the page does not use
  (`minauth-demo.tsx:117`), and the editor of roles, which posts a table that `SetRoles` has anyway.
- The full workflow command of the headless client: the same requests one after the other, without files.
- That the name a prover's result is sent under, `MerkleMembershipsPlugin`, is not the `merkle-memberships` of
  the configuration: names are model values.
- `dummyplugin.ts`, the combinators of `utils/fp`, `eth-contract/scripts/cli.ts`, build and deployment: no state,
  or one transaction each.
- Open database connections: no call closes its connection; the models have no file handles.
- The root of a Merkle tree on chain: no start of the system gets to it (see `TreeStorage`).
- ERC721 contracts that do not do what they say, and approvals that are left behind as a fault of their own.
- What a refresh that overlaps another is worth once the other has expelled the holder: it may be answered, as
  `ApiPromise` allows and `AccessWindow` bounds.

## 6. What could come next

The encoding of commitments over bounded inputs against a reference definition; more than one response per
application in `PluginHost`, should the application begin to share state between them; the steps that the
liveness properties rest on (that each step of a fair process brings it nearer to its end) as theorems about
single steps.
