--------------------------- MODULE Erc721TimeLock ---------------------------
(***************************************************************************)
(* The contract ERC721TimeLock with the ERC721 tokens it locks, and what   *)
(* the class Erc721TimeLock reads back from its events: the tree of the    *)
(* commitments behind the locked tokens.                                   *)
(*                                                                         *)
(* A transaction is atomic, and one that fails a require changes nothing:  *)
(* each action is a transaction that succeeds.  The client's lockToken is  *)
(* two of them, approve and lockToken.  The tokens of several ERC721       *)
(* contracts may share an id; TokenId[t] is the id of t.                   *)
(*                                                                         *)
(* lockToken takes the address of any contract.  The tokens here are of    *)
(* contracts that keep to ERC721, as the repository's own does: one that   *)
(* says a token was transferred and does not could have anything locked.   *)
(***************************************************************************)
EXTENDS Naturals, Sequences, FiniteSetsExt

CONSTANTS
    User,        \* accounts
    Token,       \* tokens, each of one ERC721 contract
    TokenId,     \* TokenId[t]: the id of t in its contract
    Hash,        \* non-zero commitments
    LockPeriod,  \* lockPeriod, in ticks
    Vault,       \* address of the time lock contract
    Unminted,    \* owner of a token that does not exist yet
    MaxTime,     \* bound on the clock
    MaxEvents    \* bound on the number of events

ASSUME TimeLockAssumption ==
    /\ LockPeriod \in Nat \ {0}
    /\ MaxTime \in Nat /\ MaxEvents \in Nat
    /\ DOMAIN TokenId = Token
    /\ Vault \notin User /\ Unminted \notin User \cup {Vault}

VARIABLES
    now,           \* block.timestamp
    owner,         \* ownerOf of each token
    approved,      \* tokens the contract is approved for
    lockedTokens,  \* lockedTokens of the contract, by user
    log            \* events TokenLocked and TokenUnlocked, oldest first

chain == <<now, owner, approved, lockedTokens, log>>

LockedToken == [token : Token, unlockTime : Nat, hash : Hash]
Event == [kind : {"locked", "unlocked"}, user : User, token : Token, hash : Hash]

ChainInit ==
    /\ now = 0
    /\ owner = [t \in Token |-> Unminted]
    /\ approved = {}
    /\ lockedTokens = [u \in User |-> << >>]
    /\ log = << >>

-----------------------------------------------------------------------------
(* The tokens *)

Mint(u, t) ==
    /\ owner[t] = Unminted
    /\ owner' = [owner EXCEPT ![t] = u]
    /\ UNCHANGED <<now, approved, lockedTokens, log>>

Approve(t) ==
    /\ owner[t] \in User
    /\ approved' = approved \cup {t}
    /\ UNCHANGED <<now, owner, lockedTokens, log>>

\* ERC721: the owner moves a token, and its approval is cleared.
Move(t, v) ==
    /\ owner' = [owner EXCEPT ![t] = v]
    /\ approved' = approved \ {t}

Transfer(t, v) ==
    /\ owner[t] \in User
    /\ Move(t, v)
    /\ UNCHANGED <<now, lockedTokens, log>>

-----------------------------------------------------------------------------
(* The contract *)

Emit(kind, u, e) ==
    log' = Append(log, [kind |-> kind, user |-> u, token |-> e.token, hash |-> e.hash])

\* transferFrom(msg.sender, ...) reverts unless the sender owns the token and
\* has approved the contract.
LockToken(u, t, h) ==
    LET e == [token |-> t, unlockTime |-> now + LockPeriod, hash |-> h]
    IN  /\ Len(log) < MaxEvents
        /\ owner[t] = u /\ t \in approved
        /\ Move(t, Vault)
        /\ lockedTokens' = [lockedTokens EXCEPT ![u] = Append(@, e)]
        /\ Emit("locked", u, e)
        /\ UNCHANGED now

\* Mutants: pop without the move of the last element; delete without the pop.
PopLast(s, i) == SubSeq(s, 1, Len(s) - 1)
DeleteOnly(s, i) == [s EXCEPT ![i] = [token |-> Unminted, unlockTime |-> 0, hash |-> 0]]

\* The last element takes the place of the removed one.
RemoveLockedToken(s, i) == SubSeq([s EXCEPT ![i] = s[Len(s)]], 1, Len(s) - 1)

\* Mutants: without the test of the time; with the event read from the list
\* after the removal.
UnlockTokenEarly(u, i) ==
    /\ Len(log) < MaxEvents
    /\ i \in DOMAIN lockedTokens[u]
    /\ LET e == lockedTokens[u][i]
       IN  Move(e.token, u) /\ Emit("unlocked", u, e)
    /\ lockedTokens' = [lockedTokens EXCEPT ![u] = RemoveLockedToken(@, i)]
    /\ UNCHANGED now

UnlockTokenLateRead(u, i) ==
    /\ Len(log) < MaxEvents
    /\ i \in DOMAIN lockedTokens[u]
    /\ LET e == lockedTokens[u][i]
           after == RemoveLockedToken(lockedTokens[u], i)
       IN  /\ now >= e.unlockTime
           /\ lockedTokens' = [lockedTokens EXCEPT ![u] = after]
           /\ Move(e.token, u)
           /\ Emit("unlocked", u, IF i \in DOMAIN after THEN after[i] ELSE e)
    /\ UNCHANGED now

\* The index is the sender's: it may be one read before the list changed.
UnlockToken(u, i) ==
    /\ Len(log) < MaxEvents
    /\ i \in DOMAIN lockedTokens[u]
    /\ LET e == lockedTokens[u][i]
       IN  /\ now >= e.unlockTime
           /\ lockedTokens' = [lockedTokens EXCEPT ![u] = RemoveLockedToken(@, i)]
           /\ Move(e.token, u)
           /\ Emit("unlocked", u, e)
    /\ UNCHANGED now

Tick ==
    /\ now < MaxTime
    /\ now' = now + 1
    /\ UNCHANGED <<owner, approved, lockedTokens, log>>

ChainNext ==
    \/ Tick
    \/ \E t \in Token :
          \/ Approve(t)
          \/ \E v \in User \cup {Vault} : Transfer(t, v)
          \/ \E u \in User : Mint(u, t) \/ \E h \in Hash : LockToken(u, t, h)
    \/ \E u \in User : \E i \in DOMAIN lockedTokens[u] : UnlockToken(u, i)

ChainSpec == ChainInit /\ [][ChainNext]_chain

-----------------------------------------------------------------------------
(* fetchEligibleCommitments and the tree built from it *)

\* The tokens in the lists of the contract, with their commitments.
Entries == UNION {{lockedTokens[u][i] : i \in DOMAIN lockedTokens[u]} : u \in User}
Backed(h) == \E e \in Entries : e.hash = h

EventsOf(kind, n) == {i \in 1..n : log[i].kind = kind}
IdOf(i) == TokenId[log[i].token]

\* The leaves, with their index in the tree: leafMap of MerkleTree, and as
\* good as the root of the tree.  hashAt[i] is the commitment kept at place i.
LeafMap(hashAt) ==
    LET leaves   == {hashAt[i] : i \in DOMAIN hashAt}
        first(h) == Min({i \in DOMAIN hashAt : hashAt[i] = h})
    IN  [h \in leaves |-> Cardinality({g \in leaves : first(g) < first(h)})]

\* Mutants: the tree of all tokens ever locked; an unlocking deletes by
\* commitment.
CommitmentTreeOfAll(n, m) ==
    LET lockedAt == EventsOf("locked", n)
    IN  LeafMap([i \in lockedAt |-> log[Max({j \in lockedAt : IdOf(j) = IdOf(i)})].hash])

CommitmentTreeByHash(n, m) ==
    LET kept == {i \in EventsOf("locked", n) :
                    \A j \in EventsOf("unlocked", m) : log[j].hash # log[i].hash}
    IN  LeafMap([i \in kept |-> log[i].hash])

\* The first query saw n events, the second m of them.  The Map goes by the
\* token's id: it keeps the place of the first TokenLocked and the hash of
\* the last, and every TokenUnlocked deletes, also one that came earlier.
CommitmentTree(n, m) ==
    LET lockedAt  == EventsOf("locked", n)
        deleted   == {IdOf(j) : j \in EventsOf("unlocked", m)}
        kept      == {i \in lockedAt : IdOf(i) \notin deleted}
    IN  LeafMap([i \in kept |-> log[Max({j \in lockedAt : IdOf(j) = IdOf(i)})].hash])

-----------------------------------------------------------------------------
(* Properties *)

\* Every variable keeps its type.
ChainTypeOK ==
    /\ now \in 0..MaxTime
    /\ owner \in [Token -> User \cup {Vault, Unminted}]
    /\ approved \in SUBSET Token
    /\ lockedTokens \in [User -> Seq(LockedToken)]
    /\ log \in Seq(Event)

\* What the contract owes it has: each listed token is in the vault, and it is
\* listed once, whatever the order of the removals by swap and pop.
Custody ==
    \A u, v \in User :
        \A i \in DOMAIN lockedTokens[u], j \in DOMAIN lockedTokens[v] :
            /\ owner[lockedTokens[u][i].token] = Vault
            /\ lockedTokens[u][i].token = lockedTokens[v][j].token => u = v /\ i = j

\* The events tell what the lists hold: a token is listed for a user, with a
\* hash, exactly when the last event about it says that it was locked so.
EventsTellTheLists ==
    \A u \in User, t \in Token, h \in Hash :
        (\E i \in DOMAIN lockedTokens[u] :
            lockedTokens[u][i].token = t /\ lockedTokens[u][i].hash = h)
        <=>
        (\E k \in DOMAIN log :
            /\ log[k] = [kind |-> "locked", user |-> u, token |-> t, hash |-> h]
            /\ \A l \in k + 1 .. Len(log) : log[l].token # t)

\* A token that was locked for the first time, and whose id no other event
\* mentions, has its commitment in the tree.
FirstLockIsEligible ==
    \A k \in DOMAIN log :
        (\A l \in DOMAIN log \ {k} : IdOf(l) # IdOf(k)) =>
            log[k].hash \in DOMAIN CommitmentTree(Len(log), Len(log))

\* The commitments fetched are "the hashes of currently locked tokens"
\* (erc721timelock.ts 61): all of them.
LockedAreEligible ==
    \A e \in Entries : e.hash \in DOMAIN CommitmentTree(Len(log), Len(log))

\* The lists and the swap and pop keep the promise of TimeLock.
LockOf(t) ==
    LET at == {x \in User \X (1..Len(log)) :
                  /\ x[2] \in DOMAIN lockedTokens[x[1]]
                  /\ lockedTokens[x[1]][x[2]].token = t}
    IN  IF at = {} THEN [by |-> Vault]
        ELSE LET x == CHOOSE y \in at : TRUE
                 e == lockedTokens[x[1]][x[2]]
             IN  [by |-> x[1], until |-> e.unlockTime, hash |-> e.hash]

Promise == INSTANCE TimeLock WITH lock <- [t \in Token |-> LockOf(t)]
KeepsPromise == Promise!Spec
=============================================================================
