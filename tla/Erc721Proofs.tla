----------------------------- MODULE Erc721Proofs -----------------------------
(***************************************************************************)
(* Proofs about the contract ERC721TimeLock, its plugin and the plugin's   *)
(* page, for any users, tokens, commitments and known secrets, any lock    *)
(* period, any room in the tree and any interval between polls.            *)
(***************************************************************************)
EXTENDS Erc721Page, WellFoundedInduction, TLAPS

\* Removal by swap and pop: one element less, and each position but the
\* removed one, where the last element is now, is as it was.
LEMMA SwapAndPop ==
    ASSUME NEW S, NEW s \in Seq(S), NEW i \in DOMAIN s
    PROVE  /\ RemoveLockedToken(s, i) \in Seq(S)
           /\ DOMAIN RemoveLockedToken(s, i) = 1 .. Len(s) - 1
           /\ \A k \in 1 .. Len(s) - 1 :
                 RemoveLockedToken(s, i)[k] = IF k = i THEN s[Len(s)] ELSE s[k]
  <1> DEFINE w == [s EXCEPT ![i] = s[Len(s)]]
  <1>1. Len(s) \in Nat /\ DOMAIN s = 1..Len(s) /\ i \in 1..Len(s)
    OBVIOUS
  <1>2. s[Len(s)] \in S
    BY <1>1
  <1>3. w \in Seq(S) /\ Len(w) = Len(s)
    BY <1>1, <1>2
  <1>4. \A k \in 1..Len(s) : w[k] = IF k = i THEN s[Len(s)] ELSE s[k]
    BY <1>1
  <1>5. /\ SubSeq(w, 1, Len(s) - 1) \in Seq(S)
        /\ DOMAIN SubSeq(w, 1, Len(s) - 1) = 1 .. Len(s) - 1
        /\ \A k \in 1 .. Len(s) - 1 : SubSeq(w, 1, Len(s) - 1)[k] = w[k]
    BY <1>1, <1>3
  <1>6. RemoveLockedToken(s, i) = SubSeq(w, 1, Len(s) - 1)
    BY DEF RemoveLockedToken
  <1>7. QED
    BY <1>1, <1>4, <1>5, <1>6

ChainInv == ChainTypeOK /\ Custody

\* A list holds entries.
LEMMA EntryType ==
    ASSUME ChainTypeOK, NEW u \in User, NEW i \in DOMAIN lockedTokens[u]
    PROVE  /\ lockedTokens[u] \in Seq(LockedToken)
           /\ lockedTokens[u][i] \in LockedToken
           /\ lockedTokens[u][i].token \in Token
  <1>1. lockedTokens[u] \in Seq(LockedToken)
    BY DEF ChainTypeOK
  <1>2. lockedTokens[u][i] \in LockedToken
    BY <1>1
  <1>3. QED
    BY <1>1, <1>2 DEF LockedToken

\* The first state.
LEMMA ChainInitInv == ChainInit => ChainInv
  <1> SUFFICES ASSUME ChainInit PROVE ChainInv
    OBVIOUS
  <1>1. ChainTypeOK
    BY TimeLockAssumption DEF ChainInit, ChainTypeOK
  <1>2. \A u \in User : DOMAIN lockedTokens[u] = {}
    BY DEF ChainInit
  <1>3. QED
    BY <1>1, <1>2 DEF ChainInv, Custody

\* Locking: the token was a user's, so no list had it.
LEMMA LockKeeps ==
    ASSUME ChainInv, NEW u \in User, NEW t \in Token, NEW h \in Hash, LockToken(u, t, h)
    PROVE  ChainInv'
  <1> DEFINE e == [token |-> t, unlockTime |-> now + LockPeriod, hash |-> h]
  <1>1. /\ owner[t] = u /\ UNCHANGED now
        /\ owner' = [owner EXCEPT ![t] = Vault]
        /\ approved' = approved \ {t}
        /\ lockedTokens' = [lockedTokens EXCEPT ![u] = Append(lockedTokens[u], e)]
        /\ log' = Append(log, [kind |-> "locked", user |-> u, token |-> t, hash |-> h])
    BY DEF LockToken, Move, Emit, ChainInv, ChainTypeOK
  <1>2. ChainTypeOK
    BY DEF ChainInv
  <1>3. e \in LockedToken
    BY <1>2, TimeLockAssumption DEF ChainTypeOK, LockedToken
  <1>4. ChainTypeOK'
    <2>1. lockedTokens' \in [User -> Seq(LockedToken)]
      BY <1>1, <1>2, <1>3 DEF ChainTypeOK
    <2>2. log' \in Seq(Event)
      BY <1>1, <1>2 DEF ChainTypeOK, Event
    <2>3. QED
      BY <1>1, <1>2, <2>1, <2>2 DEF ChainTypeOK
  <1>5. \A v \in User : \A i \in DOMAIN lockedTokens[v] : lockedTokens[v][i].token # t
    BY <1>1, TimeLockAssumption DEF ChainInv, Custody
  <1>6. ASSUME NEW v \in User, NEW i \in DOMAIN lockedTokens'[v]
        PROVE  \/ i \in DOMAIN lockedTokens[v] /\ lockedTokens'[v][i] = lockedTokens[v][i]
               \/ v = u /\ i = Len(lockedTokens[u]) + 1 /\ lockedTokens'[v][i] = e
    <2>1. CASE v # u
      BY <1>1, <1>2, <2>1 DEF ChainTypeOK
    <2>2. CASE v = u
      <3>1. lockedTokens[u] \in Seq(LockedToken)
        BY <1>2 DEF ChainTypeOK
      <3>2. lockedTokens'[u] = Append(lockedTokens[u], e)
        BY <1>1, <1>2 DEF ChainTypeOK
      <3>3. QED
        BY <1>6, <2>2, <3>1, <3>2
    <2>3. QED
      BY <2>1, <2>2
  <1>7. Custody'
    <2> SUFFICES ASSUME NEW v \in User, NEW w \in User,
                        NEW i \in DOMAIN lockedTokens'[v], NEW j \in DOMAIN lockedTokens'[w]
                 PROVE  /\ owner'[lockedTokens'[v][i].token] = Vault
                        /\ lockedTokens'[v][i].token = lockedTokens'[w][j].token
                             => v = w /\ i = j
      BY DEF Custody
    <2>1. e.token = t
      OBVIOUS
    <2>2. owner'[lockedTokens'[v][i].token] = Vault
      <3>1. CASE i \in DOMAIN lockedTokens[v] /\ lockedTokens'[v][i] = lockedTokens[v][i]
        BY <1>1, <1>2, <3>1, EntryType DEF ChainInv, ChainTypeOK, Custody
      <3>2. CASE lockedTokens'[v][i] = e
        BY <1>1, <1>2, <2>1, <3>2 DEF ChainTypeOK
      <3>3. QED
        BY <1>6, <3>1, <3>2
    <2>3. lockedTokens'[v][i].token = lockedTokens'[w][j].token => v = w /\ i = j
      BY <1>5, <1>6, <2>1 DEF ChainInv, Custody
    <2>4. QED
      BY <2>2, <2>3
  <1>8. QED
    BY <1>4, <1>7 DEF ChainInv

\* Unlocking: the token leaves the vault and the only list that had it.
LEMMA UnlockKeeps ==
    ASSUME ChainInv, NEW u \in User, NEW n \in DOMAIN lockedTokens[u], UnlockToken(u, n)
    PROVE  ChainInv'
  <1> DEFINE s == lockedTokens[u]
             e == s[n]
             r == RemoveLockedToken(s, n)
  <1>1. ChainTypeOK /\ s \in Seq(LockedToken) /\ e \in LockedToken /\ e.token \in Token
    BY EntryType DEF ChainInv
  <1>2. /\ UNCHANGED now
        /\ owner' = [owner EXCEPT ![e.token] = u]
        /\ approved' = approved \ {e.token}
        /\ lockedTokens' = [lockedTokens EXCEPT ![u] = r]
        /\ log' = Append(log, [kind |-> "unlocked", user |-> u,
                               token |-> e.token, hash |-> e.hash])
    BY DEF UnlockToken, Move, Emit
  <1>3. /\ r \in Seq(LockedToken)
        /\ DOMAIN r = 1 .. Len(s) - 1
        /\ \A k \in 1 .. Len(s) - 1 : r[k] = IF k = n THEN s[Len(s)] ELSE s[k]
    BY <1>1, SwapAndPop
  <1>4. ChainTypeOK'
    <2>1. lockedTokens' \in [User -> Seq(LockedToken)]
      BY <1>1, <1>2, <1>3 DEF ChainTypeOK
    <2>2. log' \in Seq(Event)
      BY <1>1, <1>2 DEF ChainTypeOK, Event, LockedToken
    <2>3. QED
      BY <1>1, <1>2, <2>1, <2>2 DEF ChainTypeOK
  <1>5. lockedTokens'[u] = r /\ \A v \in User \ {u} : lockedTokens'[v] = lockedTokens[v]
    BY <1>1, <1>2 DEF ChainTypeOK
  \* Where the entry at position i of v's new list was before.
  <1> DEFINE old(v, i) == IF v = u /\ i = n THEN Len(s) ELSE i
  <1>6. ASSUME NEW v \in User, NEW i \in DOMAIN lockedTokens'[v]
        PROVE  /\ old(v, i) \in DOMAIN lockedTokens[v]
               /\ lockedTokens'[v][i] = lockedTokens[v][old(v, i)]
               /\ v = u => old(v, i) # n
    <2>1. CASE v # u
      BY <1>5, <2>1
    <2>2. CASE v = u
      BY <1>1, <1>3, <1>5, <2>2
    <2>3. QED
      BY <2>1, <2>2
  <1>7. Custody'
    <2> SUFFICES ASSUME NEW v \in User, NEW w \in User,
                        NEW i \in DOMAIN lockedTokens'[v], NEW j \in DOMAIN lockedTokens'[w]
                 PROVE  /\ owner'[lockedTokens'[v][i].token] = Vault
                        /\ lockedTokens'[v][i].token = lockedTokens'[w][j].token
                             => v = w /\ i = j
      BY DEF Custody
    <2> HIDE DEF old
    <2>1. /\ old(v, i) \in DOMAIN lockedTokens[v] /\ old(w, j) \in DOMAIN lockedTokens[w]
          /\ lockedTokens'[v][i] = lockedTokens[v][old(v, i)]
          /\ lockedTokens'[w][j] = lockedTokens[w][old(w, j)]
      BY <1>6
    <2>2. lockedTokens[v][old(v, i)].token # e.token
      BY <1>6, <2>1 DEF ChainInv, Custody
    <2>3. owner'[lockedTokens'[v][i].token] = Vault
      <3>1. owner[lockedTokens[v][old(v, i)].token] = Vault
        BY <2>1 DEF ChainInv, Custody
      <3>2. lockedTokens[v][old(v, i)].token \in Token
        BY <1>1, <2>1, EntryType
      <3>3. QED
        BY <1>1, <1>2, <2>1, <2>2, <3>1, <3>2 DEF ChainTypeOK
    <2>4. ASSUME lockedTokens'[v][i].token = lockedTokens'[w][j].token
          PROVE  v = w /\ i = j
      <3>1. v = w /\ old(v, i) = old(w, j)
        BY <2>1, <2>4 DEF ChainInv, Custody
      <3>2. CASE v # u
        BY <3>1, <3>2 DEF old
      <3>3. CASE v = u
        BY <1>3, <1>5, <3>1, <3>3 DEF old
      <3>4. QED
        BY <3>2, <3>3
    <2>5. QED
      BY <2>3, <2>4
  <1>8. QED
    BY <1>4, <1>7 DEF ChainInv

\* Steps that leave the lists and the tokens in the vault alone.
LEMMA OtherKeeps ==
    ASSUME ChainInv, UNCHANGED <<lockedTokens, log>>,
           now' \in 0..MaxTime, approved' \in SUBSET Token,
           owner' \in [Token -> User \cup {Vault, Unminted}],
           \A t \in Token : owner[t] = Vault => owner'[t] = Vault
    PROVE  ChainInv'
  <1>1. ChainTypeOK'
    BY DEF ChainInv, ChainTypeOK
  <1>2. Custody'
    BY EntryType DEF ChainInv, Custody
  <1>3. QED
    BY <1>1, <1>2 DEF ChainInv

\* Every step keeps the invariant.
LEMMA ChainNextKeeps == ChainInv /\ [ChainNext]_chain => ChainInv'
  <1> SUFFICES ASSUME ChainInv, [ChainNext]_chain PROVE ChainInv'
    OBVIOUS
  <1>1. ChainTypeOK
    BY DEF ChainInv
  <1>2. CASE UNCHANGED chain
    BY <1>1, <1>2, OtherKeeps DEF chain, ChainTypeOK
  <1>3. CASE Tick
    <2>1. now' \in 0..MaxTime
      BY <1>1, <1>3, TimeLockAssumption DEF Tick, ChainTypeOK
    <2>2. QED
      BY <1>1, <1>3, <2>1, OtherKeeps DEF Tick, ChainTypeOK
  <1>4. ASSUME NEW t \in Token, Approve(t) PROVE ChainInv'
    BY <1>1, <1>4, OtherKeeps DEF Approve, ChainTypeOK
  <1>5. ASSUME NEW t \in Token, NEW v \in User \cup {Vault}, Transfer(t, v) PROVE ChainInv'
    BY <1>1, <1>5, OtherKeeps, TimeLockAssumption DEF Transfer, Move, ChainTypeOK
  <1>6. ASSUME NEW t \in Token, NEW u \in User, Mint(u, t) PROVE ChainInv'
    BY <1>1, <1>6, OtherKeeps, TimeLockAssumption DEF Mint, ChainTypeOK
  <1>7. QED
    BY <1>2, <1>3, <1>4, <1>5, <1>6, LockKeeps, UnlockKeeps DEF ChainNext

\* What the contract owes it has, once, for any sequence of transactions.
THEOREM CustodyHolds == ChainSpec => []Custody
  <1>1. ChainInv => Custody
    BY DEF ChainInv
  <1>2. QED
    BY <1>1, ChainInitInv, ChainNextKeeps, PTL DEF ChainSpec

\* And it keeps its types.
THEOREM ChainTypesHold == ChainSpec => []ChainTypeOK
  <1>1. ChainInv => ChainTypeOK
    BY DEF ChainInv
  <1>2. QED
    BY <1>1, ChainInitInv, ChainNextKeeps, PTL DEF ChainSpec

-----------------------------------------------------------------------------
(* Events *)

Listed(u, t, h) ==
    \E i \in DOMAIN lockedTokens[u] :
        lockedTokens[u][i].token = t /\ lockedTokens[u][i].hash = h

\* No event after the k-th is about token t.
Latest(k, t) == \A l \in k + 1 .. Len(log) : log[l].token # t

NotUnlockedSince(k) ==
    \A l \in k + 1 .. Len(log) : ~ (log[l].kind = "unlocked" /\ log[l].token = log[k].token)

LockedEvent(u, t, h) == [kind |-> "locked", user |-> u, token |-> t, hash |-> h]

\* What is listed was locked last; and what was locked and not unlocked since,
\* even if other events mention the token, is listed.
EventsInv ==
    /\ \A u \in User, t \in Token, h \in Hash :
          Listed(u, t, h) => \E k \in DOMAIN log : log[k] = LockedEvent(u, t, h) /\ Latest(k, t)
    /\ \A k \in DOMAIN log :
          log[k].kind = "locked" /\ NotUnlockedSince(k) =>
              Listed(log[k].user, log[k].token, log[k].hash)

FullInv == ChainInv /\ EventsInv

\* A step that leaves lists and events alone.
LEMMA EventsUntouched ==
    ASSUME EventsInv, UNCHANGED <<lockedTokens, log>> PROVE EventsInv'
  BY DEF EventsInv, Listed, Latest, NotUnlockedSince, LockedEvent

\* One more event.
LEMMA OneMoreEvent ==
    ASSUME log \in Seq(Event), NEW ev \in Event, log' = Append(log, ev)
    PROVE  /\ Len(log) \in Nat /\ DOMAIN log = 1..Len(log)
           /\ Len(log') = Len(log) + 1 /\ DOMAIN log' = 1..(Len(log) + 1)
           /\ log'[Len(log) + 1] = ev
           /\ \A k \in 1..Len(log) : log'[k] = log[k] /\ log[k] \in Event
  OBVIOUS

\* Locking puts the token on a list that had it not.
LEMMA LockTells ==
    ASSUME FullInv, NEW u \in User, NEW t \in Token, NEW h \in Hash, LockToken(u, t, h)
    PROVE  EventsInv'
  <1> DEFINE e  == [token |-> t, unlockTime |-> now + LockPeriod, hash |-> h]
             ev == LockedEvent(u, t, h)
             s  == lockedTokens[u]
  <1>0. PICK n \in Nat : n = Len(log)
    BY DEF FullInv, ChainInv, ChainTypeOK
  <1>1. /\ ChainTypeOK /\ s \in Seq(LockedToken) /\ owner[t] = u
        /\ lockedTokens' = [lockedTokens EXCEPT ![u] = Append(s, e)]
        /\ log' = Append(log, ev)
    BY DEF LockToken, Move, Emit, FullInv, ChainInv, ChainTypeOK, LockedEvent
  <1>2. ev \in Event
    BY DEF Event, LockedEvent
  <1>3. /\ n \in Nat /\ DOMAIN log = 1..n
        /\ Len(log') = n + 1 /\ DOMAIN log' = 1..(n + 1)
        /\ log'[n + 1] = ev
        /\ \A k \in 1..n : log'[k] = log[k] /\ log[k] \in Event
    BY <1>0, <1>1, <1>2, OneMoreEvent DEF ChainTypeOK
  <1>4. \A v \in User, g \in Hash : ~ Listed(v, t, g)
    BY <1>1, TimeLockAssumption DEF FullInv, ChainInv, Custody, Listed
  <1>5. ASSUME NEW v \in User, NEW x, NEW g
        PROVE  Listed(v, x, g)' <=> Listed(v, x, g) \/ (v = u /\ x = t /\ g = h)
    <2>1. CASE v # u
      BY <1>1, <2>1 DEF Listed, ChainTypeOK
    <2>2. CASE v = u
      <3>1. lockedTokens'[u] = Append(s, e) /\ e.token = t /\ e.hash = h
        BY <1>1 DEF ChainTypeOK
      <3>2. /\ DOMAIN s = 1..Len(s) /\ Len(s) \in Nat
            /\ DOMAIN Append(s, e) = 1..(Len(s) + 1)
            /\ Append(s, e)[Len(s) + 1] = e
            /\ \A i \in 1..Len(s) : Append(s, e)[i] = s[i]
        BY <1>1
      <3>3. QED
        BY <2>2, <3>1, <3>2 DEF Listed
    <2>3. QED
      BY <2>1, <2>2
  <1>6. ASSUME NEW v \in User, NEW x \in Token, NEW g \in Hash, Listed(v, x, g)'
        PROVE  \E k \in DOMAIN log' : log'[k] = LockedEvent(v, x, g) /\ Latest(k, x)'
    <2>1. CASE v = u /\ x = t /\ g = h
      <3>1. Latest(n + 1, t)'
        BY <1>3 DEF Latest
      <3>2. QED
        BY <1>3, <2>1, <3>1
    <2>2. CASE Listed(v, x, g)
      <3>1. PICK k \in DOMAIN log : log[k] = LockedEvent(v, x, g) /\ Latest(k, x)
        BY <2>2 DEF FullInv, EventsInv
      <3>2. x # t
        BY <1>4, <2>2
      <3>3. Latest(k, x)'
        BY <1>3, <3>1, <3>2 DEF Latest, LockedEvent
      <3>4. QED
        BY <1>3, <3>1, <3>3
    <2>3. QED
      BY <1>5, <1>6, <2>1, <2>2
  <1>7. ASSUME NEW k \in DOMAIN log', log'[k].kind = "locked", NotUnlockedSince(k)'
        PROVE  Listed(log[k].user, log[k].token, log[k].hash)'
    <2>1. CASE k = n + 1
      <3>1. log'[k].user = u /\ log'[k].token = t /\ log'[k].hash = h
        BY <1>3, <2>1 DEF LockedEvent
      <3>2. Listed(u, t, h)'
        BY <1>5
      <3>3. QED
        BY <3>1, <3>2 DEF Listed
    <2>2. CASE k # n + 1
      <3>1. k \in 1..n /\ log'[k] = log[k] /\ log[k].user \in User
        BY <1>3, <2>2 DEF Event
      <3>2. NotUnlockedSince(k)
        BY <1>3, <1>7, <3>1 DEF NotUnlockedSince
      <3>3. Listed(log[k].user, log[k].token, log[k].hash)
        BY <1>3, <1>7, <3>1, <3>2 DEF FullInv, EventsInv
      <3>4. \A v \in User : \A x, g : Listed(v, x, g) => Listed(v, x, g)'
        BY <1>5
      <3>5. QED
        BY <3>1, <3>3, <3>4 DEF Listed
    <2>3. QED
      BY <2>1, <2>2
  <1>8. QED
    BY <1>6, <1>7 DEF EventsInv

\* What an unlocking does to the lists: the entry of its token goes, the others stay.
LEMMA UnlockOnLists ==
    ASSUME ChainInv, NEW u \in User, NEW n \in DOMAIN lockedTokens[u], UnlockToken(u, n)
    PROVE  /\ \A v \in User : \A j \in DOMAIN lockedTokens[v] :
                 lockedTokens[v][j].token # lockedTokens[u][n].token =>
                    \E i \in DOMAIN lockedTokens'[v] : lockedTokens'[v][i] = lockedTokens[v][j]
           /\ \A v \in User : \A i \in DOMAIN lockedTokens'[v] :
                 \E j \in DOMAIN lockedTokens[v] :
                    /\ lockedTokens'[v][i] = lockedTokens[v][j]
                    /\ lockedTokens[v][j].token # lockedTokens[u][n].token
  <1> DEFINE s == lockedTokens[u]
             e == s[n]
             r == RemoveLockedToken(s, n)
  <1>1. ChainTypeOK /\ s \in Seq(LockedToken) /\ n \in 1..Len(s) /\ Len(s) \in Nat
    BY EntryType DEF ChainInv
  <1>2. lockedTokens' = [lockedTokens EXCEPT ![u] = r]
    BY DEF UnlockToken
  <1>3. /\ DOMAIN r = 1 .. Len(s) - 1
        /\ \A k \in 1 .. Len(s) - 1 : r[k] = IF k = n THEN s[Len(s)] ELSE s[k]
    BY <1>1, SwapAndPop
  <1>4. lockedTokens'[u] = r /\ \A v \in User \ {u} : lockedTokens'[v] = lockedTokens[v]
    BY <1>1, <1>2 DEF ChainTypeOK
  <1>5. DOMAIN s = 1..Len(s) /\ Len(s) \in Nat /\ n \in 1..Len(s)
    BY <1>1
  <1>6. ASSUME NEW v \in User, NEW j \in DOMAIN lockedTokens[v],
               lockedTokens[v][j].token # e.token
        PROVE  \E i \in DOMAIN lockedTokens'[v] : lockedTokens'[v][i] = lockedTokens[v][j]
    <2>1. CASE v # u
      BY <1>4, <2>1
    <2>2. CASE v = u /\ j # Len(s)
      <3>1. j \in 1 .. Len(s) - 1 /\ j # n /\ r[j] = s[j]
        BY <1>3, <1>5, <1>6, <2>2
      <3>2. QED
        BY <1>3, <1>4, <2>2, <3>1
    <2>3. CASE v = u /\ j = Len(s)
      <3>1. n \in 1 .. Len(s) - 1 /\ r[n] = s[j]
        BY <1>3, <1>5, <1>6, <2>3
      <3>2. QED
        BY <1>3, <1>4, <2>3, <3>1
    <2>4. QED
      BY <2>1, <2>2, <2>3
  <1>7. ASSUME NEW v \in User, NEW i \in DOMAIN lockedTokens'[v]
        PROVE  \E j \in DOMAIN lockedTokens[v] :
                  lockedTokens'[v][i] = lockedTokens[v][j] /\ lockedTokens[v][j].token # e.token
    <2>1. \A w \in User : \A j \in DOMAIN lockedTokens[w] :
              w # u \/ j # n => lockedTokens[w][j].token # e.token
      BY DEF ChainInv, Custody
    <2>2. CASE v # u
      BY <1>4, <2>1, <2>2
    <2>3. CASE v = u /\ i # n
      BY <1>3, <1>4, <1>5, <2>1, <2>3
    <2>4. CASE v = u /\ i = n
      <3>1. Len(s) # n /\ Len(s) \in DOMAIN s /\ r[i] = s[Len(s)]
        BY <1>3, <1>4, <1>5, <2>4
      <3>2. QED
        BY <1>4, <2>1, <2>4, <3>1
    <2>5. QED
      BY <2>2, <2>3, <2>4
  <1>8. QED
    BY <1>6, <1>7

\* Unlocking takes the token off the one list that had it.
LEMMA UnlockTells ==
    ASSUME FullInv, NEW u \in User, NEW n \in DOMAIN lockedTokens[u], UnlockToken(u, n)
    PROVE  EventsInv'
  <1> DEFINE s  == lockedTokens[u]
             e  == s[n]
             r  == RemoveLockedToken(s, n)
             ev == [kind |-> "unlocked", user |-> u, token |-> e.token, hash |-> e.hash]
             m  == Len(log)
  <1>1. ChainTypeOK /\ s \in Seq(LockedToken) /\ e \in LockedToken /\ e.token \in Token
    BY EntryType DEF FullInv, ChainInv
  <1>2. lockedTokens' = [lockedTokens EXCEPT ![u] = r] /\ log' = Append(log, ev)
    BY DEF UnlockToken, Move, Emit
  <1>3. /\ DOMAIN r = 1 .. Len(s) - 1
        /\ \A k \in 1 .. Len(s) - 1 : r[k] = IF k = n THEN s[Len(s)] ELSE s[k]
    BY <1>1, SwapAndPop
  <1>4. ev \in Event
    BY <1>1 DEF Event, LockedToken
  <1>5. /\ m \in Nat /\ DOMAIN log = 1..m
        /\ Len(log') = m + 1 /\ DOMAIN log' = 1..(m + 1)
        /\ log'[m + 1] = ev
        /\ \A k \in 1..m : log'[k] = log[k] /\ log[k] \in Event
    BY <1>1, <1>2, <1>4, OneMoreEvent DEF ChainTypeOK
  <1>6. lockedTokens'[u] = r /\ \A v \in User \ {u} : lockedTokens'[v] = lockedTokens[v]
    BY <1>1, <1>2 DEF ChainTypeOK
  <1>7. DOMAIN s = 1..Len(s) /\ Len(s) \in Nat /\ n \in 1..Len(s)
    BY <1>1
  <1>8. ASSUME NEW v \in User, NEW j \in DOMAIN lockedTokens[v],
               lockedTokens[v][j].token # e.token
        PROVE  \E i \in DOMAIN lockedTokens'[v] : lockedTokens'[v][i] = lockedTokens[v][j]
    BY <1>8, UnlockOnLists DEF FullInv
  <1>9. ASSUME NEW v \in User, NEW i \in DOMAIN lockedTokens'[v]
        PROVE  \E j \in DOMAIN lockedTokens[v] :
                  lockedTokens'[v][i] = lockedTokens[v][j] /\ lockedTokens[v][j].token # e.token
    BY <1>9, UnlockOnLists DEF FullInv
  <1>10. ASSUME NEW v \in User, NEW x \in Token, NEW g \in Hash, Listed(v, x, g)'
         PROVE  \E k \in DOMAIN log' : log'[k] = LockedEvent(v, x, g) /\ Latest(k, x)'
    <2>1. Listed(v, x, g) /\ x # e.token
      BY <1>9, <1>10 DEF Listed
    <2>2. PICK k \in DOMAIN log : log[k] = LockedEvent(v, x, g) /\ Latest(k, x)
      BY <2>1 DEF FullInv, EventsInv
    <2>3. Latest(k, x)'
      BY <1>5, <2>1, <2>2 DEF Latest
    <2>4. QED
      BY <1>5, <2>2, <2>3
  <1>11. ASSUME NEW k \in DOMAIN log', log'[k].kind = "locked", NotUnlockedSince(k)'
         PROVE  Listed(log[k].user, log[k].token, log[k].hash)'
    <2>1. k \in 1..m /\ log'[k] = log[k] /\ log[k].user \in User
      BY <1>5, <1>11 DEF Event
    <2>2. NotUnlockedSince(k) /\ log[k].token # e.token
      BY <1>5, <1>11, <2>1 DEF NotUnlockedSince
    <2>3. Listed(log[k].user, log[k].token, log[k].hash)
      BY <1>5, <1>11, <2>1, <2>2 DEF FullInv, EventsInv
    <2>4. QED
      BY <1>8, <2>1, <2>2, <2>3 DEF Listed
  <1>12. QED
    BY <1>10, <1>11 DEF EventsInv

\* The first state, without events and without entries.
LEMMA FullInit == ChainInit => FullInv
  <1> SUFFICES ASSUME ChainInit PROVE FullInv
    OBVIOUS
  <1>1. DOMAIN log = {} /\ \A u \in User : DOMAIN lockedTokens[u] = {}
    BY DEF ChainInit
  <1>2. EventsInv
    BY <1>1 DEF EventsInv, Listed
  <1>3. QED
    BY <1>2, ChainInitInv DEF FullInv

\* Every step keeps lists and events together.
LEMMA FullKeeps == FullInv /\ [ChainNext]_chain => FullInv'
  <1> SUFFICES ASSUME FullInv, [ChainNext]_chain PROVE FullInv'
    OBVIOUS
  <1>1. ChainInv'
    BY ChainNextKeeps DEF FullInv
  <1>2. CASE UNCHANGED <<lockedTokens, log>>
    BY <1>1, <1>2, EventsUntouched DEF FullInv
  <1>3. ASSUME NEW u \in User, NEW t \in Token, NEW h \in Hash, LockToken(u, t, h)
        PROVE  FullInv'
    BY <1>1, <1>3, LockTells DEF FullInv
  <1>4. ASSUME NEW u \in User, NEW i \in DOMAIN lockedTokens[u], UnlockToken(u, i)
        PROVE  FullInv'
    BY <1>1, <1>4, UnlockTells DEF FullInv
  <1>5. QED
    BY <1>2, <1>3, <1>4 DEF ChainNext, chain, Tick, Approve, Transfer, Mint

\* The lists are what the events say: whoever reads the events knows what is
\* in the vault, for whom, and for which commitment.
THEOREM EventsAreTrue == ChainSpec => []EventsTellTheLists
  <1>1. FullInv => EventsTellTheLists
    <2> SUFFICES ASSUME FullInv, NEW u \in User, NEW t \in Token, NEW h \in Hash
                 PROVE  Listed(u, t, h) <=>
                          \E k \in DOMAIN log : log[k] = LockedEvent(u, t, h) /\ Latest(k, t)
      BY DEF EventsTellTheLists, Listed, Latest, LockedEvent
    <2>1. ASSUME NEW k \in DOMAIN log, log[k] = LockedEvent(u, t, h), Latest(k, t)
          PROVE  Listed(u, t, h)
      BY <2>1 DEF FullInv, EventsInv, NotUnlockedSince, Latest, LockedEvent
    <2>2. QED
      BY <2>1 DEF FullInv, EventsInv
  <1>2. QED
    BY <1>1, FullInit, FullKeeps, PTL DEF ChainSpec

-----------------------------------------------------------------------------
(* The tree of commitments *)

\* A set of naturals below a bound has a greatest member, and Max is one.
LEMMA MaxIsMember ==
    ASSUME NEW n \in Nat, NEW S \in SUBSET (1..n), S # {}
    PROVE  Max(S) \in S
  <1> DEFINE R == OpToRel(<, Nat)
             T == {n - x : x \in S}
  <1>1. T \subseteq Nat /\ T # {}
    <2>1. \A x \in S : x \in 1..n /\ n - x \in Nat
      OBVIOUS
    <2>2. QED
      BY <2>1
  <1>2. IsWellFoundedOn(R, Nat)
    BY NatLessThanWellFounded
  <1> HIDE DEF R, T
  <1>3. PICK y \in T : \A z \in T : ~ (<<z, y>> \in R)
    BY <1>1, <1>2, WFMin
  <1>4. PICK x \in S : y = n - x
    BY <1>3 DEF T
  <1>5. ASSUME NEW z \in S PROVE x >= z
    <2>1. n - z \in T /\ n - z \in Nat /\ y \in Nat /\ z \in Nat /\ x \in Nat
      BY <1>1, <1>4 DEF T
    <2>2. ~ (<<n - z, y>> \in R)
      BY <1>3, <2>1
    <2>3. ~ (n - z < y)
      BY <2>1, <2>2 DEF R, OpToRel
    <2>4. QED
      BY <1>4, <2>1, <2>3
  <1>6. QED
    BY <1>5 DEF Max

\* Each commitment in the tree has a token locked behind it, if the second of
\* the two queries saw all there is.
LEMMA TreeIsBacked ==
    ASSUME FullInv, NEW n \in 0..Len(log), NEW h \in DOMAIN CommitmentTree(n, Len(log))
    PROVE  Backed(h)
  <1> DEFINE lockedAt == EventsOf("locked", n)
             deleted  == {IdOf(j) : j \in EventsOf("unlocked", Len(log))}
             kept     == {i \in lockedAt : IdOf(i) \notin deleted}
             same(i)  == {j \in lockedAt : IdOf(j) = IdOf(i)}
             f        == [i \in kept |-> log[Max(same(i))].hash]
  <1>1. log \in Seq(Event) /\ Len(log) \in Nat /\ DOMAIN log = 1..Len(log)
    BY DEF FullInv, ChainInv, ChainTypeOK
  <1>2. CommitmentTree(n, Len(log)) = LeafMap(f)
    BY DEF CommitmentTree
  <1> HIDE DEF f
  <1>3. DOMAIN LeafMap(f) = {f[i] : i \in DOMAIN f}
    BY DEF LeafMap
  <1>4. PICK i \in kept : h = log[Max(same(i))].hash
    BY <1>2, <1>3 DEF f
  <1>5. Max(same(i)) \in same(i)
    <2>1. same(i) \in SUBSET (1..n) /\ i \in same(i) /\ n \in Nat
      BY <1>1 DEF EventsOf
    <2> HIDE DEF same
    <2>2. QED
      BY <2>1, MaxIsMember
  <1>6. PICK k \in same(i) : k = Max(same(i))
    BY <1>5
  <1>7. /\ k \in DOMAIN log /\ log[k].kind = "locked" /\ IdOf(k) = IdOf(i)
        /\ log[k] \in Event /\ h = log[k].hash
    BY <1>1, <1>4, <1>6 DEF EventsOf
  <1>8. NotUnlockedSince(k)
    <2> SUFFICES ASSUME NEW l \in k + 1 .. Len(log),
                        log[l].kind = "unlocked", log[l].token = log[k].token
                 PROVE  FALSE
      BY DEF NotUnlockedSince
    <2>1. l \in EventsOf("unlocked", Len(log))
      BY <1>1, <1>7 DEF EventsOf
    <2>2. IdOf(l) = IdOf(k)
      BY DEF IdOf
    <2>3. QED
      BY <1>7, <2>1, <2>2
  <1>9. Listed(log[k].user, log[k].token, log[k].hash) /\ log[k].user \in User
    BY <1>7, <1>8 DEF FullInv, EventsInv, Event
  <1>10. QED
    BY <1>7, <1>9 DEF Listed, Backed, Entries

\* What was unlocked had been locked.
LockedBefore ==
    \A k \in DOMAIN log : log[k].kind = "unlocked" =>
        \E l \in 1..(k - 1) : log[l].token = log[k].token

\* Events are never taken back, and the token of a new unlocking was listed.
LEMMA LockedBeforeKeeps == FullInv /\ LockedBefore /\ [ChainNext]_chain => LockedBefore'
  <1> SUFFICES ASSUME FullInv, LockedBefore, [ChainNext]_chain PROVE LockedBefore'
    OBVIOUS
  <1>1. log \in Seq(Event) /\ Len(log) \in Nat /\ DOMAIN log = 1..Len(log)
    BY DEF FullInv, ChainInv, ChainTypeOK
  <1>2. CASE UNCHANGED log
    BY <1>2 DEF LockedBefore
  <1>3. ASSUME NEW ev \in Event, log' = Append(log, ev),
               ev.kind = "unlocked" => \E l \in 1..Len(log) : log[l].token = ev.token
        PROVE  LockedBefore'
    <2>1. /\ DOMAIN log' = 1..(Len(log) + 1) /\ log'[Len(log) + 1] = ev
          /\ \A k \in 1..Len(log) : log'[k] = log[k]
      BY <1>1, <1>3, OneMoreEvent
    <2> SUFFICES ASSUME NEW k \in DOMAIN log', log'[k].kind = "unlocked"
                 PROVE  \E l \in 1..(k - 1) : log'[l].token = log'[k].token
      BY DEF LockedBefore
    <2>2. CASE k = Len(log) + 1
      BY <1>1, <1>3, <2>1, <2>2
    <2>3. CASE k # Len(log) + 1
      <3>1. k \in 1..Len(log) /\ log[k].kind = "unlocked"
        BY <1>1, <2>1, <2>3
      <3>2. PICK l \in 1..(k - 1) : log[l].token = log[k].token
        BY <1>1, <3>1 DEF LockedBefore
      <3>3. QED
        BY <1>1, <2>1, <3>1, <3>2
    <2>4. QED
      BY <2>2, <2>3
  <1>4. ASSUME NEW u \in User, NEW t \in Token, NEW h \in Hash, LockToken(u, t, h)
        PROVE  LockedBefore'
    <2>1. log' = Append(log, LockedEvent(u, t, h))
      BY <1>4 DEF LockToken, Emit, LockedEvent
    <2>2. LockedEvent(u, t, h) \in Event /\ LockedEvent(u, t, h).kind # "unlocked"
      BY DEF LockedEvent, Event
    <2>3. QED
      BY <1>3, <2>1, <2>2
  <1>5. ASSUME NEW u \in User, NEW i \in DOMAIN lockedTokens[u], UnlockToken(u, i)
        PROVE  LockedBefore'
    <2> DEFINE e  == lockedTokens[u][i]
               ev == [kind |-> "unlocked", user |-> u, token |-> e.token, hash |-> e.hash]
    <2>1. log' = Append(log, ev)
      BY <1>5 DEF UnlockToken, Emit
    <2>2. e \in LockedToken
      BY EntryType DEF FullInv, ChainInv
    <2>3. ev \in Event
      BY <2>2 DEF Event, LockedToken
    <2>4. Listed(u, e.token, e.hash)
      BY DEF Listed
    <2>5. \E k \in DOMAIN log : log[k] = LockedEvent(u, e.token, e.hash)
      BY <2>2, <2>4 DEF FullInv, EventsInv, LockedToken
    <2>6. \E l \in 1..Len(log) : log[l].token = ev.token
      BY <1>1, <2>5 DEF LockedEvent
    <2>7. QED
      BY <1>3, <2>1, <2>3, <2>6
  <1>6. QED
    BY <1>2, <1>4, <1>5 DEF ChainNext, chain, Tick, Approve, Transfer, Mint

\* A token that was locked once, and whose id nothing else mentions, has its
\* commitment in the tree: neither the map by ids nor the deletions hit it.
THEOREM FirstLocksAreEligible == ChainSpec => []FirstLockIsEligible
  <1>1. ChainInit => FullInv /\ LockedBefore
    BY FullInit DEF ChainInit, LockedBefore
  <1>2. FullInv /\ LockedBefore => FirstLockIsEligible
    <2> SUFFICES ASSUME FullInv, LockedBefore, NEW k \in DOMAIN log,
                        \A l \in DOMAIN log \ {k} : IdOf(l) # IdOf(k)
                 PROVE  log[k].hash \in DOMAIN CommitmentTree(Len(log), Len(log))
      BY DEF FirstLockIsEligible
    <2> DEFINE n        == Len(log)
               lockedAt == EventsOf("locked", n)
               deleted  == {IdOf(j) : j \in EventsOf("unlocked", n)}
               kept     == {i \in lockedAt : IdOf(i) \notin deleted}
               same(i)  == {j \in lockedAt : IdOf(j) = IdOf(i)}
               f        == [i \in kept |-> log[Max(same(i))].hash]
    <2>1. n \in Nat /\ DOMAIN log = 1..n /\ log[k] \in Event
      BY DEF FullInv, ChainInv, ChainTypeOK
    <2>2. log[k].kind = "locked"
      <3>1. ASSUME log[k].kind = "unlocked" PROVE FALSE
        <4>1. PICK l \in 1..(k - 1) : log[l].token = log[k].token
          BY <3>1 DEF LockedBefore
        <4>2. l \in DOMAIN log \ {k} /\ IdOf(l) = IdOf(k)
          BY <2>1, <4>1 DEF IdOf
        <4>3. QED
          BY <4>2
      <3>2. QED
        BY <2>1, <3>1 DEF Event
    <2>3. same(k) = {k} /\ k \in kept
      BY <2>1, <2>2 DEF EventsOf
    <2>4. Max(same(k)) = k
      BY <2>1, <2>3, MaxIsMember
    <2>5. k \in DOMAIN f /\ f[k] = log[k].hash
      BY <2>3, <2>4
    <2>6. CommitmentTree(n, n) = LeafMap(f)
      BY DEF CommitmentTree
    <2> HIDE DEF f
    <2>7. DOMAIN LeafMap(f) = {f[i] : i \in DOMAIN f}
      BY DEF LeafMap
    <2>8. QED
      BY <2>5, <2>6, <2>7
  <1>3. QED
    BY <1>1, <1>2, FullInit, FullKeeps, LockedBeforeKeeps, PTL DEF ChainSpec

-----------------------------------------------------------------------------
(* The promise of a time lock *)

\* No list is longer than the log: each entry was an event.
ListsAreShort == \A u \in User : Len(lockedTokens[u]) <= Len(log)

PromiseInv == FullInv /\ ListsAreShort

\* Each event makes at most one list longer, by one.
LEMMA ListsStayShort == PromiseInv /\ [ChainNext]_chain => ListsAreShort'
  <1> SUFFICES ASSUME PromiseInv, [ChainNext]_chain PROVE ListsAreShort'
    OBVIOUS
  <1>1. /\ lockedTokens \in [User -> Seq(LockedToken)] /\ log \in Seq(Event)
        /\ \A u \in User : Len(lockedTokens[u]) \in Nat
        /\ Len(log) \in Nat
    BY DEF PromiseInv, FullInv, ChainInv, ChainTypeOK
  <1>2. CASE UNCHANGED <<lockedTokens, log>>
    BY <1>2 DEF PromiseInv, ListsAreShort
  <1>3. ASSUME NEW u \in User, NEW t \in Token, NEW h \in Hash, LockToken(u, t, h)
        PROVE  ListsAreShort'
    <2> DEFINE e == [token |-> t, unlockTime |-> now + LockPeriod, hash |-> h]
    <2>1. /\ Len(log') = Len(log) + 1
          /\ lockedTokens' = [lockedTokens EXCEPT ![u] = Append(lockedTokens[u], e)]
      BY <1>1, <1>3 DEF LockToken, Emit
    <2>2. Len(Append(lockedTokens[u], e)) = Len(lockedTokens[u]) + 1
      BY <1>1
    <2>3. QED
      BY <1>1, <2>1, <2>2 DEF PromiseInv, ListsAreShort
  <1>4. ASSUME NEW u \in User, NEW n \in DOMAIN lockedTokens[u], UnlockToken(u, n)
        PROVE  ListsAreShort'
    <2> DEFINE s == lockedTokens[u]
               r == RemoveLockedToken(s, n)
    <2>1. Len(log') = Len(log) + 1 /\ lockedTokens' = [lockedTokens EXCEPT ![u] = r]
      BY <1>1, <1>4 DEF UnlockToken, Emit
    <2>2. s \in Seq(LockedToken) /\ DOMAIN s = 1..Len(s) /\ n \in 1..Len(s)
      BY <1>1
    <2>3. r \in Seq(LockedToken) /\ DOMAIN r = 1 .. Len(s) - 1
      BY <2>2, SwapAndPop
    <2>4. Len(r) = Len(s) - 1
      <3>1. Len(r) \in Nat /\ 1..Len(r) = 1 .. Len(s) - 1 /\ Len(s) - 1 \in Nat
        BY <1>1, <2>2, <2>3
      <3>2. \A a, b \in Nat : 1..a = 1..b => a = b
        <4>1. ASSUME NEW a \in Nat, NEW b \in Nat, 1..a = 1..b, a < b PROVE FALSE
          <5>1. b \in 1..b /\ b \notin 1..a
            BY <4>1
          <5>2. QED
            BY <4>1, <5>1
        <4>2. ASSUME NEW a \in Nat, NEW b \in Nat, 1..a = 1..b PROVE a = b
          BY <4>1, <4>2
        <4>3. QED
          BY <4>2
      <3>3. QED
        BY <3>1, <3>2
    <2>5. QED
      BY <1>1, <2>1, <2>4 DEF PromiseInv, ListsAreShort
  <1>5. QED
    BY <1>2, <1>3, <1>4 DEF ChainNext, chain, Tick, Approve, Transfer, Mint

\* The lock of an entry is the lock of its token.
EntryLock(u, e) == [by |-> u, until |-> e.unlockTime, hash |-> e.hash]

LocksAreListed ==
    \A t : \A u \in User : \A i \in DOMAIN lockedTokens[u] :
        lockedTokens[u][i].token = t => LockOf(t) = EntryLock(u, lockedTokens[u][i])

\* No two entries compete for a token.
LEMMA LockOfListed == PromiseInv => LocksAreListed
  <1> SUFFICES ASSUME PromiseInv, NEW t, NEW u \in User, NEW i \in DOMAIN lockedTokens[u],
                      lockedTokens[u][i].token = t
               PROVE  LockOf(t) = EntryLock(u, lockedTokens[u][i])
    BY DEF LocksAreListed
  <1> DEFINE at == {x \in User \X (1..Len(log)) :
                      /\ x[2] \in DOMAIN lockedTokens[x[1]]
                      /\ lockedTokens[x[1]][x[2]].token = t}
  <1>1. lockedTokens[u] \in Seq(LockedToken) /\ Len(lockedTokens[u]) <= Len(log) /\ Len(log) \in Nat
    BY DEF PromiseInv, FullInv, ChainInv, ChainTypeOK, ListsAreShort
  <1>2. i \in 1..Len(log)
    BY <1>1
  <1>3. <<u, i>> \in at
    BY <1>2
  <1>4. \A x \in at : x = <<u, i>>
    BY DEF PromiseInv, FullInv, ChainInv, Custody
  <1> DEFINE c == CHOOSE y \in at : TRUE
  <1>5. c = <<u, i>>
    BY <1>3, <1>4
  <1>6. at # {}
    BY <1>3
  <1>7. LockOf(t) = EntryLock(c[1], lockedTokens[c[1]][c[2]])
    BY <1>6 DEF LockOf, EntryLock
  <1> HIDE DEF c
  <1>8. c[1] = u /\ c[2] = i
    BY <1>5
  <1>9. QED
    BY <1>7, <1>8

\* A token without an entry is free.
LEMMA LockOfOther ==
    ASSUME NEW t, \A v \in User : \A j \in DOMAIN lockedTokens[v] : lockedTokens[v][j].token # t
    PROVE  LockOf(t) = [by |-> Vault]
  BY DEF LockOf

\* A token whose entry, or lack of one, is the same after a step.
LEMMA LockOfSame ==
    ASSUME PromiseInv, PromiseInv', NEW t,
           \A v \in User : \A i \in DOMAIN lockedTokens[v] :
              lockedTokens[v][i].token = t =>
                  \E j \in DOMAIN lockedTokens'[v] : lockedTokens'[v][j] = lockedTokens[v][i],
           \A v \in User : \A j \in DOMAIN lockedTokens'[v] :
              lockedTokens'[v][j].token = t =>
                  \E i \in DOMAIN lockedTokens[v] : lockedTokens'[v][j] = lockedTokens[v][i]
    PROVE  LockOf(t)' = LockOf(t)
  <1>1. LocksAreListed /\ LocksAreListed'
    BY LockOfListed, PTL
  <1>2. CASE \E v \in User : \E i \in DOMAIN lockedTokens[v] : lockedTokens[v][i].token = t
    <2>1. PICK v \in User : \E i \in DOMAIN lockedTokens[v] : lockedTokens[v][i].token = t
      BY <1>2
    <2>2. PICK i \in DOMAIN lockedTokens[v] : lockedTokens[v][i].token = t
      BY <2>1
    <2>3. PICK j \in DOMAIN lockedTokens'[v] : lockedTokens'[v][j] = lockedTokens[v][i]
      BY <2>2
    <2>4. LockOf(t) = EntryLock(v, lockedTokens[v][i])
      BY <1>1, <2>2 DEF LocksAreListed
    <2>5. LockOf(t)' = EntryLock(v, lockedTokens[v][j])'
      BY <1>1, <2>2, <2>3 DEF LocksAreListed
    <2>6. QED
      BY <2>3, <2>4, <2>5 DEF EntryLock
  <1>3. CASE ~ \E v \in User : \E i \in DOMAIN lockedTokens[v] : lockedTokens[v][i].token = t
    <2>1. \A v \in User : \A j \in DOMAIN lockedTokens'[v] : lockedTokens'[v][j].token # t
      BY <1>3
    <2>2. LockOf(t)' = [by |-> Vault]
      BY <2>1 DEF LockOf
    <2>3. QED
      BY <1>3, <2>2, LockOfOther
  <1>4. QED
    BY <1>2, <1>3

\* The locks of all the tokens, as TimeLock has them.
Locks == [t \in Token |-> LockOf(t)]

\* What a locking does to the lists: one more entry, and the others stay.
LEMMA LockOnLists ==
    ASSUME ChainTypeOK, NEW u \in User, NEW t \in Token, NEW h \in Hash, LockToken(u, t, h)
    PROVE  LET e == [token |-> t, unlockTime |-> now + LockPeriod, hash |-> h]
               n == Len(lockedTokens[u]) + 1
           IN  /\ n \in DOMAIN lockedTokens'[u] /\ lockedTokens'[u][n] = e
               /\ \A v \in User : \A i \in DOMAIN lockedTokens[v] :
                     i \in DOMAIN lockedTokens'[v] /\ lockedTokens'[v][i] = lockedTokens[v][i]
               /\ \A v \in User : \A i \in DOMAIN lockedTokens'[v] :
                     \/ lockedTokens'[v][i].token = t
                     \/ i \in DOMAIN lockedTokens[v] /\ lockedTokens'[v][i] = lockedTokens[v][i]
  <1> DEFINE e == [token |-> t, unlockTime |-> now + LockPeriod, hash |-> h]
             s == lockedTokens[u]
             n == Len(s) + 1
  <1>1. s \in Seq(LockedToken) /\ Len(s) \in Nat /\ DOMAIN s = 1..Len(s)
    BY DEF ChainTypeOK
  <1>2. lockedTokens' = [lockedTokens EXCEPT ![u] = Append(s, e)]
    BY DEF LockToken
  <1>3. lockedTokens'[u] = Append(s, e) /\ \A v \in User \ {u} : lockedTokens'[v] = lockedTokens[v]
    BY <1>2 DEF ChainTypeOK
  <1>4. /\ DOMAIN Append(s, e) = 1..n /\ Append(s, e)[n] = e
        /\ \A i \in 1..Len(s) : Append(s, e)[i] = s[i]
    BY <1>1
  <1>5. n \in 1..n /\ \A i \in 1..n : i = n \/ i \in 1..Len(s)
    BY <1>1
  <1>6. 1..Len(s) \subseteq 1..n
    BY <1>1
  <1> HIDE DEF s
  <1>7. n \in DOMAIN lockedTokens'[u] /\ lockedTokens'[u][n] = e
    BY <1>3, <1>4, <1>5
  <1>8. \A v \in User : \A i \in DOMAIN lockedTokens[v] :
            i \in DOMAIN lockedTokens'[v] /\ lockedTokens'[v][i] = lockedTokens[v][i]
    BY <1>1, <1>3, <1>4, <1>6 DEF s
  <1>9. \A v \in User : \A i \in DOMAIN lockedTokens'[v] :
            \/ lockedTokens'[v][i].token = t
            \/ i \in DOMAIN lockedTokens[v] /\ lockedTokens'[v][i] = lockedTokens[v][i]
    <2>1. ASSUME NEW i \in DOMAIN lockedTokens'[u]
          PROVE  \/ lockedTokens'[u][i].token = t
                 \/ i \in DOMAIN lockedTokens[u] /\ lockedTokens'[u][i] = lockedTokens[u][i]
      <3>1. i = n \/ i \in 1..Len(s)
        BY <1>3, <1>4, <1>5
      <3>2. QED
        BY <1>1, <1>3, <1>4, <3>1 DEF s
    <2>2. QED
      BY <1>3, <2>1
  <1>10. QED
    BY <1>7, <1>8, <1>9 DEF s

\* The locks after a step that leaves the lists and the events alone.
LEMMA LocksUntouched == UNCHANGED <<lockedTokens, log>> => Locks' = Locks
  BY DEF Locks, LockOf

\* The locks after a step that changes the lock of one token.
LEMMA OneLockChanges ==
    ASSUME NEW t \in Token, NEW k, LockOf(t)' = k,
           \A x \in Token \ {t} : LockOf(x)' = LockOf(x)
    PROVE  Locks' = [Locks EXCEPT ![t] = k]
  BY DEF Locks

\* A locking is one of TimeLock.
LEMMA LockIsPromised ==
    ASSUME PromiseInv, PromiseInv', NEW u \in User, NEW t \in Token, NEW h \in Hash,
           LockToken(u, t, h)
    PROVE  Promise!Lock(u, t, h)
  <1>1. ChainTypeOK
    BY DEF PromiseInv, FullInv, ChainInv
  <1>2. LocksAreListed'
    BY LockOfListed, PTL
  <1>3. PICK n \in DOMAIN lockedTokens'[u] :
            lockedTokens'[u][n] = [token |-> t, unlockTime |-> now + LockPeriod, hash |-> h]
    BY <1>1, LockOnLists
  <1>4. LockOf(t)' = EntryLock(u, lockedTokens[u][n])'
    BY <1>2, <1>3 DEF LocksAreListed
  <1>5. LockOf(t)' = [by |-> u, until |-> now + LockPeriod, hash |-> h]
    BY <1>3, <1>4 DEF EntryLock
  <1>6. ASSUME NEW x \in Token \ {t} PROVE LockOf(x)' = LockOf(x)
    <2>1. \A v \in User : \A i \in DOMAIN lockedTokens[v] :
              lockedTokens[v][i].token = x =>
                  \E j \in DOMAIN lockedTokens'[v] : lockedTokens'[v][j] = lockedTokens[v][i]
      BY <1>1, LockOnLists
    <2>2. \A v \in User : \A j \in DOMAIN lockedTokens'[v] :
              lockedTokens'[v][j].token = x =>
                  \E i \in DOMAIN lockedTokens[v] : lockedTokens'[v][j] = lockedTokens[v][i]
      BY <1>1, LockOnLists
    <2>3. QED
      BY <2>1, <2>2, LockOfSame
  <1>7. Locks' = [Locks EXCEPT ![t] = [by |-> u, until |-> now + LockPeriod, hash |-> h]]
    BY <1>5, <1>6, OneLockChanges
  <1>8. owner[t] = u /\ owner' = [owner EXCEPT ![t] = Vault] /\ UNCHANGED now
    BY DEF LockToken, Move
  <1>9. QED
    BY <1>7, <1>8 DEF Promise!Lock, Promise!Locked, Locks

\* An unlocking is one of TimeLock.
LEMMA UnlockIsPromised ==
    ASSUME PromiseInv, PromiseInv', NEW u \in User, NEW n \in DOMAIN lockedTokens[u],
           UnlockToken(u, n), NEW t \in Token, t = lockedTokens[u][n].token
    PROVE  Promise!Unlock(t)
  <1> DEFINE e == lockedTokens[u][n]
  <1>1. ChainInv /\ u # Vault
    BY TimeLockAssumption DEF PromiseInv, FullInv
  <1>2. LockOf(t) = EntryLock(u, e)
    BY LockOfListed DEF LocksAreListed
  <1>3. /\ \A v \in User : \A i \in DOMAIN lockedTokens[v] :
              lockedTokens[v][i].token # t =>
                 \E j \in DOMAIN lockedTokens'[v] : lockedTokens'[v][j] = lockedTokens[v][i]
        /\ \A v \in User : \A j \in DOMAIN lockedTokens'[v] :
              \E i \in DOMAIN lockedTokens[v] :
                 /\ lockedTokens'[v][j] = lockedTokens[v][i]
                 /\ lockedTokens[v][i].token # t
    BY <1>1, UnlockOnLists
  <1>4. /\ now >= e.unlockTime
        /\ owner' = [owner EXCEPT ![t] = u]
        /\ UNCHANGED now
    BY DEF UnlockToken, Move
  <1> HIDE DEF e
  <1>5. LockOf(t)' = [by |-> Vault]
    <2>1. \A v \in User : \A j \in DOMAIN lockedTokens'[v] : lockedTokens'[v][j].token # t
      BY <1>3
    <2>2. QED
      BY <2>1 DEF LockOf
  <1>6. ASSUME NEW x \in Token \ {t} PROVE LockOf(x)' = LockOf(x)
    <2>1. \A v \in User : \A i \in DOMAIN lockedTokens[v] :
              lockedTokens[v][i].token = x =>
                  \E j \in DOMAIN lockedTokens'[v] : lockedTokens'[v][j] = lockedTokens[v][i]
      BY <1>3
    <2>2. \A v \in User : \A j \in DOMAIN lockedTokens'[v] :
              lockedTokens'[v][j].token = x =>
                  \E i \in DOMAIN lockedTokens[v] : lockedTokens'[v][j] = lockedTokens[v][i]
      BY <1>3
    <2>3. QED
      BY <2>1, <2>2, LockOfSame
  <1>7. Locks' = [Locks EXCEPT ![t] = [by |-> Vault]]
    BY <1>1, <1>5, <1>6, OneLockChanges
  <1>8. Locks[t] = EntryLock(u, e)
    BY <1>1, <1>2 DEF Locks
  <1>9. Locks[t].by = u /\ Locks[t].until = e.unlockTime /\ Locks[t] # [by |-> Vault]
    <2>1. EntryLock(u, e).by = u /\ EntryLock(u, e).until = e.unlockTime /\ [by |-> Vault].by = Vault
      BY DEF EntryLock
    <2>2. QED
      BY <1>1, <1>8, <2>1
  <1>10. QED
    BY <1>4, <1>7, <1>9 DEF Promise!Unlock, Promise!Free, Locks, e

\* Each step is a step of TimeLock, or changes nothing of it: an approval.
LEMMA StepsArePromised ==
    PromiseInv /\ PromiseInv' /\ [ChainNext]_chain => [Promise!Next]_(Promise!vars)
  <1> SUFFICES ASSUME PromiseInv, PromiseInv', [ChainNext]_chain
               PROVE  [Promise!Next]_(Promise!vars)
    OBVIOUS
  <1>1. CASE UNCHANGED <<now, owner, lockedTokens, log>>
    BY <1>1, LocksUntouched DEF Promise!vars, Locks
  <1>2. CASE Tick
    <2>1. Promise!Tick
      BY <1>2, LocksUntouched DEF Tick, Promise!Tick, Locks
    <2>2. QED
      BY <2>1 DEF Promise!Next
  <1>3. ASSUME NEW t \in Token, NEW v \in User \cup {Vault}, Transfer(t, v)
        PROVE  Promise!Next
    <2>1. Promise!Transfer(t, v)
      BY <1>3, LocksUntouched DEF Transfer, Move, Promise!Transfer, Locks
    <2>2. QED
      BY <2>1 DEF Promise!Next
  <1>4. ASSUME NEW t \in Token, NEW u \in User, Mint(u, t)
        PROVE  Promise!Next
    <2>1. Promise!Mint(u, t)
      BY <1>4, LocksUntouched DEF Mint, Promise!Mint, Locks
    <2>2. QED
      BY <2>1 DEF Promise!Next
  <1>5. ASSUME NEW t \in Token, NEW u \in User, NEW h \in Hash, LockToken(u, t, h)
        PROVE  Promise!Next
    BY <1>5, LockIsPromised DEF Promise!Next
  <1>6. ASSUME NEW u \in User, NEW n \in DOMAIN lockedTokens[u], UnlockToken(u, n)
        PROVE  Promise!Next
    <2>1. lockedTokens[u][n].token \in Token
      BY EntryType DEF PromiseInv, FullInv, ChainInv
    <2>2. QED
      BY <1>6, <2>1, UnlockIsPromised DEF Promise!Next
  <1>7. QED
    BY <1>1, <1>2, <1>3, <1>4, <1>5, <1>6 DEF ChainNext, chain, Approve

\* The contract keeps the promise of a time lock: a token locked in it goes
\* back to the user who locked it, to nobody else, and not before its time,
\* whatever the order of the lockings and of the removals by swap and pop.
THEOREM PromiseIsKept == ChainSpec => KeepsPromise
  <1>1. ChainInit => PromiseInv /\ Promise!Init
    <2> SUFFICES ASSUME ChainInit PROVE PromiseInv /\ Promise!Init
      OBVIOUS
    <2>1. \A u \in User : lockedTokens[u] = << >> /\ DOMAIN lockedTokens[u] = {}
      BY DEF ChainInit
    <2>2. ListsAreShort
      BY <2>1 DEF ListsAreShort, ChainInit
    <2>3. \A t \in Token : LockOf(t) = [by |-> Vault]
      BY <2>1, LockOfOther
    <2>4. Promise!Init
      BY <2>3 DEF Promise!Init, Promise!Free, ChainInit
    <2>5. QED
      BY <2>2, <2>4, FullInit DEF PromiseInv
  <1>2. PromiseInv /\ [ChainNext]_chain => PromiseInv'
    BY FullKeeps, ListsStayShort DEF PromiseInv
  <1>3. QED
    BY <1>1, <1>2, StepsArePromised, PTL DEF ChainSpec, KeepsPromise, Promise!Spec

-----------------------------------------------------------------------------
(* Sessions and polls *)

\* A proof or an output at hand is for a tree with the session's commitment.
SessionInv ==
    /\ pc \in [Known -> {"idle", "fetch", "proved", "verify", "zkp", "granted", "check"}]
    /\ seen \in [Known -> Nat]
    /\ DOMAIN root = Known
    /\ \A h \in Known : seen[h] <= Len(log)
    /\ \A h \in Known :
          pc[h] \in {"proved", "verify", "zkp", "granted", "check"} => h \in DOMAIN root[h]

\* What is locked now is in the history of the calls under way, and so is what
\* was locked when the root of a proof was compared.
HeldInv ==
    \A h \in Known :
        /\ InCall(h) /\ Backed(h) => h \in held
        /\ pc[h] = "zkp" => h \in held

\* There is one poll at a time, and it began no earlier than the one whose
\* answer is shown.
PollInv ==
    /\ list.at \in Nat /\ list.at <= Len(log)
    /\ polls \subseteq Nat
    /\ \A n \in polls : list.at <= n /\ n <= Len(log)
    /\ polls # {} => fetching /\ \E n \in polls : polls = {n}

PageInv == FullInv /\ SessionInv /\ HeldInv /\ PollInv

\* The events only grow.
LEMMA LogGrows ==
    ASSUME FullInv, [ChainNext]_chain
    PROVE  Len(log) \in Nat /\ Len(log') \in Nat /\ Len(log) <= Len(log')
  <1>1. log \in Seq(Event)
    BY DEF FullInv, ChainInv, ChainTypeOK
  <1>2. log' \in Seq(Event)
    BY FullKeeps DEF FullInv, ChainInv, ChainTypeOK
  <1>3. log' = log \/ \E ev : log' = Append(log, ev)
    BY DEF ChainNext, chain, Tick, Approve, Transfer, Mint, LockToken, UnlockToken, Emit
  <1>4. QED
    BY <1>1, <1>2, <1>3

\* A step of one session.
LEMMA SessionKeeps ==
    ASSUME PageInv, NEW h \in Known, SessionNext(h)
    PROVE  SessionInv'
  <1>1. Len(log) \in Nat
    BY DEF PageInv, FullInv, ChainInv, ChainTypeOK
  <1>2. ASSUME NEW from, NEW to \in {"fetch", "verify", "check"}, QueryLocked(h, from, to),
               to # "fetch" => from \in {"proved", "granted"}
        PROVE  SessionInv'
    BY <1>1, <1>2 DEF QueryLocked, PageInv, SessionInv, chain
  <1>3. ASSUME NEW to \in {"idle", "proved", "granted"}, NEW r, Return(h, to, r),
               to # "idle" => h \in DOMAIN r
        PROVE  SessionInv'
    BY <1>1, <1>3 DEF Return, PageInv, SessionInv, chain
  <1>4. CASE FetchPublicInputs(h)
    BY <1>2, <1>4 DEF FetchPublicInputs
  <1>5. CASE SubmitProof(h) \/ AskValidity(h)
    BY <1>2, <1>5 DEF SubmitProof, AskValidity
  <1>6. CASE Prove(h)
    BY <1>3, <1>6 DEF Prove, GiveUp
  <1>7. pc[h] \in {"verify", "check"} => h \in DOMAIN root[h]
    BY DEF PageInv, SessionInv
  <1>8. pc[h] = "zkp" => h \in DOMAIN root[h]
    BY DEF PageInv, SessionInv
  <1>9. CASE CheckOutputValidity(h) \/ ProviderFails(h) \/ InvalidRoot(h)
    BY <1>3, <1>7, <1>9 DEF CheckOutputValidity, ProviderFails, InvalidRoot, GiveUp
  <1>10. CASE VerifyAndGetOutput(h)
    BY <1>3, <1>8, <1>10 DEF VerifyAndGetOutput
  <1>11. CASE CompareRoot(h)
    BY <1>1, <1>7, <1>11 DEF CompareRoot, PageInv, SessionInv, chain
  <1>12. QED
    BY <1>4, <1>5, <1>6, <1>9, <1>10, <1>11 DEF SessionNext

\* A session leaves the contract and the page's polls alone.
LEMMA SessionFrame ==
    ASSUME NEW h \in Known, SessionNext(h)
    PROVE  UNCHANGED chain
  BY DEF SessionNext, FetchPublicInputs, Prove, SubmitProof, CompareRoot, InvalidRoot,
         VerifyAndGetOutput, AskValidity, CheckOutputValidity, ProviderFails, QueryLocked,
         GiveUp, Return

\* A root that is current names a commitment with a token behind it.
LEMMA CurrentIsBacked ==
    ASSUME PageInv, NEW h \in Known, pc[h] \in {"verify", "check"}, RootIsCurrent(h)
    PROVE  Backed(h)
  <1>1. h \in DOMAIN CommitmentTree(seen[h], Len(log))
    BY DEF RootIsCurrent, Tree, PageInv, SessionInv
  <1>2. seen[h] \in 0..Len(log)
    BY DEF PageInv, SessionInv, FullInv, ChainInv, ChainTypeOK
  <1>3. QED
    BY <1>1, <1>2, TreeIsBacked DEF PageInv

\* A step of one session is recorded in its own history only.
LEMMA SessionHeld ==
    ASSUME PageInv, NEW h \in Known, SessionNext(h)
    PROVE  HeldInv'
  <1>1. \A g \in Known : Backed(g)' = Backed(g)
    BY SessionFrame DEF Backed, Entries, chain
  <1>2. \A g \in Known : InCall(g) /\ Backed(g) => g \in held
    BY DEF PageInv, HeldInv
  <1>3. \A g \in Known : pc[g] = "zkp" => g \in held
    BY DEF PageInv, HeldInv
  <1>4. DOMAIN pc = Known
    BY DEF PageInv, SessionInv
  <1>5. ASSUME NEW from, NEW to \in {"fetch", "verify", "check"}, QueryLocked(h, from, to)
        PROVE  HeldInv'
    BY <1>1, <1>2, <1>3, <1>4, <1>5 DEF QueryLocked, HeldInv, InCall, BackedNow
  <1>6. ASSUME NEW to \in {"idle", "proved", "granted"}, NEW r, Return(h, to, r)
        PROVE  HeldInv'
    BY <1>1, <1>2, <1>3, <1>4, <1>6 DEF Return, HeldInv, InCall
  <1>7. CASE FetchPublicInputs(h) \/ SubmitProof(h) \/ AskValidity(h)
    BY <1>5, <1>7 DEF FetchPublicInputs, SubmitProof, AskValidity
  <1>8. CASE \/ Prove(h) \/ InvalidRoot(h) \/ VerifyAndGetOutput(h)
             \/ CheckOutputValidity(h) \/ ProviderFails(h)
    BY <1>6, <1>8 DEF Prove, InvalidRoot, VerifyAndGetOutput, CheckOutputValidity,
                      ProviderFails, GiveUp
  <1>9. CASE CompareRoot(h)
    <2>1. h \in held
      BY <1>2, <1>9, CurrentIsBacked DEF CompareRoot, InCall
    <2>2. QED
      BY <1>1, <1>2, <1>3, <1>4, <1>9, <2>1 DEF CompareRoot, HeldInv, InCall
  <1>10. QED
    BY <1>7, <1>8, <1>9 DEF SessionNext

\* The first state.
LEMMA PageInitInv == PageInit => PageInv
  <1> SUFFICES ASSUME PageInit PROVE PageInv
    OBVIOUS
  <1>1. FullInv /\ log = << >>
    BY FullInit DEF PageInit, Init, ChainInit
  <1>2. QED
    BY <1>1 DEF PageInit, Init, PageInv, SessionInv, HeldInv, InCall, PollInv, NoList

\* What a step of the page is to a session, to the contract and to the polls.
LEMMA PageSteps ==
    ASSUME [PageNext]_allVars
    PROVE  /\ [ChainNext]_chain
           /\ \/ UNCHANGED session /\ (Mine \/ UNCHANGED <<chain, held>>)
              \/ Reload
              \/ UNCHANGED chain /\ \E h \in Known : SessionNext(h)
           /\ \/ UNCHANGED <<fetching, polls, list>> \/ Reload \/ PollBegins
              \/ \E n \in polls : PollEnds(n) \/ PollFails(n)
  <1>1. CASE UNCHANGED allVars
    BY <1>1 DEF allVars, vars, pageVars
  <1>2. CASE Mine /\ UNCHANGED pageVars
    BY <1>2 DEF Mine, pageVars
  <1>3. CASE Compiled \/ Type \/ Clock
    BY <1>3 DEF Compiled, Type, Clock, vars
  <1>4. CASE Reload
    BY <1>4 DEF Reload
  <1>5. CASE PollBegins
    BY <1>5 DEF PollBegins, vars
  <1>6. ASSUME NEW n \in polls, PollEnds(n) \/ PollFails(n)
        PROVE  UNCHANGED vars
    BY <1>6 DEF PollEnds, PollFails
  <1>7. ASSUME NEW h \in Known, Click(h) \/ Behind(h) \/ Renders(h)
        PROVE  SessionNext(h) /\ UNCHANGED <<fetching, polls, list>>
    BY <1>7 DEF Click, Behind, Renders, SessionNext, pageVars
  <1>8. QED
    BY <1>1, <1>2, <1>3, <1>4, <1>5, <1>6, <1>7, SessionFrame DEF PageNext, vars

\* Every step keeps the invariant.
LEMMA PageKeeps == PageInv /\ [PageNext]_allVars => PageInv'
  <1> SUFFICES ASSUME PageInv, [PageNext]_allVars PROVE PageInv'
    OBVIOUS
  <1>1. FullInv' /\ Len(log) \in Nat /\ Len(log') \in Nat /\ Len(log) <= Len(log')
    BY PageSteps, FullKeeps, LogGrows DEF PageInv
  <1>2. SessionInv'
    <2>1. CASE UNCHANGED session
      BY <1>1, <2>1 DEF PageInv, SessionInv, session
    <2>2. CASE Reload
      BY <1>1, <2>2 DEF Reload, PageInv, SessionInv, chain
    <2>3. QED
      BY <2>1, <2>2, PageSteps, SessionKeeps
  <1>4. HeldInv'
    <2>1. CASE UNCHANGED session /\ Mine
      BY <2>1 DEF Mine, BackedNow, PageInv, HeldInv, InCall, session
    <2>2. CASE UNCHANGED <<session, chain, held>>
      BY <2>2 DEF PageInv, HeldInv, InCall, session, chain, Backed, Entries
    <2>3. CASE Reload
      <3>1. \A g \in Known : Backed(g)' = Backed(g)
        BY <2>3 DEF Reload, chain, Backed, Entries
      <3>2. QED
        BY <2>3, <3>1 DEF Reload, PageInv, HeldInv, InCall
    <2>4. QED
      BY <2>1, <2>2, <2>3, PageSteps, SessionHeld
  <1>3. PollInv'
    <2>1. CASE UNCHANGED <<fetching, polls, list>>
      BY <1>1, <2>1 DEF PageInv, PollInv
    <2>2. CASE Reload
      BY <1>1, <2>2 DEF Reload, PollInv, NoList
    <2>3. CASE PollBegins
      BY <1>1, <2>3 DEF PollBegins, PageInv, PollInv, vars, chain
    <2>4. ASSUME NEW n \in polls, PollEnds(n) \/ PollFails(n) PROVE PollInv'
      BY <1>1, <2>4 DEF PollEnds, PollFails, PageInv, PollInv, vars, chain
    <2>5. QED
      BY <2>1, <2>2, <2>3, <2>4, PageSteps
  <1>5. QED
    BY <1>1, <1>2, <1>3, <1>4 DEF PageInv

-----------------------------------------------------------------------------
\* The page never replaces a list by an older one: a poll that was overtaken
\* by a later one does not exist.
THEOREM ListOnlyAdvances == PageSpec => ListNeverGoesBack
  <1>1. PageInv /\ [PageNext]_allVars => [list' = NoList \/ list'.at >= list.at]_allVars
    <2> SUFFICES ASSUME PageInv, [PageNext]_allVars PROVE list' = NoList \/ list'.at >= list.at
      OBVIOUS
    <2>1. CASE UNCHANGED list
      BY <2>1 DEF PageInv, PollInv
    <2>2. CASE Reload
      BY <2>2 DEF Reload
    <2>3. ASSUME NEW n \in polls, PollEnds(n) PROVE list'.at >= list.at
      BY <2>3 DEF PollEnds, PageInv, PollInv
    <2>4. QED
      BY <2>1, <2>2, <2>3, PageSteps DEF PollBegins, PollFails
  <1>2. QED
    BY <1>1, PageInitInv, PageKeeps, PTL DEF PageSpec, ListNeverGoesBack

\* An output is given or confirmed only if a token was locked behind its
\* commitment at an instant of the call: its tree has the commitment, the tree
\* of the two queries is the same, and what is in that tree was locked and not
\* unlocked when the second query was answered.
THEOREM OutputsBacked == PageSpec => OutputsAreBacked
  <1> DEFINE Gives == \A h \in Known :
                         pc[h] \in {"zkp", "check"} /\ pc'[h] = "granted" => h \in held
  <1>1. PageInv /\ [PageNext]_allVars => [Gives]_vars
    <2> SUFFICES ASSUME PageInv, [PageNext]_allVars, NEW h \in Known,
                        pc[h] \in {"zkp", "check"}, pc'[h] = "granted"
                 PROVE  h \in held
      OBVIOUS
    <2>1. ~ UNCHANGED session
      BY DEF session
    <2>2. CASE Reload
      BY <2>2 DEF Reload
    <2>3. ASSUME NEW g \in Known, SessionNext(g) PROVE h \in held
      <3>1. CASE pc[h] = "zkp"
        BY <3>1 DEF PageInv, HeldInv
      <3>2. CASE pc[h] = "check"
        <4>1. RootIsCurrent(h)
          BY <2>3, <3>2 DEF SessionNext, FetchPublicInputs, Prove, SubmitProof, CompareRoot,
                    InvalidRoot, VerifyAndGetOutput, AskValidity, CheckOutputValidity,
                    ProviderFails, QueryLocked, GiveUp, Return, PageInv, SessionInv
        <4>2. Backed(h)
          BY <3>2, <4>1, CurrentIsBacked
        <4>3. QED
          BY <3>2, <4>2 DEF PageInv, HeldInv, InCall
      <3>3. QED
        BY <3>1, <3>2
    <2>4. QED
      BY <2>1, <2>2, <2>3, PageSteps
  <1>2. QED
    BY <1>1, PageInitInv, PageKeeps, PTL DEF PageSpec, OutputsAreBacked
===============================================================================
