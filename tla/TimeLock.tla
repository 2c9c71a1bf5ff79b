------------------------------ MODULE TimeLock ------------------------------
(***************************************************************************)
(* What a time lock for NFTs promises, whatever lists and events it keeps: *)
(* a token given to it with a commitment goes back to the user who gave    *)
(* it, to nobody else, and not before the lock period is over.             *)
(***************************************************************************)
EXTENDS Naturals

CONSTANTS User, Token, Hash, LockPeriod, Vault, Unminted

VARIABLES
    now,    \* block.timestamp
    owner,  \* owner of each token: a user, the vault, or not minted yet
    lock    \* what each token is locked for

vars == <<now, owner, lock>>

Free == [by |-> Vault]
Locked(u, until, h) == [by |-> u, until |-> until, hash |-> h]

Init == /\ now = 0
        /\ owner = [t \in Token |-> Unminted]
        /\ lock = [t \in Token |-> Free]

Mint(u, t) == /\ owner[t] = Unminted
              /\ owner' = [owner EXCEPT ![t] = u]
              /\ UNCHANGED <<now, lock>>

\* A user gives a token away, maybe to the vault, and then it is lost.
Transfer(t, v) == /\ owner[t] \in User
                  /\ owner' = [owner EXCEPT ![t] = v]
                  /\ UNCHANGED <<now, lock>>

Lock(u, t, h) == /\ owner[t] = u
                 /\ owner' = [owner EXCEPT ![t] = Vault]
                 /\ lock' = [lock EXCEPT ![t] = Locked(u, now + LockPeriod, h)]
                 /\ UNCHANGED now

Unlock(t) == /\ lock[t] # Free
             /\ now >= lock[t].until
             /\ owner' = [owner EXCEPT ![t] = lock[t].by]
             /\ lock' = [lock EXCEPT ![t] = Free]
             /\ UNCHANGED now

Tick == now' = now + 1 /\ UNCHANGED <<owner, lock>>

Next == \/ Tick
        \/ \E t \in Token :
              \/ Unlock(t)
              \/ \E v \in User \cup {Vault} : Transfer(t, v)
              \/ \E u \in User : Mint(u, t) \/ \E h \in Hash : Lock(u, t, h)

Spec == Init /\ [][Next]_vars
=============================================================================
