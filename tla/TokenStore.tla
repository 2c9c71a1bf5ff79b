----------------------------- MODULE TokenStore -----------------------------
(***************************************************************************)
(* The table refresh_tokens of the demo API server, below the one step     *)
(* ApiSessions takes for each of its functions.  Every call of             *)
(* storeAuthResponse, getAuthResponseByToken and invalidateRefreshToken    *)
(* hashes the token, opens a connection of its own, looks for the table,   *)
(* creates it if it is missing, and only then runs its statement: four     *)
(* awaits, and calls of several requests interleave at each of them.       *)
(* A row is the token it is for; the response in it is left to             *)
(* ApiSessions.                                                            *)
(***************************************************************************)
CONSTANTS
    Call,       \* calls of the three functions
    Token,      \* refresh tokens
    FirstToken  \* one of them, where a call has none yet

ASSUME TokenAssumption == FirstToken \in Token

VARIABLES
    table,   \* whether the table exists
    rows,    \* tokens with a row
    pc,      \* where each call stands
    op,      \* function and token of each call
    settled  \* history: calls made after another one had succeeded

vars == <<table, rows, pc, op, settled>>

Functions == {"none", "store", "get", "invalidate"}
Pc == {"new", "look", "create", "run", "done", "failed"}

Init ==
    /\ table = FALSE /\ rows = {} /\ settled = {}
    /\ pc = [c \in Call |-> "new"]
    /\ op = [c \in Call |-> [fn |-> "none", token |-> FirstToken]]

\* The call is made; a store has a token of its own.
Begin(c, fn, t) ==
    /\ pc[c] = "new"
    /\ fn = "store" => \A d \in Call : ~ (op[d].fn = "store" /\ op[d].token = t)
    /\ pc' = [pc EXCEPT ![c] = "look"]
    /\ op' = [op EXCEPT ![c] = [fn |-> fn, token |-> t]]
    /\ settled' = IF \E d \in Call : pc[d] = "done" THEN settled \cup {c} ELSE settled
    /\ UNCHANGED <<table, rows>>

\* Mutants: a table that is there is dropped first; a new connection always
\* creates the table.
CreateAnew(c) ==
    /\ pc[c] = "create"
    /\ pc' = [pc EXCEPT ![c] = "run"]
    /\ table' = TRUE
    /\ rows' = {}
    /\ UNCHANGED <<op, settled>>

LookNot(c) ==
    /\ pc[c] = "look"
    /\ pc' = [pc EXCEPT ![c] = "create"]
    /\ UNCHANGED <<table, rows, op, settled>>

\* openDB: SELECT name FROM sqlite_master.
Look(c) ==
    /\ pc[c] = "look"
    /\ pc' = [pc EXCEPT ![c] = IF table THEN "run" ELSE "create"]
    /\ UNCHANGED <<table, rows, op, settled>>

\* openDB: CREATE TABLE, an error if another call has been faster.
Create(c) ==
    /\ pc[c] = "create"
    /\ pc' = [pc EXCEPT ![c] = IF table THEN "failed" ELSE "run"]
    /\ table' = TRUE
    /\ UNCHANGED <<rows, op, settled>>

\* The statement of the function.
Run(c) ==
    LET t == op[c].token
    IN  /\ pc[c] = "run"
        /\ pc' = [pc EXCEPT ![c] = "done"]
        /\ rows' = CASE op[c].fn = "store" -> rows \cup {t}
                     [] op[c].fn = "get" -> rows
                     [] op[c].fn = "invalidate" -> rows \ {t}
        /\ UNCHANGED <<table, op, settled>>

Next == \E c \in Call :
    \/ \E fn \in Functions \ {"none"}, t \in Token : Begin(c, fn, t)
    \/ Look(c) \/ Create(c) \/ Run(c)

Spec == Init /\ [][Next]_vars

-----------------------------------------------------------------------------
(* Properties *)

\* A row that was stored is there until a call deletes it: the calls that
\* create the table meanwhile do not cost it.
StoredRowsStay ==
    \A c \in Call :
        op[c].fn = "store" /\ pc[c] = "done" =>
            \/ op[c].token \in rows
            \/ \E e \in Call : op[e] = [fn |-> "invalidate", token |-> op[c].token]
                                 /\ pc[e] = "done"

\* Only the first calls after an installation can collide over the table: one
\* made when another has succeeded does not fail.
FailuresOnlyAtStart == \A c \in settled : pc[c] # "failed"
=============================================================================
