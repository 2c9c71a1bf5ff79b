--------------------------- MODULE TokenStoreProofs ---------------------------
(***************************************************************************)
(* Proofs about TokenStore, for any number of calls and tokens.            *)
(***************************************************************************)
EXTENDS TokenStore, TLAPS

\* The table is there once a call needs it, and a call made after another
\* has succeeded finds it.
Inv ==
    /\ pc \in [Call -> Pc]
    /\ \A c \in Call : pc[c] \in {"run", "done"} => table
    /\ \A c \in settled : c \in Call /\ table /\ pc[c] \notin {"create", "failed"}

\* It holds in the first state.
LEMMA InitInv == Init => Inv
  BY DEF Init, Inv, Pc

\* Every step keeps it: nothing ever drops the table.
LEMMA NextKeeps == Inv /\ [Next]_vars => Inv'
  <1> SUFFICES ASSUME Inv, [Next]_vars PROVE Inv'
    OBVIOUS
  <1>1. CASE UNCHANGED vars
    BY <1>1 DEF vars, Inv
  <1>2. ASSUME NEW c \in Call, NEW fn, NEW t, Begin(c, fn, t) PROVE Inv'
    BY <1>2 DEF Begin, Inv, Pc
  <1>3. ASSUME NEW c \in Call, Look(c) PROVE Inv'
    BY <1>3 DEF Look, Inv, Pc
  <1>4. ASSUME NEW c \in Call, Create(c) PROVE Inv'
    BY <1>4 DEF Create, Inv, Pc
  <1>5. ASSUME NEW c \in Call, Run(c) PROVE Inv'
    BY <1>5 DEF Run, Inv, Pc
  <1>6. QED
    BY <1>1, <1>2, <1>3, <1>4, <1>5 DEF Next

\* A call made when another one has succeeded never fails over the table.
THEOREM OnlyFirstCallsCollide == Spec => []FailuresOnlyAtStart
  <1>1. Inv => FailuresOnlyAtStart
    BY DEF Inv, FailuresOnlyAtStart
  <1>2. QED
    BY <1>1, InitInv, NextKeeps, PTL DEF Spec

-----------------------------------------------------------------------------
(* Rows *)

RowInv ==
    /\ op \in [Call -> [fn : Functions, token : Token]]
    /\ \A c \in Call : pc[c] # "new" => op[c].fn # "none"
    /\ StoredRowsStay

\* A call that is under way has nothing to its name yet.
LEMMA RowsKept == Inv /\ RowInv /\ [Next]_vars => RowInv'
  <1> SUFFICES ASSUME Inv, RowInv, [Next]_vars PROVE RowInv'
    OBVIOUS
  <1> USE DEF RowInv, StoredRowsStay, Functions
  <1>1. CASE UNCHANGED vars
    BY <1>1 DEF vars
  <1>2. ASSUME NEW c \in Call, NEW fn \in Functions \ {"none"}, NEW t \in Token,
               Begin(c, fn, t)
        PROVE  RowInv'
    BY <1>2 DEF Begin, Inv
  <1>3. ASSUME NEW c \in Call, Look(c) \/ Create(c) PROVE RowInv'
    BY <1>3 DEF Look, Create, Inv
  <1>4. ASSUME NEW c \in Call, Run(c) PROVE RowInv'
    <2>1. /\ op' = op /\ op[c] = [fn |-> op[c].fn, token |-> op[c].token]
          /\ pc'[c] = "done" /\ \A d \in Call \ {c} : pc'[d] = pc[d]
      BY <1>4 DEF Run, Inv
    <2>2. ASSUME NEW d \in Call, op[d].fn = "store", pc'[d] = "done"
          PROVE  op[d].token \in rows'
                 \/ \E e \in Call : /\ op[e] = [fn |-> "invalidate", token |-> op[d].token]
                                    /\ pc'[e] = "done"
      <3>1. CASE d = c
        BY <1>4, <2>2, <3>1 DEF Run
      <3>2. CASE d # c /\ op[d].token \in rows
        <4>1. CASE op[c].fn = "invalidate" /\ op[c].token = op[d].token
          BY <2>1, <4>1
        <4>2. CASE op[c].fn # "invalidate" \/ op[c].token # op[d].token
          <5>1. op[c].fn \in {"store", "get", "invalidate"} => op[d].token \in rows'
            BY <1>4, <3>2, <4>2 DEF Run
          <5>2. op[c].fn # "none"
            BY <1>4 DEF Run
          <5>3. QED
            BY <5>1, <5>2
        <4>3. QED
          BY <4>1, <4>2
      <3>3. CASE d # c /\ op[d].token \notin rows
        <4>1. PICK e \in Call : op[e] = [fn |-> "invalidate", token |-> op[d].token]
                                  /\ pc[e] = "done"
          BY <2>1, <2>2, <3>3
        <4>2. pc'[e] = "done"
          BY <2>1, <4>1
        <4>3. QED
          BY <4>1, <4>2
      <3>4. QED
        BY <3>1, <3>2, <3>3
    <2>3. \A d \in Call : pc'[d] # "new" => op'[d].fn # "none"
      BY <1>4, <2>1 DEF Run
    <2>4. QED
      BY <2>1, <2>2, <2>3
  <1>5. QED
    BY <1>1, <1>2, <1>3, <1>4 DEF Next

\* A row is there until it is deleted, however many calls race for the table.
THEOREM RowsStay == Spec => []StoredRowsStay
  <1>1. Init => RowInv
    BY TokenAssumption DEF Init, RowInv, StoredRowsStay, Functions
  <1>2. RowInv => StoredRowsStay
    BY DEF RowInv
  <1>3. QED
    BY <1>1, <1>2, InitInv, NextKeeps, RowsKept, PTL DEF Spec

=============================================================================
