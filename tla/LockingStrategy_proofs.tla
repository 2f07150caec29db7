------------------------ MODULE LockingStrategy_proofs ------------------------
(***************************************************************************)
(* The lock is exclusive where the platform keeps transactions apart and   *)
(* no two runs share a uniqueId.                                           *)
(***************************************************************************)
EXTENDS LockingStrategy, TLAPS

USE DEF Over

LEMMA LeftElapses ==
    ASSUME NEW left \in Left
    PROVE  /\ Elapse(left) \in Left
           /\ Elapse(left) # Over => left # Over
BY LockAssumption DEF Elapse, Left

LEMMA RowElapses ==
    ASSUME NEW w
    PROVE  ElapseRow(w).owner = w.owner /\ ElapseRow(w).left = Elapse(w.left)
BY DEF ElapseRow, Row

LEMMA TypeInit == Init => TypeOK
BY LockAssumption DEF Init, TypeOK, Empty, Row, Rows, Left

LEMMA TypeStep == TypeOK /\ [Next]_vars => TypeOK'
<1> SUFFICES ASSUME TypeOK, [Next]_vars PROVE TypeOK'
    OBVIOUS
<1> USE DEF TypeOK
<1>1. CASE Tick
  <2>1. \A w \in Rows : ElapseRow(w) \in Rows
        BY LeftElapses DEF Rows, ElapseRow, Row
  <2>2. \A r \in Run : Elapse(lease[r]) \in Left
        BY LeftElapses
  <2> QED BY <1>1, <2>1, <2>2 DEF Tick
<1>2. ASSUME NEW r \in Run, Proceed(r) PROVE TypeOK'
  <2>1. FreshLease \in Left
        BY LockAssumption DEF FreshLease, Left
  <2>2. \A left \in Left : Row(NodeOf[r], left) \in Rows
        BY LockAssumption DEF Row, Rows
  <2>3. Row(Nobody, Forever) \in Rows
        BY DEF Row, Rows, Left
  <2>4. CASE Query(r)
        BY <2>4 DEF Query
  <2>5. CASE Decide(r)
        BY <2>1, <2>5 DEF Decide
  <2>6. CASE Write(r)
        BY <2>2, <2>6 DEF Write
  <2>7. CASE Abort(r)
        BY <2>7 DEF Abort
  <2>8. CASE Release(r)
        BY <2>3, <2>8 DEF Release
  <2> QED BY <1>2, <2>4, <2>5, <2>6, <2>7, <2>8 DEF Proceed
<1>3. ASSUME NEW n \in Node, Crash(n) PROVE TypeOK'
      BY <1>3, LockAssumption DEF Crash
<1>4. CASE UNCHANGED vars
      BY <1>4 DEF vars
<1> QED BY <1>1, <1>2, <1>3, <1>4 DEF Next

\* Every variable keeps its type.
THEOREM LockTypeCorrect == Spec => []TypeOK
BY TypeInit, TypeStep, PTL DEF Spec

-----------------------------------------------------------------------------
\* The platform keeps transactions apart, and no two runs share a uniqueId.
Separated ==
    /\ Isolation \in {"forUpdate", "serializable"}
    /\ \A r, q \in Run : NodeOf[r] = NodeOf[q] => r = q

\* A run that holds the lock owns the row; what a transaction has read is what
\* the row still holds, unless it found no row FOR UPDATE; and a transaction
\* that means to write may.
LockInv ==
    /\ \A r \in Run : Holds(r) => row.owner = NodeOf[r] /\ row.left = lease[r]
    /\ \A r \in Run : InTransaction(r) =>
          read[r] = row \/ (Isolation = "forUpdate" /\ read[r].owner = NoRow)
    /\ \A r, q \in Run :
          /\ InTransaction(r) /\ InTransaction(q)
          /\ Isolation = "forUpdate" /\ read[r].owner # NoRow /\ read[q].owner # NoRow
          => r = q
    /\ \A r \in Run : pc[r] = "write" => CanAcquire(r)

LEMMA LockInit == Init => LockInv
BY DEF Init, LockInv, Holds, InTransaction

\* Nobody holds the lock that a run is about to write.
LEMMA WriteFindsItFree ==
    ASSUME TypeOK, LockInv, NEW r \in Run, pc[r] = "write",
           read[r].owner = NoRow => row.owner = NoRow
    PROVE  \A q \in Run : ~Holds(q)
<1> SUFFICES ASSUME NEW q \in Run, Holds(q) PROVE FALSE
    OBVIOUS
<1>1. row.owner = NodeOf[q] /\ row.left = lease[q] /\ lease[q] # Over
      BY DEF LockInv, Holds
<1>2. row.owner \notin {NoRow, Nobody}
      BY <1>1, LockAssumption
<1>3. read[r] = row
      BY <1>2 DEF LockInv, InTransaction
<1>4. CanAcquire(r)
      BY DEF LockInv
<1> QED BY <1>1, <1>2, <1>3, <1>4 DEF CanAcquire

LEMMA TickStep ==
    ASSUME TypeOK, LockInv, Tick
    PROVE  LockInv' /\ \A r \in Run : Holds(r)' => Holds(r)
<1>1. /\ row' = ElapseRow(row)
      /\ pc' = pc
      /\ \A r \in Run : /\ read'[r] = ElapseRow(read[r])
                        /\ lease'[r] = Elapse(lease[r])
      BY DEF Tick
<1>2. /\ row'.owner = row.owner /\ row'.left = Elapse(row.left)
      /\ \A r \in Run : /\ read'[r].owner = read[r].owner
                        /\ read'[r].left = Elapse(read[r].left)
      BY <1>1, RowElapses
<1>3. \A r \in Run : Holds(r)' => Holds(r)
      BY <1>1, LeftElapses DEF TypeOK, Holds
<1>4. \A r \in Run : Holds(r)' => row'.owner = NodeOf[r] /\ row'.left = lease'[r]
      BY <1>1, <1>2, <1>3 DEF LockInv
<1>5. \A r \in Run : InTransaction(r)' =>
         read'[r] = row' \/ (Isolation = "forUpdate" /\ read'[r].owner = NoRow)
      BY <1>1, <1>2 DEF LockInv, InTransaction
<1>6. \A r, q \in Run :
         /\ InTransaction(r)' /\ InTransaction(q)'
         /\ Isolation = "forUpdate" /\ read'[r].owner # NoRow /\ read'[q].owner # NoRow
         => r = q
      BY <1>1, <1>2 DEF LockInv, InTransaction
<1>7. \A r \in Run : pc'[r] = "write" => CanAcquire(r)'
      BY <1>1, <1>2 DEF LockInv, CanAcquire, Elapse
<1> QED BY <1>3, <1>4, <1>5, <1>6, <1>7 DEF LockInv

\* Steps that write no row, and end or go on with a transaction.
LEMMA DecideStep ==
    ASSUME TypeOK, LockInv, NEW r \in Run, Decide(r) \/ Abort(r)
    PROVE  LockInv' /\ \A q \in Run : Holds(q)' => Holds(q)
<1>1. /\ row' = row /\ read' = read
      /\ \A q \in Run \ {r} : pc'[q] = pc[q] /\ lease'[q] = lease[q]
      /\ pc[r] \in {"decide", "write"}
      /\ pc'[r] \in {"idle", "write"}
      /\ pc'[r] = "write" => CanAcquire(r)
      BY DEF TypeOK, Decide, Abort
<1>2. \A q \in Run : Holds(q)' => Holds(q) /\ q # r
      BY <1>1 DEF Holds
<1>3. \A q \in Run : InTransaction(q)' => InTransaction(q)
      BY <1>1 DEF InTransaction
<1>4. \A q \in Run : CanAcquire(q)' <=> CanAcquire(q)
      BY <1>1 DEF CanAcquire
<1> QED BY <1>1, <1>2, <1>3, <1>4 DEF LockInv

LEMMA CrashStep ==
    ASSUME TypeOK, LockInv, NEW n \in Node, Crash(n)
    PROVE  LockInv' /\ \A r \in Run : Holds(r)' => Holds(r)
<1>1. /\ UNCHANGED <<row, read, lease>>
      /\ \A r \in Run : pc'[r] = pc[r] \/ pc'[r] = "idle"
      BY DEF Crash
<1> QED BY <1>1 DEF LockInv, Holds, InTransaction, CanAcquire

LEMMA QueryStep ==
    ASSUME TypeOK, LockInv, NEW r \in Run, Query(r)
    PROVE  LockInv' /\ \A q \in Run : Holds(q)' => Holds(q)
<1>1. /\ row' = row /\ lease' = lease
      /\ \A q \in Run \ {r} : pc'[q] = pc[q] /\ read'[q] = read[q]
      /\ pc'[r] = "decide" /\ read'[r] = row
      BY DEF TypeOK, Query
<1>2. Isolation = "forUpdate" =>
         \A q \in Run \ {r} : InTransaction(q) => read[q].owner = NoRow
      BY DEF Query, Blocked
<1>3. \A q \in Run : Holds(q)' => Holds(q) /\ q # r
      BY <1>1 DEF Holds
<1>4. \A q \in Run \ {r} : /\ InTransaction(q)' <=> InTransaction(q)
                           /\ CanAcquire(q)' <=> CanAcquire(q)
      BY <1>1 DEF InTransaction, CanAcquire
<1>5. \A q \in Run : Holds(q)' => row'.owner = NodeOf[q] /\ row'.left = lease'[q]
      BY <1>1, <1>3 DEF LockInv
<1>6. \A q \in Run : InTransaction(q)' =>
         read'[q] = row' \/ (Isolation = "forUpdate" /\ read'[q].owner = NoRow)
  <2> SUFFICES ASSUME NEW q \in Run, InTransaction(q)'
               PROVE  read'[q] = row' \/ (Isolation = "forUpdate" /\ read'[q].owner = NoRow)
      OBVIOUS
  <2>1. CASE q = r
        BY <1>1, <2>1
  <2>2. CASE q # r
        BY <1>1, <1>4, <2>2 DEF LockInv
  <2> QED BY <2>1, <2>2
<1>7. \A q, u \in Run :
         /\ InTransaction(q)' /\ InTransaction(u)'
         /\ Isolation = "forUpdate" /\ read'[q].owner # NoRow /\ read'[u].owner # NoRow
         => q = u
      BY <1>1, <1>2, <1>4 DEF LockInv
<1>8. \A q \in Run : pc'[q] = "write" => CanAcquire(q)'
      BY <1>1, <1>4 DEF LockInv
<1> QED BY <1>3, <1>5, <1>6, <1>7, <1>8 DEF LockInv

\* The one step that may acquire the lock.
LEMMA WriteStep ==
    ASSUME Separated, TypeOK, LockInv, NEW r \in Run, Write(r)
    PROVE  /\ LockInv'
           /\ \/ \A q \in Run : Holds(q)' => Holds(q)
              \/ \A q \in Run : ~Holds(q) /\ (Holds(q)' => q = r)
<1>1. /\ pc[r] = "write" /\ read' = read /\ lease' = lease
      /\ \A q \in Run \ {r} : pc'[q] = pc[q]
      BY DEF TypeOK, Write
<1>2. \A q \in Run \ {r} : /\ InTransaction(q)' <=> InTransaction(q)
                           /\ CanAcquire(q)' <=> CanAcquire(q)
                           /\ Holds(q)' <=> Holds(q)
      BY <1>1 DEF InTransaction, CanAcquire, Holds
<1>3. CASE row' = row /\ pc'[r] = "idle"
  <2>1. ~InTransaction(r)' /\ ~Holds(r)'
        BY <1>3 DEF InTransaction, Holds
  <2> QED BY <1>1, <1>2, <1>3, <2>1 DEF LockInv
<1>4. CASE /\ read[r].owner = NoRow => row.owner = NoRow
           /\ ~Blocked(r)
           /\ row' = Row(NodeOf[r], lease[r])
           /\ pc'[r] = "clean"
  <2>1. \A q \in Run : ~Holds(q)
        BY <1>1, <1>4, WriteFindsItFree
  <2>2. ~InTransaction(r)'
        BY <1>4 DEF InTransaction
  <2>3. row'.owner = NodeOf[r] /\ row'.left = lease[r]
        BY <1>4 DEF Row
  <2>4. \A q \in Run \ {r} : InTransaction(q) =>
           Isolation = "forUpdate" /\ read[q].owner = NoRow
        BY <1>4 DEF Blocked, Separated
  <2> QED BY <1>1, <1>2, <1>4, <2>1, <2>2, <2>3, <2>4 DEF LockInv
<1> QED BY <1>3, <1>4 DEF Write, TypeOK

LEMMA ReleaseStep ==
    ASSUME Separated, TypeOK, LockInv, NEW r \in Run, Release(r)
    PROVE  LockInv' /\ \A q \in Run : Holds(q)' => Holds(q)
<1>1. /\ read' = read /\ lease' = lease
      /\ \A q \in Run \ {r} : pc'[q] = pc[q]
      /\ pc'[r] = "idle"
      BY DEF TypeOK, Release
<1>2. \A q \in Run \ {r} : /\ InTransaction(q)' <=> InTransaction(q)
                           /\ CanAcquire(q)' <=> CanAcquire(q)
                           /\ Holds(q)' <=> Holds(q)
      BY <1>1 DEF InTransaction, CanAcquire, Holds
<1>3. ~InTransaction(r)' /\ ~Holds(r)'
      BY <1>1 DEF InTransaction, Holds
<1>4. CASE row' = row
      BY <1>1, <1>2, <1>3, <1>4 DEF LockInv
<1>5. CASE row.owner = NodeOf[r]
  <2>1. \A q \in Run \ {r} : ~Holds(q)
        BY <1>5 DEF LockInv, Separated
  <2>2. \A q \in Run \ {r} : InTransaction(q) =>
           Isolation = "forUpdate" /\ read[q].owner = NoRow
        BY DEF Release, Blocked, Separated
  <2> QED BY <1>1, <1>2, <1>3, <2>1, <2>2 DEF LockInv
<1> QED BY <1>4, <1>5 DEF Release

LEMMA LockStep ==
    ASSUME Separated
    PROVE  TypeOK /\ LockInv /\ [Next]_vars
           => LockInv' /\ [Lock!Next]_{r \in Run : Holds(r)}
<1> SUFFICES ASSUME TypeOK, LockInv, [Next]_vars
             PROVE  LockInv' /\ [Lock!Next]_{r \in Run : Holds(r)}
    OBVIOUS
<1>1. ASSUME LockInv', \A r \in Run : Holds(r)' => Holds(r)
      PROVE  LockInv' /\ [Lock!Next]_{r \in Run : Holds(r)}
      BY <1>1 DEF Lock!Next, Lock!Lose
<1>2. CASE UNCHANGED vars
  <2>1. LockInv' /\ \A r \in Run : Holds(r)' => Holds(r)
        BY <1>2 DEF vars, LockInv, Holds, InTransaction, CanAcquire
  <2> QED BY <1>1, <2>1
<1>3. CASE Tick
      BY <1>1, <1>3, TickStep
<1>4. ASSUME NEW r \in Run, Write(r)
      PROVE  LockInv' /\ [Lock!Next]_{q \in Run : Holds(q)}
  <2>1. CASE \A q \in Run : Holds(q)' => Holds(q)
        BY <1>1, <1>4, <2>1, WriteStep
  <2>2. CASE \A q \in Run : ~Holds(q) /\ (Holds(q)' => q = r)
    <3>1. CASE Holds(r)'
      <4>1. Lock!Acquire(r)
            BY <2>2, <3>1 DEF Lock!Acquire
      <4> QED BY <1>4, <4>1, WriteStep DEF Lock!Next
    <3>2. CASE ~Holds(r)'
          BY <1>1, <1>4, <2>2, <3>2, WriteStep
    <3> QED BY <3>1, <3>2
  <2> QED BY <1>4, <2>1, <2>2, WriteStep
<1>5. ASSUME NEW r \in Run, Query(r) \/ Decide(r) \/ Abort(r) \/ Release(r)
      PROVE  LockInv' /\ [Lock!Next]_{q \in Run : Holds(q)}
      BY <1>1, <1>5, QueryStep, DecideStep, ReleaseStep
<1>6. ASSUME NEW n \in Node, Crash(n)
      PROVE  LockInv' /\ [Lock!Next]_{q \in Run : Holds(q)}
      BY <1>1, <1>6, CrashStep
<1> QED BY <1>2, <1>3, <1>4, <1>5, <1>6 DEF Next, Proceed

LEMMA LockInvariant == ASSUME Separated PROVE Spec => [](TypeOK /\ LockInv)
BY TypeInit, TypeStep, LockInit, LockStep, PTL DEF Spec

\* JpaLockingStrategy, and JdbcLockingStrategy except on HSQL, implement an
\* exclusive lock: nobody acquires it while another run is within its lease.
THEOREM LockIsExclusive == ASSUME Separated PROVE Spec => ImplementsExclusiveLock
<1>1. Init => Lock!Init
      BY DEF Init, Lock!Init, Holds
<1>2. TypeOK /\ LockInv /\ [Next]_vars => [Lock!Next]_{r \in Run : Holds(r)}
      BY LockStep
<1> QED BY <1>1, <1>2, LockInvariant, PTL DEF Spec, ImplementsExclusiveLock, Lock!Spec

\* Of two runs that clean, at most one is within the time it was given.
THEOREM AtMostOneHolder == ASSUME Separated PROVE Spec => []Exclusive
<1>1. TypeOK /\ LockInv => Exclusive
      BY DEF LockInv, Exclusive, Separated
<1> QED BY <1>1, LockInvariant, PTL

LEMMA OwnerStep ==
    ASSUME TypeOK, LockInv, [Next]_vars,
           row.owner \in Node, row' # ElapseRow(row), row' # row
    PROVE  row.left = Over \/ \E r \in Run : NodeOf[r] = row.owner /\ Release(r)
<1>1. PICK r \in Run : Write(r) \/ Release(r)
      BY DEF Next, Proceed, Tick, Query, Decide, Abort, Crash, vars
<1>2. CASE Write(r)
  <2>1. row.owner \notin {NoRow, Nobody}
        BY LockAssumption
  <2>2. pc[r] = "write" /\ read[r].owner # NoRow
        BY <1>2, <2>1 DEF Write
  <2>3. read[r] = row /\ CanAcquire(r)
        BY <2>2 DEF LockInv, InTransaction
  <2> QED BY <2>1, <2>3 DEF CanAcquire
<1>3. CASE Release(r)
  <2>1. NodeOf[r] = row.owner
        BY <1>3 DEF Release
  <2> QED BY <1>3, <2>1
<1> QED BY <1>1, <1>2, <1>3

\* "Only the current owner can release the lock": under the same assumptions the
\* row changes hands by a release of its owner or when its lease has run out.
THEOREM OwnerKeepsTheLock == ASSUME Separated PROVE Spec => OwnerKeepsLock
<1>1. TypeOK /\ LockInv /\ [Next]_vars =>
         [row.owner \in Node /\ row' # ElapseRow(row) /\ row' # row =>
             \/ row.left = Over
             \/ \E r \in Run : NodeOf[r] = row.owner /\ Release(r)]_vars
      BY OwnerStep
<1> QED BY <1>1, LockInvariant, PTL DEF Spec, OwnerKeepsLock
=============================================================================
