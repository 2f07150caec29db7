---------------------------- MODULE LockingStrategy ----------------------------
(***************************************************************************)
(* JpaLockingStrategy and JdbcLockingStrategy: one row of the lock table,  *)
(* contended for by the runs of the ticket registry cleaner on the nodes   *)
(* of a cluster.  DefaultTicketRegistryCleaner.clean acquires the lock,    *)
(* cleans, and releases it in a finally block.                             *)
(*                                                                         *)
(* acquire() is a transaction: query the row, decide, write and commit.    *)
(* What keeps two transactions apart depends on the platform: SELECT ...   *)
(* FOR UPDATE locks an existing row from the query to the commit; on SQL   *)
(* Server the isolation level is SERIALIZABLE; on HSQL nothing does.       *)
(* Clocks are one clock, and a date is the time left until it.             *)
(***************************************************************************)
EXTENDS Integers

CONSTANTS
    Run,        \* runs of the cleaner
    Node,       \* values of uniqueId
    NodeOf,     \* the uniqueId a run locks under
    Strategy,   \* "jpa" or "jdbc"
    Isolation,  \* "forUpdate", "serializable" or "none"
    Timeout,    \* lockTimeout
    Nobody,     \* the null unique_id of a row
    NoRow,      \* stands for the owner while there is no row
    Forever,    \* the null expiration_date
    MaxCrashes  \* bound on the crashes of nodes

ASSUME LockAssumption ==
    /\ NodeOf \in [Run -> Node]
    /\ Strategy \in {"jpa", "jdbc"}
    /\ Isolation \in {"forUpdate", "serializable", "none"}
    /\ Timeout \in Nat
    /\ Nobody \notin Node /\ NoRow \notin Node \cup {Nobody}
    /\ Forever \notin Int
    /\ MaxCrashes \in Nat

VARIABLES
    row,      \* the row of the lock table: owner, time left
    pc,       \* where each run is
    read,     \* the row as the run's query returned it
    lease,    \* the expiration date the run's acquire() has computed
    crashes

vars == <<row, pc, read, lease, crashes>>

-----------------------------------------------------------------------------
Over == -1
Elapse(left) == IF left \in {Forever, Over} THEN left ELSE left - 1

Row(owner, left) == [owner |-> owner, left |-> left]
Empty == Row(NoRow, Forever)
ElapseRow(w) == Row(w.owner, Elapse(w.left))

\* The expiration date of a lock acquired now.  A lockTimeout of zero is no date
\* to JpaLockingStrategy, and the current time to JdbcLockingStrategy.
FreshLease == IF Strategy = "jpa" /\ Timeout = 0 THEN Forever ELSE Timeout

\* Mutant: a lock that has expired is not for its owner to take again.
CanAcquire_NeverExpired(r) == read[r].owner \in {NoRow, Nobody}

\* No row, nobody's row, or a row that has expired, whoever owned it.
CanAcquire(r) == read[r].owner \in {NoRow, Nobody} \/ read[r].left = Over

InTransaction(r) == pc[r] \in {"decide", "write"}

\* Mutant: the query is made without its lock mode.
Blocked_NoLockMode(r) == FALSE

\* A transaction of another run that has what r needs to write, or to query FOR
\* UPDATE: its lock on an existing row, or its shared lock on the range.
Blocked(r) ==
    \E q \in Run \ {r} : /\ InTransaction(q)
                         /\ \/ Isolation = "forUpdate" /\ read[q].owner # NoRow
                            \/ Isolation = "serializable"

Holds(r) == pc[r] = "clean" /\ lease[r] # Over

-----------------------------------------------------------------------------
Init ==
    /\ row = Empty
    /\ pc = [r \in Run |-> "idle"]
    /\ read = [r \in Run |-> Empty]
    /\ lease = [r \in Run |-> Over]
    /\ crashes = 0

Tick ==
    /\ row' = ElapseRow(row)
    /\ read' = [r \in Run |-> ElapseRow(read[r])]
    /\ lease' = [r \in Run |-> Elapse(lease[r])]
    /\ UNCHANGED <<pc, crashes>>

Query(r) ==
    /\ pc[r] = "idle"
    /\ Isolation = "forUpdate" => ~Blocked(r)
    /\ pc' = [pc EXCEPT ![r] = "decide"]
    /\ read' = [read EXCEPT ![r] = row]
    /\ UNCHANGED <<row, lease, crashes>>

Decide(r) ==
    /\ pc[r] = "decide"
    /\ \/ /\ CanAcquire(r)
          /\ pc' = [pc EXCEPT ![r] = "write"]
          /\ lease' = [lease EXCEPT ![r] = FreshLease]
       \/ /\ ~CanAcquire(r)
          /\ pc' = [pc EXCEPT ![r] = "idle"]
          /\ UNCHANGED lease
    /\ UNCHANGED <<row, read, crashes>>

\* Mutant: the row is written in the name of the thread.
Write_InThreadsName(r) ==
    /\ pc[r] = "write"
    /\ ~Blocked(r)
    /\ row' = Row(r, lease[r])
    /\ pc' = [pc EXCEPT ![r] = "clean"]
    /\ UNCHANGED <<read, lease, crashes>>

\* Mutant: an INSERT that meets a row replaces it.
Write_Upsert(r) ==
    /\ pc[r] = "write"
    /\ ~Blocked(r) \/ read[r].owner = NoRow
    /\ row' = Row(NodeOf[r], lease[r])
    /\ pc' = [pc EXCEPT ![r] = "clean"]
    /\ UNCHANGED <<read, lease, crashes>>

\* An INSERT fails when another run has created the row since the query: the
\* transaction rolls back and acquire() ends in false or an exception.
Write(r) ==
    /\ pc[r] = "write"
    /\ \/ /\ read[r].owner = NoRow /\ row.owner # NoRow
          /\ pc' = [pc EXCEPT ![r] = "idle"]
          /\ UNCHANGED row
       \/ /\ read[r].owner = NoRow => row.owner = NoRow
          /\ ~Blocked(r)
          /\ row' = Row(NodeOf[r], lease[r])
          /\ pc' = [pc EXCEPT ![r] = "clean"]
    /\ UNCHANGED <<read, lease, crashes>>

\* A write that has to wait for another transaction is given up: it takes too
\* long, or (SERIALIZABLE, where both have read the row and mean to write it) the
\* database makes it the victim of the deadlock.
Abort(r) ==
    /\ pc[r] = "write" /\ Blocked(r)
    /\ pc' = [pc EXCEPT ![r] = "idle"]
    /\ UNCHANGED <<row, read, lease, crashes>>

\* Mutant: the owner is not compared.
Release_OfAnyOwner(r) ==
    /\ pc[r] = "clean"
    /\ ~Blocked(r)
    /\ pc' = [pc EXCEPT ![r] = "idle"]
    /\ row' = Row(Nobody, Forever)
    /\ UNCHANGED <<read, lease, crashes>>

\* Only the owner's row is cleared.  When another node has taken the lock over
\* JpaLockingStrategy throws, and the run ends with the exception;
\* JdbcLockingStrategy updates no row.
Release(r) ==
    /\ pc[r] = "clean"
    /\ ~Blocked(r)
    /\ pc' = [pc EXCEPT ![r] = "idle"]
    /\ \/ row.owner = NodeOf[r] /\ row' = Row(Nobody, Forever)
       \/ row.owner # NodeOf[r] /\ UNCHANGED row
    /\ UNCHANGED <<read, lease, crashes>>

\* A node stops: its transactions roll back, its lock stays.
Crash(n) ==
    /\ crashes < MaxCrashes
    /\ crashes' = crashes + 1
    /\ pc' = [r \in Run |-> IF NodeOf[r] = n THEN "idle" ELSE pc[r]]
    /\ UNCHANGED <<row, read, lease>>

Proceed(r) == Query(r) \/ Decide(r) \/ Write(r) \/ Abort(r) \/ Release(r)

Next == \/ Tick
        \/ \E r \in Run : Proceed(r)
        \/ \E n \in Node : Crash(n)

Spec == Init /\ [][Next]_vars

\* Time passes, and a node that is up runs its cleaner again and again.
FairSpec == Spec /\ WF_vars(Tick) /\ \A r \in Run : WF_vars(Proceed(r))

-----------------------------------------------------------------------------
Left == Nat \cup {Over, Forever}
Rows == [owner : Node \cup {Nobody, NoRow}, left : Left]

\* Every variable keeps its type.
TypeOK ==
    /\ row \in Rows
    /\ pc \in [Run -> {"idle", "decide", "write", "clean"}]
    /\ read \in [Run -> Rows]
    /\ lease \in [Run -> Left]
    /\ crashes \in Nat

\* "Only only client at a time may acquire the lock" (JdbcLockingStrategy), "an
\* exclusive, non-reintrant lock" (JpaLockingStrategy): of two runs that clean,
\* at most one is within the time it was given.
Exclusive == \A r, q \in Run : Holds(r) /\ Holds(q) => r = q

\* The same as an implementation of ExclusiveLock: nobody acquires the lock
\* while another holds it.
Lock == INSTANCE ExclusiveLock WITH holders <- {r \in Run : Holds(r)}
ImplementsExclusiveLock == Lock!Spec

\* "Only the current owner can release the lock": the row changes hands by a
\* release of its owner, or by a takeover once it has expired.
OwnerKeepsLock ==
    [][row.owner \in Node /\ row' # ElapseRow(row) /\ row' # row =>
          \/ row.left = Over
          \/ \E r \in Run : NodeOf[r] = row.owner /\ Release(r)]_vars

\* Whatever crashes, there is always a next run that gets to clean: a lock that
\* its owner did not live to release is taken over when it has expired.
CleaningGoesOn == []<>(\E r \in Run : pc[r] = "clean")
=============================================================================
