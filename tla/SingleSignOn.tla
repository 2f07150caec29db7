----------------------------- MODULE SingleSignOn -----------------------------
(***************************************************************************)
(* What the central authentication service promises to the applications    *)
(* that trust it.  A session is opened and may be closed, once.  A token   *)
(* is drawn on a session, and on the sessions that one was itself drawn    *)
(* on; it can be spent a fixed number of times and only while all of those *)
(* are open.  The applications that hold tokens of a closed session are    *)
(* told.  There are no requests, no threads, no registry and no cleaner.   *)
(***************************************************************************)
EXTENDS Naturals

CONSTANTS Session, Token, Worth

VARIABLES
    session,  \* "none", "open" or "closed"
    drawn,    \* the session each token was drawn on, with those above it
    spent,    \* how often each token was spent
    told      \* tokens whose application was told that the session closed

vars == <<session, drawn, spent, told>>

Init ==
    /\ session = [t \in Session |-> "none"]
    /\ drawn = [s \in Token |-> {}]
    /\ spent = [s \in Token |-> 0]
    /\ told = {}

Open(t) ==
    /\ session[t] = "none"
    /\ session' = [session EXCEPT ![t] = "open"]
    /\ UNCHANGED <<drawn, spent, told>>

Draw(s) ==
    /\ drawn[s] = {}
    /\ \E on \in SUBSET {t \in Session : session[t] # "none"} :
        on # {} /\ drawn' = [drawn EXCEPT ![s] = on]
    /\ UNCHANGED <<session, spent, told>>

Spend(s) ==
    /\ drawn[s] # {}
    /\ \A t \in drawn[s] : session[t] = "open"
    /\ spent[s] < Worth
    /\ spent' = [spent EXCEPT ![s] = @ + 1]
    /\ UNCHANGED <<session, drawn, told>>

Close(t) ==
    /\ session[t] = "open"
    /\ session' = [session EXCEPT ![t] = "closed"]
    /\ UNCHANGED <<drawn, spent, told>>

\* Nobody is told of a close that has not happened.
Tell(t) ==
    /\ session[t] = "closed"
    /\ \E some \in SUBSET {s \in Token : t \in drawn[s]} : told' = told \cup some
    /\ UNCHANGED <<session, drawn, spent>>

Next ==
    \/ \E t \in Session : Open(t) \/ Close(t) \/ Tell(t)
    \/ \E s \in Token : Draw(s) \/ Spend(s)

Spec == Init /\ [][Next]_vars
=============================================================================
