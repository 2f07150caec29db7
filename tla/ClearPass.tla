------------------------------- MODULE ClearPass -------------------------------
(***************************************************************************)
(* The ClearPass extension: the cache that keeps a user's password for as  *)
(* long as the user is logged in (CacheCredentialsMetaDataPopulator,       *)
(* TicketRegistryDecorator, EhcacheBackedMap).                             *)
(*                                                                         *)
(* The password is stored under the user's name when the user is           *)
(* authenticated, whatever for.  The decorated ticket registry stores the  *)
(* name under each ticket granting ticket's id, and removes the password   *)
(* when the ticket is deleted.  Nothing is synchronized: a request is cut  *)
(* at each access of the cache or the registry.                            *)
(***************************************************************************)
EXTENDS Naturals, FiniteSets

CONSTANTS
    TGT, User, Thread,
    NoTicket, NoUser,
    MaxEvictions    \* bound on what the cache drops when it is full

ASSUME ClearPassAssumption ==
    /\ NoTicket \notin TGT /\ NoUser \notin User
    /\ MaxEvictions \in Nat

VARIABLES
    password,   \* users whose password is in the cache
    userName,   \* the user's name in the cache, under each ticket's id
    registry,   \* ticket granting tickets in the registry
    owner,      \* the principal of each ticket that has been constructed
    expired,    \* tickets that have expired, or that are logged out
    pc, call,   \* each request
    evictions,
    unmapped,   \* history: tickets whose deletion has removed the password
    exposed     \* history: users whose password was stored by a renewal of
                \* another user's session or of one whose deletion was under
                \* way, or who had a session deleted after its name was evicted

session == <<registry, owner, expired>>
vars    == <<password, userName, session, pc, call, evictions, unmapped, exposed>>

-----------------------------------------------------------------------------
NoCall == [ticket |-> NoTicket, user |-> NoUser]

Enter(th, label, t, u) ==
    /\ pc' = [pc EXCEPT ![th] = label]
    /\ call' = [call EXCEPT ![th] = [ticket |-> t, user |-> u]]
Goto(th, label) == Enter(th, label, call[th].ticket, call[th].user)
Return(th)      == Enter(th, "idle", NoTicket, NoUser)

New == {t \in TGT : owner[t] = NoUser}

\* Bound, for model checking: a login begins only while an id is left for it.
IdLeft == Cardinality({th \in Thread : pc[th] = "create"}) < Cardinality(New)

Init ==
    /\ password = {}
    /\ userName = [t \in TGT |-> NoUser]
    /\ registry = {} /\ expired = {}
    /\ owner = [t \in TGT |-> NoUser]
    /\ pc = [th \in Thread |-> "idle"]
    /\ call = [th \in Thread |-> NoCall]
    /\ evictions = 0
    /\ unmapped = {} /\ exposed = {}

-----------------------------------------------------------------------------
(* createTicketGrantingTicket *)

\* authenticate, and the populator.
Authenticate(th) ==
    /\ pc[th] = "idle"
    /\ IdLeft
    /\ \E u \in User :
        /\ password' = password \cup {u}
        /\ Enter(th, "create", NoTicket, u)
    /\ UNCHANGED <<userName, session, evictions, unmapped, exposed>>

\* TicketRegistryDecorator.addTicket: the cache first ...
MapTicket(th) == LET u == call[th].user IN
    /\ pc[th] = "create"
    /\ \E t \in New :
        /\ owner' = [owner EXCEPT ![t] = u]
        /\ userName' = [userName EXCEPT ![t] = u]
        /\ Enter(th, "add", t, u)
    /\ UNCHANGED <<password, registry, expired, evictions, unmapped, exposed>>

\* Mutant: the id is read after the call's locals are gone.
AddTicket_AfterReturn(th) ==
    /\ pc[th] = "add"
    /\ Return(th)
    /\ registry' = registry \cup {call'[th].ticket}
    /\ UNCHANGED <<password, userName, owner, expired, evictions, unmapped, exposed>>

\* ... then the registry it decorates.
AddTicket(th) ==
    /\ pc[th] = "add"
    /\ registry' = registry \cup {call[th].ticket}
    /\ Return(th)
    /\ UNCHANGED <<password, userName, owner, expired, evictions, unmapped, exposed>>

-----------------------------------------------------------------------------
(* grantServiceTicket with credentials *)

\* A ticket that has expired is deleted; of one that has not the credentials
\* are authenticated, whoever's they are.
RenewLookup(th) ==
    /\ pc[th] = "idle"
    /\ \E t \in registry, u \in User :
        Enter(th, IF t \in expired THEN "unmap" ELSE "renew", t, u)
    /\ UNCHANGED <<password, userName, session, evictions, unmapped, exposed>>

\* authenticate, and the populator; then the principals are compared, and the
\* call ends one way or the other.
Renew(th) == LET c == call[th] IN
    /\ pc[th] = "renew"
    /\ password' = password \cup {c.user}
    /\ exposed' = IF c.ticket \in unmapped \/ owner[c.ticket] # c.user
                  THEN exposed \cup {c.user} ELSE exposed
    /\ Return(th)
    /\ UNCHANGED <<userName, session, evictions, unmapped>>

-----------------------------------------------------------------------------
(* destroyTicketGrantingTicket and the cleaner *)

\* Mutant: the ticket is deleted from the registry that is decorated.
Expire_Undecorated(th) ==
    /\ pc[th] = "idle"
    /\ \E t \in registry :
        /\ expired' = expired \cup {t}
        /\ Enter(th, "delete", t, NoUser)
    /\ UNCHANGED <<password, userName, registry, owner, evictions, unmapped, exposed>>

\* The ticket is expired before it is deleted.
Expire(th) ==
    /\ pc[th] = "idle"
    /\ \E t \in registry :
        /\ expired' = expired \cup {t}
        /\ Enter(th, "unmap", t, NoUser)
    /\ UNCHANGED <<password, userName, registry, owner, evictions, unmapped, exposed>>

\* TicketRegistryDecorator.deleteTicket reads the name under the ticket's id,
\* which stays there.  Where there is none no password is removed.
GetUserName(th) == LET t == call[th].ticket IN
    /\ pc[th] = "unmap"
    /\ \/ /\ userName[t] # NoUser
          /\ Enter(th, "remove", t, userName[t])
          /\ UNCHANGED <<unmapped, exposed>>
       \/ /\ userName[t] = NoUser
          /\ Goto(th, "delete")
          /\ unmapped' = unmapped \cup {t} /\ exposed' = exposed \cup {owner[t]}
    /\ UNCHANGED <<password, userName, session, evictions>>

\* Mutant: the cache is cleared.
RemovePassword_Clears(th) == LET c == call[th] IN
    /\ pc[th] = "remove"
    /\ password' = {}
    /\ unmapped' = unmapped \cup {c.ticket} /\ exposed' = exposed \ {c.user}
    /\ Goto(th, "delete")
    /\ UNCHANGED <<userName, session, evictions>>

\* ... then removes the password of that user.
RemovePassword(th) == LET c == call[th] IN
    /\ pc[th] = "remove"
    /\ password' = password \ {c.user}
    /\ unmapped' = unmapped \cup {c.ticket} /\ exposed' = exposed \ {c.user}
    /\ Goto(th, "delete")
    /\ UNCHANGED <<userName, session, evictions>>

DeleteTicket(th) ==
    /\ pc[th] = "delete"
    /\ registry' = registry \ {call[th].ticket}
    /\ Return(th)
    /\ UNCHANGED <<password, userName, owner, expired, evictions, unmapped, exposed>>

-----------------------------------------------------------------------------
TimesOut(t) ==
    /\ t \in registry
    /\ expired' = expired \cup {t}
    /\ UNCHANGED <<password, userName, registry, owner, pc, call, evictions,
                   unmapped, exposed>>

\* maxElementsInMemory: names and passwords are dropped alike.
Evict ==
    /\ evictions < MaxEvictions
    /\ evictions' = evictions + 1
    /\ \/ \E u \in password : password' = password \ {u} /\ UNCHANGED userName
       \/ \E t \in TGT :
            /\ userName[t] # NoUser
            /\ userName' = [userName EXCEPT ![t] = NoUser]
            /\ UNCHANGED password
    /\ UNCHANGED <<session, pc, call, unmapped, exposed>>

Next ==
    \/ \E th \in Thread :
        \/ Authenticate(th) \/ MapTicket(th) \/ AddTicket(th)
        \/ RenewLookup(th) \/ Renew(th)
        \/ Expire(th) \/ GetUserName(th) \/ RemovePassword(th) \/ DeleteTicket(th)
    \/ \E t \in TGT : TimesOut(t)
    \/ Evict

Spec == Init /\ [][Next]_vars

-----------------------------------------------------------------------------
\* Every variable keeps its type.
TypeOK ==
    /\ password \subseteq User /\ exposed \subseteq User
    /\ userName \in [TGT -> User \cup {NoUser}]
    /\ owner \in [TGT -> User \cup {NoUser}]
    /\ registry \subseteq TGT /\ expired \subseteq TGT /\ unmapped \subseteq TGT
    /\ pc \in [Thread -> {"idle", "create", "add", "renew", "unmap", "remove",
                           "delete"}]
    /\ call \in [Thread -> [ticket : TGT \cup {NoTicket}, user : User \cup {NoUser}]]
    /\ evictions \in 0 .. MaxEvictions

\* A password stays in the cache no longer than a session of its user, or a
\* login that is under way, unless it was stored by a renewal that met another
\* user's session or one that was being deleted, or the name under the ticket's
\* id had been evicted: the order of the steps in addTicket and deleteTicket
\* leaves no other gap.
PasswordsGoWithSessions ==
    \A u \in password \ exposed :
        \/ \E t \in registry : owner[t] = u
        \/ \E th \in Thread : pc[th] \in {"create", "add"} /\ call[th].user = u

\* While a user is logged in once, and nothing has been evicted, the password
\* is there: only the end of another session of the same user takes it away.
SessionHasPassword ==
    \A t \in registry \ unmapped :
        \/ owner[t] \in password
        \/ evictions > 0
        \/ \E other \in unmapped \ {t} : owner[other] = owner[t]
=============================================================================
