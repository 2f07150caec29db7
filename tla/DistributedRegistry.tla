-------------------------- MODULE DistributedRegistry --------------------------
(***************************************************************************)
(* CentralAuthenticationServiceImpl over a registry of the class           *)
(* AbstractDistributedTicketRegistry: MemCacheTicketRegistry, or           *)
(* JBossCacheTicketRegistry, shared by the nodes of a cluster.             *)
(*                                                                         *)
(* getTicket hands out a copy of the stored ticket in a delegator.  The    *)
(* delegator changes its own copy, then writes it back; no monitor is      *)
(* shared, not even by two requests of one node.  A request is cut at each *)
(* access of the cache.                                                    *)
(***************************************************************************)
EXTENDS Integers, Sequences, FiniteSets

CONSTANTS
    TGT, ST,        \* ids of ticket granting tickets and of service tickets
    Thread,         \* requests, of any node
    Nothing,        \* what the cache has under an id it does not know
    NoTicket,
    WriteBack,      \* updateTicket: "replace" (memcached) or "put" (JBoss)
    Callback,       \* needsCallback
    StNumberOfUses, \* MultiTimeUseOrTimeoutExpirationPolicy
    MaxFaults       \* bound on evictions and failed cache operations

Ticket == TGT \cup ST

ASSUME RegistryAssumption ==
    /\ TGT \cap ST = {}
    /\ NoTicket \notin Ticket
    /\ WriteBack \in {"replace", "put"}
    /\ Callback \in BOOLEAN
    /\ StNumberOfUses \in Nat \ {0}
    /\ MaxFaults \in Nat

VARIABLES
    cache,      \* what is stored under each id
    chain,      \* the granting tickets of each ticket, up to the root: final
    issued,     \* tickets that have been constructed
    pc, call,   \* each request, with its copy of the ticket it is about
    asked,      \* ... and how many granting tickets it has looked up in a row
    faults,     \* bound: faults so far
    added,      \* history: ids that have been written to the cache by addTicket
    assertions, \* history: assertions returned for a service ticket
    sent,       \* history: logout requests sent for a service ticket
    destroyed,  \* history: sessions a logout has deleted
    conflicted  \* history: tickets written or deleted by a request whose copy
                \* was not what was stored, and those a fault has hit

request == <<pc, call, asked>>
history == <<assertions, sent, destroyed>>
vars == <<cache, chain, issued, request, faults, added, history, conflicted>>

-----------------------------------------------------------------------------
\* The mutable part of a ticket.  Of a TicketGrantingTicketImpl: expired, the
\* services, and which of them are loggedOutAlready; of a ServiceTicketImpl:
\* the uses and grantedTicketAlready.
NewCopy == [expired |-> FALSE, services |-> {}, told |-> {},
            uses |-> 0, granted |-> FALSE]

Copies == [expired : BOOLEAN, services : SUBSET ST, told : SUBSET ST,
           uses : Nat, granted : BOOLEAN]

\* A get that finds nothing is told from every ticket.
ASSUME NothingAssumption == Nothing \notin Copies

NoCall == [ticket |-> NoTicket, copy |-> NewCopy, new |-> NoTicket,
           matches |-> FALSE]

Stored(x) == cache[x] # Nothing

\* Mutant: one use too many before a service ticket counts as used up.
OwnExpired_OneMore(x, copy) ==
    \/ x \in TGT /\ copy.expired
    \/ x \in ST /\ copy.uses > StNumberOfUses

\* The policy of service tickets counts uses; what is stored expires with time
\* by leaving the cache (Evict).
OwnExpired(x, copy) ==
    \/ x \in TGT /\ copy.expired
    \/ x \in ST /\ copy.uses >= StNumberOfUses

\* TicketDelegator.isExpired: the copy, and with the callback the granting
\* tickets as they are stored, looked up one after the other to the first that
\* is not found.  The copy does not change meanwhile, so it is asked first; the
\* snapshots of granting tickets inside it were taken from unexpired ones.
GrantingTicket(th) == chain[call[th].ticket][asked[th] + 1]

LooksUp(th) == Callback /\ asked[th] < Len(chain[call[th].ticket])

IsExpired(th) ==
    \/ OwnExpired(call[th].ticket, call[th].copy)
    \/ /\ LooksUp(th) /\ Stored(GrantingTicket(th))
       /\ cache[GrantingTicket(th)].expired

\* The granting ticket is found alive, and has a granting ticket itself.
AsksOn(th) ==
    /\ ~IsExpired(th)
    /\ LooksUp(th) /\ Stored(GrantingTicket(th))
    /\ asked[th] + 1 < Len(chain[call[th].ticket])

\* A cache operation fails: the error is logged, no more.
Fault == faults < MaxFaults /\ faults' = faults + 1

\* A lookup that fails finds nothing.
NotExpired(th) ==
    \/ ~IsExpired(th) /\ ~AsksOn(th) /\ UNCHANGED faults
    \/ ~OwnExpired(call[th].ticket, call[th].copy) /\ LooksUp(th) /\ Fault

\* Mutant: an update of a ticket that has been deleted stores it again.
Update_Puts(x, copy) == cache' = [cache EXCEPT ![x] = copy]

\* updateTicket
Update(x, copy) ==
    IF WriteBack = "replace" /\ ~Stored(x)
       THEN UNCHANGED cache
       ELSE cache' = [cache EXCEPT ![x] = copy]

\* Mutant: the granting ticket is the snapshot inside the service ticket.
GrantingTicketKnown_Snapshot(s) == TRUE

\* Whether getGrantingTicket() finds a ticket: with the callback it asks the
\* registry, without it there is always the snapshot.
GrantingTicketKnown(s) == ~Callback \/ Stored(Head(chain[s]))

Enter(th, label, c) ==
    /\ pc' = [pc EXCEPT ![th] = label]
    /\ call' = [call EXCEPT ![th] = c]
    /\ asked' = [asked EXCEPT ![th] = 0]
Goto(th, label) == Enter(th, label, call[th])
Return(th)      == Enter(th, "idle", NoCall)

\* Request th writes its copy back, or fails to.
Save(th, x, copy) ==
    \/ /\ Update(x, copy)
       /\ conflicted' = IF cache[x] = call[th].copy THEN conflicted
                        ELSE conflicted \cup {x}
       /\ UNCHANGED faults
    \/ /\ Fault
       /\ conflicted' = conflicted \cup {x}
       /\ UNCHANGED cache

Remove(x) == cache' = [cache EXCEPT ![x] = Nothing]

\* Bound, for model checking: a call starts only while an id is left for it.
IdLeft(ids, labels) ==
    Cardinality({q \in Thread : pc[q] \in labels}) < Cardinality(ids \ issued)

Init ==
    /\ cache = [x \in Ticket |-> Nothing]
    /\ chain = [x \in Ticket |-> <<>>]
    /\ issued = {} /\ added = {}
    /\ pc = [th \in Thread |-> "idle"]
    /\ call = [th \in Thread |-> NoCall]
    /\ asked = [th \in Thread |-> 0]
    /\ faults = 0
    /\ assertions = [s \in ST |-> 0] /\ sent = [s \in ST |-> 0]
    /\ destroyed = {} /\ conflicted = {}

-----------------------------------------------------------------------------
(* createTicketGrantingTicket *)

CreateTicketGrantingTicket(th) ==
    /\ pc[th] = "idle"
    /\ IdLeft(TGT, {"delegate", "grantTgt"})
    /\ \E t \in TGT \ issued :
        /\ issued' = issued \cup {t}
        /\ added' = added \cup {t}
        /\ cache' = [cache EXCEPT ![t] = NewCopy]
    /\ UNCHANGED <<chain, request, faults, history, conflicted>>

-----------------------------------------------------------------------------
(* grantServiceTicket *)

GrantGet(th) ==
    /\ pc[th] = "idle"
    /\ IdLeft(ST, {"check", "grant"})
    /\ \E t \in TGT :
        /\ Stored(t)
        /\ Enter(th, "check", [NoCall EXCEPT !.ticket = t, !.copy = cache[t]])
    /\ UNCHANGED <<cache, chain, issued, faults, added, history, conflicted>>

GrantCheck(th) ==
    /\ pc[th] = "check"
    /\ \/ IsExpired(th) /\ Goto(th, "remove") /\ UNCHANGED faults
       \/ NotExpired(th) /\ Goto(th, "grant")
    /\ UNCHANGED <<cache, chain, issued, added, history, conflicted>>

\* In the middle of isExpired, of whatever call.
AskGrantingTicket(th) ==
    /\ pc[th] \in {"check", "checkSt", "finally", "delegate"}
    /\ AsksOn(th)
    /\ asked' = [asked EXCEPT ![th] = @ + 1]
    /\ UNCHANGED <<cache, chain, issued, pc, call, faults, added, history, conflicted>>

\* deleteTicket, of a ticket that a grant or a validation has found expired.
RemoveExpired(th) == LET x == call[th].ticket IN
    /\ pc[th] = "remove"
    /\ \/ /\ Remove(x)
          /\ conflicted' = conflicted \cup ({x} \cap TGT)
          /\ UNCHANGED faults
       \/ Fault /\ UNCHANGED <<cache, conflicted>>
    /\ Return(th)
    /\ UNCHANGED <<chain, issued, added, history>>

\* The registered service forbids it.
GrantRefused(th) ==
    /\ pc[th] = "grant"
    /\ Return(th)
    /\ UNCHANGED <<cache, chain, issued, faults, added, history, conflicted>>

\* Mutant: the delegator does not write the ticket back.
GrantServiceTicket_NotWritten(th) == LET c == call[th] IN
    /\ pc[th] = "grant"
    /\ \E s \in ST \ issued :
        /\ issued' = issued \cup {s}
        /\ chain' = [chain EXCEPT ![s] = <<c.ticket>> \o chain[c.ticket]]
        /\ Enter(th, "add", [c EXCEPT !.new = s])
    /\ UNCHANGED <<cache, faults, added, history, conflicted>>

\* TicketGrantingTicketDelegator.grantServiceTicket
GrantServiceTicket(th) == LET c == call[th] IN
    /\ pc[th] = "grant"
    /\ \E s \in ST \ issued :
        /\ issued' = issued \cup {s}
        /\ chain' = [chain EXCEPT ![s] = <<c.ticket>> \o chain[c.ticket]]
        /\ Save(th, c.ticket, [c.copy EXCEPT !.services = @ \cup {s},
                                             !.uses = @ + 1])
        /\ Enter(th, "add", [c EXCEPT !.new = s])
    /\ UNCHANGED <<added, history>>

\* Mutant: the id is read after the call's locals are gone.
AddTicket_AfterReturn(th) ==
    /\ pc[th] = "add"
    /\ Return(th)
    /\ cache' = [cache EXCEPT ![call[th].new] = NewCopy]
    /\ added' = added \cup {call'[th].new}
    /\ UNCHANGED <<chain, issued, faults, history, conflicted>>

\* addTicket, the last step of a grant and of a delegation: a failure is
\* logged and the id is returned all the same.
AddTicket(th) == LET x == call[th].new IN
    /\ pc[th] = "add"
    /\ \/ /\ cache' = [cache EXCEPT ![x] = NewCopy]
          /\ UNCHANGED faults
       \/ Fault /\ UNCHANGED cache
    /\ added' = added \cup {x}
    /\ Return(th)
    /\ UNCHANGED <<chain, issued, history, conflicted>>

-----------------------------------------------------------------------------
(* validateServiceTicket *)

\* With the service the ticket was granted for, or with another.
ValidateGet(th) ==
    /\ pc[th] = "idle"
    /\ \E s \in ST, matches \in BOOLEAN :
        /\ Stored(s)
        /\ Enter(th, "checkSt", [NoCall EXCEPT !.ticket = s, !.copy = cache[s],
                                               !.matches = matches])
    /\ UNCHANGED <<cache, chain, issued, faults, added, history, conflicted>>

ValidateCheck(th) ==
    /\ pc[th] = "checkSt"
    /\ \/ IsExpired(th) /\ Goto(th, "finally") /\ UNCHANGED faults
       \/ NotExpired(th) /\ Goto(th, "use")
    /\ UNCHANGED <<cache, chain, issued, added, history, conflicted>>

\* ServiceTicketDelegator.isValidFor
ValidateUse(th) ==
    LET c == call[th]
        used == [c.copy EXCEPT !.uses = @ + 1]
    IN
    /\ pc[th] = "use"
    /\ Save(th, c.ticket, used)
    /\ Enter(th, IF c.matches THEN "assert" ELSE "finally", [c EXCEPT !.copy = used])
    /\ UNCHANGED <<chain, issued, added, history>>

\* getGrantingTicket().getChainedAuthentications(): the granting ticket is
\* looked up once, and once more for each further authentication of its chain.
\* Where it is not found, or the lookup fails, the validation ends in a
\* NullPointerException, after the use was counted.
ValidateAssert(th) == LET s == call[th].ticket IN
    /\ pc[th] = "assert"
    /\ \/ /\ GrantingTicketKnown(s) /\ asked[th] + 1 >= Len(chain[s])
          /\ assertions' = [assertions EXCEPT ![s] = @ + 1]
          /\ UNCHANGED faults
       \/ ~GrantingTicketKnown(s) /\ UNCHANGED <<assertions, faults>>
       \/ Callback /\ Fault /\ UNCHANGED assertions
    /\ Goto(th, "finally")
    /\ UNCHANGED <<cache, chain, issued, added, sent, destroyed, conflicted>>

AskChainedAuthentication(th) == LET s == call[th].ticket IN
    /\ pc[th] = "assert"
    /\ GrantingTicketKnown(s) /\ asked[th] + 1 < Len(chain[s])
    /\ asked' = [asked EXCEPT ![th] = @ + 1]
    /\ UNCHANGED <<cache, chain, issued, pc, call, faults, added, history, conflicted>>

ValidateFinally(th) ==
    /\ pc[th] = "finally"
    /\ \/ IsExpired(th) /\ Goto(th, "remove") /\ UNCHANGED faults
       \/ NotExpired(th) /\ Return(th)
    /\ UNCHANGED <<cache, chain, issued, added, history, conflicted>>

-----------------------------------------------------------------------------
(* delegateTicketGrantingTicket *)

DelegateGet(th) ==
    /\ pc[th] = "idle"
    /\ IdLeft(TGT, {"delegate", "grantTgt"})
    /\ \E s \in ST :
        /\ Stored(s)
        /\ Enter(th, "delegate", [NoCall EXCEPT !.ticket = s, !.copy = cache[s]])
    /\ UNCHANGED <<cache, chain, issued, faults, added, history, conflicted>>

\* The ticket has expired, or the service may not proxy.
DelegateCheck(th) ==
    /\ pc[th] = "delegate"
    /\ \/ Return(th) /\ UNCHANGED faults
       \/ NotExpired(th) /\ ~call[th].copy.granted /\ Goto(th, "grantTgt")
    /\ UNCHANGED <<cache, chain, issued, added, history, conflicted>>

\* ServiceTicketDelegator.grantTicketGrantingTicket
GrantTicketGrantingTicket(th) == LET c == call[th] IN
    /\ pc[th] = "grantTgt"
    /\ \E t \in TGT \ issued :
        /\ issued' = issued \cup {t}
        /\ chain' = [chain EXCEPT ![t] = chain[c.ticket]]
        /\ Save(th, c.ticket, [c.copy EXCEPT !.granted = TRUE])
        /\ Enter(th, "add", [c EXCEPT !.new = t])
    /\ UNCHANGED <<added, history>>

-----------------------------------------------------------------------------
(* destroyTicketGrantingTicket *)

DestroyGet(th) ==
    /\ pc[th] = "idle"
    /\ \E t \in TGT :
        /\ Stored(t)
        /\ Enter(th, "expire", [NoCall EXCEPT !.ticket = t, !.copy = cache[t]])
    /\ UNCHANGED <<cache, chain, issued, faults, added, history, conflicted>>

\* TicketGrantingTicketDelegator.expire: the services in the request's copy are
\* sent a logout request, then the copy is written back.
Expire(th) ==
    LET c == call[th]
        expired == [c.copy EXCEPT !.expired = TRUE, !.told = c.copy.services]
    IN
    /\ pc[th] = "expire"
    /\ sent' = [s \in ST |-> IF s \in c.copy.services \ c.copy.told
                              THEN sent[s] + 1 ELSE sent[s]]
    /\ Save(th, c.ticket, expired)
    /\ Enter(th, "delete", [c EXCEPT !.copy = expired])
    /\ UNCHANGED <<chain, issued, added, assertions, destroyed>>

\* deleteTicket; a failure is logged and the logout is complete all the same.
DestroyDelete(th) == LET c == call[th] IN
    /\ pc[th] = "delete"
    /\ \/ /\ Remove(c.ticket)
          /\ destroyed' = destroyed \cup {c.ticket}
          /\ conflicted' = IF cache[c.ticket] = c.copy THEN conflicted
                           ELSE conflicted \cup {c.ticket}
          /\ UNCHANGED faults
       \/ /\ Fault
          /\ conflicted' = conflicted \cup {c.ticket}
          /\ UNCHANGED <<cache, destroyed>>
    /\ Return(th)
    /\ UNCHANGED <<chain, issued, added, assertions, sent>>

-----------------------------------------------------------------------------
\* A cache drops what is stored: the item's time is over, memory is short, or
\* a server restarts.
Evict(x) ==
    /\ Stored(x)
    /\ Fault
    /\ Remove(x)
    /\ UNCHANGED <<chain, issued, request, added, history, conflicted>>

Call(th) ==
    \/ CreateTicketGrantingTicket(th)
    \/ GrantGet(th) \/ ValidateGet(th) \/ DelegateGet(th) \/ DestroyGet(th)

Proceed(th) ==
    \/ AskGrantingTicket(th) \/ RemoveExpired(th)
    \/ GrantCheck(th) \/ GrantRefused(th) \/ GrantServiceTicket(th) \/ AddTicket(th)
    \/ ValidateCheck(th) \/ ValidateUse(th)
    \/ AskChainedAuthentication(th) \/ ValidateAssert(th) \/ ValidateFinally(th)
    \/ DelegateCheck(th) \/ GrantTicketGrantingTicket(th)
    \/ Expire(th) \/ DestroyDelete(th)

Next ==
    \/ \E th \in Thread : Call(th) \/ Proceed(th)
    \/ \E x \in Ticket : Evict(x)

Spec == Init /\ [][Next]_vars

-----------------------------------------------------------------------------
Calls == [ticket : Ticket \cup {NoTicket}, copy : Copies,
          new : Ticket \cup {NoTicket}, matches : BOOLEAN]

\* Every variable keeps its type.
TypeOK ==
    /\ cache \in [Ticket -> Copies \cup {Nothing}]
    /\ chain \in [Ticket -> Seq(TGT)]
    /\ issued \subseteq Ticket /\ added \subseteq issued
    /\ pc \in [Thread -> {"idle", "check", "grant", "add", "checkSt", "use", "assert",
                          "finally", "remove", "delegate", "grantTgt", "expire", "delete"}]
    /\ call \in [Thread -> Calls]
    /\ asked \in [Thread -> Nat]
    /\ faults \in 0 .. MaxFaults
    /\ assertions \in [ST -> Nat] /\ sent \in [ST -> Nat]
    /\ destroyed \subseteq TGT /\ conflicted \subseteq Ticket

\* A ticket that has left the registry (logged out, used up, evicted) does not
\* come back with the late update of a request that still holds a copy of it
\* (MemCacheTicketRegistry.updateTicket replaces).
NoResurrection ==
    [][\A x \in added : cache[x] = Nothing => cache'[x] = Nothing]_vars

\* Once a logout has deleted a session nobody gets an assertion for a service
\* ticket granted on it, although the service ticket stays in the cache and
\* does not count as expired there (validateServiceTicket asks the registry
\* for the granting ticket, and fails without it).
NoAssertionAfterLogout ==
    [][\A s \in ST : assertions'[s] # assertions[s] =>
            Head(chain[s]) \notin destroyed]_vars

\* "This has the effect of invalidating any Ticket that was derived from the
\* TicketGrantingTicket being destroyed" (CentralAuthenticationService.java).
DerivedInvalidated ==
    [][\A s \in ST : assertions'[s] # assertions[s] =>
            \A k \in 1 .. Len(chain[s]) : chain[s][k] \notin destroyed]_vars

\* Single sign-out over all nodes: but for a session some request has written
\* or deleted from an older copy, the applications that got an assertion are
\* sent exactly one logout request, whatever the validations on other nodes
\* were doing meanwhile.
SingleSignOut ==
    \A s \in ST, t \in destroyed \ conflicted :
        s \in issued /\ Head(chain[s]) = t /\ assertions[s] > 0 => sent[s] = 1

\* A service ticket no two requests have updated at once is good for
\* numberOfUses assertions, on whatever nodes they were given.
UsesBounded == \A s \in ST \ conflicted : assertions[s] <= StNumberOfUses
=============================================================================
