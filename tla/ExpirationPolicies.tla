------------------------- MODULE ExpirationPolicies -------------------------
(***************************************************************************)
(* The expiration policies of org.jasig.cas.ticket.support.  A policy is   *)
(* asked isExpired(TicketState): here a predicate over a ticket state `ts' *)
(* (the fields created, lastUsed and uses of AbstractTicket), the clock    *)
(* `now' (System.currentTimeMillis()) and the policy's own settings.       *)
(* Time is counted in abstract ticks.                                      *)
(***************************************************************************)
EXTENDS Integers

\* How long ago the ticket was made, and how long ago it was last used.
Age(ts, now)  == now - ts.created
Idle(ts, now) == now - ts.lastUsed

NeverExpires == FALSE

HardTimeout(ts, now, timeToKill) == Age(ts, now) >= timeToKill

Timeout(ts, now, timeToKill) == Idle(ts, now) >= timeToKill

MultiTimeUseOrTimeout(ts, now, numberOfUses, timeToKill) ==
    \/ ts.uses >= numberOfUses
    \/ Idle(ts, now) >= timeToKill

\* A hard window since creation and, inside it, a sliding window since the
\* last use.
TicketGrantingTicketPolicy(ts, now, maxTimeToLive, timeToKill) ==
    \/ Age(ts, now) >= maxTimeToLive
    \/ Idle(ts, now) >= timeToKill

\* The throttle answers "expired" during the waiting period that follows a
\* use, so a ticket may expire and come back to life.
ThrottledUseAndTimeout(ts, now, timeInBetweenUses, timeToKill) ==
    \/ Idle(ts, now) >= timeToKill
    \/ ts.uses > 0 /\ Idle(ts, now) <= timeInBetweenUses

\* The policy chosen by the remember-me attribute of the authentication: the
\* verdicts of the two delegates are the parameters.
RememberMeDelegating(rememberMe, rememberMeVerdict, sessionVerdict) ==
    \/ rememberMe /\ rememberMeVerdict
    \/ ~rememberMe /\ sessionVerdict
=============================================================================
