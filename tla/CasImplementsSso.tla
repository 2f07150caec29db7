--------------------------- MODULE CasImplementsSso ---------------------------
(***************************************************************************)
(* CentralAuthenticationService implements SingleSignOn.  A session is a   *)
(* ticket granting ticket and closes when its expired flag goes up; a      *)
(* token is a service ticket and is spent when a validation finds it alive *)
(* (not later, when the use is counted).                                   *)
(***************************************************************************)
EXTENDS CentralAuthenticationService

sessionState == [t \in TGT |-> IF t \notin issued THEN "none"
                               ELSE IF tgt[t].expired THEN "closed" ELSE "open"]

spentUses == [s \in ST |-> ticket[s].uses + IF Locked(s) THEN 1 ELSE 0]

SSO == INSTANCE SingleSignOn WITH
    Session <- TGT, Token <- ST, Worth <- StNumberOfUses,
    session <- sessionState,
    drawn   <- [s \in ST |-> ticket[s].chain],
    spent   <- spentUses,
    told    <- {s \in ST : st[s].loggedOut}

\* Every step of the service is a step of SingleSignOn or changes nothing it
\* can see: tokens are spent within their worth and on open sessions only, and
\* logout requests follow the close (grantServiceTicket, validateServiceTicket
\* and destroyTicketGrantingTicket under every interleaving).
ImplementsSingleSignOn == SSO!Spec
=============================================================================
