---------------------------- MODULE CasSessions_proofs ---------------------------
(***************************************************************************)
(* Sessions and what hangs on them: the central authentication service     *)
(* implements SingleSignOn, a destroyed session takes its tickets along,   *)
(* and a service ticket that has expired stays expired, for any number of  *)
(* tickets, applications and threads.                                      *)
(***************************************************************************)
EXTENDS CasImplementsSso, CentralAuthenticationService_proofs

\* A ticket hangs on constructed tickets only, one that has not been constructed
\* on none, and the services of a session are told after its flag went up.
ChainInv ==
    /\ \A x \in issued : ticket[x].chain \subseteq issued
    /\ \A x \in Ticket \ issued : ticket[x].chain = {}
    /\ \A p \in Proc : pc[p] = "logOut" => tgt[call[p].ticket].expired

Inv == TypeInv /\ SafetyInv /\ ChainInv

-----------------------------------------------------------------------------
(* What SingleSignOn sees of the service *)

drawnOn == [s \in ST |-> ticket[s].chain]
toldOf  == {s \in ST : st[s].loggedOut}

LEMMA SessionStates ==
    \A t \in TGT : /\ sessionState[t] = "none" <=> t \notin issued
                   /\ sessionState[t] = "closed" <=> t \in issued /\ tgt[t].expired
                   /\ sessionState[t] = "open" <=> t \in issued /\ ~tgt[t].expired
                   /\ sessionState[t] \in {"none", "open", "closed"}
BY DEF sessionState

\* Nothing has changed of the sessions, the links, the uses or the logouts.
SameSession(t) == /\ t \in issued' <=> t \in issued
                  /\ t \in issued => tgt'[t].expired = tgt[t].expired
SameSpent(s)   == /\ ticket'[s].uses + (IF Locked(s)' THEN 1 ELSE 0)
                        = ticket[s].uses + (IF Locked(s) THEN 1 ELSE 0)

SameSessions == \A t \in TGT : SameSession(t)
SameDrawn    == \A s \in ST : ticket'[s].chain = ticket[s].chain
SameUses     == \A s \in ST : SameSpent(s)
SameTold     == \A s \in ST : st'[s].loggedOut = st[s].loggedOut

LEMMA SameSessionsSeen == ASSUME SameSessions PROVE UNCHANGED sessionState
BY DEF SameSessions, SameSession, sessionState

LEMMA SameDrawnSeen == ASSUME SameDrawn PROVE UNCHANGED drawnOn
BY DEF SameDrawn, drawnOn

LEMMA SameUsesSeen == ASSUME SameUses PROVE UNCHANGED spentUses
BY DEF SameUses, SameSpent, spentUses

LEMMA SameToldSeen == ASSUME SameTold PROVE UNCHANGED toldOf
BY DEF SameTold, toldOf

Same == SameSessions /\ SameDrawn /\ SameUses /\ SameTold

\* A step of SingleSignOn, or none.
SsoStep == [SSO!Next]_SSO!vars

LEMMA SameIsStutter == ASSUME Same PROVE SsoStep
BY SameSessionsSeen, SameDrawnSeen, SameUsesSeen, SameToldSeen
   DEF Same, SsoStep, SSO!vars, drawnOn, toldOf

LEMMA QuietIsSame == ASSUME Quiet PROVE Same
<1>1. \A x : Locked(x)' <=> Locked(x)
      BY DEF Locked, Quiet
<1> QED BY <1>1 DEF Quiet, heap, Same, SameSessions, SameSession, SameDrawn, SameUses,
           SameSpent, SameTold

-----------------------------------------------------------------------------
LEMMA ChainInit == Init => ChainInv
BY DEF Init, ChainInv, NewTicket

\* A step that constructs nothing, keeps all links and takes no flag down.
LEMMA ChainKept ==
    ASSUME Inv, UNCHANGED issued,
           \A x \in Ticket : ticket'[x].chain = ticket[x].chain,
           \A t \in TGT : tgt[t].expired => tgt'[t].expired,
           \A p \in Proc : pc'[p] = "logOut" =>
                \/ pc[p] = "logOut" /\ call'[p] = call[p]
                \/ tgt'[call'[p].ticket].expired
    PROVE  ChainInv'
<1>1. \A p \in Proc : pc[p] = "logOut" => call[p].ticket \in TGT
      BY DEF Inv, TypeInv, ControlInv, MayHold, HoldsTgt
<1>2. issued \subseteq Ticket
      BY DEF Inv, TypeInv, DataInv
<1> QED BY <1>1, <1>2 DEF Inv, ChainInv

LEMMA QuietChain ==
    ASSUME Inv, Quiet
    PROVE  ChainInv' /\ SsoStep
<1>1. ChainInv'
      BY DEF Inv, ChainInv, Quiet, heap
<1> QED BY <1>1, QuietIsSame, SameIsStutter

-----------------------------------------------------------------------------
\* A login and a delegation open a session.
LEMMA OpenStep ==
    ASSUME Inv, NEW t \in TGT \ issued, NEW x \in AbstractTickets, NEW principal,
           x.chain \subseteq issued,
           issued' = issued \cup {t},
           ticket' = [ticket EXCEPT ![t] = x],
           tgt' = [tgt EXCEPT ![t] = NewTgt(principal)],
           \A s \in ST : st'[s].loggedOut = st[s].loggedOut,
           \A p \in Proc : pc[p] \in {"use", "logOut"} \/ pc'[p] \in {"use", "logOut"}
                           => pc'[p] = pc[p] /\ call'[p] = call[p]
    PROVE  ChainInv' /\ SsoStep
<1> USE DEF Inv
<1>1. /\ \A y \in Ticket \ {t} : ticket'[y] = ticket[y]
      /\ ticket'[t] = x
      /\ \A u \in TGT \ {t} : tgt'[u] = tgt[u]
      /\ ~tgt'[t].expired
      BY DEF TypeInv, DataInv, Ticket, NewTgt
<1>2. issued \subseteq Ticket /\ t \in Ticket
      BY DEF TypeInv, DataInv, Ticket
<1>3. \A p \in Proc : pc'[p] = "logOut" =>
         /\ pc[p] = "logOut" /\ call'[p] = call[p]
         /\ call[p].ticket \in TGT \cap issued
      BY DEF TypeInv, ControlInv, MayHold, SafetyInv, IssuedInv, HoldsTgt
<1>4. ChainInv'
      BY <1>1, <1>2, <1>3 DEF ChainInv
<1>5. \A y : Locked(y)' <=> Locked(y)
      BY DEF Locked
<1>6. \A s \in ST : ticket'[s] = ticket[s]
      BY <1>1, IdsAssumption DEF Ticket
<1>7. SameDrawn /\ SameUses /\ SameTold
      BY <1>5, <1>6 DEF SameDrawn, SameUses, SameSpent, SameTold
<1>8. SSO!Open(t)
  <2>1. sessionState[t] = "none"
        BY SessionStates
  <2>2. sessionState' = [sessionState EXCEPT ![t] = "open"]
        BY <1>1 DEF sessionState
  <2> QED BY <1>7, <2>1, <2>2, SameDrawnSeen, SameUsesSeen, SameToldSeen
          DEF SSO!Open, drawnOn, toldOf
<1> QED BY <1>4, <1>8 DEF SsoStep, SSO!Next

LEMMA CreateStep ==
    ASSUME Inv, NEW th \in Thread, CreateTicketGrantingTicket(th)
    PROVE  ChainInv' /\ SsoStep
<1>1. PICK t \in TGT \ issued, p \in Principal :
        /\ issued' = issued \cup {t}
        /\ ticket' = [ticket EXCEPT ![t] = NewTicket(NoTicket, {})]
        /\ tgt' = [tgt EXCEPT ![t] = NewTgt(p)]
      BY DEF CreateTicketGrantingTicket
<1>2. NewTicket(NoTicket, {}) \in AbstractTickets /\ NewTicket(NoTicket, {}).chain = {}
      BY NewTypes DEF Inv, TypeInv, NewTicket
<1>3. UNCHANGED <<st, pc, call>>
      BY DEF CreateTicketGrantingTicket
<1> HIDE DEF Inv
<1> QED BY <1>1, <1>2, <1>3, OpenStep

LEMMA DelegateStep ==
    ASSUME Inv, NEW th \in Thread, GrantTicketGrantingTicket(th)
    PROVE  ChainInv' /\ SsoStep
<1> DEFINE s == call[th].ticket
<1>1. s \in ST /\ s \in issued /\ th \in Proc /\ pc[th] = "delegate"
      BY DEF Inv, GrantTicketGrantingTicket, TypeInv, ControlInv, MayHold, HoldsSt, Proc,
             SafetyInv, IssuedInv
<1>2. CASE Return(th) /\ UNCHANGED heap
  <2>1. Quiet
        BY <1>1, <1>2
        DEF Inv, GrantTicketGrantingTicket, Quiet, Return, Enter, TypeInv, ControlInv, history
  <2> QED BY <2>1, QuietChain
<1>3. CASE ~(Return(th) /\ UNCHANGED heap)
  <2> DEFINE x == NewTicket(ticket[s].granting, ticket[s].chain)
  <2>1. PICK t \in TGT \ issued :
          /\ issued' = issued \cup {t}
          /\ ticket' = [ticket EXCEPT ![t] = x]
          /\ tgt' = [tgt EXCEPT ![t] = NewTgt(ProxyPrincipal)]
          /\ st' = [st EXCEPT ![s].granted = TRUE]
          /\ Enter(th, "add", [call[th] EXCEPT !.new = t])
        BY <1>3 DEF GrantTicketGrantingTicket
  <2>2. x \in AbstractTickets
        BY <1>1, NewTypes, FieldTypes DEF Inv, TypeInv, Ticket
  <2>3. x.chain \subseteq issued
        BY <1>1 DEF Inv, ChainInv, NewTicket
  <2>4. \A u \in ST : st'[u].loggedOut = st[u].loggedOut
        BY <1>1, <2>1 DEF Inv, TypeInv, DataInv, ServiceTickets
  <2>5. \A p \in Proc : pc[p] \in {"use", "logOut"} \/ pc'[p] \in {"use", "logOut"}
                         => pc'[p] = pc[p] /\ call'[p] = call[p]
        BY <1>1, <2>1 DEF Inv, Enter, TypeInv, ControlInv
  <2> HIDE DEF s, x
  <2> QED BY <2>1, <2>2, <2>3, <2>4, <2>5, OpenStep
<1> QED BY <1>2, <1>3

-----------------------------------------------------------------------------
\* A grant draws a token on the session and those above it.
LEMMA DrawStep ==
    ASSUME Inv, NEW th \in Thread, GrantServiceTicket(th)
    PROVE  ChainInv' /\ SsoStep
<1> USE DEF Inv
<1> DEFINE t == call[th].ticket
           on == {t} \cup ticket[t].chain
<1>1. t \in TGT /\ t \in issued /\ th \in Proc /\ pc[th] = "grant"
      BY DEF GrantServiceTicket, TypeInv, ControlInv, MayHold, SafetyInv, IssuedInv, HoldsTgt, Proc
<1>2. PICK s \in ST \ issued :
        /\ issued' = issued \cup {s}
        /\ st' = [st EXCEPT ![s] = NewSt(call[th].service,
                    ticket[t].uses = 0 \/ call[th].credentials # NoCredentials)]
        /\ ticket' = [ticket EXCEPT ![s] = NewTicket(t, on), ![t] = UpdateState(t)]
        /\ tgt' = [tgt EXCEPT ![t].services = @ \cup {s}]
        /\ Enter(th, "add", [call[th] EXCEPT !.new = s])
      BY DEF GrantServiceTicket
<1>3. on \subseteq issued /\ on \subseteq TGT /\ on # {}
      BY <1>1, FieldTypes DEF ChainInv, TypeInv, Ticket
<1>4. \A p \in Proc : pc[p] \in {"use", "logOut"} \/ pc'[p] \in {"use", "logOut"}
                       => pc'[p] = pc[p] /\ call'[p] = call[p]
      BY <1>1, <1>2 DEF Enter, TypeInv, ControlInv
<1> HIDE DEF t, on
<1>5. /\ \A x \in Ticket \ {s, t} : ticket'[x] = ticket[x]
      /\ ticket'[s].chain = on /\ ticket'[s].uses = 0
      /\ ticket'[t].chain = ticket[t].chain
      /\ s # t /\ s \in Ticket /\ t \in Ticket
  <2>1. s # t /\ s \in Ticket /\ t \in Ticket
        BY <1>1, IdsAssumption DEF Ticket
  <2>2. ticket'[t] = UpdateState(t) /\ ticket'[s] = NewTicket(t, on)
        BY <1>2, <2>1 DEF TypeInv, DataInv
  <2>3. UpdateState(t).chain = ticket[t].chain
        BY <2>1 DEF UpdateState, TypeInv, DataInv, AbstractTickets
  <2> QED BY <1>2, <2>1, <2>2, <2>3 DEF TypeInv, DataInv, NewTicket
<1>6. /\ \A x \in ST \ {s} : ticket'[x] = ticket[x]
      /\ ticket[s].uses = 0 /\ ticket[s].chain = {} /\ ~st[s].loggedOut
      BY <1>1, <1>5, IdsAssumption DEF Ticket, ChainInv, SafetyInv, UseInv, LogoutInv
<1>7. \A u \in TGT : tgt'[u].expired = tgt[u].expired
      BY <1>1, <1>2 DEF TypeInv, DataInv, TicketGrantingTickets
<1>8. \A u : Locked(u)' <=> Locked(u)
      BY <1>4 DEF Locked
<1>9. ChainInv'
  <2>1. \A x \in issued' : ticket'[x].chain \subseteq issued'
        BY <1>2, <1>3, <1>5 DEF ChainInv, TypeInv, DataInv
  <2>2. \A x \in Ticket \ issued' : ticket'[x].chain = {}
        BY <1>1, <1>2, <1>5 DEF ChainInv
  <2>3. \A p \in Proc : pc'[p] = "logOut" => tgt'[call'[p].ticket].expired
        BY <1>4, <1>7 DEF ChainInv, TypeInv, ControlInv, MayHold, HoldsTgt
  <2> QED BY <2>1, <2>2, <2>3 DEF ChainInv
<1>10. SameSessions /\ SameUses /\ SameTold
  <2>1. SameSessions
        BY <1>1, <1>2, <1>7, IdsAssumption DEF SameSessions, SameSession
  <2>2. SameUses
        BY <1>5, <1>6, <1>8 DEF SameUses, SameSpent
  <2>3. SameTold
    <3>1. \A x \in ST \ {s} : st'[x] = st[x]
          BY <1>2 DEF TypeInv, DataInv
    <3>2. \E service, newLogin : st'[s] = NewSt(service, newLogin)
          BY <1>2 DEF TypeInv, DataInv
    <3>3. st[s].loggedOut \in BOOLEAN /\ st'[s].loggedOut = FALSE
          BY <3>2, FieldTypes DEF NewSt, TypeInv
    <3> QED BY <1>6, <3>1, <3>3 DEF SameTold
  <2> QED BY <2>1, <2>2, <2>3
<1>11. SSO!Draw(s)
  <2>1. drawnOn[s] = {} /\ drawnOn' = [drawnOn EXCEPT ![s] = on]
    <3>1. \A x \in ST : ticket'[x].chain = IF x = s THEN on ELSE ticket[x].chain
          BY <1>5, <1>6
    <3> QED BY <1>6, <3>1 DEF drawnOn
  <2>2. on \in SUBSET {u \in TGT : sessionState[u] # "none"}
        BY <1>3, SessionStates
  <2> QED BY <1>3, <1>10, <2>1, <2>2, SameSessionsSeen, SameUsesSeen, SameToldSeen
          DEF SSO!Draw, drawnOn, toldOf
<1> QED BY <1>9, <1>11 DEF SsoStep, SSO!Next

-----------------------------------------------------------------------------
\* A validation that finds the ticket alive spends it.
LEMMA SpendStep ==
    ASSUME Inv, NEW th \in Thread, ValidateCheck(th)
    PROVE  ChainInv' /\ SsoStep
<1> USE DEF Inv
<1> DEFINE s == call[th].ticket
<1>1. /\ s \in ST /\ s \in issued /\ th \in Proc /\ pc[th] = "checkSt"
      /\ UNCHANGED <<heap, assertions, sent, call>>
      BY DEF ValidateCheck, TypeInv, ControlInv, MayHold, SafetyInv, IssuedInv, HoldsSt,
             Proc, Goto, history
<1>2. CASE IsExpired(s)
  <2>1. Quiet
        BY <1>1, <1>2 DEF ValidateCheck, Quiet, Goto, TypeInv, ControlInv
  <2> QED BY <2>1, QuietChain
<1>3. CASE ~IsExpired(s)
  <2>1. pc' = [pc EXCEPT ![th] = "use"]
        BY <1>3 DEF ValidateCheck, Goto
  <2>2. ~Locked(s)
        BY DEF ValidateCheck
  <2>3. ticket[s].uses \in Nat /\ ticket[s].uses < StNumberOfUses
    <3>1. ~PolicyExpired(s)
          BY <1>3 DEF IsExpired
    <3>2. ticket[s].uses \in Nat
          BY <1>1, FieldTypes DEF TypeInv, Ticket
    <3> QED BY <1>1, <3>1, <3>2, PolicyAssumption
            DEF PolicyExpired, MultiTimeUseOrTimeout
  <2>4. /\ ticket[s].chain # {} /\ ticket[s].chain \subseteq TGT \cap issued
        /\ \A t \in ticket[s].chain : ~tgt[t].expired
    <3>1. ticket[s].granting \in ticket[s].chain
          BY <1>1 DEF SafetyInv, IssuedInv
    <3>2. ticket[s].chain \subseteq TGT \cap issued
          BY <1>1, FieldTypes DEF TypeInv, Ticket, ChainInv
    <3> QED BY <1>3, <3>1, <3>2 DEF IsExpired
  <2>5. /\ Locked(s)'
        /\ \A x : x # s => (Locked(x)' <=> Locked(x))
        BY <1>1, <2>1 DEF Locked, TypeInv, ControlInv
  <2>6. ChainInv'
        BY <1>1, <2>1 DEF ChainInv, heap, TypeInv, ControlInv
  <2>7. SameSessions /\ SameDrawn /\ SameTold
        BY <1>1 DEF heap, SameSessions, SameSession, SameDrawn, SameTold
  <2>8. SSO!Spend(s)
    <3>1. spentUses[s] = ticket[s].uses /\ drawnOn[s] = ticket[s].chain
          BY <1>1, <2>2, <2>3 DEF spentUses, drawnOn
    <3>2. \A t \in ticket[s].chain : sessionState[t] = "open"
          BY <2>4, SessionStates
    <3>3. spentUses' = [spentUses EXCEPT ![s] = @ + 1]
      <4>1. \A x \in ST : spentUses'[x] = IF x = s THEN spentUses[s] + 1 ELSE spentUses[x]
            BY <1>1, <2>3, <2>5, <3>1 DEF spentUses, heap
      <4> QED BY <4>1 DEF spentUses
    <3> QED BY <1>1, <2>3, <2>4, <2>7, <3>1, <3>2, <3>3, SameSessionsSeen, SameDrawnSeen,
               SameToldSeen
            DEF SSO!Spend, drawnOn, toldOf
  <2> QED BY <1>1, <2>6, <2>8 DEF SsoStep, SSO!Next
<1> QED BY <1>2, <1>3

\* The use that is counted is the one that was spent.
LEMMA UseStep ==
    ASSUME Inv, NEW th \in Thread, ValidateUse(th)
    PROVE  ChainInv' /\ SsoStep
<1> USE DEF Inv
<1> DEFINE s == call[th].ticket
<1>1. /\ s \in ST /\ s \in issued /\ th \in Proc /\ pc[th] = "use"
      /\ pc' = [pc EXCEPT ![th] = "finally"]
      /\ UNCHANGED <<issued, tgt, st, call>>
      BY DEF ValidateUse, TypeInv, ControlInv, MayHold, SafetyInv, IssuedInv, HoldsSt, Proc, Goto
<1>2. \A p \in Proc : pc'[p] \in {"use", "logOut"} => pc'[p] = pc[p] /\ p # th
      BY <1>1 DEF TypeInv, ControlInv
<1>3. /\ \A x \in Ticket : x # s => ticket'[x] = ticket[x]
      /\ ticket'[s].uses = ticket[s].uses + 1
      /\ \A x \in Ticket : ticket'[x].chain = ticket[x].chain
      BY <1>1 DEF ValidateUse, TypeInv, DataInv, UpdateState, AbstractTickets, Ticket
<1>4. ChainInv'
      BY <1>1, <1>2, <1>3, ChainKept
<1>5. /\ Locked(s) /\ ~Locked(s)'
      /\ \A x : x # s => (Locked(x)' <=> Locked(x))
  <2>1. Locked(s)
        BY <1>1 DEF Locked
  <2>2. ~Locked(s)'
    <3>1. SUFFICES ASSUME NEW p \in Proc, pc'[p] \in {"use", "logOut"}, call'[p].ticket = s
                   PROVE  FALSE
          BY <1>1 DEF Locked
    <3>2. pc[p] \in {"use", "logOut"} /\ p # th /\ call[p].ticket = s
          BY <1>1, <1>2, <3>1
    <3>3. pc[p] = "use"
          BY <1>1, <3>2, IdsAssumption DEF TypeInv, ControlInv, MayHold, HoldsTgt
    <3> QED BY <1>1, <3>2, <3>3 DEF SafetyInv, MonitorInv
  <2>3. \A x : x # s => (Locked(x)' <=> Locked(x))
        BY <1>1 DEF Locked, TypeInv, ControlInv
  <2> QED BY <2>1, <2>2, <2>3
<1>6. ticket[s].uses \in Nat
      BY <1>1, FieldTypes DEF TypeInv, Ticket
<1>7. Same
  <2>1. SameSessions /\ SameTold
        BY <1>1 DEF SameSessions, SameSession, SameTold
  <2>2. SameDrawn
        BY <1>3 DEF SameDrawn, Ticket
  <2>3. SameUses
        BY <1>1, <1>3, <1>5, <1>6 DEF SameUses, SameSpent, Ticket
  <2> QED BY <2>1, <2>2, <2>3 DEF Same
<1> QED BY <1>4, <1>7, SameIsStutter

-----------------------------------------------------------------------------
\* expire() closes the session, unless it has been closed before.
LEMMA CloseStep ==
    ASSUME Inv, NEW p \in Proc, Expire(p)
    PROVE  ChainInv' /\ SsoStep
<1> USE DEF Inv
<1> DEFINE t == call[p].ticket
<1>1. /\ t \in TGT /\ t \in issued /\ pc[p] = "expire"
      /\ pc' = [pc EXCEPT ![p] = "logOut"]
      /\ tgt' = [tgt EXCEPT ![t].expired = TRUE]
      /\ UNCHANGED <<issued, ticket, st, call>>
      BY DEF Expire, TypeInv, ControlInv, MayHold, HoldsTgt, Goto, SafetyInv, IssuedInv
<1>2. /\ tgt'[t].expired = TRUE
      /\ \A u \in TGT \ {t} : tgt'[u] = tgt[u]
      BY <1>1 DEF TypeInv, DataInv, TicketGrantingTickets
<1>3. ChainInv'
  <2>1. \A q \in Proc : pc'[q] = "logOut" => pc[q] = "logOut" \/ q = p
        BY <1>1 DEF TypeInv, ControlInv
  <2> QED BY <1>1, <1>2, <2>1, ChainKept
<1>4. \A s \in ST : Locked(s)' <=> Locked(s)
      BY <1>1, IdsAssumption DEF Locked, TypeInv, ControlInv
<1>5. SameDrawn /\ SameUses /\ SameTold
      BY <1>1, <1>4 DEF SameDrawn, SameUses, SameSpent, SameTold
<1>6. CASE tgt[t].expired
  <2>1. SameSessions
    <3>1. tgt[t].expired = TRUE
          BY <1>1, <1>6, FieldTypes DEF TypeInv
    <3> QED BY <1>1, <1>2, <3>1 DEF SameSessions, SameSession
  <2> QED BY <1>3, <1>5, <2>1, SameIsStutter DEF Same
<1>7. CASE ~tgt[t].expired
  <2>1. SSO!Close(t)
    <3>1. sessionState[t] = "open"
          BY <1>1, <1>7, SessionStates
    <3>2. sessionState' = [sessionState EXCEPT ![t] = "closed"]
          BY <1>1, <1>2 DEF sessionState
    <3> QED BY <1>5, <3>1, <3>2, SameDrawnSeen, SameUsesSeen, SameToldSeen
            DEF SSO!Close, drawnOn, toldOf
  <2> QED BY <1>1, <1>3, <2>1 DEF SsoStep, SSO!Next
<1> QED BY <1>6, <1>7

LEMMA TellIsSsoStep ==
    ASSUME NEW t \in TGT, sessionState[t] = "closed",
           NEW some \in SUBSET {s \in ST : t \in ticket[s].chain},
           toldOf' = toldOf \cup some,
           SameSessions, SameDrawn, SameUses
    PROVE  SsoStep
<1>1. some \in SUBSET {s \in ST : t \in drawnOn[s]}
      BY DEF drawnOn
<1>2. SSO!Tell(t)
      BY <1>1, SameSessionsSeen, SameDrawnSeen, SameUsesSeen DEF SSO!Tell, drawnOn, toldOf
<1> QED BY <1>2 DEF SsoStep, SSO!Next

\* ... and then its applications are told.
LEMMA TellStep ==
    ASSUME Inv, NEW p \in Proc, LogOutOfServices(p)
    PROVE  ChainInv' /\ SsoStep
<1> USE DEF Inv
<1> DEFINE t == call[p].ticket
           some == tgt[call[p].ticket].services
<1>1. /\ t \in TGT /\ t \in issued /\ pc[p] = "logOut" /\ tgt[t].expired
      /\ pc' = [pc EXCEPT ![p] = "delete"]
      /\ UNCHANGED <<issued, ticket, tgt, call>>
      BY DEF LogOutOfServices, TypeInv, ControlInv, MayHold, HoldsTgt, Goto, SafetyInv,
             IssuedInv, ChainInv
<1>2. ChainInv'
      BY <1>1 DEF ChainInv, TypeInv, ControlInv
<1>3. \A s \in ST : st'[s].loggedOut <=> st[s].loggedOut \/ s \in some
  <2>1. ASSUME NEW s \in ST
        PROVE  [st[s] EXCEPT !.loggedOut = TRUE].loggedOut = TRUE
        BY DEF TypeInv, DataInv, ServiceTickets
  <2> QED BY <2>1 DEF LogOutOfServices
<1>4. some \subseteq ST
      BY <1>1, FieldTypes DEF TypeInv
<1>5. \A s \in some : t \in ticket[s].chain
      BY <1>1, <1>4 DEF SafetyInv, LogoutInv, IssuedInv
<1>6. \A s \in ST : Locked(s)' <=> Locked(s)
      BY <1>1, IdsAssumption DEF Locked, TypeInv, ControlInv
<1> HIDE DEF t, some
<1>7. SameSessions /\ SameDrawn /\ SameUses
      BY <1>1, <1>6 DEF SameSessions, SameSession, SameDrawn, SameUses, SameSpent
<1>8. sessionState[t] = "closed"
      BY <1>1, SessionStates
<1>9. some \in SUBSET {s \in ST : t \in ticket[s].chain}
      BY <1>4, <1>5
<1>10. toldOf' = toldOf \cup some
      BY <1>3, <1>4 DEF toldOf
<1>11. SsoStep
      BY <1>1, <1>7, <1>8, <1>9, <1>10, TellIsSsoStep
<1> QED BY <1>2, <1>11

-----------------------------------------------------------------------------
LEMMA RefinementStep ==
    ASSUME Inv, [Next]_vars
    PROVE  ChainInv' /\ SsoStep
<1> Cleaner \in Proc /\ Thread \subseteq Proc
    BY DEF Proc
<1>1. ASSUME NEW th \in Thread, Call(th) PROVE ChainInv' /\ SsoStep
      BY <1>1, QuietCall, QuietChain, CreateStep DEF Inv
<1>2. ASSUME NEW th \in Thread, Proceed(th) PROVE ChainInv' /\ SsoStep
      BY <1>2, QuietProceed, QuietChain, DrawStep, SpendStep, UseStep, DelegateStep,
         CloseStep, TellStep DEF Proceed, Inv
<1>3. CASE Clean
      BY <1>3, QuietClean, QuietChain, CloseStep, TellStep DEF Clean, Inv
<1>4. CASE Tick \/ UNCHANGED vars
  <2>1. Quiet
        BY <1>4 DEF Tick, vars, Quiet, heap, history
  <2> QED BY <2>1, QuietChain
<1> QED BY <1>1, <1>2, <1>3, <1>4 DEF Next

LEMMA RefinementInit == Init => SSO!Init
<1> SUFFICES ASSUME Init PROVE SSO!Init
    OBVIOUS
<1>1. sessionState = [t \in TGT |-> "none"]
      BY DEF Init, sessionState
<1>2. [s \in ST |-> ticket[s].chain] = [s \in ST |-> {}]
      BY DEF Init, NewTicket, Ticket
<1>3. spentUses = [s \in ST |-> 0]
  <2>1. \A s \in ST : ~Locked(s) /\ ticket[s].uses = 0
        BY DEF Init, Locked, NewTicket, Ticket
  <2> QED BY <2>1 DEF spentUses
<1>4. {s \in ST : st[s].loggedOut} = {}
      BY DEF Init, NoSt, NewSt
<1> QED BY <1>1, <1>2, <1>3, <1>4 DEF SSO!Init

\* The service, with its registry, its monitors, its threads and its cleaner,
\* does what SingleSignOn says: a token is spent within its worth and on open
\* sessions only, and applications are told after the close.
THEOREM ServiceImplementsSingleSignOn == Spec => ImplementsSingleSignOn
<1>1. Inv /\ [Next]_vars => ChainInv' /\ [SSO!Next]_SSO!vars
      BY RefinementStep DEF SsoStep
<1>2. Inv <=> TypeInv /\ SafetyInv /\ ChainInv
      BY DEF Inv
<1> QED BY <1>1, <1>2, ChainInit, RefinementInit, SafetyInvariant, PTL
        DEF Spec, ImplementsSingleSignOn, SSO!Spec

-----------------------------------------------------------------------------
(* Expiry.  What a step does to the clock and to the tickets.              *)

\* A ticket is never used before it is made, nor in the future.
ClockInv ==
    \A x \in Ticket : /\ ticket[x].created <= ticket[x].lastUsed
                      /\ ticket[x].lastUsed <= now

\* A ticket hangs on all that the tickets of its chain hang on.
LinkInv ==
    \A x \in issued : \A t \in ticket[x].chain : ticket[t].chain \subseteq ticket[x].chain

AgingInv == ClockInv /\ LinkInv

KeptTicket(x) ==
    /\ ticket'[x].chain = ticket[x].chain
    /\ ticket'[x].created = ticket[x].created
    /\ \/ ticket'[x].lastUsed = ticket[x].lastUsed /\ ticket'[x].uses = ticket[x].uses
       \/ ticket'[x].lastUsed = now /\ ticket'[x].uses = ticket[x].uses + 1

KeptTgt(t) ==
    /\ tgt'[t].principal = tgt[t].principal
    /\ tgt[t].expired => tgt'[t].expired

\* A ticket made now, by a login, a grant or a delegation.
MadeTicket(x) ==
    /\ ticket'[x].created = now /\ ticket'[x].lastUsed = now
    /\ \/ x \in TGT /\ ticket'[x].chain = {}
       \/ /\ x \in ST
          /\ \E t \in TGT \cap issued : /\ ticket'[x].chain = {t} \cup ticket[t].chain
                                        /\ ticket'[t].lastUsed = now
       \/ /\ x \in TGT
          /\ \E th \in Thread : /\ pc[th] = "delegate"
                                /\ ticket'[x].chain = ticket[call[th].ticket].chain

Aging ==
    /\ now' \in {now, now + 1}
    /\ issued \subseteq issued'
    /\ \A x \in Ticket : x \in issued \/ x \notin issued' => KeptTicket(x)
    /\ \A t \in TGT \cap issued : KeptTgt(t)
    /\ \A x \in issued' \ issued : MadeTicket(x)

\* The steps that make and use no ticket.
LEMMA StillAging ==
    ASSUME UNCHANGED <<issued, ticket>>, now' \in {now, now + 1},
           \A t \in TGT \cap issued : KeptTgt(t)
    PROVE  Aging
BY DEF Aging, KeptTicket

LEMMA AgingCall == ASSUME Inv, NEW th \in Thread, Call(th) PROVE Aging
<1>1. CASE CreateTicketGrantingTicket(th)
  <2>1. PICK t \in TGT \ issued, p \in Principal :
          /\ issued' = issued \cup {t}
          /\ ticket' = [ticket EXCEPT ![t] = NewTicket(NoTicket, {})]
          /\ tgt' = [tgt EXCEPT ![t] = NewTgt(p)]
        BY <1>1 DEF CreateTicketGrantingTicket
  <2>2. /\ \A x \in Ticket \ {t} : ticket'[x] = ticket[x]
        /\ \A u \in TGT \ {t} : tgt'[u] = tgt[u]
        /\ ticket'[t] = NewTicket(NoTicket, {})
        BY <2>1 DEF Inv, TypeInv, DataInv, Ticket
  <2>3. \A x \in Ticket : x \in issued \/ x \notin issued' => KeptTicket(x)
        BY <2>1, <2>2 DEF KeptTicket
  <2>4. \A u \in TGT \cap issued : KeptTgt(u)
        BY <2>1, <2>2 DEF KeptTgt
  <2>5. MadeTicket(t)
        BY <2>2 DEF MadeTicket, NewTicket
  <2>6. now' = now
        BY <1>1 DEF CreateTicketGrantingTicket
  <2> QED BY <2>1, <2>3, <2>4, <2>5, <2>6 DEF Aging
<1>2. CASE GrantLookup(th) \/ ValidateLookup(th) \/ DelegateLookup(th) \/ DestroyLookup(th)
      BY <1>2, StillAging
      DEF GrantLookup, ValidateLookup, DelegateLookup, DestroyLookup, heap, KeptTgt
<1> QED BY <1>1, <1>2 DEF Call

LEMMA AgingExpire ==
    ASSUME Inv, NEW p \in Proc, Expire(p) \/ LogOutOfServices(p)
    PROVE  Aging
<1>1. UNCHANGED <<issued, ticket, now>>
      BY DEF Expire, LogOutOfServices
<1>2. tgt' = tgt \/ tgt' = [tgt EXCEPT ![call[p].ticket].expired = TRUE]
      BY DEF Expire, LogOutOfServices
<1>3. \A t \in TGT : KeptTgt(t)
      BY <1>2 DEF KeptTgt, Inv, TypeInv, DataInv, TicketGrantingTickets
<1> QED BY <1>1, <1>3, StillAging

LEMMA AgingGrant == ASSUME Inv, NEW th \in Thread, GrantServiceTicket(th) PROVE Aging
<1> DEFINE t == call[th].ticket
           on == {t} \cup ticket[t].chain
<1>1. t \in TGT /\ t \in issued
      BY DEF GrantServiceTicket, Inv, TypeInv, ControlInv, MayHold, SafetyInv, IssuedInv,
             HoldsTgt, Proc
<1>2. PICK s \in ST \ issued :
        /\ issued' = issued \cup {s}
        /\ ticket' = [ticket EXCEPT ![s] = NewTicket(t, on), ![t] = UpdateState(t)]
        /\ tgt' = [tgt EXCEPT ![t].services = @ \cup {s}]
        /\ now' = now
      BY DEF GrantServiceTicket
<1> HIDE DEF t, on
<1>3. /\ s # t /\ s \in Ticket /\ t \in Ticket
      /\ \A x \in Ticket \ {s, t} : ticket'[x] = ticket[x]
      /\ ticket'[s] = NewTicket(t, on)
      /\ ticket'[t] = UpdateState(t)
      BY <1>1, <1>2, IdsAssumption DEF Inv, TypeInv, DataInv, Ticket
<1>4. /\ ticket'[t].lastUsed = now
      /\ KeptTicket(t)
      BY <1>3 DEF KeptTicket, UpdateState, Inv, TypeInv, DataInv, AbstractTickets
<1>5. \A x \in Ticket : x \in issued \/ x \notin issued' => KeptTicket(x)
      BY <1>2, <1>3, <1>4 DEF KeptTicket
<1>6. \A u \in TGT : KeptTgt(u)
      BY <1>2 DEF KeptTgt, Inv, TypeInv, DataInv, TicketGrantingTickets
<1>7. MadeTicket(s)
  <2>1. ticket'[s].created = now /\ ticket'[s].lastUsed = now /\ ticket'[s].chain = on
        BY <1>3 DEF NewTicket
  <2> QED BY <1>1, <1>4, <2>1 DEF MadeTicket, on
<1> QED BY <1>2, <1>5, <1>6, <1>7 DEF Aging

LEMMA AgingDelegate ==
    ASSUME Inv, NEW th \in Thread, GrantTicketGrantingTicket(th)
    PROVE  Aging
<1> DEFINE s == call[th].ticket
<1>1. now' = now /\ pc[th] = "delegate"
      BY DEF GrantTicketGrantingTicket
<1>2. CASE Return(th) /\ UNCHANGED heap
      BY <1>1, <1>2, StillAging DEF heap, KeptTgt
<1>3. CASE ~(Return(th) /\ UNCHANGED heap)
  <2>1. PICK t \in TGT \ issued :
          /\ issued' = issued \cup {t}
          /\ ticket' = [ticket EXCEPT ![t] = NewTicket(ticket[s].granting,
                                                       ticket[s].chain)]
          /\ tgt' = [tgt EXCEPT ![t] = NewTgt(ProxyPrincipal)]
        BY <1>3 DEF GrantTicketGrantingTicket
  <2>2. /\ \A x \in Ticket \ {t} : ticket'[x] = ticket[x]
        /\ \A u \in TGT \ {t} : tgt'[u] = tgt[u]
        /\ ticket'[t] = NewTicket(ticket[s].granting, ticket[s].chain)
        BY <2>1 DEF Inv, TypeInv, DataInv, Ticket
  <2>3. \A x \in Ticket : x \in issued \/ x \notin issued' => KeptTicket(x)
        BY <2>1, <2>2 DEF KeptTicket
  <2>4. \A u \in TGT \cap issued : KeptTgt(u)
        BY <2>1, <2>2 DEF KeptTgt
  <2>5. MadeTicket(t)
        BY <1>1, <2>2 DEF MadeTicket, NewTicket
  <2> QED BY <1>1, <2>1, <2>3, <2>4, <2>5 DEF Aging
<1> QED BY <1>2, <1>3

LEMMA AgingUse == ASSUME Inv, NEW th \in Thread, ValidateUse(th) PROVE Aging
<1> DEFINE s == call[th].ticket
<1>1. /\ s \in Ticket
      /\ ticket' = [ticket EXCEPT ![s] = UpdateState(s)]
      /\ UNCHANGED <<now, issued, tgt>>
      BY DEF ValidateUse, Inv, TypeInv, ControlInv, MayHold, HoldsSt, Proc, Ticket
<1>2. \A x \in Ticket : KeptTicket(x)
      BY <1>1 DEF KeptTicket, UpdateState, Inv, TypeInv, DataInv, AbstractTickets
<1> QED BY <1>1, <1>2 DEF Aging, KeptTgt

LEMMA AgingStep == ASSUME Inv, [Next]_vars PROVE Aging
<1> Cleaner \in Proc /\ Thread \subseteq Proc
    BY DEF Proc
<1>1. ASSUME NEW th \in Thread, Proceed(th) PROVE Aging
  <2>1. CASE GrantCheck(th) \/ GrantAuthorize(th) \/ AddTicket(th) \/ ValidateCheck(th)
             \/ ValidateFinally(th) \/ ValidateDelete(th) \/ DelegateCheck(th)
             \/ DestroyDelete(th)
        BY <2>1, StillAging
        DEF GrantCheck, GrantAuthorize, AddTicket, ValidateCheck, ValidateFinally,
            ValidateDelete, DelegateCheck, DestroyDelete, heap, KeptTgt
  <2> QED BY <1>1, <2>1, AgingExpire, AgingGrant, AgingDelegate, AgingUse DEF Proceed
<1>2. CASE Clean
  <2>1. CASE CleanStart \/ CleanScan \/ CleanScanned \/ CleanNext \/ CleanDelete
        BY <2>1, StillAging
        DEF CleanStart, CleanScan, CleanScanned, CleanNext, CleanDelete, heap, KeptTgt
  <2> QED BY <1>2, <2>1, AgingExpire DEF Clean
<1>3. CASE Tick \/ UNCHANGED vars
      BY <1>3, StillAging DEF Tick, vars, heap, KeptTgt
<1> QED BY <1>1, <1>2, <1>3, AgingCall DEF Next

LEMMA Times ==
    ASSUME TypeInv, NEW x \in Ticket
    PROVE  /\ now \in Nat
           /\ ticket[x].created \in Nat /\ ticket[x].lastUsed \in Nat
           /\ ticket[x].uses \in Nat
BY DEF TypeInv, DataInv, AbstractTickets

LEMMA AgingInit == Init => AgingInv
BY DEF Init, AgingInv, ClockInv, LinkInv, NewTicket

LEMMA AgingInvStep == ASSUME Inv, AgingInv, Aging PROVE AgingInv'
<1> USE DEF Inv, AgingInv
<1>1. ClockInv'
  <2> SUFFICES ASSUME NEW x \in Ticket
               PROVE  /\ ticket'[x].created <= ticket'[x].lastUsed
                      /\ ticket'[x].lastUsed <= now'
      BY DEF ClockInv
  <2>1. /\ now \in Nat
        /\ ticket[x].created \in Nat /\ ticket[x].lastUsed \in Nat
        /\ ticket[x].created <= ticket[x].lastUsed /\ ticket[x].lastUsed <= now
        BY Times DEF ClockInv
  <2>2. now' \in {now, now + 1}
        BY DEF Aging
  <2>3. CASE KeptTicket(x)
        BY <2>1, <2>2, <2>3 DEF KeptTicket
  <2>4. CASE ~KeptTicket(x)
    <3>1. MadeTicket(x)
          BY <2>4 DEF Aging
    <3> QED BY <2>1, <2>2, <3>1 DEF MadeTicket
  <2> QED BY <2>3, <2>4
<1>2. LinkInv'
  <2> SUFFICES ASSUME NEW x \in issued', NEW t \in ticket'[x].chain
               PROVE  ticket'[t].chain \subseteq ticket'[x].chain
      BY DEF LinkInv
  <2>1. issued \subseteq Ticket
        BY DEF TypeInv, DataInv
  <2>2. \A y \in issued : ticket'[y].chain = ticket[y].chain
        BY <2>1 DEF Aging, KeptTicket
  <2>3. CASE x \in issued
        BY <2>2, <2>3 DEF ChainInv, LinkInv
  <2>4. CASE x \notin issued
    <3>1. MadeTicket(x)
          BY <2>4 DEF Aging
    <3>2. ASSUME NEW u \in TGT \cap issued, ticket'[x].chain = {u} \cup ticket[u].chain
          PROVE  ticket'[t].chain \subseteq ticket'[x].chain
          BY <2>2, <3>2 DEF ChainInv, LinkInv
    <3>3. ASSUME NEW th \in Thread, pc[th] = "delegate",
                 ticket'[x].chain = ticket[call[th].ticket].chain
          PROVE  ticket'[t].chain \subseteq ticket'[x].chain
      <4>1. call[th].ticket \in issued
            BY <3>3 DEF SafetyInv, IssuedInv, HoldsSt, Proc
      <4> QED BY <2>2, <3>3, <4>1 DEF ChainInv, LinkInv
    <3> QED BY <3>1, <3>2, <3>3 DEF MadeTicket
  <2> QED BY <2>3, <2>4
<1> QED BY <1>1, <1>2

-----------------------------------------------------------------------------
(* Logout is final.                                                        *)

\* Settings under which the expiry of a session is final.  Under the others a
\* grant that has passed its check before the window closed opens it again.
ExpiryIsFinal ==
    \/ TgtPolicy \in {"hardTimeout", "never"}
    \/ TgtPolicy = "ticketGrantingTicket" /\ TgtMaxTimeToLive = TgtTimeToKill

\* The same ticket is never younger later on.
LEMMA PolicyVerdictStays ==
    ASSUME Inv, AgingInv, Aging, ExpiryIsFinal, NEW t \in TGT \cap issued,
           TgtPolicyExpired(t)
    PROVE  TgtPolicyExpired(t)'
<1>1. /\ now \in Nat /\ now' \in Nat /\ now <= now'
      /\ ticket[t].created \in Nat /\ ticket[t].lastUsed \in Nat
      /\ ticket[t].created <= ticket[t].lastUsed
      /\ ticket'[t].created = ticket[t].created
      BY Times DEF Inv, AgingInv, ClockInv, Aging, KeptTicket, Ticket
<1>2. now - ticket[t].created >= TgtMaxTimeToLive
      BY <1>1, PolicyAssumption
      DEF ExpiryIsFinal, TgtPolicyExpired, TicketGrantingTicketPolicy, HardTimeout, Age,
          Idle, NeverExpires
<1>3. TgtPolicy # "never"
      BY DEF TgtPolicyExpired, NeverExpires
<1> QED BY <1>1, <1>2, <1>3, PolicyAssumption
        DEF ExpiryIsFinal, TgtPolicyExpired, TicketGrantingTicketPolicy, HardTimeout, Age

LEMMA SessionVerdictStays ==
    ASSUME Inv, AgingInv, Aging, ExpiryIsFinal, NEW t \in TGT \cap issued, IsExpired(t)
    PROVE  IsExpired(t)'
<1>1. /\ t \in Ticket /\ ticket[t].chain \subseteq TGT \cap issued
      /\ ticket'[t].chain = ticket[t].chain
      BY FieldTypes DEF Inv, TypeInv, ChainInv, Aging, KeptTicket, Ticket
<1>2. PICK y \in {t} \cup ticket[t].chain : PolicyExpired(y) \/ (y \in TGT /\ tgt[y].expired)
      BY DEF IsExpired
<1>3. y \in TGT \cap issued
      BY <1>1, <1>2
<1>4. CASE PolicyExpired(y)
  <2>1. TgtPolicyExpired(y)
        BY <1>3, <1>4, IdsAssumption DEF PolicyExpired
  <2>2. TgtPolicyExpired(y)'
        BY <1>3, <2>1, PolicyVerdictStays
  <2> QED BY <1>1, <1>2, <1>3, <2>2 DEF IsExpired, PolicyExpired
<1>5. CASE tgt[y].expired
      BY <1>1, <1>2, <1>3, <1>5 DEF IsExpired, Aging, KeptTgt
<1> QED BY <1>2, <1>4, <1>5

BeingAdded(t) == \E th \in Thread : pc[th] = "add" /\ call[th].new = t

\* A session leaves the registry when it has expired or its flag is up.
LeavingInv ==
    /\ \A t \in TGT \cap issued : t \in registry \/ IsExpired(t) \/ BeingAdded(t)
    /\ \A p \in Proc : pc[p] = "delete" /\ call[p].ticket \in TGT
                        => tgt[call[p].ticket].expired
    /\ \A t \in destroyed : t \in issued /\ IsExpired(t)

\* What a step does to the sessions in the registry and on their way there.
Leaving ==
    /\ \A t \in TGT \cap issued' :
          t \in issued \/ t \in registry' \/ BeingAdded(t)'
    /\ \A t \in TGT \cap registry : t \in registry' \/ IsExpired(t)
    /\ \A t \in TGT : BeingAdded(t) => BeingAdded(t)' \/ t \in registry'
    /\ \A p \in Proc : pc'[p] = "delete" =>
          \/ pc[p] = "delete" /\ call'[p].ticket = call[p].ticket
          \/ call'[p].ticket \notin TGT
          \/ call'[p].ticket \in issued /\ tgt[call'[p].ticket].expired
    /\ \A t \in destroyed' : t \in destroyed \/ (t \in TGT \cap issued /\ IsExpired(t))

LEMMA LeavingInit == Init => LeavingInv
BY DEF Init, LeavingInv

LEMMA LeavingKept ==
    ASSUME Inv, AgingInv, Aging, LeavingInv, Leaving, ExpiryIsFinal
    PROVE  LeavingInv'
<1>1. /\ \A t \in TGT \cap issued : /\ t \in issued'
                                    /\ tgt[t].expired => tgt'[t].expired
      /\ \A t \in destroyed : t \in TGT
      BY DEF Aging, KeptTgt, Inv, TypeInv, DataInv
<1>2. \A t \in TGT \cap issued : IsExpired(t) => IsExpired(t)'
      BY SessionVerdictStays
<1>3. \A t \in TGT \cap issued' : t \in registry' \/ IsExpired(t)' \/ BeingAdded(t)'
      BY <1>1, <1>2 DEF Leaving, LeavingInv
<1>4. \A p \in Proc : pc'[p] = "delete" /\ call'[p].ticket \in TGT
                       => tgt'[call'[p].ticket].expired
  <2>1. \A p \in Proc : pc[p] = "delete" => call[p].ticket \in issued
        BY DEF Inv, SafetyInv, IssuedInv
  <2> QED BY <1>1, <2>1 DEF Leaving, LeavingInv
<1>5. \A t \in destroyed' : t \in issued' /\ IsExpired(t)'
      BY <1>1, <1>2 DEF Leaving, LeavingInv
<1> QED BY <1>3, <1>4, <1>5 DEF LeavingInv

\* A step that keeps the registry's sessions and finishes no destruction.
LEMMA StillLeaving ==
    ASSUME TGT \cap issued' \subseteq issued, TGT \cap registry \subseteq registry',
           UNCHANGED destroyed,
           \A th \in Thread : pc[th] = "add" => pc'[th] = "add" /\ call'[th] = call[th],
           \A p \in Proc : pc'[p] = "delete" =>
              \/ pc[p] = "delete" /\ call'[p].ticket = call[p].ticket
              \/ call'[p].ticket \notin TGT
    PROVE  Leaving
BY DEF Leaving, BeingAdded

LEMMA LeavingCall == ASSUME Inv, LeavingInv, NEW th \in Thread, Call(th) PROVE Leaving
<1> th \in Proc
    BY DEF Proc
<1> USE DEF Inv, TypeInv, ControlInv
<1>1. CASE CreateTicketGrantingTicket(th)
      BY <1>1 DEF CreateTicketGrantingTicket, Store, Leaving, BeingAdded, history
<1>2. CASE GrantLookup(th) \/ ValidateLookup(th) \/ DelegateLookup(th)
  <2>1. UNCHANGED <<issued, registry, destroyed>> /\ pc[th] = "idle"
        BY <1>2 DEF GrantLookup, ValidateLookup, DelegateLookup, heap, history
  <2>2. /\ pc'[th] # "delete"
        /\ \A p \in Proc \ {th} : pc'[p] = pc[p] /\ call'[p] = call[p]
        BY <1>2 DEF GrantLookup, ValidateLookup, DelegateLookup, Enter
  <2> QED BY <2>1, <2>2, StillLeaving DEF Proc
<1>3. CASE DestroyLookup(th)
  <2>1. UNCHANGED <<issued, registry>> /\ pc[th] = "idle"
        BY <1>3 DEF DestroyLookup, heap
  <2>2. /\ pc'[th] # "delete"
        /\ \A p \in Proc \ {th} : pc'[p] = pc[p] /\ call'[p] = call[p]
        BY <1>3 DEF DestroyLookup, Enter
  <2>3. \/ UNCHANGED destroyed
        \/ \E t \in (TGT \cap issued) \ {call[q].new : q \in Thread} :
              t \notin registry /\ destroyed' = destroyed \cup {t}
        BY <1>3 DEF DestroyLookup
  <2>4. ASSUME NEW t \in (TGT \cap issued) \ {call[q].new : q \in Thread}, t \notin registry
        PROVE  IsExpired(t)
        BY <2>4 DEF LeavingInv, BeingAdded
  <2> QED BY <2>1, <2>2, <2>3, <2>4 DEF Leaving, BeingAdded, Proc
<1> QED BY <1>1, <1>2, <1>3 DEF Call

LEMMA LeavingExpire ==
    ASSUME Inv, NEW p \in Proc, Expire(p) \/ LogOutOfServices(p)
    PROVE  Leaving
<1>1. UNCHANGED <<issued, registry, destroyed, call>>
      BY DEF Expire, LogOutOfServices, Goto, history
<1>2. /\ pc[p] \in {"expire", "logOut"}
      /\ \A q \in Proc \ {p} : pc'[q] = pc[q]
      BY DEF Expire, LogOutOfServices, Goto, Inv, TypeInv, ControlInv
<1>3. pc'[p] = "delete" => call[p].ticket \in issued /\ tgt[call[p].ticket].expired
      BY DEF Expire, LogOutOfServices, Goto, Inv, TypeInv, ControlInv, ChainInv, SafetyInv,
             IssuedInv, HoldsTgt
<1> QED BY <1>1, <1>2, <1>3 DEF Leaving, BeingAdded, Proc

LEMMA LeavingProceed ==
    ASSUME Inv, LeavingInv, NEW th \in Thread, Proceed(th)
    PROVE  Leaving
<1> th \in Proc
    BY DEF Proc
<1> USE DEF Inv, TypeInv, ControlInv
<1>1. CASE GrantAuthorize(th) \/ ValidateCheck(th) \/ DelegateCheck(th) \/ ValidateUse(th)
  <2>1. UNCHANGED <<issued, registry, destroyed>> /\ pc[th] # "add"
        BY <1>1 DEF GrantAuthorize, ValidateCheck, DelegateCheck, ValidateUse, heap, history
  <2>2. /\ pc'[th] # "delete"
        /\ \A p \in Proc \ {th} : pc'[p] = pc[p] /\ call'[p] = call[p]
    <3> USE DEF Goto, Return, Enter
    <3>1. CASE GrantAuthorize(th)
          BY <3>1 DEF GrantAuthorize
    <3>2. CASE ValidateCheck(th)
          BY <3>2 DEF ValidateCheck
    <3>3. CASE DelegateCheck(th)
          BY <3>3 DEF DelegateCheck
    <3>4. CASE ValidateUse(th)
          BY <3>4 DEF ValidateUse
    <3> QED BY <1>1, <3>1, <3>2, <3>3, <3>4
  <2> QED BY <2>1, <2>2, StillLeaving DEF Proc
<1>2. CASE ValidateFinally(th) \/ ValidateDelete(th)
  <2>1. /\ UNCHANGED <<issued, destroyed>> /\ pc[th] \in {"finally", "deleteSt"}
        /\ call[th].ticket \in ST
        BY <1>2 DEF ValidateFinally, ValidateDelete, heap, history, MayHold, HoldsSt
  <2>2. TGT \cap registry \subseteq registry'
        BY <1>2, <2>1, IdsAssumption DEF ValidateFinally, ValidateDelete
  <2>3. /\ pc'[th] # "delete"
        /\ \A p \in Proc \ {th} : pc'[p] = pc[p] /\ call'[p] = call[p]
        BY <1>2 DEF ValidateFinally, ValidateDelete, Goto, Return, Enter
  <2> QED BY <2>1, <2>2, <2>3, StillLeaving DEF Proc
<1>3. CASE GrantCheck(th)
  <2>1. /\ UNCHANGED <<issued, destroyed>> /\ pc[th] = "checkTgt"
        /\ \A t \in registry : t \in registry' \/ IsExpired(t)
        BY <1>3 DEF GrantCheck, heap, history
  <2>2. /\ pc'[th] # "delete"
        /\ \A p \in Proc \ {th} : pc'[p] = pc[p] /\ call'[p] = call[p]
        BY <1>3 DEF GrantCheck, Goto, Return, Enter
  <2> QED BY <2>1, <2>2 DEF Leaving, BeingAdded, Proc
<1>4. CASE GrantServiceTicket(th)
  <2>1. /\ TGT \cap issued' \subseteq issued
        /\ UNCHANGED <<registry, destroyed>> /\ pc[th] = "grant"
        BY <1>4, IdsAssumption DEF GrantServiceTicket, history
  <2>2. /\ pc'[th] # "delete"
        /\ \A p \in Proc \ {th} : pc'[p] = pc[p] /\ call'[p] = call[p]
        BY <1>4 DEF GrantServiceTicket, Enter
  <2> QED BY <2>1, <2>2, StillLeaving DEF Proc
<1>5. CASE GrantTicketGrantingTicket(th)
  <2>1. UNCHANGED <<registry, destroyed>> /\ pc[th] = "delegate"
        BY <1>5 DEF GrantTicketGrantingTicket, history
  <2>2. /\ pc'[th] # "delete"
        /\ \A p \in Proc \ {th} : pc'[p] = pc[p] /\ call'[p] = call[p]
        BY <1>5 DEF GrantTicketGrantingTicket, Return, Enter
  <2>3. \/ UNCHANGED issued
        \/ \E t \in TGT : /\ issued' = issued \cup {t}
                          /\ pc'[th] = "add"
                          /\ call'[th].new = t
        BY <1>5 DEF GrantTicketGrantingTicket, Enter, heap, Calls
  <2> QED BY <2>1, <2>2, <2>3 DEF Leaving, BeingAdded, Proc
<1>6. CASE AddTicket(th)
  <2>1. /\ UNCHANGED <<issued, destroyed>>
        /\ registry' = registry \cup {call[th].new}
        /\ pc'[th] = "idle"
        /\ \A p \in Proc \ {th} : pc'[p] = pc[p] /\ call'[p] = call[p]
        BY <1>6 DEF AddTicket, Store, Return, Enter, heap, history
  <2> QED BY <2>1 DEF Leaving, BeingAdded, Proc
<1>7. CASE DestroyDelete(th)
  <2> DEFINE t == call[th].ticket
  <2>1. /\ t \in TGT \cap issued /\ tgt[t].expired
        /\ pc[th] = "delete"
        BY <1>7, IdsAssumption
        DEF DestroyDelete, MayHold, LeavingInv, SafetyInv, IssuedInv
  <2>2. /\ UNCHANGED issued
        /\ registry' = registry \ {t} /\ destroyed' = destroyed \cup {t}
        /\ pc'[th] = "idle"
        /\ \A p \in Proc \ {th} : pc'[p] = pc[p] /\ call'[p] = call[p]
        BY <1>7 DEF DestroyDelete, Return, Enter, heap
  <2>3. IsExpired(t)
        BY <2>1 DEF IsExpired
  <2> QED BY <2>1, <2>2, <2>3 DEF Leaving, BeingAdded, Proc
<1>8. CASE Expire(th) \/ LogOutOfServices(th)
      BY <1>8, LeavingExpire
<1> QED BY <1>1, <1>2, <1>3, <1>4, <1>5, <1>6, <1>7, <1>8 DEF Proceed

LEMMA LeavingClean == ASSUME Inv, LeavingInv, Clean PROVE Leaving
<1> Cleaner \in Proc /\ Cleaner \notin Thread /\ Thread \subseteq Proc
    BY IdsAssumption DEF Proc
<1> USE DEF Inv, TypeInv, ControlInv
<1>1. CASE CleanStart \/ CleanScan \/ CleanScanned
  <2>1. UNCHANGED <<issued, registry, destroyed, call>>
        BY <1>1 DEF CleanStart, CleanScan, CleanScanned, heap, history, Goto
  <2>2. \A p \in Proc : pc'[p] = pc[p] \/ (p = Cleaner /\ pc'[p] # "delete")
        BY <1>1 DEF CleanStart, CleanScan, CleanScanned, Goto
  <2> QED BY <2>1, <2>2, StillLeaving
<1>2. CASE CleanNext
  <2>1. UNCHANGED <<issued, registry, destroyed>>
        BY <1>2 DEF CleanNext, heap, history
  <2>2. /\ \A p \in Thread : pc'[p] = pc[p] /\ call'[p] = call[p]
        /\ pc'[Cleaner] = "delete" => call'[Cleaner].ticket \notin TGT
        BY <1>2 DEF CleanNext, Enter, Return, Holding, Request
  <2> QED BY <2>1, <2>2, StillLeaving DEF Proc
<1>3. CASE CleanDelete
  <2>1. /\ UNCHANGED <<issued, destroyed>> /\ pc[Cleaner] = "delete"
        /\ registry' = registry \ {call[Cleaner].ticket}
        BY <1>3 DEF CleanDelete, heap, history
  <2>2. /\ \A p \in Thread : pc'[p] = pc[p] /\ call'[p] = call[p]
        /\ pc'[Cleaner] # "delete"
        BY <1>3 DEF CleanDelete, Enter
  <2>3. \A t \in TGT \cap registry : t \in registry' \/ IsExpired(t)
        BY <2>1 DEF LeavingInv, IsExpired
  <2> QED BY <2>1, <2>2, <2>3 DEF Leaving, BeingAdded, Proc
<1>4. CASE Expire(Cleaner) \/ LogOutOfServices(Cleaner)
      BY <1>4, LeavingExpire
<1> QED BY <1>1, <1>2, <1>3, <1>4 DEF Clean

LEMMA LeavingStep == ASSUME Inv, LeavingInv, [Next]_vars PROVE Leaving
<1>1. CASE Tick \/ UNCHANGED vars
  <2>1. UNCHANGED <<issued, registry, destroyed, pc, call>>
        BY <1>1 DEF Tick, vars, heap, history
  <2> QED BY <2>1, StillLeaving
<1> QED BY <1>1, LeavingCall, LeavingProceed, LeavingClean DEF Next

LEMMA ChainInvariant == Spec => []Inv
<1>1. Inv /\ [Next]_vars => ChainInv'
      BY RefinementStep
<1>2. Inv <=> TypeInv /\ SafetyInv /\ ChainInv
      BY DEF Inv
<1> QED BY <1>1, <1>2, ChainInit, SafetyInvariant, PTL DEF Spec

\* Once the flag of a session is up it stays up, the service tickets drawn on it
\* stay drawn on it, and none of them is spent any more: an assertion given later
\* was under way (its validation had found the ticket alive) before the close.
NothingSpentAfterClose ==
    [][\A s \in ST : \A t \in ticket[s].chain : tgt[t].expired =>
          /\ tgt'[t].expired
          /\ t \in ticket'[s].chain
          /\ spentUses'[s] = spentUses[s]]_vars

\* Every assertion is one of the uses spent.
AssertionsAreSpent == \A s \in ST : assertions[s] <= spentUses[s]

LEMMA ClosedStaysClosed ==
    ASSUME Inv, [Next]_vars, NEW s \in ST, NEW t \in ticket[s].chain, tgt[t].expired
    PROVE  tgt'[t].expired /\ t \in ticket'[s].chain /\ spentUses'[s] = spentUses[s]
<1>1. t \in TGT \cap issued
  <2>1. s \in Ticket
        BY DEF Ticket
  <2>2. ticket[s].chain \subseteq TGT
        BY <2>1, FieldTypes DEF Inv, TypeInv
  <2>3. ticket[s].chain \subseteq issued
        BY <2>1 DEF Inv, ChainInv
  <2> QED BY <2>2, <2>3
<1>2. sessionState[t] = "closed" /\ t \in drawnOn[s]
      BY <1>1, SessionStates DEF drawnOn
<1>3. SsoStep
      BY RefinementStep
<1>4. sessionState'[t] = "closed" /\ t \in drawnOn'[s] /\ spentUses'[s] = spentUses[s]
  <2>1. CASE UNCHANGED SSO!vars
        BY <1>2, <2>1 DEF SSO!vars, drawnOn
  <2>2. ASSUME NEW u \in TGT, SSO!Open(u) \/ SSO!Close(u)
        PROVE  sessionState'[t] = "closed" /\ UNCHANGED <<drawnOn, spentUses>>
    <3>1. sessionState[u] # "closed"
          BY <2>2 DEF SSO!Open, SSO!Close
    <3>2. sessionState'[t] = sessionState[t]
          BY <1>1, <1>2, <2>2, <3>1 DEF SSO!Open, SSO!Close, sessionState
    <3> QED BY <1>2, <2>2, <3>2 DEF SSO!Open, SSO!Close, drawnOn
  <2>3. ASSUME NEW u \in TGT, SSO!Tell(u)
        PROVE  UNCHANGED <<sessionState, drawnOn, spentUses>>
        BY <2>3 DEF SSO!Tell, drawnOn
  <2>4. ASSUME NEW x \in ST, SSO!Draw(x)
        PROVE  x # s /\ UNCHANGED <<sessionState, spentUses>> /\ drawnOn'[s] = drawnOn[s]
        BY <1>2, <2>4 DEF SSO!Draw, drawnOn
  <2>5. ASSUME NEW x \in ST, SSO!Spend(x)
        PROVE  x # s /\ UNCHANGED <<sessionState, drawnOn>> /\ spentUses'[s] = spentUses[s]
        BY <1>2, <2>5 DEF SSO!Spend, drawnOn, spentUses
  <2> QED BY <1>2, <1>3, <2>1, <2>2, <2>3, <2>4, <2>5 DEF SsoStep, SSO!Next
<1>5. t \in issued' /\ tgt'[t].expired
      BY <1>1, <1>4 DEF sessionState
<1> QED BY <1>4, <1>5 DEF drawnOn

\* Single sign-on ends with the session: from the moment expire() puts the flag up
\* no validation begins to use a service ticket drawn on the session, directly or
\* through proxies, and the assertions given never exceed the uses begun.
THEOREM ClosedSessionsSpendNothing == Spec => []AssertionsAreSpent /\ NothingSpentAfterClose
<1>1. Inv => AssertionsAreSpent
  <2> SUFFICES ASSUME Inv, NEW s \in ST PROVE assertions[s] <= spentUses[s]
      BY DEF AssertionsAreSpent
  <2>0. s \in Ticket
        BY DEF Ticket
  <2>1. assertions[s] <= ticket[s].uses /\ assertions[s] \in Nat /\ ticket[s].uses \in Nat
        BY <2>0, FieldTypes DEF Inv, TypeInv, DataInv, SafetyInv, UseInv
  <2>2. spentUses[s] \in {ticket[s].uses, ticket[s].uses + 1}
        BY <2>1 DEF spentUses
  <2> QED BY <2>1, <2>2
<1>2. Inv /\ [Next]_vars =>
        [\A s \in ST : \A t \in ticket[s].chain : tgt[t].expired =>
          /\ tgt'[t].expired
          /\ t \in ticket'[s].chain
          /\ spentUses'[s] = spentUses[s]]_vars
      BY ClosedStaysClosed
<1> QED BY <1>1, <1>2, ChainInvariant, PTL DEF Spec, NothingSpentAfterClose

\* Where the expiry of a session is final, a destroyed session takes every
\* ticket drawn on it along, at whatever depth of proxying, the tickets that
\* were on their way into the registry while it was destroyed included.
THEOREM DestroyIsFinal ==
    ASSUME ExpiryIsFinal
    PROVE  Spec => []DestroyInvalidatesDerived
<1>1. Inv /\ AgingInv /\ [Next]_vars => AgingInv'
      BY AgingStep, AgingInvStep
<1>2. Inv /\ AgingInv /\ LeavingInv /\ [Next]_vars => LeavingInv'
      BY AgingStep, LeavingStep, LeavingKept
<1>3. Inv /\ AgingInv /\ LeavingInv => DestroyInvalidatesDerived
  <2> SUFFICES ASSUME Inv, AgingInv, LeavingInv, NEW t \in destroyed, NEW x \in issued,
                      t \in {x} \cup ticket[x].chain
               PROVE  IsExpired(x)
      BY DEF DestroyInvalidatesDerived
  <2>1. {t} \cup ticket[t].chain \subseteq {x} \cup ticket[x].chain
        BY DEF AgingInv, LinkInv
  <2> QED BY <2>1 DEF LeavingInv, IsExpired
<1> QED BY <1>1, <1>2, <1>3, AgingInit, LeavingInit, ChainInvariant, PTL DEF Spec

-----------------------------------------------------------------------------
(* A service ticket that has expired stays expired.                        *)

\* Where the window of a session slides, the sessions above a proxy granting
\* ticket are not used when it is: an expired one may open again and take the
\* service tickets of the proxy along.
SlidingWithoutProxies ==
    /\ TgtPolicy # "throttledUse"
    /\ StTimeToKill <= TgtTimeToKill
    /\ ProxyAllowed = {} \/ \E t : TGT = {t}

\* A service ticket that waits for its validation was drawn when its session was
\* last used, or before.
WindowInv ==
    /\ \A t \in TGT : ticket[t].chain = {}
    /\ ProxyAllowed = {} => \A p \in Proc : pc[p] # "delegate"
    /\ \A s \in ST \cap issued, t \in TGT :
          t \in ticket[s].chain /\ ticket[s].uses = 0
            => ticket[s].lastUsed <= ticket[t].lastUsed

LEMMA WindowInit == Init => WindowInv
BY DEF Init, WindowInv, NewTicket, Ticket

\* Only a proxying service enters a delegation.
LEMMA DelegationsAreAllowed ==
    ASSUME Inv, [Next]_vars, ProxyAllowed = {}, NEW p \in Proc, pc'[p] = "delegate"
    PROVE  pc[p] = "delegate"
<1> Cleaner \in Proc /\ Thread \subseteq Proc
    BY DEF Proc
<1> USE DEF Inv, TypeInv, ControlInv, Enter, Goto, Return
<1>1. CASE Tick \/ UNCHANGED vars
      BY <1>1 DEF Tick, vars
<1>2. ASSUME NEW th \in Thread, Call(th) PROVE pc[p] = "delegate"
  <2>1. CASE CreateTicketGrantingTicket(th)
        BY <2>1 DEF CreateTicketGrantingTicket
  <2>2. CASE GrantLookup(th)
        BY <2>2 DEF GrantLookup
  <2>3. CASE ValidateLookup(th)
        BY <2>3 DEF ValidateLookup
  <2>4. CASE DelegateLookup(th)
        BY <2>4 DEF DelegateLookup
  <2>5. CASE DestroyLookup(th)
        BY <2>5 DEF DestroyLookup
  <2> QED BY <1>2, <2>1, <2>2, <2>3, <2>4, <2>5 DEF Call
<1>3. ASSUME NEW q \in Proc, Expire(q) \/ LogOutOfServices(q) PROVE pc[p] = "delegate"
      BY <1>3 DEF Expire, LogOutOfServices
<1>4. ASSUME NEW th \in Thread, Proceed(th) PROVE pc[p] = "delegate"
  <2>1. CASE GrantCheck(th)
        BY <2>1 DEF GrantCheck
  <2>2. CASE GrantAuthorize(th)
        BY <2>2 DEF GrantAuthorize
  <2>3. CASE GrantServiceTicket(th)
        BY <2>3 DEF GrantServiceTicket
  <2>4. CASE AddTicket(th)
        BY <2>4 DEF AddTicket
  <2>5. CASE ValidateCheck(th)
        BY <2>5 DEF ValidateCheck
  <2>6. CASE ValidateUse(th)
        BY <2>6 DEF ValidateUse
  <2>7. CASE ValidateFinally(th) \/ ValidateDelete(th)
        BY <2>7 DEF ValidateFinally, ValidateDelete
  <2>8. CASE DelegateCheck(th)
        BY <2>8 DEF DelegateCheck
  <2>9. CASE GrantTicketGrantingTicket(th)
        BY <2>9 DEF GrantTicketGrantingTicket
  <2>10. CASE DestroyDelete(th)
        BY <2>10 DEF DestroyDelete
  <2> QED BY <1>3, <1>4, <2>1, <2>2, <2>3, <2>4, <2>5, <2>6, <2>7, <2>8, <2>9, <2>10
          DEF Proceed
<1>5. CASE Clean
  <2>1. CASE CleanStart \/ CleanScan \/ CleanScanned
        BY <2>1 DEF CleanStart, CleanScan, CleanScanned
  <2>2. CASE CleanNext
        BY <2>2 DEF CleanNext
  <2>3. CASE CleanDelete
        BY <2>3 DEF CleanDelete
  <2> QED BY <1>3, <1>5, <2>1, <2>2, <2>3 DEF Clean
<1> QED BY <1>1, <1>2, <1>4, <1>5 DEF Next

LEMMA WindowStep ==
    ASSUME Inv, AgingInv, Aging, WindowInv, [Next]_vars, SlidingWithoutProxies
    PROVE  WindowInv'
<1> USE DEF Inv
<1>1. ASSUME NEW t \in TGT PROVE ticket'[t].chain = {}
  <2>1. CASE KeptTicket(t)
        BY <2>1 DEF KeptTicket, WindowInv
  <2>2. CASE ~KeptTicket(t)
    <3>1. t \notin issued /\ MadeTicket(t) /\ t \notin ST
          BY <2>2, IdsAssumption DEF Aging, Ticket
    <3>2. ASSUME NEW th \in Thread, pc[th] = "delegate" PROVE FALSE
      <4>1. call[th].ticket \in ST \cap issued /\ th \in Proc
            BY <3>2 DEF TypeInv, ControlInv, MayHold, SafetyInv, IssuedInv, HoldsSt, Proc
      <4>2. /\ ticket[call[th].ticket].granting \in ticket[call[th].ticket].chain
            /\ ticket[call[th].ticket].chain \subseteq TGT \cap issued
            BY <4>1, FieldTypes DEF TypeInv, SafetyInv, IssuedInv, ChainInv, Ticket
      <4>3. ProxyAllowed # {}
            BY <3>2, <4>1 DEF WindowInv
      <4> QED BY <3>1, <4>2, <4>3 DEF SlidingWithoutProxies
    <3> QED BY <3>1, <3>2 DEF MadeTicket
  <2> QED BY <2>1, <2>2
<1>2. ProxyAllowed = {} => \A p \in Proc : pc'[p] # "delegate"
      BY DelegationsAreAllowed DEF WindowInv
<1>3. ASSUME NEW s \in ST \cap issued', NEW t \in TGT,
             t \in ticket'[s].chain, ticket'[s].uses = 0
      PROVE  ticket'[s].lastUsed <= ticket'[t].lastUsed
  <2>1. /\ s \in Ticket /\ t \in Ticket /\ now \in Nat
        /\ ticket[s].lastUsed \in Nat /\ ticket[t].lastUsed \in Nat /\ ticket[s].uses \in Nat
        /\ ticket[s].lastUsed <= now
        BY Times DEF Ticket, AgingInv, ClockInv
  <2>2. CASE s \in issued
    <3>1. KeptTicket(s) /\ t \in issued /\ KeptTicket(t) /\ t \in ticket[s].chain
          BY <1>3, <2>1, <2>2 DEF Aging, KeptTicket, ChainInv
    <3>2. ticket[s].uses = 0 /\ ticket'[s].lastUsed = ticket[s].lastUsed
          BY <1>3, <2>1, <3>1 DEF KeptTicket
    <3>3. ticket[s].lastUsed <= ticket[t].lastUsed
          BY <2>2, <3>1, <3>2 DEF WindowInv
    <3> QED BY <2>1, <3>1, <3>2, <3>3 DEF KeptTicket
  <2>3. CASE s \notin issued
    <3>1. MadeTicket(s) /\ s \notin TGT
          BY <2>3, IdsAssumption DEF Aging
    <3>2. PICK u \in TGT \cap issued : /\ ticket'[s].chain = {u} \cup ticket[u].chain
                                       /\ ticket'[u].lastUsed = now
          BY <3>1 DEF MadeTicket
    <3>3. t = u
          BY <1>3, <3>2 DEF WindowInv
    <3> QED BY <2>1, <3>1, <3>2, <3>3 DEF MadeTicket
  <2> QED BY <2>2, <2>3
<1> QED BY <1>1, <1>2, <1>3 DEF WindowInv

\* A ticket's own verdict: a use makes a ticket for one use expire.
LEMMA OwnVerdictStays ==
    ASSUME Inv, Aging, StNumberOfUses = 1, NEW s \in ST \cap issued,
           MultiTimeUseOrTimeout(ticket[s], now, StNumberOfUses, StTimeToKill)
    PROVE  MultiTimeUseOrTimeout(ticket[s], now, StNumberOfUses, StTimeToKill)'
<1>1. /\ now \in Nat /\ now' \in Nat /\ now <= now'
      /\ ticket[s].lastUsed \in Nat /\ ticket[s].uses \in Nat
      /\ KeptTicket(s)
      BY Times DEF Inv, Aging, Ticket
<1> QED BY <1>1, PolicyAssumption DEF KeptTicket, MultiTimeUseOrTimeout, Idle

\* A session that is not used in the step keeps a verdict that rests on time.
LEMMA UnusedVerdictStays ==
    ASSUME Inv, Aging, TgtPolicy # "throttledUse", NEW t \in TGT \cap issued,
           TgtPolicyExpired(t),
           \/ ticket'[t].lastUsed = ticket[t].lastUsed
           \/ ~(now - ticket[t].lastUsed >= TgtTimeToKill)
    PROVE  TgtPolicyExpired(t)'
<1>1. /\ now \in Nat /\ now' \in Nat /\ now <= now'
      /\ ticket[t].created \in Nat /\ ticket[t].lastUsed \in Nat
      /\ ticket'[t].created = ticket[t].created
      /\ tgt'[t].principal = tgt[t].principal
      BY Times DEF Inv, Aging, KeptTicket, KeptTgt, Ticket
<1>2. /\ now' - ticket'[t].created >= now - ticket[t].created
      /\ now - ticket[t].created \in Int
      /\ now' - ticket'[t].created \in Int
      BY <1>1
<1>3. \/ now' - ticket'[t].lastUsed \in Int
         /\ now' - ticket'[t].lastUsed >= now - ticket[t].lastUsed
         /\ now - ticket[t].lastUsed \in Int
      \/ ~(now - ticket[t].lastUsed >= TgtTimeToKill)
      BY <1>1
<1> QED BY <1>1, <1>2, <1>3, PolicyAssumption
        DEF TgtPolicyExpired, TicketGrantingTicketPolicy, HardTimeout, Timeout,
            RememberMeDelegating, NeverExpires, Age, Idle

LEMMA ServiceVerdictStays ==
    ASSUME Inv, AgingInv, Aging, StNumberOfUses = 1,
           ExpiryIsFinal \/ (SlidingWithoutProxies /\ WindowInv),
           NEW s \in ST \cap issued, IsExpired(s)
    PROVE  IsExpired(s)'
<1> DEFINE Own == MultiTimeUseOrTimeout(ticket[s], now, StNumberOfUses, StTimeToKill)
<1>1. /\ s \in Ticket /\ s \notin TGT /\ ticket[s].chain \subseteq TGT \cap issued
      /\ ticket'[s].chain = ticket[s].chain
      BY IdsAssumption, FieldTypes DEF Inv, TypeInv, ChainInv, Aging, KeptTicket, Ticket
<1>2. ASSUME Own PROVE IsExpired(s)'
  <2>1. Own'
        BY <1>2, OwnVerdictStays
  <2> QED BY <2>1 DEF IsExpired, PolicyExpired
<1>3. ASSUME NEW t \in ticket[s].chain, tgt[t].expired PROVE IsExpired(s)'
      BY <1>1, <1>3 DEF IsExpired, Aging, KeptTgt
<1>4. ASSUME NEW t \in ticket[s].chain, TgtPolicyExpired(t) PROVE IsExpired(s)'
  <2> t \in TGT \cap issued
      BY <1>1
  <2>1. ASSUME TgtPolicyExpired(t)' PROVE IsExpired(s)'
        BY <1>1, <2>1 DEF IsExpired, PolicyExpired
  <2>2. CASE ExpiryIsFinal
        BY <1>4, <2>1, <2>2, PolicyVerdictStays
  <2>3. CASE SlidingWithoutProxies /\ WindowInv
    <3>1. CASE now - ticket[t].lastUsed >= TgtTimeToKill
      <4>1. /\ now \in Nat /\ ticket[s].lastUsed \in Nat /\ ticket[t].lastUsed \in Nat
            /\ ticket[s].uses \in Nat
            BY <1>1, Times DEF Inv, Ticket
      <4>2. ticket[s].uses = 0 => ticket[s].lastUsed <= ticket[t].lastUsed
            BY <2>3 DEF WindowInv
      <4>3. StTimeToKill <= TgtTimeToKill /\ StTimeToKill \in Nat /\ TgtTimeToKill \in Nat
            BY <2>3, PolicyAssumption DEF SlidingWithoutProxies
      <4>4. Own
            BY <3>1, <4>1, <4>2, <4>3 DEF MultiTimeUseOrTimeout, Idle
      <4> QED BY <4>4, <1>2
    <3>2. CASE ~(now - ticket[t].lastUsed >= TgtTimeToKill)
          BY <1>4, <2>1, <2>3, <3>2, UnusedVerdictStays DEF SlidingWithoutProxies
    <3> QED BY <3>1, <3>2
  <2> QED BY <2>2, <2>3
<1>5. PICK y \in {s} \cup ticket[s].chain : PolicyExpired(y) \/ (y \in TGT /\ tgt[y].expired)
      BY DEF IsExpired
<1>6. CASE y = s
      BY <1>1, <1>2, <1>5, <1>6 DEF PolicyExpired
<1>7. CASE y \in ticket[s].chain
  <2>1. y \in TGT /\ y \notin ST
        BY <1>1, <1>7, IdsAssumption
  <2> QED BY <1>3, <1>4, <1>5, <1>7, <2>1 DEF PolicyExpired
<1> QED BY <1>5, <1>6, <1>7

\* A service ticket for one use that has expired never comes back to life, where
\* the expiry of a session is final, and where windows slide but nobody proxies.
THEOREM ServiceTicketsStayExpired ==
    ASSUME StNumberOfUses = 1, ExpiryIsFinal \/ SlidingWithoutProxies
    PROVE  Spec => ExpiredServiceTicketStaysExpired
<1> DEFINE Window == SlidingWithoutProxies => WindowInv
<1>1. Inv /\ AgingInv /\ [Next]_vars => AgingInv'
      BY AgingStep, AgingInvStep
<1>2. Inv /\ AgingInv /\ Window /\ [Next]_vars => Window'
      BY AgingStep, WindowStep
<1>3. Inv /\ AgingInv /\ Window /\ [Next]_vars =>
         [\A s \in ST \cap issued : IsExpired(s) => IsExpired(s)']_vars
      BY AgingStep, ServiceVerdictStays
<1>4. Init => Window
      BY WindowInit
<1> QED BY <1>1, <1>2, <1>3, <1>4, AgingInit, ChainInvariant, PTL
        DEF Spec, ExpiredServiceTicketStaysExpired
=============================================================================
