---------------------------- MODULE ClearPass_proofs ----------------------------
(***************************************************************************)
(* A password in the ClearPass cache goes with the sessions of its user,   *)
(* and a session finds the password of its user there, for any number of   *)
(* users, sessions and requests.                                           *)
(***************************************************************************)
EXTENDS ClearPass, TLAPS

USE DEF Goto, Return, session

\* What a request holds where it is: a login that has its ticket is the only
\* one that knows it, and a ticket that is renewed or deleted has been in the
\* registry.
Held(th) == call[th].ticket

HoldInv ==
    /\ \A t \in registry \cup unmapped : owner[t] # NoUser
    /\ \A t \in TGT : userName[t] \in {owner[t], NoUser}
    /\ \A th \in Thread :
        /\ pc[th] \in {"create", "add", "renew"} => call[th].user \in User
        /\ pc[th] \in {"add", "renew", "unmap", "remove", "delete"} =>
              Held(th) \in TGT /\ owner[Held(th)] # NoUser
        /\ pc[th] = "add" =>
              /\ owner[Held(th)] = call[th].user
              /\ Held(th) \notin registry \cup unmapped
        /\ pc[th] = "renew" => Held(th) \in registry \cup unmapped
        /\ pc[th] = "remove" => owner[Held(th)] = call[th].user
        /\ pc[th] = "delete" => Held(th) \in unmapped
    /\ \A th, other \in Thread :
        pc[th] = "add" /\ pc[other] \in {"add", "renew", "unmap", "remove", "delete"}
            /\ Held(th) = Held(other) => th = other

\* A password that nothing has exposed has a session whose deletion has not
\* reached it yet, or a login.
PasswordInv ==
    \A u \in password \ exposed :
        \/ \E t \in registry \ unmapped : owner[t] = u
        \/ \E th \in Thread : pc[th] \in {"create", "add"} /\ call[th].user = u

\* The password of a user is there, or there is a reason why it is not.
There(u) ==
    \/ u \in password
    \/ evictions > 0
    \/ \E other \in unmapped : owner[other] = u

ThereInv ==
    /\ \A t \in registry \ unmapped : There(owner[t])
    /\ \A th \in Thread : pc[th] \in {"create", "add"} => There(call[th].user)

Inv == TypeOK /\ HoldInv /\ PasswordInv /\ ThereInv

-----------------------------------------------------------------------------
Labels == {"idle", "create", "add", "renew", "unmap", "remove", "delete"}

LEMMA InvInit == Init => Inv
<1> SUFFICES ASSUME Init PROVE Inv
    OBVIOUS
<1> USE ClearPassAssumption DEF Init, Labels
<1>1. TypeOK
      BY DEF TypeOK, NoCall
<1>2. HoldInv
      BY DEF HoldInv
<1>3. PasswordInv /\ ThereInv
      BY DEF PasswordInv, ThereInv
<1> QED BY <1>1, <1>2, <1>3 DEF Inv

\* Entering a label leaves the other requests where they are.
LEMMA EnterControl ==
    ASSUME TypeOK, NEW th \in Thread, NEW label, NEW t, NEW u, Enter(th, label, t, u)
    PROVE  /\ pc'[th] = label /\ call'[th].ticket = t /\ call'[th].user = u
           /\ \A q \in Thread \ {th} : pc'[q] = pc[q] /\ call'[q] = call[q]
BY DEF Enter, TypeOK

LEMMA EnterType ==
    ASSUME TypeOK, NEW th \in Thread, NEW t \in TGT \cup {NoTicket},
           NEW u \in User \cup {NoUser},
           NEW label \in Labels,
           Enter(th, label, t, u)
    PROVE  /\ pc' \in [Thread -> Labels]
           /\ call' \in [Thread -> [ticket : TGT \cup {NoTicket}, user : User \cup {NoUser}]]
BY DEF Enter, TypeOK, Labels

-----------------------------------------------------------------------------
LEMMA AuthenticateStep ==
    ASSUME Inv, NEW th \in Thread, Authenticate(th)
    PROVE  Inv'
<1> USE DEF Inv
<1>1. PICK u \in User : password' = password \cup {u} /\ Enter(th, "create", NoTicket, u)
      BY DEF Authenticate
<1>2. /\ pc'[th] = "create" /\ call'[th].user = u
      /\ \A q \in Thread \ {th} : pc'[q] = pc[q] /\ call'[q] = call[q]
      BY <1>1, EnterControl
<1>3. UNCHANGED <<userName, registry, owner, expired, evictions, unmapped, exposed>>
      /\ pc[th] = "idle"
      BY DEF Authenticate
<1>4. TypeOK'
      BY <1>1, <1>3, EnterType DEF TypeOK, Labels
<1>5. HoldInv'
      BY <1>2, <1>3 DEF HoldInv, Held
<1>6. PasswordInv'
      BY <1>1, <1>2, <1>3 DEF PasswordInv
<1>7. ThereInv'
      BY <1>1, <1>2, <1>3 DEF ThereInv, There
<1> QED BY <1>4, <1>5, <1>6, <1>7

LEMMA MapTicketStep ==
    ASSUME Inv, NEW th \in Thread, MapTicket(th)
    PROVE  Inv'
<1> DEFINE u == call[th].user
<1> USE DEF Inv
<1>1. PICK t \in New : /\ owner' = [owner EXCEPT ![t] = u]
                       /\ userName' = [userName EXCEPT ![t] = u]
                       /\ Enter(th, "add", t, u)
      BY DEF MapTicket
<1>2. /\ pc'[th] = "add" /\ call'[th].ticket = t /\ call'[th].user = u
      /\ \A q \in Thread \ {th} : pc'[q] = pc[q] /\ call'[q] = call[q]
      BY <1>1, EnterControl
<1>3. UNCHANGED <<password, registry, expired, evictions, unmapped, exposed>>
      /\ pc[th] = "create"
      BY DEF MapTicket
<1>4. u \in User /\ t \in TGT /\ owner[t] = NoUser /\ t \notin registry \cup unmapped
      BY <1>3 DEF HoldInv, New
<1>5. \A x \in TGT : owner[x] # NoUser => owner'[x] = owner[x] /\ x # t
      BY <1>1, <1>4 DEF TypeOK
<1>6. TypeOK'
      BY <1>1, <1>3, <1>4, EnterType DEF TypeOK, Labels
<1>7. HoldInv'
  <2>1. \A x \in registry' \cup unmapped' : owner'[x] # NoUser
        BY <1>3, <1>5 DEF HoldInv, TypeOK
  <2>2. \A x \in TGT : userName'[x] \in {owner'[x], NoUser}
        BY <1>1, <1>4 DEF HoldInv, TypeOK
  <2>3. owner'[t] = u /\ u # NoUser
        BY <1>1, <1>4, ClearPassAssumption DEF TypeOK
  <2> QED BY <1>2, <1>3, <1>4, <1>5, <2>1, <2>2, <2>3 DEF HoldInv, Held
<1>8. PasswordInv'
  <2> SUFFICES ASSUME NEW v \in password \ exposed
               PROVE  \/ \E x \in registry \ unmapped : owner'[x] = v
                      \/ \E q \in Thread : pc'[q] \in {"create", "add"} /\ call'[q].user = v
      BY <1>3 DEF PasswordInv
  <2>1. CASE \E x \in registry \ unmapped : owner[x] = v
        BY <2>1, <1>5 DEF HoldInv, TypeOK
  <2>2. CASE \E q \in Thread : pc[q] \in {"create", "add"} /\ call[q].user = v
        BY <2>2, <1>2
  <2> QED BY <2>1, <2>2 DEF PasswordInv
<1>9. ThereInv'
  <2>1. \A v : There(v) => There(v)'
        BY <1>3, <1>5 DEF There, HoldInv, TypeOK
  <2> QED BY <1>2, <1>3, <1>5, <2>1 DEF ThereInv, HoldInv, TypeOK
<1> QED BY <1>6, <1>7, <1>8, <1>9

LEMMA AddTicketStep ==
    ASSUME Inv, NEW th \in Thread, AddTicket(th)
    PROVE  Inv'
<1> DEFINE t == call[th].ticket
<1> USE DEF Inv
<1>1. /\ pc[th] = "add"
      /\ registry' = registry \cup {t}
      /\ Enter(th, "idle", NoTicket, NoUser)
      /\ UNCHANGED <<password, userName, owner, expired, evictions, unmapped, exposed>>
      BY DEF AddTicket
<1>2. /\ pc'[th] = "idle"
      /\ \A q \in Thread \ {th} : pc'[q] = pc[q] /\ call'[q] = call[q]
      BY <1>1, EnterControl
<1>3. t \in TGT /\ owner[t] = call[th].user /\ owner[t] # NoUser /\ t \notin unmapped
      BY <1>1 DEF HoldInv, Held
<1>4. TypeOK'
      BY <1>1, <1>3, EnterType DEF TypeOK, Labels
<1>5. HoldInv'
  <2>1. \A q \in Thread : pc'[q] = "add" => Held(q)' \notin registry'
        BY <1>1, <1>2 DEF HoldInv, Held
  <2> QED BY <1>1, <1>2, <1>3, <2>1 DEF HoldInv, Held
<1>6. PasswordInv'
  <2> SUFFICES ASSUME NEW v \in password \ exposed
               PROVE  \/ \E x \in registry' \ unmapped : owner[x] = v
                      \/ \E q \in Thread : pc'[q] \in {"create", "add"} /\ call'[q].user = v
      BY <1>1 DEF PasswordInv
  <2>1. CASE \E x \in registry \ unmapped : owner[x] = v
        BY <2>1, <1>1
  <2>2. ASSUME NEW q \in Thread, pc[q] \in {"create", "add"}, call[q].user = v
        PROVE  \/ \E x \in registry' \ unmapped : owner[x] = v
               \/ pc'[q] \in {"create", "add"} /\ call'[q].user = v
        BY <2>2, <1>1, <1>2, <1>3
  <2> QED BY <2>1, <2>2 DEF PasswordInv
<1>7. ThereInv'
  <2>1. \A v : There(v)' <=> There(v)
        BY <1>1 DEF There
  <2> QED BY <1>1, <1>2, <1>3, <2>1 DEF ThereInv
<1> QED BY <1>4, <1>5, <1>6, <1>7

LEMMA RenewLookupStep ==
    ASSUME Inv, NEW th \in Thread, RenewLookup(th)
    PROVE  Inv'
<1> USE DEF Inv
<1>1. PICK t \in registry, u \in User :
          Enter(th, IF t \in expired THEN "unmap" ELSE "renew", t, u)
      BY DEF RenewLookup
<1>2. UNCHANGED <<password, userName, registry, owner, expired, evictions, unmapped, exposed>>
      /\ pc[th] = "idle"
      BY DEF RenewLookup
<1>3. /\ pc'[th] \in {"unmap", "renew"} /\ call'[th].ticket = t /\ call'[th].user = u
      /\ \A q \in Thread \ {th} : pc'[q] = pc[q] /\ call'[q] = call[q]
      BY <1>1, EnterControl
<1>4. TypeOK'
      BY <1>1, <1>2, EnterType DEF TypeOK, Labels
<1>5. HoldInv'
      BY <1>2, <1>3 DEF HoldInv, Held, TypeOK
<1>6. PasswordInv'
      BY <1>2, <1>3 DEF PasswordInv
<1>7. ThereInv'
      BY <1>2, <1>3 DEF ThereInv, There
<1> QED BY <1>4, <1>5, <1>6, <1>7

LEMMA RenewStep ==
    ASSUME Inv, NEW th \in Thread, Renew(th)
    PROVE  Inv'
<1> DEFINE c == call[th]
<1> USE DEF Inv
<1>1. /\ pc[th] = "renew"
      /\ password' = password \cup {c.user}
      /\ exposed' = IF c.ticket \in unmapped \/ owner[c.ticket] # c.user
                    THEN exposed \cup {c.user} ELSE exposed
      /\ Enter(th, "idle", NoTicket, NoUser)
      /\ UNCHANGED <<userName, registry, owner, expired, evictions, unmapped>>
      BY DEF Renew
<1>2. /\ pc'[th] = "idle"
      /\ \A q \in Thread \ {th} : pc'[q] = pc[q] /\ call'[q] = call[q]
      BY <1>1, EnterControl
<1>3. c.user \in User /\ c.ticket \in registry \cup unmapped
      BY <1>1 DEF HoldInv, Held
<1>4. TypeOK'
      BY <1>1, <1>3, EnterType DEF TypeOK, Labels
<1>5. HoldInv'
      BY <1>1, <1>2 DEF HoldInv, Held
<1>6. PasswordInv'
  <2> SUFFICES ASSUME NEW v \in password' \ exposed'
               PROVE  \/ \E x \in registry \ unmapped : owner[x] = v
                      \/ \E q \in Thread : pc'[q] \in {"create", "add"} /\ call'[q].user = v
      BY <1>1 DEF PasswordInv
  <2>1. CASE v \in password
    <3>1. v \in password \ exposed
          BY <1>1, <2>1
    <3> QED BY <1>1, <1>2, <3>1 DEF PasswordInv
  <2>2. CASE v = c.user
        BY <1>1, <1>3, <2>2
  <2> QED BY <1>1, <2>1, <2>2
<1>7. ThereInv'
      BY <1>1, <1>2 DEF ThereInv, There
<1> QED BY <1>4, <1>5, <1>6, <1>7

LEMMA ExpireStep ==
    ASSUME Inv, NEW th \in Thread, Expire(th)
    PROVE  Inv'
<1> USE DEF Inv
<1>1. PICK t \in registry : expired' = expired \cup {t} /\ Enter(th, "unmap", t, NoUser)
      BY DEF Expire
<1>2. UNCHANGED <<password, userName, registry, owner, evictions, unmapped, exposed>>
      /\ pc[th] = "idle"
      BY DEF Expire
<1>3. /\ pc'[th] = "unmap" /\ call'[th].ticket = t
      /\ \A q \in Thread \ {th} : pc'[q] = pc[q] /\ call'[q] = call[q]
      BY <1>1, EnterControl
<1>4. TypeOK'
      BY <1>1, <1>2, EnterType DEF TypeOK, Labels
<1>5. HoldInv'
      BY <1>2, <1>3 DEF HoldInv, Held, TypeOK
<1>6. PasswordInv'
      BY <1>2, <1>3 DEF PasswordInv
<1>7. ThereInv'
      BY <1>2, <1>3 DEF ThereInv, There
<1> QED BY <1>4, <1>5, <1>6, <1>7

LEMMA GetUserNameStep ==
    ASSUME Inv, NEW th \in Thread, GetUserName(th)
    PROVE  Inv'
<1> DEFINE t == call[th].ticket
<1> USE DEF Inv
<1>1. /\ pc[th] = "unmap"
      /\ UNCHANGED <<password, userName, registry, owner, expired, evictions>>
      /\ unmapped \subseteq unmapped'
      BY DEF GetUserName
<1>2. t \in TGT /\ owner[t] \in User /\ userName[t] \in {owner[t], NoUser}
      BY <1>1 DEF HoldInv, Held, TypeOK
<1>3. CASE /\ userName[t] # NoUser
           /\ Enter(th, "remove", t, userName[t])
           /\ UNCHANGED <<unmapped, exposed>>
  <2>1. /\ pc'[th] = "remove" /\ call'[th].ticket = t /\ call'[th].user = owner[t]
        /\ \A q \in Thread \ {th} : pc'[q] = pc[q] /\ call'[q] = call[q]
        BY <1>2, <1>3, EnterControl
  <2>2. TypeOK'
        BY <1>1, <1>2, <1>3, EnterType DEF TypeOK, Labels
  <2>3. HoldInv'
        BY <1>1, <1>2, <1>3, <2>1 DEF HoldInv, Held
  <2>4. PasswordInv'
        BY <1>1, <1>3, <2>1 DEF PasswordInv
  <2>5. ThereInv'
        BY <1>1, <1>3, <2>1 DEF ThereInv, There
  <2> QED BY <2>2, <2>3, <2>4, <2>5
<1>4. CASE /\ userName[t] = NoUser
           /\ Enter(th, "delete", t, call[th].user)
           /\ unmapped' = unmapped \cup {t} /\ exposed' = exposed \cup {owner[t]}
  <2>1. /\ pc'[th] = "delete" /\ call'[th].ticket = t
        /\ \A q \in Thread \ {th} : pc'[q] = pc[q] /\ call'[q] = call[q]
        BY <1>4, EnterControl
  <2>2. TypeOK'
    <3>1. call[th].user \in User \cup {NoUser}
          BY DEF TypeOK
    <3> QED BY <1>1, <1>2, <1>4, <3>1, EnterType DEF TypeOK, Labels
  <2>3. HoldInv'
    <3>1. \A q \in Thread : pc'[q] = "add" => Held(q)' \notin unmapped'
          BY <1>1, <1>4, <2>1 DEF HoldInv, Held
    <3> QED BY <1>1, <1>2, <1>4, <2>1, <3>1, ClearPassAssumption DEF HoldInv, Held
  <2>4. PasswordInv'
    <3> SUFFICES ASSUME NEW v \in password \ exposed'
                 PROVE  \/ \E x \in registry \ unmapped' : owner[x] = v
                        \/ \E q \in Thread : pc'[q] \in {"create", "add"} /\ call'[q].user = v
        BY <1>1 DEF PasswordInv
    <3>1. v \in password \ exposed /\ v # owner[t]
          BY <1>4
    <3>2. CASE \E x \in registry \ unmapped : owner[x] = v
          BY <1>4, <3>1, <3>2
    <3>3. CASE \E q \in Thread : pc[q] \in {"create", "add"} /\ call[q].user = v
          BY <1>1, <2>1, <3>3
    <3> QED BY <3>1, <3>2, <3>3 DEF PasswordInv
  <2>5. ThereInv'
    <3>1. \A v : There(v) => There(v)'
          BY <1>1 DEF There
    <3> QED BY <1>1, <1>4, <2>1, <3>1 DEF ThereInv
  <2> QED BY <2>2, <2>3, <2>4, <2>5
<1> QED BY <1>3, <1>4 DEF GetUserName

LEMMA RemovePasswordStep ==
    ASSUME Inv, NEW th \in Thread, RemovePassword(th)
    PROVE  Inv'
<1> DEFINE t == call[th].ticket
<1> USE DEF Inv
<1>1. /\ pc[th] = "remove"
      /\ password' = password \ {call[th].user}
      /\ unmapped' = unmapped \cup {t}
      /\ exposed' = exposed \ {call[th].user}
      /\ Enter(th, "delete", t, call[th].user)
      /\ UNCHANGED <<userName, registry, owner, expired, evictions>>
      BY DEF RemovePassword
<1>2. /\ pc'[th] = "delete" /\ call'[th].ticket = t
      /\ \A q \in Thread \ {th} : pc'[q] = pc[q] /\ call'[q] = call[q]
      BY <1>1, EnterControl
<1>3. t \in TGT /\ owner[t] # NoUser /\ owner[t] = call[th].user
      BY <1>1 DEF HoldInv, Held
<1>4. TypeOK'
  <2>1. call[th].user \in User \cup {NoUser}
        BY DEF TypeOK
  <2> QED BY <1>1, <1>3, <2>1, EnterType DEF TypeOK, Labels
<1>5. HoldInv'
  <2>1. \A q \in Thread : pc'[q] = "add" => Held(q)' \notin unmapped'
        BY <1>1, <1>2 DEF HoldInv, Held
  <2> QED BY <1>1, <1>2, <1>3, <2>1 DEF HoldInv, Held
<1>6. PasswordInv'
  <2> SUFFICES ASSUME NEW v \in password' \ exposed'
               PROVE  \/ \E x \in registry \ unmapped' : owner[x] = v
                      \/ \E q \in Thread : pc'[q] \in {"create", "add"} /\ call'[q].user = v
      BY <1>1 DEF PasswordInv
  <2>1. v \in password \ exposed /\ v # owner[t]
        BY <1>1, <1>3
  <2>2. CASE \E x \in registry \ unmapped : owner[x] = v
        BY <1>1, <2>1, <2>2
  <2>3. CASE \E q \in Thread : pc[q] \in {"create", "add"} /\ call[q].user = v
        BY <1>1, <1>2, <2>3
  <2> QED BY <2>1, <2>2, <2>3 DEF PasswordInv
<1>7. ThereInv'
  <2>1. password' = password \ {owner[t]}
        BY <1>1, <1>3
  <2>2. \A v : There(v) => There(v)'
        BY <1>1, <2>1 DEF There
  <2> QED BY <1>1, <1>2, <2>2 DEF ThereInv
<1> QED BY <1>4, <1>5, <1>6, <1>7

LEMMA DeleteTicketStep ==
    ASSUME Inv, NEW th \in Thread, DeleteTicket(th)
    PROVE  Inv'
<1> DEFINE t == call[th].ticket
<1> USE DEF Inv
<1>1. /\ pc[th] = "delete"
      /\ registry' = registry \ {t}
      /\ Enter(th, "idle", NoTicket, NoUser)
      /\ UNCHANGED <<password, userName, owner, expired, evictions, unmapped, exposed>>
      BY DEF DeleteTicket
<1>2. /\ pc'[th] = "idle"
      /\ \A q \in Thread \ {th} : pc'[q] = pc[q] /\ call'[q] = call[q]
      BY <1>1, EnterControl
<1>3. t \in unmapped
      BY <1>1 DEF HoldInv, Held
<1>4. TypeOK'
      BY <1>1, EnterType DEF TypeOK, Labels
<1>5. HoldInv'
      BY <1>1, <1>2, <1>3 DEF HoldInv, Held
<1>6. registry' \ unmapped' = registry \ unmapped
      BY <1>1, <1>3
<1>7. PasswordInv'
      BY <1>1, <1>2, <1>6 DEF PasswordInv
<1>8. ThereInv'
      BY <1>1, <1>2, <1>6 DEF ThereInv, There
<1> QED BY <1>4, <1>5, <1>7, <1>8

LEMMA TimesOutStep ==
    ASSUME Inv, NEW t \in TGT, TimesOut(t)
    PROVE  Inv'
BY DEF Inv, TimesOut, TypeOK, HoldInv, Held, PasswordInv, ThereInv, There

LEMMA EvictStep ==
    ASSUME Inv, Evict
    PROVE  Inv'
<1> USE DEF Inv
<1>1. /\ evictions' = evictions + 1 /\ evictions < MaxEvictions
      /\ password' \subseteq password
      /\ userName' = userName \/ \E t \in TGT : userName' = [userName EXCEPT ![t] = NoUser]
      /\ UNCHANGED <<registry, owner, expired, pc, call, unmapped, exposed>>
      BY DEF Evict
<1>2. TypeOK'
      BY <1>1, ClearPassAssumption DEF TypeOK
<1>3. HoldInv'
  <2>1. \A t \in TGT : userName'[t] \in {userName[t], NoUser}
        BY <1>1 DEF TypeOK
  <2> QED BY <1>1, <2>1 DEF HoldInv, Held
<1>4. PasswordInv'
      BY <1>1 DEF PasswordInv
<1>5. ThereInv'
  <2>1. evictions' > 0
        BY <1>1 DEF TypeOK
  <2> QED BY <2>1 DEF ThereInv, There
<1> QED BY <1>2, <1>3, <1>4, <1>5

LEMMA InvStep == Inv /\ [Next]_vars => Inv'
<1> SUFFICES ASSUME Inv, [Next]_vars PROVE Inv'
    OBVIOUS
<1>1. ASSUME NEW th \in Thread,
             \/ Authenticate(th) \/ MapTicket(th) \/ AddTicket(th)
             \/ RenewLookup(th) \/ Renew(th)
             \/ Expire(th) \/ GetUserName(th) \/ RemovePassword(th) \/ DeleteTicket(th)
      PROVE  Inv'
      BY <1>1, AuthenticateStep, MapTicketStep, AddTicketStep, RenewLookupStep,
         RenewStep, ExpireStep, GetUserNameStep, RemovePasswordStep, DeleteTicketStep
<1>2. CASE UNCHANGED vars
      BY <1>2 DEF vars, Inv, TypeOK, HoldInv, Held, PasswordInv, ThereInv, There
<1> QED BY <1>1, <1>2, TimesOutStep, EvictStep DEF Next

LEMMA Invariant == Spec => []Inv
BY InvInit, InvStep, PTL DEF Spec

-----------------------------------------------------------------------------
\* Every variable keeps its type.
THEOREM ClearPassTypeCorrect == Spec => []TypeOK
BY Invariant, PTL DEF Inv

\* A password that was not stored by a renewal at the wrong moment, and whose
\* key was not evicted, is in the cache only while its user has a session in
\* the registry or is logging in (TicketRegistryDecorator).
THEOREM PasswordsAreRemoved == Spec => []PasswordsGoWithSessions
<1>1. Inv => PasswordsGoWithSessions
      BY DEF Inv, PasswordInv, PasswordsGoWithSessions
<1> QED BY <1>1, Invariant, PTL

\* Only the end of another session of its user, or an eviction, takes the
\* password from a session that is in the registry.
THEOREM PasswordsAreKept == Spec => []SessionHasPassword
<1>1. Inv => SessionHasPassword
      BY DEF Inv, ThereInv, There, SessionHasPassword
<1> QED BY <1>1, Invariant, PTL
=============================================================================
