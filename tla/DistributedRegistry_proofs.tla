------------------------ MODULE DistributedRegistry_proofs ------------------------
(***************************************************************************)
(* Over memcached a ticket that has left the cache does not come back, and *)
(* nobody gets an assertion on a session a logout has deleted.  However    *)
(* tickets are written back, one that no two requests have updated at once *)
(* counts its uses, and reaches every application at logout.  All this for *)
(* any number of tickets, requests and faults.                             *)
(***************************************************************************)
EXTENDS DistributedRegistry, FiniteSetTheorems, TLAPS

USE DEF Return, Goto, history, request

Labels == {"idle", "check", "grant", "add", "checkSt", "use", "assert",
           "finally", "remove", "delegate", "grantTgt", "expire", "delete"}

\* What is stored has been added, and so has the ticket a request is about; the
\* ticket a request is about to add is known to that request only.
HoldInv ==
    /\ \A x \in Ticket : Stored(x) => x \in added
    /\ \A th \in Thread :
        /\ pc[th] \in {"check", "grant", "expire", "delete"} =>
              call[th].ticket \in TGT \cap added
        /\ pc[th] \in {"checkSt", "use", "assert", "finally", "delegate", "grantTgt"} =>
              call[th].ticket \in ST \cap added
        /\ pc[th] = "remove" => call[th].ticket \in Ticket \cap added
        /\ pc[th] = "add" => call[th].new \in issued \ added
    /\ \A th, other \in Thread :
        /\ pc[th] = "add" /\ pc[other] = "add" /\ call[th].new = call[other].new
        => th = other
    /\ destroyed \subseteq added

Inv == TypeOK /\ HoldInv

-----------------------------------------------------------------------------
LEMMA InvInit == Init => Inv
<1> SUFFICES ASSUME Init PROVE Inv
    OBVIOUS
<1>1. NewCopy \in Copies /\ <<>> \in Seq(TGT)
      BY DEF NewCopy, Copies
<1>2. TypeOK
      BY <1>1, RegistryAssumption DEF Init, TypeOK, NoCall, Calls
<1>3. HoldInv
      BY DEF Init, HoldInv, Stored
<1> QED BY <1>2, <1>3 DEF Inv

\* Entering a label leaves the other requests where they are.
LEMMA EnterControl ==
    ASSUME TypeOK, NEW th \in Thread, NEW label \in Labels, NEW c \in Calls,
           Enter(th, label, c)
    PROVE  /\ pc'[th] = label /\ call'[th] = c
           /\ \A q \in Thread \ {th} : pc'[q] = pc[q] /\ call'[q] = call[q]
           /\ pc' \in [Thread -> Labels] /\ call' \in [Thread -> Calls]
           /\ asked' \in [Thread -> Nat]
BY DEF Enter, TypeOK, Labels

LEMMA NoCallType == NoCall \in Calls
BY DEF NoCall, Calls, NewCopy, Copies

\* A write-back stores nothing under another id, and with "replace" nothing
\* under an id that is not there.
LEMMA SaveWrites ==
    ASSUME TypeOK, NEW th \in Thread, NEW x \in Ticket, NEW copy \in Copies, Save(th, x, copy)
    PROVE  /\ cache' \in [Ticket -> Copies \cup {Nothing}]
           /\ \A y \in Ticket : cache'[y] # Nothing => cache[y] # Nothing \/ y = x
           /\ WriteBack = "replace" =>
                \A y \in Ticket : cache[y] = Nothing => cache'[y] = Nothing
           /\ faults' \in 0 .. MaxFaults
           /\ conflicted' \subseteq Ticket
<1>1. UNCHANGED cache \/ Update(x, copy)
      BY DEF Save
<1>2. \/ UNCHANGED cache
      \/ cache' = [cache EXCEPT ![x] = copy] /\ (WriteBack = "replace" => cache[x] # Nothing)
      BY <1>1 DEF Update, Stored
<1>3. /\ cache' \in [Ticket -> Copies \cup {Nothing}]
      /\ \A y \in Ticket \ {x} : cache'[y] = cache[y]
      /\ WriteBack = "replace" /\ cache[x] = Nothing => cache'[x] = Nothing
      BY <1>2 DEF TypeOK
<1>4. faults' \in 0 .. MaxFaults /\ conflicted' \subseteq Ticket
      BY RegistryAssumption DEF Save, Fault, TypeOK
<1> QED BY <1>3, <1>4

LEMMA RemoveWrites ==
    ASSUME TypeOK, NEW x \in Ticket, Remove(x)
    PROVE  /\ cache' \in [Ticket -> Copies \cup {Nothing}]
           /\ cache'[x] = Nothing
           /\ \A y \in Ticket : cache[y] = Nothing => cache'[y] = Nothing
BY DEF TypeOK, Remove

-----------------------------------------------------------------------------
\* The steps but those that add a ticket: what they have in common.
Ordinary ==
    /\ cache' \in [Ticket -> Copies \cup {Nothing}]
    /\ \A y \in added : WriteBack = "replace" /\ cache[y] = Nothing => cache'[y] = Nothing
    /\ \A y \in Ticket : cache'[y] # Nothing => y \in added

\* A step that issues no ticket and adds none.
LEMMA PlainStep ==
    ASSUME Inv, NEW th \in Thread, NEW label \in Labels \ {"add"}, NEW c \in Calls,
           Enter(th, label, c), Ordinary,
           label \in {"check", "grant", "expire", "delete"} => c.ticket \in TGT \cap added,
           label \in {"checkSt", "use", "assert", "finally", "delegate", "grantTgt"} =>
               c.ticket \in ST \cap added,
           label = "remove" => c.ticket \in Ticket \cap added,
           UNCHANGED <<chain, issued, added>>,
           faults' \in 0 .. MaxFaults, conflicted' \subseteq Ticket,
           assertions' \in [ST -> Nat], sent' \in [ST -> Nat],
           destroyed' \subseteq TGT \cap added
    PROVE  Inv'
<1> USE DEF Inv
<1>1. /\ pc'[th] = label /\ call'[th] = c
      /\ \A q \in Thread \ {th} : pc'[q] = pc[q] /\ call'[q] = call[q]
      /\ pc' \in [Thread -> Labels] /\ call' \in [Thread -> Calls]
      /\ asked' \in [Thread -> Nat]
      BY EnterControl
<1>2. TypeOK'
      BY <1>1 DEF TypeOK, Ordinary, Labels
<1>3. HoldInv'
      BY <1>1 DEF HoldInv, Ordinary, Stored, Labels
<1> QED BY <1>2, <1>3

LEMMA ReturnStep ==
    ASSUME Inv, NEW th \in Thread, Enter(th, "idle", NoCall), Ordinary,
           UNCHANGED <<chain, issued, added>>,
           faults' \in 0 .. MaxFaults, conflicted' \subseteq Ticket,
           assertions' \in [ST -> Nat], sent' \in [ST -> Nat],
           destroyed' \subseteq TGT \cap added
    PROVE  Inv'
BY PlainStep, NoCallType DEF Labels

\* A step that issues ticket x, which is to be added next.
LEMMA IssueStep ==
    ASSUME Inv, NEW th \in Thread, NEW x \in Ticket \ issued, NEW c \in Calls,
           c.new = x, Enter(th, "add", c), Ordinary,
           issued' = issued \cup {x}, chain' \in [Ticket -> Seq(TGT)],
           UNCHANGED <<added, assertions, sent, destroyed>>,
           faults' \in 0 .. MaxFaults, conflicted' \subseteq Ticket
    PROVE  Inv'
<1> USE DEF Inv
<1>1. /\ pc'[th] = "add" /\ call'[th] = c
      /\ \A q \in Thread \ {th} : pc'[q] = pc[q] /\ call'[q] = call[q]
      /\ pc' \in [Thread -> Labels] /\ call' \in [Thread -> Calls]
      /\ asked' \in [Thread -> Nat]
      BY EnterControl DEF Labels
<1>2. x \notin added
      BY DEF TypeOK
<1>3. TypeOK'
      BY <1>1 DEF TypeOK, Ordinary, Labels
<1>4. \A q \in Thread :
        /\ pc'[q] \in {"check", "grant", "expire", "delete"} =>
              call'[q].ticket \in TGT \cap added'
        /\ pc'[q] \in {"checkSt", "use", "assert", "finally", "delegate", "grantTgt"} =>
              call'[q].ticket \in ST \cap added'
        /\ pc'[q] = "remove" => call'[q].ticket \in Ticket \cap added'
        /\ pc'[q] = "add" => call'[q].new \in issued' \ added'
      BY <1>1, <1>2 DEF HoldInv
<1>5. \A q \in Thread \ {th} : pc[q] = "add" => call[q].new # x
      BY DEF HoldInv
<1>6. ASSUME NEW q \in Thread, NEW other \in Thread,
             pc'[q] = "add", pc'[other] = "add", call'[q].new = call'[other].new
      PROVE  q = other
  <2>1. CASE q # th /\ other # th
        BY <1>1, <1>6, <2>1 DEF HoldInv
  <2>2. CASE q = th \/ other = th
        BY <1>1, <1>5, <1>6, <2>2
  <2> QED BY <2>1, <2>2
<1>7. destroyed' \subseteq added'
      BY DEF HoldInv
<1>8. \A y \in Ticket : cache'[y] # Nothing => y \in added'
      BY DEF Ordinary
<1>9. HoldInv'
      BY <1>4, <1>6, <1>7, <1>8 DEF HoldInv, Stored
<1> QED BY <1>3, <1>9

LEMMA SameIsOrdinary ==
    ASSUME Inv, UNCHANGED cache
    PROVE  Ordinary
BY DEF Inv, TypeOK, HoldInv, Ordinary, Stored

LEMMA RemoveIsOrdinary ==
    ASSUME Inv, NEW x \in Ticket, Remove(x)
    PROVE  Ordinary
BY RemoveWrites DEF Inv, TypeOK, HoldInv, Ordinary, Stored

LEMMA SaveIsOrdinary ==
    ASSUME Inv, NEW th \in Thread, NEW x \in Ticket \cap added, NEW copy \in Copies,
           Save(th, x, copy)
    PROVE  Ordinary
BY SaveWrites DEF Inv, TypeOK, HoldInv, Ordinary, Stored

-----------------------------------------------------------------------------
LEMMA CreateStep ==
    ASSUME Inv, NEW th \in Thread, CreateTicketGrantingTicket(th)
    PROVE  Inv' /\ \A x \in added : cache[x] = Nothing => cache'[x] = Nothing
<1> USE DEF Inv
<1>1. PICK t \in TGT \ issued :
        /\ issued' = issued \cup {t} /\ added' = added \cup {t}
        /\ cache' = [cache EXCEPT ![t] = NewCopy]
      BY DEF CreateTicketGrantingTicket
<1>2. UNCHANGED <<chain, request, faults, history, conflicted>>
      BY DEF CreateTicketGrantingTicket
<1>3. NewCopy \in Copies /\ t \in Ticket /\ t \notin added
      BY DEF NewCopy, Copies, Ticket, TypeOK
<1>4. /\ cache' \in [Ticket -> Copies \cup {Nothing}]
      /\ \A y \in Ticket \ {t} : cache'[y] = cache[y]
      BY <1>1, <1>3 DEF TypeOK
<1>5. TypeOK'
      BY <1>1, <1>2, <1>3, <1>4 DEF TypeOK
<1>6. HoldInv'
      BY <1>1, <1>2, <1>3, <1>4 DEF HoldInv, Stored
<1>7. \A x \in added : cache[x] = Nothing => cache'[x] = Nothing
      BY <1>3, <1>4 DEF TypeOK
<1> QED BY <1>5, <1>6, <1>7

LEMMA AddTicketStep ==
    ASSUME Inv, NEW th \in Thread, AddTicket(th)
    PROVE  Inv' /\ \A x \in added : cache[x] = Nothing => cache'[x] = Nothing
<1> DEFINE new == call[th].new
<1> USE DEF Inv
<1>1. /\ pc[th] = "add"
      /\ added' = added \cup {new}
      /\ Enter(th, "idle", NoCall)
      /\ UNCHANGED <<chain, issued, history, conflicted>>
      /\ cache' = [cache EXCEPT ![new] = NewCopy] \/ UNCHANGED cache
      BY DEF AddTicket
<1>2. new \in Ticket /\ new \in issued /\ new \notin added /\ NewCopy \in Copies
      BY <1>1 DEF HoldInv, TypeOK, NewCopy, Copies
<1>3. /\ pc'[th] = "idle"
      /\ \A q \in Thread \ {th} : pc'[q] = pc[q] /\ call'[q] = call[q]
      /\ pc' \in [Thread -> Labels] /\ call' \in [Thread -> Calls]
      /\ asked' \in [Thread -> Nat]
      BY <1>1, EnterControl, NoCallType DEF Labels
<1>4. /\ cache' \in [Ticket -> Copies \cup {Nothing}]
      /\ \A y \in Ticket \ {new} : cache'[y] = cache[y]
      BY <1>1, <1>2 DEF TypeOK
<1>5. faults' \in 0 .. MaxFaults
      BY RegistryAssumption DEF AddTicket, Fault, TypeOK
<1>6. TypeOK'
      BY <1>1, <1>2, <1>3, <1>4, <1>5 DEF TypeOK, Labels
<1>7. HoldInv'
      BY <1>1, <1>2, <1>3, <1>4 DEF HoldInv, Stored
<1>8. \A x \in added : cache[x] = Nothing => cache'[x] = Nothing
      BY <1>2, <1>4 DEF TypeOK
<1> QED BY <1>6, <1>7, <1>8

\* A request fetches its copy of a ticket.
LEMMA GetStep ==
    ASSUME Inv, NEW th \in Thread,
           GrantGet(th) \/ ValidateGet(th) \/ DelegateGet(th) \/ DestroyGet(th)
    PROVE  Inv' /\ Ordinary
<1> USE DEF Inv
<1>1. UNCHANGED <<cache, chain, issued, faults, added, history, conflicted>>
      BY DEF GrantGet, ValidateGet, DelegateGet, DestroyGet
<1> SUFFICES Inv'
    BY <1>1, SameIsOrdinary
<1>2. ASSUME NEW x \in Ticket, Stored(x)
      PROVE  /\ x \in added
             /\ [NoCall EXCEPT !.ticket = x, !.copy = cache[x]] \in Calls
             /\ [NoCall EXCEPT !.ticket = x, !.copy = cache[x]].ticket = x
  <2>1. cache[x] \in Copies /\ x \in added
        BY <1>2 DEF TypeOK, Stored, HoldInv
  <2> QED BY <2>1 DEF NoCall, Calls
<1>3. ASSUME NEW x \in Ticket, Stored(x), NEW b \in BOOLEAN
      PROVE  /\ x \in added
             /\ [NoCall EXCEPT !.ticket = x, !.copy = cache[x], !.matches = b] \in Calls
             /\ [NoCall EXCEPT !.ticket = x, !.copy = cache[x], !.matches = b].ticket = x
  <2>1. cache[x] \in Copies /\ x \in added
        BY <1>3 DEF TypeOK, Stored, HoldInv
  <2> QED BY <2>1 DEF NoCall, Calls
<1>4. ASSUME NEW x \in Ticket, NEW c \in Calls, NEW label \in Labels \ {"add"},
             c.ticket = x, x \in added, Enter(th, label, c),
             \/ label \in {"check", "expire"} /\ x \in TGT
             \/ label \in {"checkSt", "delegate"} /\ x \in ST
      PROVE  Inv'
  <2>1. Ordinary
        BY <1>1, SameIsOrdinary
  <2> QED BY <1>1, <1>4, <2>1, PlainStep DEF TypeOK, HoldInv
<1>5. CASE GrantGet(th)
  <2>1. PICK t \in TGT : Stored(t) /\ Enter(th, "check", [NoCall EXCEPT !.ticket = t, !.copy = cache[t]])
        BY <1>5 DEF GrantGet
  <2> QED BY <1>2, <1>4, <2>1 DEF Ticket, Labels
<1>6. CASE ValidateGet(th)
  <2>1. PICK s \in ST, m \in BOOLEAN :
            /\ Stored(s)
            /\ Enter(th, "checkSt", [NoCall EXCEPT !.ticket = s, !.copy = cache[s], !.matches = m])
        BY <1>6 DEF ValidateGet
  <2> QED BY <1>3, <1>4, <2>1 DEF Ticket, Labels
<1>7. CASE DelegateGet(th)
  <2>1. PICK s \in ST : Stored(s) /\ Enter(th, "delegate", [NoCall EXCEPT !.ticket = s, !.copy = cache[s]])
        BY <1>7 DEF DelegateGet
  <2> QED BY <1>2, <1>4, <2>1 DEF Ticket, Labels
<1>8. CASE DestroyGet(th)
  <2>1. PICK t \in TGT : Stored(t) /\ Enter(th, "expire", [NoCall EXCEPT !.ticket = t, !.copy = cache[t]])
        BY <1>8 DEF DestroyGet
  <2> QED BY <1>2, <1>4, <2>1 DEF Ticket, Labels
<1> QED BY <1>5, <1>6, <1>7, <1>8

\* Steps that decide what comes next.
LEMMA DecideStep ==
    ASSUME Inv, NEW th \in Thread,
           \/ GrantCheck(th) \/ GrantRefused(th) \/ ValidateCheck(th)
           \/ ValidateFinally(th) \/ DelegateCheck(th)
    PROVE  Inv' /\ Ordinary
<1> DEFINE c == call[th]
<1> USE DEF Inv
<1>1. /\ pc[th] \in {"check", "grant", "checkSt", "finally", "delegate"}
      /\ UNCHANGED <<cache, chain, issued, added, history, conflicted>>
      BY DEF GrantCheck, GrantRefused, ValidateCheck, ValidateFinally, DelegateCheck
<1>2. /\ c \in Calls /\ c.ticket \in Ticket \cap added
      /\ pc[th] \in {"check", "grant"} => c.ticket \in TGT
      /\ pc[th] \in {"checkSt", "finally", "delegate"} => c.ticket \in ST
      BY <1>1 DEF HoldInv, TypeOK, Ticket
<1>3. UNCHANGED faults \/ Fault
      BY DEF GrantCheck, GrantRefused, ValidateCheck, ValidateFinally, DelegateCheck, NotExpired
<1>4. Ordinary
      BY <1>1, SameIsOrdinary
<1>5. faults' \in 0 .. MaxFaults
      BY <1>3, RegistryAssumption DEF Fault, TypeOK
<1>6. \/ Enter(th, "idle", NoCall)
      \/ pc[th] = "check" /\ (Enter(th, "grant", c) \/ Enter(th, "remove", c))
      \/ pc[th] = "checkSt" /\ (Enter(th, "finally", c) \/ Enter(th, "use", c))
      \/ pc[th] = "finally" /\ Enter(th, "remove", c)
      \/ pc[th] = "delegate" /\ Enter(th, "grantTgt", c)
      BY DEF GrantCheck, GrantRefused, ValidateCheck, ValidateFinally, DelegateCheck
<1>7. /\ conflicted' \subseteq Ticket
      /\ assertions' \in [ST -> Nat] /\ sent' \in [ST -> Nat]
      /\ destroyed' \subseteq TGT \cap added
      BY <1>1 DEF TypeOK, HoldInv
<1>8. CASE Enter(th, "idle", NoCall)
      BY <1>1, <1>4, <1>5, <1>7, <1>8, ReturnStep
<1>9. ASSUME NEW label \in {"grant", "remove", "finally", "use", "grantTgt"}, Enter(th, label, c),
             label = "grant" => c.ticket \in TGT,
             label \in {"finally", "use", "grantTgt"} => c.ticket \in ST
      PROVE  Inv'
      BY <1>1, <1>2, <1>4, <1>5, <1>7, <1>9, PlainStep DEF Labels
<1> QED BY <1>2, <1>4, <1>6, <1>8, <1>9

\* A step within isExpired, or along the chain of authentications.
LEMMA AskStep ==
    ASSUME Inv, NEW th \in Thread, AskGrantingTicket(th) \/ AskChainedAuthentication(th)
    PROVE  Inv' /\ Ordinary
<1>1. /\ asked' = [asked EXCEPT ![th] = @ + 1]
      /\ UNCHANGED <<cache, chain, issued, pc, call, faults, added, history, conflicted>>
      BY DEF AskGrantingTicket, AskChainedAuthentication
<1>2. asked' \in [Thread -> Nat]
      BY <1>1 DEF Inv, TypeOK
<1>3. TypeOK'
      BY <1>1, <1>2 DEF Inv, TypeOK
<1>4. HoldInv'
      BY <1>1 DEF Inv, HoldInv, Stored
<1> QED BY <1>1, <1>3, <1>4, SameIsOrdinary DEF Inv

LEMMA RemoveExpiredStep ==
    ASSUME Inv, NEW th \in Thread, RemoveExpired(th)
    PROVE  Inv' /\ Ordinary
<1>1. /\ pc[th] = "remove" /\ Enter(th, "idle", NoCall)
      /\ UNCHANGED <<chain, issued, added, history>>
      BY DEF RemoveExpired
<1>2. call[th].ticket \in Ticket
      BY <1>1 DEF Inv, HoldInv
<1>3. Remove(call[th].ticket) \/ UNCHANGED cache
      BY DEF RemoveExpired
<1>4. Ordinary
      BY <1>2, <1>3, SameIsOrdinary, RemoveIsOrdinary
<1>5. faults' \in 0 .. MaxFaults
      BY RegistryAssumption DEF RemoveExpired, Fault, Inv, TypeOK
<1>6. conflicted' \subseteq Ticket
      BY <1>2 DEF RemoveExpired, Inv, TypeOK
<1>7. assertions' \in [ST -> Nat] /\ sent' \in [ST -> Nat] /\ destroyed' \subseteq TGT \cap added
      BY <1>1 DEF Inv, TypeOK, HoldInv
<1> QED BY <1>1, <1>4, <1>5, <1>6, <1>7, ReturnStep

\* A grant writes its copy back and issues a ticket.
LEMMA GrantStep ==
    ASSUME Inv, NEW th \in Thread, GrantServiceTicket(th) \/ GrantTicketGrantingTicket(th)
    PROVE  Inv' /\ Ordinary
<1> DEFINE c == call[th]
<1> USE DEF Inv
<1>1. /\ pc[th] \in {"grant", "grantTgt"}
      /\ UNCHANGED <<added, history>>
      BY DEF GrantServiceTicket, GrantTicketGrantingTicket
<1>2. c \in Calls /\ c.ticket \in Ticket \cap added /\ (pc[th] = "grant" => c.ticket \in TGT)
      BY <1>1 DEF HoldInv, TypeOK, Ticket
<1>3. c.copy \in Copies
      BY <1>2 DEF Calls
<1>4. ASSUME NEW x \in Ticket \ issued, NEW copy \in Copies, NEW through \in Seq(TGT),
             issued' = issued \cup {x}, chain' = [chain EXCEPT ![x] = through],
             Save(th, c.ticket, copy), Enter(th, "add", [c EXCEPT !.new = x])
      PROVE  Inv' /\ Ordinary
  <2>1. Ordinary
        BY <1>2, <1>4, SaveIsOrdinary
  <2>2. faults' \in 0 .. MaxFaults /\ conflicted' \subseteq Ticket
        BY <1>2, <1>4, SaveWrites
  <2>3. [c EXCEPT !.new = x] \in Calls /\ [c EXCEPT !.new = x].new = x
        BY <1>2 DEF Calls
  <2>4. chain' \in [Ticket -> Seq(TGT)]
        BY <1>4 DEF TypeOK
  <2> HIDE DEF Inv, c
  <2>5. Inv
        BY DEF Inv
  <2> QED BY <1>1, <1>4, <2>1, <2>2, <2>3, <2>4, <2>5, IssueStep
<1>5. CASE GrantServiceTicket(th)
  <2> DEFINE copyFor(s) == [c.copy EXCEPT !.services = @ \cup {s}, !.uses = @ + 1]
             through == <<c.ticket>> \o chain[c.ticket]
  <2>1. PICK s \in ST \ issued :
            /\ issued' = issued \cup {s}
            /\ chain' = [chain EXCEPT ![s] = through]
            /\ Save(th, c.ticket, copyFor(s))
            /\ Enter(th, "add", [c EXCEPT !.new = s])
        BY <1>5 DEF GrantServiceTicket
  <2>2. copyFor(s) \in Copies
    <3>1. c.copy.services \cup {s} \in SUBSET ST /\ c.copy.uses + 1 \in Nat
          BY <1>3 DEF Copies
    <3> HIDE DEF c
    <3> QED BY <1>3, <3>1 DEF Copies
  <2>3. through \in Seq(TGT)
    <3>1. pc[th] = "grant" /\ c.ticket \in TGT /\ chain[c.ticket] \in Seq(TGT)
          BY <1>2, <1>5 DEF GrantServiceTicket, TypeOK
    <3> QED BY <3>1
  <2>4. s \in Ticket \ issued
        BY DEF Ticket
  <2> HIDE DEF copyFor, through, c
  <2> QED BY <1>4, <2>1, <2>2, <2>3, <2>4
<1>6. CASE GrantTicketGrantingTicket(th)
  <2> DEFINE granted == [c.copy EXCEPT !.granted = TRUE]
  <2>1. PICK t \in TGT \ issued :
            /\ issued' = issued \cup {t}
            /\ chain' = [chain EXCEPT ![t] = chain[c.ticket]]
            /\ Save(th, c.ticket, granted)
            /\ Enter(th, "add", [c EXCEPT !.new = t])
        BY <1>6 DEF GrantTicketGrantingTicket
  <2>2. granted \in Copies /\ chain[c.ticket] \in Seq(TGT) /\ t \in Ticket \ issued
        BY <1>2, <1>3 DEF Copies, TypeOK, Ticket
  <2> HIDE DEF granted, c
  <2> QED BY <1>4, <2>1, <2>2
<1> QED BY <1>5, <1>6

\* A validation counts a use, and a logout expires the session: the request goes
\* on with the copy it has written back.
LEMMA WriteBackStep ==
    ASSUME Inv, NEW th \in Thread, ValidateUse(th) \/ Expire(th)
    PROVE  Inv' /\ Ordinary
<1> DEFINE c == call[th]
<1> USE DEF Inv
<1>1. /\ pc[th] \in {"use", "expire"}
      /\ UNCHANGED <<chain, issued, added, assertions, destroyed>>
      BY DEF ValidateUse, Expire, history
<1>2. /\ c \in Calls /\ c.ticket \in Ticket \cap added /\ c.copy \in Copies
      /\ pc[th] = "use" => c.ticket \in ST
      /\ pc[th] = "expire" => c.ticket \in TGT
      BY <1>1 DEF HoldInv, TypeOK, Ticket, Calls
<1>3. sent' \in [ST -> Nat]
  <2>1. \A s \in ST : sent[s] \in Nat /\ sent[s] + 1 \in Nat
        BY DEF TypeOK
  <2>2. \/ UNCHANGED sent
        \/ sent' = [s \in ST |-> IF s \in c.copy.services \ c.copy.told
                                  THEN sent[s] + 1 ELSE sent[s]]
        BY DEF ValidateUse, Expire, history
  <2> QED BY <2>1, <2>2 DEF TypeOK
<1>4. ASSUME NEW copy \in Copies, NEW label \in {"assert", "finally", "delete"},
             Save(th, c.ticket, copy), Enter(th, label, [c EXCEPT !.copy = copy]),
             label = "delete" => c.ticket \in TGT,
             label # "delete" => c.ticket \in ST
      PROVE  Inv' /\ Ordinary
  <2>1. Ordinary
        BY <1>2, <1>4, SaveIsOrdinary
  <2>2. faults' \in 0 .. MaxFaults /\ conflicted' \subseteq Ticket
        BY <1>2, <1>4, SaveWrites
  <2>3. [c EXCEPT !.copy = copy] \in Calls /\ [c EXCEPT !.copy = copy].ticket = c.ticket
        BY <1>2 DEF Calls
  <2>4. assertions' \in [ST -> Nat] /\ destroyed' \subseteq TGT \cap added
        BY <1>1 DEF TypeOK, HoldInv
  <2> QED BY <1>1, <1>2, <1>3, <1>4, <2>1, <2>2, <2>3, <2>4, PlainStep DEF Labels
<1>5. CASE ValidateUse(th)
  <2> DEFINE used == [c.copy EXCEPT !.uses = @ + 1]
  <2>1. /\ pc[th] = "use" /\ Save(th, c.ticket, used)
        /\ Enter(th, IF c.matches THEN "assert" ELSE "finally", [c EXCEPT !.copy = used])
        BY <1>5 DEF ValidateUse
  <2>2. used \in Copies
        BY <1>2 DEF Copies
  <2> HIDE DEF used, c
  <2> QED BY <1>2, <1>4, <2>1, <2>2
<1>6. CASE Expire(th)
  <2> DEFINE expired == [c.copy EXCEPT !.expired = TRUE, !.told = c.copy.services]
  <2>1. /\ pc[th] = "expire" /\ Save(th, c.ticket, expired)
        /\ Enter(th, "delete", [c EXCEPT !.copy = expired])
        BY <1>6 DEF Expire
  <2>2. expired \in Copies
        BY <1>2 DEF Copies
  <2> HIDE DEF expired, c
  <2> QED BY <1>2, <1>4, <2>1, <2>2
<1> QED BY <1>5, <1>6

LEMMA AssertStep ==
    ASSUME Inv, NEW th \in Thread, ValidateAssert(th)
    PROVE  Inv' /\ Ordinary
<1> USE DEF Inv
<1>1. /\ pc[th] = "assert" /\ Enter(th, "finally", call[th])
      /\ \/ assertions' = [assertions EXCEPT ![call[th].ticket] = @ + 1]
         \/ UNCHANGED assertions
      /\ UNCHANGED faults \/ Fault
      /\ UNCHANGED <<cache, chain, issued, added, sent, destroyed, conflicted>>
      BY DEF ValidateAssert
<1>2. call[th] \in Calls /\ call[th].ticket \in ST \cap added
      BY <1>1 DEF HoldInv, TypeOK
<1>3. Ordinary
      BY <1>1, SameIsOrdinary
<1>4. assertions' \in [ST -> Nat]
  <2>1. assertions \in [ST -> Nat] /\ assertions[call[th].ticket] + 1 \in Nat
        BY <1>2 DEF TypeOK
  <2> QED BY <1>1, <2>1
<1>5. /\ faults' \in 0 .. MaxFaults /\ conflicted' \subseteq Ticket
      /\ sent' \in [ST -> Nat] /\ destroyed' \subseteq TGT \cap added
      BY <1>1, RegistryAssumption DEF Fault, TypeOK, HoldInv
<1> QED BY <1>1, <1>2, <1>3, <1>4, <1>5, PlainStep DEF Labels

\* The session a logout deletes is not stored afterwards.
LEMMA DestroyStep ==
    ASSUME Inv, NEW th \in Thread, DestroyDelete(th)
    PROVE  /\ Inv' /\ Ordinary
           /\ \A t \in destroyed' : t \in destroyed \/ cache'[t] = Nothing
<1> DEFINE t == call[th].ticket
<1> USE DEF Inv
<1>1. /\ pc[th] = "delete" /\ Enter(th, "idle", NoCall)
      /\ UNCHANGED <<chain, issued, added, assertions, sent>>
      BY DEF DestroyDelete
<1>2. t \in TGT \cap added /\ t \in Ticket
      BY <1>1 DEF HoldInv, Ticket
<1>3. \/ Remove(t) /\ destroyed' = destroyed \cup {t}
      \/ UNCHANGED <<cache, destroyed>>
      BY DEF DestroyDelete
<1>4. Ordinary
      BY <1>2, <1>3, SameIsOrdinary, RemoveIsOrdinary
<1>5. faults' \in 0 .. MaxFaults /\ conflicted' \subseteq Ticket
      BY <1>2, RegistryAssumption DEF DestroyDelete, Fault, TypeOK
<1>6. destroyed' \subseteq TGT \cap added
      BY <1>2, <1>3 DEF TypeOK, HoldInv
<1>7. assertions' \in [ST -> Nat] /\ sent' \in [ST -> Nat]
      BY <1>1 DEF TypeOK
<1>8. Inv'
      BY <1>1, <1>4, <1>5, <1>6, <1>7, ReturnStep
<1>9. \A u \in destroyed' : u \in destroyed \/ cache'[u] = Nothing
      BY <1>2, <1>3, RemoveWrites
<1> QED BY <1>4, <1>8, <1>9

LEMMA EvictStep ==
    ASSUME Inv, NEW x \in Ticket, Evict(x)
    PROVE  Inv' /\ Ordinary
<1> USE DEF Inv
<1>1. /\ Remove(x) /\ UNCHANGED <<chain, issued, request, added, history, conflicted>>
      /\ faults < MaxFaults /\ faults' = faults + 1
      BY DEF Evict, Fault
<1>2. Ordinary
      BY <1>1, RemoveIsOrdinary
<1>3. TypeOK'
      BY <1>1, <1>2, RegistryAssumption DEF TypeOK, Ordinary
<1>4. HoldInv'
      BY <1>1, <1>2 DEF HoldInv, Ordinary, Stored
<1> QED BY <1>2, <1>3, <1>4

-----------------------------------------------------------------------------
\* What has been added and is not stored stays so.
Kept == \A x \in added : WriteBack = "replace" /\ cache[x] = Nothing => cache'[x] = Nothing

LEMMA InvStep ==
    ASSUME Inv, [Next]_vars
    PROVE  Inv' /\ Kept
<1>1. CASE UNCHANGED vars
      BY <1>1 DEF vars, Inv, TypeOK, HoldInv, Stored, Kept
<1>2. ASSUME NEW th \in Thread, Call(th) \/ Proceed(th)
      PROVE  Inv' /\ Kept
      BY <1>2, CreateStep, GetStep, DecideStep, GrantStep, AddTicketStep, WriteBackStep,
         AskStep, RemoveExpiredStep, AssertStep, DestroyStep DEF Call, Proceed, Ordinary, Kept
<1>3. ASSUME NEW x \in Ticket, Evict(x)
      PROVE  Inv' /\ Kept
      BY <1>3, EvictStep DEF Ordinary, Kept
<1> QED BY <1>1, <1>2, <1>3 DEF Next

LEMMA Invariant == Spec => []Inv
<1>1. Inv /\ [Next]_vars => Inv'
      BY InvStep
<1> QED BY InvInit, <1>1, PTL DEF Spec

\* Every variable keeps its type, for either way of writing back.
THEOREM RegistryTypeCorrect == Spec => []TypeOK
<1>1. Inv => TypeOK
      BY DEF Inv
<1> QED BY Invariant, <1>1, PTL

\* Where updateTicket replaces (MemCacheTicketRegistry), a ticket that has left
\* the cache does not come back: a request that still holds a copy writes it
\* nowhere, and each id is added once.
THEOREM LateUpdatesStoreNothing ==
    ASSUME WriteBack = "replace"
    PROVE  Spec => NoResurrection
<1>1. Inv /\ [Next]_vars =>
          [\A x \in added : cache[x] = Nothing => cache'[x] = Nothing]_vars
      BY InvStep DEF Kept
<1> QED BY Invariant, <1>1, PTL DEF Spec, NoResurrection

\* A session that a logout has deleted is not stored.
GoneInv == \A t \in destroyed : cache[t] = Nothing

LEMMA GoneStep ==
    ASSUME WriteBack = "replace", Inv, GoneInv, [Next]_vars
    PROVE  GoneInv'
<1>1. Kept /\ destroyed \subseteq added
      BY InvStep DEF Inv, HoldInv
<1>2. UNCHANGED destroyed \/ \E th \in Thread : DestroyDelete(th)
      BY DEF Next, Call, Proceed, vars, CreateTicketGrantingTicket, GrantGet, ValidateGet,
             DelegateGet, DestroyGet, AskGrantingTicket, RemoveExpired, AskChainedAuthentication,
             GrantCheck, GrantRefused, GrantServiceTicket, AddTicket,
             ValidateCheck, ValidateUse, ValidateAssert, ValidateFinally, DelegateCheck,
             GrantTicketGrantingTicket, Expire, Evict
<1>3. \A t \in destroyed' : t \in destroyed \/ cache'[t] = Nothing
      BY <1>2, DestroyStep
<1> QED BY <1>1, <1>3 DEF GoneInv, Kept

\* With needsCallback, no request of any node gets an assertion for a service
\* ticket of a session once a logout has deleted that session.
THEOREM LogoutEndsAssertions ==
    ASSUME WriteBack = "replace", Callback
    PROVE  Spec => NoAssertionAfterLogout
<1> DEFINE Step == \A s \in ST : assertions'[s] # assertions[s] => Head(chain[s]) \notin destroyed
<1>1. Init => GoneInv
      BY DEF Init, GoneInv
<1>2. Inv /\ GoneInv /\ [Next]_vars => GoneInv'
      BY GoneStep
<1>3. ASSUME Inv, GoneInv, [Next]_vars
      PROVE  [Step]_vars
  <2>1. UNCHANGED assertions \/ \E th \in Thread : ValidateAssert(th)
        BY <1>3 DEF Next, Call, Proceed, vars, CreateTicketGrantingTicket, GrantGet, ValidateGet,
             DelegateGet, DestroyGet, AskGrantingTicket, RemoveExpired, AskChainedAuthentication,
             GrantCheck, GrantRefused, GrantServiceTicket, AddTicket,
             ValidateCheck, ValidateUse, ValidateFinally, DelegateCheck,
             GrantTicketGrantingTicket, Expire, DestroyDelete, Evict
  <2>2. ASSUME NEW th \in Thread, ValidateAssert(th), NEW s \in ST, assertions'[s] # assertions[s]
        PROVE  Head(chain[s]) \notin destroyed
    <3>1. s = call[th].ticket /\ GrantingTicketKnown(s)
          BY <1>3, <2>2 DEF ValidateAssert, Inv, TypeOK
    <3> QED BY <1>3, <3>1 DEF GrantingTicketKnown, Stored, GoneInv
  <2> QED BY <2>1, <2>2
<1> QED BY Invariant, <1>1, <1>2, <1>3, PTL DEF Spec, NoAssertionAfterLogout

-----------------------------------------------------------------------------
\* The requests that are about to return an assertion for s.
Asserting(s) == {th \in Thread : pc[th] = "assert" /\ call[th].ticket = s}

\* The assertions returned for s, and those that are about to be.
Assertions(s) == assertions[s] + Cardinality(Asserting(s))

\* Unless a request has written over what another had written, what is stored
\* counts every assertion.
CountInv ==
    /\ \A s \in ST \ added : assertions[s] = 0
    /\ \A th \in Thread : pc[th] = "use" => call[th].copy.uses < StNumberOfUses
    /\ \A s \in ST \ conflicted :
        /\ IsFiniteSet(Asserting(s))
        /\ Assertions(s) <= StNumberOfUses
        /\ Stored(s) => /\ Assertions(s) <= cache[s].uses
                        /\ cache[s].uses <= StNumberOfUses

\* The service tickets granted on t.
GrantedOn(t) == {s \in ST \cap issued : Head(chain[s]) = t}

\* While a session nobody has written over is stored it lists the service tickets
\* granted on it, and tells which were sent a logout request; once it is deleted
\* they all were.  A request's copy lists tickets of its session only.
SignOutInv ==
    /\ \A s \in ST : s \in issued => Head(chain[s]) \in TGT \cap added
    /\ \A s \in ST \ issued : sent[s] = 0
    /\ \A t \in TGT : Stored(t) =>
        /\ cache[t].told \subseteq cache[t].services
        /\ cache[t].services \subseteq GrantedOn(t)
    /\ \A th \in Thread :
        /\ pc[th] \in {"check", "grant", "expire", "delete"} =>
            /\ call[th].copy.told \subseteq call[th].copy.services
            /\ call[th].copy.services \subseteq GrantedOn(call[th].ticket)
        /\ pc[th] = "delete" => call[th].copy.told = call[th].copy.services
    /\ \A t \in TGT \ conflicted : Stored(t) =>
        \A s \in GrantedOn(t) :
            /\ s \in cache[t].services
            /\ sent[s] = IF s \in cache[t].told THEN 1 ELSE 0
    /\ \A t \in destroyed \ conflicted :
        /\ ~Stored(t)
        /\ \A s \in GrantedOn(t) : sent[s] = 1

-----------------------------------------------------------------------------
\* Of a ticket that is not conflicted the copy written back was what was stored.
LEMMA SaveOutcome ==
    ASSUME TypeOK, NEW th \in Thread, NEW x \in Ticket, NEW copy \in Copies, Save(th, x, copy)
    PROVE  /\ conflicted \subseteq conflicted'
           /\ \A y \in Ticket \ {x} : cache'[y] = cache[y]
           /\ cache'[x] \in {cache[x], copy}
           /\ x \notin conflicted' =>
                Stored(x) /\ cache[x] = call[th].copy /\ cache'[x] = copy
<1>1. \/ /\ Update(x, copy)
         /\ conflicted' = IF cache[x] = call[th].copy THEN conflicted ELSE conflicted \cup {x}
      \/ conflicted' = conflicted \cup {x} /\ UNCHANGED cache
      BY DEF Save
<1>2. call[th].copy \in Copies /\ call[th].copy # Nothing
      BY NothingAssumption DEF TypeOK, Calls
<1>3. x \notin conflicted' => Update(x, copy) /\ cache[x] = call[th].copy /\ Stored(x)
      BY <1>1, <1>2 DEF Stored
<1>4. UNCHANGED cache \/ cache' = [cache EXCEPT ![x] = copy]
      BY <1>1 DEF Update
<1>5. cache'[x] \in {cache[x], copy} /\ \A y \in Ticket \ {x} : cache'[y] = cache[y]
      BY <1>4 DEF TypeOK
<1>6. x \notin conflicted' => cache'[x] = copy
      BY <1>3 DEF TypeOK, Update
<1> QED BY <1>1, <1>3, <1>5, <1>6

\* Where nobody holds a copy of a ticket nobody is about to assert it.
LEMMA UnaddedCounts ==
    ASSUME Inv, CountInv, NEW s \in ST \ added
    PROVE  IsFiniteSet(Asserting(s)) /\ Assertions(s) = 0
<1>1. Asserting(s) = {}
      BY DEF Inv, HoldInv, Asserting
<1> QED BY <1>1, FS_EmptySet DEF CountInv, Assertions

\* A step that neither counts a use nor returns an assertion.
LEMMA CountFrame ==
    ASSUME Inv, CountInv,
           \A q \in Thread :
               \/ pc'[q] = pc[q] /\ call'[q] = call[q]
               \/ /\ pc[q] # "assert" /\ pc'[q] # "assert"
                  /\ pc'[q] = "use" => call'[q].copy.uses < StNumberOfUses,
           UNCHANGED assertions, conflicted \subseteq conflicted', added \subseteq added',
           \A s \in ST \ conflicted' : cache'[s] # Nothing =>
               \/ Stored(s) /\ cache'[s].uses = cache[s].uses
               \/ s \notin added /\ cache'[s].uses = 0
    PROVE  CountInv'
<1>1. \A s \in ST : Asserting(s)' = Asserting(s)
      BY DEF Asserting
<1>2. \A s \in ST : Assertions(s)' = Assertions(s)
      BY <1>1 DEF Assertions
<1>3. \A s \in ST \ added' : assertions'[s] = 0
      BY DEF CountInv
<1>4. \A q \in Thread : pc'[q] = "use" => call'[q].copy.uses < StNumberOfUses
      BY DEF CountInv
<1>5. ASSUME NEW s \in ST \ conflicted'
      PROVE  /\ IsFiniteSet(Asserting(s)')
             /\ Assertions(s)' <= StNumberOfUses
             /\ cache'[s] # Nothing => /\ Assertions(s)' <= cache'[s].uses
                                       /\ cache'[s].uses <= StNumberOfUses
      BY <1>1, <1>2, UnaddedCounts, RegistryAssumption DEF CountInv
<1> QED BY <1>3, <1>4, <1>5 DEF CountInv, Stored

LEMMA CountUse ==
    ASSUME Inv, CountInv, NEW th \in Thread, ValidateUse(th)
    PROVE  CountInv'
<1>0. PICK x \in ST : x = call[th].ticket
      BY DEF ValidateUse, Inv, HoldInv
<1> DEFINE used == [call[th].copy EXCEPT !.uses = @ + 1]
           to == IF call[th].matches THEN "assert" ELSE "finally"
<1>1. /\ pc[th] = "use" /\ Save(th, x, used)
      /\ Enter(th, to, [call[th] EXCEPT !.copy = used])
      /\ UNCHANGED <<added, assertions>>
      BY <1>0 DEF ValidateUse
<1>2. x \in ST /\ x \in Ticket /\ x \in added /\ call[th] \in Calls /\ call[th].copy \in Copies
      BY <1>0, <1>1 DEF Inv, HoldInv, TypeOK, Calls, Ticket
<1>3. used \in Copies /\ used.uses = call[th].copy.uses + 1 /\ call[th].copy.uses \in Nat
      BY <1>2 DEF Copies
<1>4. call[th].copy.uses < StNumberOfUses
      BY <1>1 DEF CountInv
<1>5. /\ pc'[th] = to /\ call'[th].ticket = x
      /\ \A q \in Thread \ {th} : pc'[q] = pc[q] /\ call'[q] = call[q]
      BY <1>0, <1>1, <1>2 DEF Enter, Inv, TypeOK, Calls
<1>6. /\ conflicted \subseteq conflicted'
      /\ \A y \in Ticket \ {x} : cache'[y] = cache[y]
      /\ x \notin conflicted' => Stored(x) /\ cache[x] = call[th].copy /\ cache'[x] = used
      BY <1>1, <1>2, <1>3, SaveOutcome DEF Inv
<1>7. \A s \in ST \ {x} : Asserting(s)' = Asserting(s)
      BY <1>0, <1>1, <1>5 DEF Asserting
<1>8. th \notin Asserting(x) /\ Asserting(x)' \in {Asserting(x), Asserting(x) \cup {th}}
      BY <1>0, <1>1, <1>5 DEF Asserting
<1>9. ASSUME NEW s \in ST \ conflicted', s # x
      PROVE  /\ IsFiniteSet(Asserting(s)')
             /\ Assertions(s)' <= StNumberOfUses
             /\ cache'[s] # Nothing => /\ Assertions(s)' <= cache'[s].uses
                                       /\ cache'[s].uses <= StNumberOfUses
  <2>1. Assertions(s)' = Assertions(s) /\ s \in Ticket \ {x} /\ s \notin conflicted
        BY <1>1, <1>6, <1>7, <1>9 DEF Assertions, Ticket
  <2> QED BY <1>6, <1>7, <1>9, <2>1 DEF CountInv, Stored
<1>10. ASSUME x \notin conflicted'
       PROVE  /\ IsFiniteSet(Asserting(x)')
              /\ Assertions(x)' <= StNumberOfUses
              /\ Assertions(x)' <= cache'[x].uses /\ cache'[x].uses <= StNumberOfUses
  <2>1. IsFiniteSet(Asserting(x)) /\ Assertions(x) <= call[th].copy.uses
        BY <1>2, <1>6, <1>10 DEF CountInv
  <2>2. /\ IsFiniteSet(Asserting(x)')
        /\ Cardinality(Asserting(x)') \in {Cardinality(Asserting(x)), Cardinality(Asserting(x)) + 1}
        BY <1>8, <2>1, FS_AddElement
  <2>3. Cardinality(Asserting(x)) \in Nat /\ assertions[x] \in Nat
        BY <1>2, <2>1, FS_CardinalityType DEF Inv, TypeOK
  <2>4. Assertions(x)' <= Assertions(x) + 1 /\ Assertions(x) \in Nat /\ Assertions(x)' \in Nat
        BY <1>1, <2>2, <2>3 DEF Assertions
  <2>5. cache'[x].uses = call[th].copy.uses + 1
        BY <1>3, <1>6, <1>10
  <2> HIDE DEF used
  <2> QED BY <1>3, <1>4, <2>1, <2>2, <2>4, <2>5, RegistryAssumption
<1>11. \A q \in Thread : pc'[q] = "use" => call'[q].copy.uses < StNumberOfUses
      BY <1>5 DEF CountInv
<1>12. \A s \in ST \ added' : assertions'[s] = 0
      BY <1>1 DEF CountInv
<1> QED BY <1>9, <1>10, <1>11, <1>12 DEF CountInv, Stored

LEMMA CountAssert ==
    ASSUME Inv, CountInv, NEW th \in Thread, ValidateAssert(th)
    PROVE  CountInv'
<1>0. PICK x \in ST : x = call[th].ticket
      BY DEF ValidateAssert, Inv, HoldInv
<1>1. /\ pc[th] = "assert" /\ Enter(th, "finally", call[th])
      /\ assertions' = [assertions EXCEPT ![x] = @ + 1] \/ UNCHANGED assertions
      /\ UNCHANGED <<cache, added, conflicted>>
      BY <1>0 DEF ValidateAssert
<1>2. x \in ST /\ x \in added
      BY <1>0, <1>1 DEF Inv, HoldInv
<1>3. /\ pc'[th] = "finally"
      /\ \A q \in Thread \ {th} : pc'[q] = pc[q] /\ call'[q] = call[q]
      BY <1>1 DEF Enter, Inv, TypeOK
<1>4. /\ \A s \in ST \ {x} : Asserting(s)' = Asserting(s) /\ assertions'[s] = assertions[s]
      /\ assertions'[x] \in {assertions[x], assertions[x] + 1}
      BY <1>0, <1>1, <1>2, <1>3 DEF Asserting, Inv, TypeOK
<1>5. th \in Asserting(x) /\ Asserting(x)' = Asserting(x) \ {th}
      BY <1>0, <1>1, <1>3 DEF Asserting
<1>6. ASSUME NEW s \in ST \ conflicted
      PROVE  IsFiniteSet(Asserting(s)') /\ Assertions(s)' <= Assertions(s)
             /\ Assertions(s)' \in Nat /\ Assertions(s) \in Nat
  <2>1. IsFiniteSet(Asserting(s)) /\ assertions[s] \in Nat
        BY DEF CountInv, Inv, TypeOK
  <2>2. Cardinality(Asserting(s)) \in Nat
        BY <2>1, FS_CardinalityType
  <2>3. CASE s = x
    <3>1. IsFiniteSet(Asserting(x)') /\ Cardinality(Asserting(x)') = Cardinality(Asserting(x)) - 1
          BY <1>5, <2>1, <2>3, FS_RemoveElement
    <3>2. Cardinality(Asserting(x)') \in Nat
          BY <3>1, FS_CardinalityType
    <3> QED BY <1>4, <2>1, <2>2, <2>3, <3>1, <3>2 DEF Assertions
  <2>4. CASE s # x
    <3>1. Assertions(s)' = Assertions(s) /\ Asserting(s)' = Asserting(s)
          BY <1>4, <2>4 DEF Assertions
    <3> QED BY <2>1, <2>2, <3>1 DEF Assertions
  <2> QED BY <2>3, <2>4
<1>7. ASSUME NEW s \in ST \ conflicted
      PROVE  /\ Assertions(s)' <= StNumberOfUses
             /\ Stored(s) => Assertions(s)' <= cache[s].uses /\ cache[s].uses <= StNumberOfUses
  <2>1. Stored(s) => cache[s].uses \in Nat
        BY DEF Inv, TypeOK, Stored, Copies, Ticket
  <2> QED BY <1>6, <2>1, RegistryAssumption DEF CountInv
<1>8. \A q \in Thread : pc'[q] = "use" => call'[q].copy.uses < StNumberOfUses
      BY <1>3 DEF CountInv
<1>9. \A s \in ST \ added' : assertions'[s] = 0
      BY <1>1, <1>2, <1>4 DEF CountInv
<1> QED BY <1>1, <1>6, <1>7, <1>8, <1>9 DEF CountInv, Stored

LEMMA CountGrant ==
    ASSUME Inv, CountInv, NEW th \in Thread,
           GrantServiceTicket(th) \/ GrantTicketGrantingTicket(th) \/ Expire(th)
    PROVE  CountInv'
<1> DEFINE c == call[th]
<1>1. /\ pc[th] \in {"grant", "grantTgt", "expire"}
      /\ UNCHANGED <<added, assertions>>
      /\ pc[th] = "grantTgt" => GrantTicketGrantingTicket(th)
      BY DEF GrantServiceTicket, GrantTicketGrantingTicket, Expire
<1>2. /\ c.ticket \in Ticket /\ c.copy \in Copies /\ c \in Calls
      /\ pc[th] # "grantTgt" => c.ticket \in TGT
      BY <1>1 DEF Inv, HoldInv, TypeOK, Calls, Ticket
<1>3. PICK label \in {"add", "delete"} : \E to : Enter(th, label, to)
      BY DEF GrantServiceTicket, GrantTicketGrantingTicket, Expire
<1>4. \A q \in Thread : \/ pc'[q] = pc[q] /\ call'[q] = call[q]
                        \/ pc[q] # "assert" /\ pc'[q] \notin {"assert", "use"}
      BY <1>1, <1>3 DEF Enter, Inv, TypeOK
<1>5. PICK copy \in Copies : /\ Save(th, c.ticket, copy)
                             /\ pc[th] = "grantTgt" => copy.uses = c.copy.uses
  <2>1. CASE GrantServiceTicket(th)
    <3>1. PICK s \in ST : Save(th, c.ticket, [c.copy EXCEPT !.services = @ \cup {s}, !.uses = @ + 1])
          BY <2>1 DEF GrantServiceTicket
    <3>2. c.copy.services \cup {s} \in SUBSET ST /\ c.copy.uses + 1 \in Nat
          BY <1>2 DEF Copies
    <3>3. [c.copy EXCEPT !.services = @ \cup {s}, !.uses = @ + 1] \in Copies
          BY <1>2, <3>2 DEF Copies
    <3>4. pc[th] = "grant"
          BY <2>1 DEF GrantServiceTicket
    <3> QED BY <3>1, <3>3, <3>4
  <2>2. CASE GrantTicketGrantingTicket(th)
    <3>1. Save(th, c.ticket, [c.copy EXCEPT !.granted = TRUE])
          BY <2>2 DEF GrantTicketGrantingTicket
    <3>2. /\ [c.copy EXCEPT !.granted = TRUE] \in Copies
          /\ [c.copy EXCEPT !.granted = TRUE].uses = c.copy.uses
          BY <1>2 DEF Copies
    <3> QED BY <3>1, <3>2
  <2>3. CASE Expire(th)
    <3>1. Save(th, c.ticket, [c.copy EXCEPT !.expired = TRUE, !.told = c.copy.services]) /\ pc[th] = "expire"
          BY <2>3 DEF Expire
    <3>2. [c.copy EXCEPT !.expired = TRUE, !.told = c.copy.services] \in Copies
          BY <1>2 DEF Copies
    <3> QED BY <3>1, <3>2
  <2> QED BY <2>1, <2>2, <2>3
<1>6. /\ conflicted \subseteq conflicted'
      /\ \A y \in Ticket \ {c.ticket} : cache'[y] = cache[y]
      /\ c.ticket \notin conflicted' =>
           Stored(c.ticket) /\ cache[c.ticket] = c.copy /\ cache'[c.ticket] = copy
      BY <1>2, <1>5, SaveOutcome DEF Inv
<1>7. \A s \in ST \ conflicted' : cache'[s] # Nothing => Stored(s) /\ cache'[s].uses = cache[s].uses
      BY <1>2, <1>5, <1>6, RegistryAssumption DEF Stored, Ticket
<1> QED BY <1>1, <1>4, <1>6, <1>7, CountFrame

LEMMA CountStep ==
    ASSUME Inv, CountInv, [Next]_vars
    PROVE  CountInv'
<1>1. CASE UNCHANGED vars
      BY <1>1, CountFrame DEF vars, Stored
<1>2. ASSUME NEW x \in Ticket, Evict(x)
      PROVE  CountInv'
  <2>1. /\ cache' = [cache EXCEPT ![x] = Nothing]
        /\ UNCHANGED <<request, added, history, conflicted>>
        BY <1>2 DEF Evict, Remove
  <2>2. \A s \in ST : cache'[s] # Nothing => Stored(s) /\ cache'[s] = cache[s]
        BY <2>1 DEF Inv, TypeOK, Ticket, Stored
  <2> QED BY <2>1, <2>2, CountFrame
<1>3. ASSUME NEW th \in Thread, CreateTicketGrantingTicket(th)
      PROVE  CountInv'
  <2>1. PICK t \in TGT : cache' = [cache EXCEPT ![t] = NewCopy] /\ added' = added \cup {t}
        BY <1>3 DEF CreateTicketGrantingTicket
  <2>2. UNCHANGED <<request, history, conflicted>>
        BY <1>3 DEF CreateTicketGrantingTicket
  <2>3. \A s \in ST : cache'[s] = cache[s]
        BY <2>1, RegistryAssumption DEF Inv, TypeOK, Ticket
  <2> QED BY <2>1, <2>2, <2>3, CountFrame DEF Stored
<1>4. ASSUME NEW th \in Thread, GrantGet(th) \/ ValidateGet(th) \/ DelegateGet(th) \/ DestroyGet(th)
      PROVE  CountInv'
  <2>1. /\ pc[th] = "idle"
        /\ UNCHANGED <<cache, added, history, conflicted>>
        /\ \E label \in {"check", "checkSt", "delegate", "expire"} : \E c : Enter(th, label, c)
        BY <1>4 DEF GrantGet, ValidateGet, DelegateGet, DestroyGet
  <2>2. \A q \in Thread : \/ pc'[q] = pc[q] /\ call'[q] = call[q]
                          \/ pc[q] # "assert" /\ pc'[q] \notin {"assert", "use"}
        BY <2>1 DEF Enter, Inv, TypeOK
  <2> QED BY <2>1, <2>2, CountFrame DEF Stored
<1>5. ASSUME NEW th \in Thread,
             \/ GrantCheck(th) \/ GrantRefused(th) \/ ValidateCheck(th)
             \/ ValidateFinally(th) \/ DelegateCheck(th) \/ DestroyDelete(th)
             \/ RemoveExpired(th)
      PROVE  CountInv'
  <2>1. /\ pc[th] # "assert"
        /\ UNCHANGED <<added, assertions>>
        /\ conflicted \subseteq conflicted'
        BY <1>5 DEF GrantCheck, GrantRefused, ValidateCheck, ValidateFinally, DelegateCheck,
                    DestroyDelete, RemoveExpired
  <2>2. UNCHANGED cache \/ cache' = [cache EXCEPT ![call[th].ticket] = Nothing]
        BY <1>5 DEF GrantCheck, GrantRefused, ValidateCheck, ValidateFinally, DelegateCheck,
                    DestroyDelete, RemoveExpired, Remove
  <2>3. \A s \in ST : cache'[s] # Nothing => Stored(s) /\ cache'[s] = cache[s]
        BY <2>2 DEF Inv, TypeOK, Ticket, Stored
  <2>4. \/ \E label \in {"idle", "grant", "remove", "finally", "grantTgt"} : \E c : Enter(th, label, c)
        \/ /\ Enter(th, "use", call[th])
           /\ pc[th] = "checkSt" /\ ~OwnExpired(call[th].ticket, call[th].copy)
        BY <1>5 DEF GrantCheck, GrantRefused, ValidateCheck, ValidateFinally, DelegateCheck,
                    DestroyDelete, RemoveExpired, NotExpired, IsExpired
  <2>5. Enter(th, "use", call[th]) /\ pc[th] = "checkSt" /\ ~OwnExpired(call[th].ticket, call[th].copy)
            => call[th].copy.uses < StNumberOfUses
    <3>1. pc[th] = "checkSt" => call[th].ticket \in ST
          BY DEF Inv, HoldInv
    <3>2. call[th].copy.uses \in Nat
          BY DEF Inv, TypeOK, Calls, Copies
    <3> QED BY <3>1, <3>2, RegistryAssumption DEF OwnExpired
  <2>6. \A q \in Thread : \/ pc'[q] = pc[q] /\ call'[q] = call[q]
                          \/ /\ pc[q] # "assert" /\ pc'[q] # "assert"
                             /\ pc'[q] = "use" => call'[q].copy.uses < StNumberOfUses
        BY <2>1, <2>4, <2>5 DEF Enter, Inv, TypeOK
  <2> QED BY <2>1, <2>3, <2>6, CountFrame
<1>6. ASSUME NEW th \in Thread, AddTicket(th)
      PROVE  CountInv'
  <2>1. /\ pc[th] = "add" /\ Enter(th, "idle", NoCall)
        /\ cache' = [cache EXCEPT ![call[th].new] = NewCopy] \/ UNCHANGED cache
        /\ added' = added \cup {call[th].new}
        /\ UNCHANGED <<history, conflicted>>
        BY <1>6 DEF AddTicket
  <2>2. call[th].new \in Ticket \ added
        BY <2>1 DEF Inv, HoldInv, TypeOK
  <2>3. \A s \in ST : cache'[s] # Nothing =>
            \/ Stored(s) /\ cache'[s] = cache[s]
            \/ s \notin added /\ cache'[s].uses = 0
        BY <2>1, <2>2 DEF Inv, TypeOK, Ticket, Stored, NewCopy
  <2>4. \A q \in Thread : \/ pc'[q] = pc[q] /\ call'[q] = call[q]
                          \/ pc[q] # "assert" /\ pc'[q] \notin {"assert", "use"}
        BY <2>1 DEF Enter, Inv, TypeOK
  <2> QED BY <2>1, <2>3, <2>4, CountFrame
<1>7. ASSUME NEW th \in Thread, AskGrantingTicket(th) \/ AskChainedAuthentication(th)
      PROVE  CountInv'
  <2>1. UNCHANGED <<cache, chain, issued, pc, call, faults, added, history, conflicted>>
        BY <1>7 DEF AskGrantingTicket, AskChainedAuthentication
  <2> QED BY <2>1, CountFrame DEF Stored
<1> QED BY <1>1, <1>2, <1>3, <1>4, <1>5, <1>6, <1>7, CountUse, CountAssert, CountGrant
        DEF Next, Call, Proceed

\* A service ticket no two requests have updated at once, and no fault has hit,
\* gets numberOfUses assertions at most, on whatever nodes it is validated and
\* however the ticket is written back.
THEOREM UsesAreBounded == Spec => []UsesBounded
<1>1. ASSUME Init
      PROVE  CountInv
  <2>1. \A s \in ST : Asserting(s) = {} /\ assertions[s] = 0 /\ ~Stored(s)
        BY <1>1 DEF Init, Asserting, Stored, Ticket
  <2>2. \A s \in ST : IsFiniteSet(Asserting(s)) /\ Assertions(s) = 0
        BY <2>1, FS_EmptySet DEF Assertions
  <2>3. \A th \in Thread : pc[th] = "idle"
        BY <1>1 DEF Init
  <2> QED BY <2>1, <2>2, <2>3, RegistryAssumption DEF CountInv
<1>2. Inv /\ CountInv /\ [Next]_vars => CountInv'
      BY CountStep
<1>3. ASSUME Inv, CountInv
      PROVE  UsesBounded
  <2>1. ASSUME NEW s \in ST \ conflicted
        PROVE  assertions[s] <= StNumberOfUses
    <3>1. /\ IsFiniteSet(Asserting(s)) /\ Assertions(s) <= StNumberOfUses
          /\ assertions[s] \in Nat
          BY <1>3 DEF CountInv, Inv, TypeOK
    <3>2. Cardinality(Asserting(s)) \in Nat
          BY <3>1, FS_CardinalityType
    <3> QED BY <3>1, <3>2, RegistryAssumption DEF Assertions
  <2> QED BY <2>1 DEF UsesBounded
<1> QED BY Invariant, <1>1, <1>2, <1>3, PTL DEF Spec

-----------------------------------------------------------------------------
LEMMA SignOutInit == Init => SignOutInv
<1> SUFFICES ASSUME Init PROVE SignOutInv
    OBVIOUS
<1>1. /\ issued = {} /\ destroyed = {}
      /\ \A x \in Ticket : ~Stored(x)
      /\ \A s \in ST : sent[s] = 0
      /\ \A th \in Thread : pc[th] = "idle"
      BY DEF Init, Stored
<1> QED BY <1>1 DEF SignOutInv, Ticket

\* A step that grants no service ticket and sends no logout request.
LEMMA SignOutFrame ==
    ASSUME Inv, SignOutInv,
           ST \cap issued' \subseteq issued, issued \subseteq issued', added \subseteq added',
           \A s \in ST \cap issued : chain'[s] = chain[s],
           UNCHANGED sent, conflicted \subseteq conflicted',
           \A q \in Thread :
               \/ pc'[q] = pc[q] /\ call'[q] = call[q]
               \/ /\ pc'[q] \in {"check", "grant", "expire"} =>
                        /\ call'[q].copy.told \subseteq call'[q].copy.services
                        /\ call'[q].copy.services \subseteq GrantedOn(call'[q].ticket)
                  /\ pc'[q] # "delete",
           \A t \in TGT : cache'[t] # Nothing =>
               \/ Stored(t) /\ cache'[t] = cache[t]
               \/ t \notin added /\ cache'[t].told = {} /\ cache'[t].services = {},
           \A t \in destroyed' \ conflicted' : t \in destroyed /\ cache'[t] = Nothing
    PROVE  SignOutInv'
<1>1. \A t : GrantedOn(t)' = GrantedOn(t)
      BY DEF GrantedOn
<1>2. /\ \A s \in ST : s \in issued' => Head(chain'[s]) \in TGT \cap added'
      /\ \A s \in ST \ issued' : sent'[s] = 0
      BY DEF SignOutInv
<1>3. \A t \in TGT : cache'[t] # Nothing => /\ cache'[t].told \subseteq cache'[t].services
                                            /\ cache'[t].services \subseteq GrantedOn(t)'
      BY <1>1 DEF SignOutInv
<1>4. \A q \in Thread :
        /\ pc'[q] \in {"check", "grant", "expire", "delete"} =>
            /\ call'[q].copy.told \subseteq call'[q].copy.services
            /\ call'[q].copy.services \subseteq GrantedOn(call[q].ticket)'
        /\ pc'[q] = "delete" => call'[q].copy.told = call'[q].copy.services
  <2> TAKE q \in Thread
  <2>1. GrantedOn(call[q].ticket)' = GrantedOn(call'[q].ticket)
        BY DEF GrantedOn
  <2> QED BY <2>1 DEF SignOutInv
<1>5. ASSUME NEW t \in TGT \ conflicted', cache'[t] # Nothing, NEW s \in GrantedOn(t)
      PROVE  s \in cache'[t].services /\ sent'[s] = IF s \in cache'[t].told THEN 1 ELSE 0
  <2>1. t \in added
        BY DEF SignOutInv, GrantedOn
  <2> QED BY <1>5, <2>1 DEF SignOutInv
<1>6. \A t \in destroyed' \ conflicted' : cache'[t] = Nothing /\ \A s \in GrantedOn(t)' : sent'[s] = 1
      BY <1>1 DEF SignOutInv
<1> QED BY <1>1, <1>2, <1>3, <1>4, <1>5, <1>6 DEF SignOutInv, Stored

LEMMA SignOutGrant ==
    ASSUME Inv, SignOutInv, NEW th \in Thread, GrantServiceTicket(th)
    PROVE  SignOutInv'
<1>1. PICK c \in Calls : c = call[th]
      BY DEF Inv, TypeOK
<1>2. /\ pc[th] = "grant"
      /\ UNCHANGED <<added, history>>
      BY DEF GrantServiceTicket
<1>3. PICK t \in TGT \cap added : t = c.ticket
      BY <1>1, <1>2 DEF Inv, HoldInv
<1> DEFINE to(s) == [c EXCEPT !.new = s]
           granted(s) == [c.copy EXCEPT !.services = @ \cup {s}, !.uses = @ + 1]
<1>4. PICK s \in ST \ issued : /\ issued' = issued \cup {s}
                               /\ chain' = [chain EXCEPT ![s] = <<t>> \o chain[t]]
                               /\ Save(th, t, granted(s))
                               /\ Enter(th, "add", to(s))
      BY <1>1, <1>3 DEF GrantServiceTicket
<1>5. c.copy \in Copies /\ t \in Ticket /\ s \in Ticket
      BY DEF Calls, Ticket
<1>6. /\ granted(s) \in Copies
      /\ granted(s).services = c.copy.services \cup {s} /\ granted(s).told = c.copy.told
  <2>1. c.copy.services \cup {s} \in SUBSET ST /\ c.copy.uses + 1 \in Nat
        BY <1>5 DEF Copies
  <2> QED BY <1>5, <2>1 DEF Copies
<1> HIDE DEF to, granted
<1>7. /\ pc'[th] = "add"
      /\ \A q \in Thread \ {th} : pc'[q] = pc[q] /\ call'[q] = call[q]
      BY <1>4 DEF Enter, Inv, TypeOK
<1>8. /\ conflicted \subseteq conflicted'
      /\ \A y \in Ticket \ {t} : cache'[y] = cache[y]
      /\ cache'[t] \in {cache[t], granted(s)}
      /\ t \notin conflicted' => Stored(t) /\ cache[t] = c.copy /\ cache'[t] = granted(s)
      BY <1>1, <1>4, <1>5, <1>6, SaveOutcome DEF Inv
<1>9. /\ Head(chain'[s]) = t
      /\ \A x \in Ticket \ {s} : chain'[x] = chain[x]
  <2>1. chain[t] \in Seq(TGT)
        BY <1>5 DEF Inv, TypeOK
  <2>2. Head(<<t>> \o chain[t]) = t
        BY <2>1
  <2> QED BY <1>4, <1>5, <2>2 DEF Inv, TypeOK
<1>10. /\ GrantedOn(t)' = GrantedOn(t) \cup {s}
       /\ \A u \in TGT \ {t} : GrantedOn(u)' = GrantedOn(u)
       /\ \A u : GrantedOn(u) \subseteq GrantedOn(u)'
      BY <1>4, <1>5, <1>9 DEF GrantedOn, Ticket
<1>11. c.copy.told \subseteq c.copy.services /\ c.copy.services \subseteq GrantedOn(t)
      BY <1>1, <1>2, <1>3 DEF SignOutInv
<1>12. /\ \A x \in ST : x \in issued' => Head(chain'[x]) \in TGT \cap added'
       /\ \A x \in ST \ issued' : sent'[x] = 0
      BY <1>2, <1>3, <1>4, <1>9 DEF SignOutInv, Ticket
<1>13. ASSUME NEW u \in TGT, cache'[u] # Nothing
       PROVE  /\ cache'[u].told \subseteq cache'[u].services
              /\ cache'[u].services \subseteq GrantedOn(u)'
  <2>1. u \in Ticket
        BY DEF Ticket
  <2>2. CASE cache'[u] = cache[u]
        BY <1>10, <1>13, <2>2 DEF SignOutInv, Stored
  <2>3. CASE u = t /\ cache'[u] = granted(s)
        BY <1>6, <1>10, <1>11, <2>3
  <2> QED BY <1>8, <2>1, <2>2, <2>3
<1>14. ASSUME NEW q \in Thread
       PROVE  /\ pc'[q] \in {"check", "grant", "expire", "delete"} =>
                  /\ call'[q].copy.told \subseteq call'[q].copy.services
                  /\ call'[q].copy.services \subseteq GrantedOn(call[q].ticket)'
              /\ pc'[q] = "delete" => call'[q].copy.told = call'[q].copy.services
  <2>1. CASE q = th
        BY <1>7, <2>1
  <2>2. CASE q # th
    <3>1. pc'[q] = pc[q] /\ call'[q] = call[q]
          BY <1>7, <2>2
    <3>2. GrantedOn(call[q].ticket) \subseteq GrantedOn(call[q].ticket)'
      <4>1. GrantedOn(call[q].ticket)' = {x \in ST \cap issued' : Head(chain'[x]) = call'[q].ticket}
            BY DEF GrantedOn
      <4> QED BY <1>4, <1>9, <3>1, <4>1 DEF GrantedOn, Ticket
    <3> QED BY <3>1, <3>2 DEF SignOutInv
  <2> QED BY <2>1, <2>2
<1>15. ASSUME NEW u \in TGT \ conflicted', cache'[u] # Nothing, NEW x \in GrantedOn(u)'
       PROVE  x \in cache'[u].services /\ sent'[x] = IF x \in cache'[u].told THEN 1 ELSE 0
  <2>1. u \notin conflicted /\ u \in Ticket /\ sent' = sent
        BY <1>2, <1>8 DEF Ticket
  <2>2. CASE u # t
        BY <1>8, <1>10, <1>15, <2>1, <2>2 DEF SignOutInv, Stored
  <2>3. CASE u = t
    <3>1. Stored(t) /\ cache[t] = c.copy /\ cache'[t] = granted(s)
          BY <1>8, <2>3
    <3>2. CASE x = s
      <4>1. sent[s] = 0 /\ s \notin c.copy.told
            BY <1>11 DEF SignOutInv, GrantedOn
      <4> QED BY <1>6, <2>1, <2>3, <3>1, <3>2, <4>1
    <3>3. CASE x \in GrantedOn(t)
          BY <1>6, <2>1, <2>3, <3>1, <3>3 DEF SignOutInv
    <3> QED BY <1>10, <2>3, <3>2, <3>3
  <2> QED BY <2>2, <2>3
<1>16. ASSUME NEW u \in destroyed' \ conflicted'
       PROVE  cache'[u] = Nothing /\ \A x \in GrantedOn(u)' : sent'[x] = 1
  <2>1. u \in destroyed \ conflicted /\ u \in TGT /\ u \in Ticket
        BY <1>2, <1>8 DEF Inv, TypeOK, Ticket
  <2>2. cache[u] = Nothing
        BY <2>1 DEF SignOutInv, Stored
  <2>3. u # t
        BY <1>8, <2>2 DEF Stored
  <2> QED BY <1>2, <1>8, <1>10, <2>1, <2>2, <2>3 DEF SignOutInv
<1> QED BY <1>12, <1>13, <1>14, <1>15, <1>16 DEF SignOutInv, Stored

LEMMA SignOutExpire ==
    ASSUME Inv, SignOutInv, NEW th \in Thread, Expire(th)
    PROVE  SignOutInv'
<1>1. PICK c \in Calls : c = call[th]
      BY DEF Inv, TypeOK
<1>2. /\ pc[th] = "expire"
      /\ UNCHANGED <<chain, issued, added, assertions, destroyed>>
      BY DEF Expire
<1>3. PICK t \in TGT \cap added : t = c.ticket
      BY <1>1, <1>2 DEF Inv, HoldInv
<1> DEFINE expired == [c.copy EXCEPT !.expired = TRUE, !.told = c.copy.services]
<1>4. /\ sent' = [s \in ST |-> IF s \in c.copy.services \ c.copy.told
                                THEN sent[s] + 1 ELSE sent[s]]
      /\ Save(th, t, expired)
      /\ Enter(th, "delete", [c EXCEPT !.copy = expired])
      BY <1>1, <1>3 DEF Expire
<1>5. c.copy \in Copies /\ t \in Ticket
      BY DEF Calls, Ticket
<1>6. expired \in Copies /\ expired.services = c.copy.services /\ expired.told = c.copy.services
      BY <1>5 DEF Copies
<1>7. /\ pc'[th] = "delete" /\ call'[th].copy = expired /\ call'[th].ticket = t
      /\ \A q \in Thread \ {th} : pc'[q] = pc[q] /\ call'[q] = call[q]
      BY <1>1, <1>3, <1>4 DEF Enter, Inv, TypeOK, Calls
<1> HIDE DEF expired
<1>8. /\ conflicted \subseteq conflicted'
      /\ \A y \in Ticket \ {t} : cache'[y] = cache[y]
      /\ cache'[t] \in {cache[t], expired}
      /\ t \notin conflicted' => Stored(t) /\ cache[t] = c.copy /\ cache'[t] = expired
      BY <1>1, <1>4, <1>5, <1>6, SaveOutcome DEF Inv
<1>9. \A u : GrantedOn(u)' = GrantedOn(u)
      BY <1>2 DEF GrantedOn
<1>10. c.copy.told \subseteq c.copy.services /\ c.copy.services \subseteq GrantedOn(t)
      BY <1>1, <1>2, <1>3 DEF SignOutInv
<1>11. \A u \in TGT \ {t} : \A x \in GrantedOn(u) : sent'[x] = sent[x]
      BY <1>4, <1>10 DEF GrantedOn
<1>12. /\ \A x \in ST : x \in issued' => Head(chain'[x]) \in TGT \cap added'
       /\ \A x \in ST \ issued' : sent'[x] = 0
      BY <1>2, <1>4, <1>10 DEF SignOutInv, GrantedOn
<1>13. ASSUME NEW u \in TGT, cache'[u] # Nothing
       PROVE  /\ cache'[u].told \subseteq cache'[u].services
              /\ cache'[u].services \subseteq GrantedOn(u)'
  <2>1. u \in Ticket
        BY DEF Ticket
  <2>2. CASE cache'[u] = cache[u]
        BY <1>9, <1>13, <2>2 DEF SignOutInv, Stored
  <2>3. CASE u = t /\ cache'[u] = expired
        BY <1>6, <1>9, <1>10, <2>3
  <2> QED BY <1>8, <2>1, <2>2, <2>3
<1>14. ASSUME NEW q \in Thread
       PROVE  /\ pc'[q] \in {"check", "grant", "expire", "delete"} =>
                  /\ call'[q].copy.told \subseteq call'[q].copy.services
                  /\ call'[q].copy.services \subseteq GrantedOn(call[q].ticket)'
              /\ pc'[q] = "delete" => call'[q].copy.told = call'[q].copy.services
  <2>1. GrantedOn(call[q].ticket)' = GrantedOn(call'[q].ticket)
        BY <1>2 DEF GrantedOn
  <2>2. CASE q = th
        BY <1>6, <1>7, <1>10, <2>1, <2>2
  <2>3. CASE q # th
        BY <1>7, <2>1, <2>3 DEF SignOutInv
  <2> QED BY <2>2, <2>3
<1>15. ASSUME NEW u \in TGT \ conflicted', cache'[u] # Nothing, NEW x \in GrantedOn(u)
       PROVE  x \in cache'[u].services /\ sent'[x] = IF x \in cache'[u].told THEN 1 ELSE 0
  <2>1. u \notin conflicted /\ u \in Ticket /\ x \in ST
        BY <1>8 DEF Ticket, GrantedOn
  <2>2. CASE u # t
        BY <1>8, <1>11, <1>15, <2>1, <2>2 DEF SignOutInv, Stored
  <2>3. CASE u = t
    <3>1. Stored(t) /\ cache[t] = c.copy /\ cache'[t] = expired
          BY <1>8, <2>3
    <3>2. x \in c.copy.services /\ sent[x] = IF x \in c.copy.told THEN 1 ELSE 0
          BY <2>1, <2>3, <3>1 DEF SignOutInv
    <3> QED BY <1>4, <1>6, <2>1, <2>3, <3>1, <3>2
  <2> QED BY <2>2, <2>3
<1>16. ASSUME NEW u \in destroyed' \ conflicted'
       PROVE  cache'[u] = Nothing /\ \A x \in GrantedOn(u) : sent'[x] = 1
  <2>1. u \in destroyed \ conflicted /\ u \in TGT /\ u \in Ticket
        BY <1>2, <1>8 DEF Inv, TypeOK, Ticket
  <2>2. cache[u] = Nothing
        BY <2>1 DEF SignOutInv, Stored
  <2>3. u # t
        BY <1>8, <2>2 DEF Stored
  <2> QED BY <1>8, <1>11, <2>1, <2>2, <2>3 DEF SignOutInv
<1> QED BY <1>9, <1>12, <1>13, <1>14, <1>15, <1>16 DEF SignOutInv, Stored

LEMMA SignOutDelete ==
    ASSUME Inv, SignOutInv, NEW th \in Thread, DestroyDelete(th)
    PROVE  SignOutInv'
<1>1. PICK c \in Calls : c = call[th]
      BY DEF Inv, TypeOK
<1>2. /\ pc[th] = "delete" /\ Enter(th, "idle", NoCall)
      /\ UNCHANGED <<chain, issued, added, assertions, sent>>
      BY DEF DestroyDelete
<1>3. PICK t \in TGT \cap added : t = c.ticket
      BY <1>1, <1>2 DEF Inv, HoldInv
<1>4. /\ conflicted \subseteq conflicted'
      /\ \/ /\ cache' = [cache EXCEPT ![t] = Nothing]
            /\ destroyed' = destroyed \cup {t}
            /\ t \notin conflicted' => cache[t] = c.copy
         \/ t \in conflicted' /\ UNCHANGED <<cache, destroyed>>
      BY <1>1, <1>3 DEF DestroyDelete, Remove
<1>5. c.copy \in Copies /\ c.copy # Nothing /\ t \in Ticket
      BY NothingAssumption DEF Calls, Ticket
<1>6. /\ pc'[th] = "idle"
      /\ \A q \in Thread \ {th} : pc'[q] = pc[q] /\ call'[q] = call[q]
      BY <1>2 DEF Enter, Inv, TypeOK
<1>7. \A u : GrantedOn(u)' = GrantedOn(u)
      BY <1>2 DEF GrantedOn
<1>8. /\ \A x \in ST : x \in issued' => Head(chain'[x]) \in TGT \cap added'
      /\ \A x \in ST \ issued' : sent'[x] = 0
      BY <1>2 DEF SignOutInv
<1>9. \A u \in TGT : cache'[u] # Nothing => Stored(u) /\ cache'[u] = cache[u]
      BY <1>4 DEF Inv, TypeOK, Stored, Ticket
<1>10. ASSUME NEW q \in Thread
       PROVE  /\ pc'[q] \in {"check", "grant", "expire", "delete"} =>
                  /\ call'[q].copy.told \subseteq call'[q].copy.services
                  /\ call'[q].copy.services \subseteq GrantedOn(call[q].ticket)'
              /\ pc'[q] = "delete" => call'[q].copy.told = call'[q].copy.services
  <2>1. GrantedOn(call[q].ticket)' = GrantedOn(call'[q].ticket)
        BY <1>2 DEF GrantedOn
  <2>2. CASE q = th
        BY <1>6, <2>2
  <2>3. CASE q # th
        BY <1>6, <2>1, <2>3 DEF SignOutInv
  <2> QED BY <2>2, <2>3
<1>11. ASSUME NEW u \in destroyed' \ conflicted'
       PROVE  cache'[u] = Nothing /\ \A x \in GrantedOn(u) : sent'[x] = 1
  <2>1. CASE u = t
    <3>1. t \notin conflicted /\ cache[t] = c.copy /\ cache'[t] = Nothing
      <4>1. CASE cache' = [cache EXCEPT ![t] = Nothing] /\ (t \notin conflicted' => cache[t] = c.copy)
            BY <1>4, <1>5, <2>1, <4>1 DEF Inv, TypeOK
      <4>2. CASE t \in conflicted'
            BY <2>1, <4>2
      <4> QED BY <1>4, <4>1, <4>2
    <3>2. c.copy.told = c.copy.services
          BY <1>1, <1>2 DEF SignOutInv
    <3>3. \A x \in GrantedOn(t) : sent[x] = 1
          BY <1>5, <3>1, <3>2 DEF SignOutInv, Stored
    <3> QED BY <1>2, <2>1, <3>1, <3>3
  <2>2. CASE u # t
    <3>1. u \in destroyed \ conflicted /\ u \in Ticket
          BY <1>4, <2>2 DEF Inv, TypeOK, Ticket
    <3>2. cache[u] = Nothing /\ \A x \in GrantedOn(u) : sent[x] = 1
          BY <3>1 DEF SignOutInv, Stored
    <3> QED BY <1>2, <1>4, <3>1, <3>2 DEF Inv, TypeOK
  <2> QED BY <2>1, <2>2
<1>12. \A u \in TGT \ conflicted' : cache'[u] # Nothing =>
          \A x \in GrantedOn(u) : /\ x \in cache'[u].services
                                  /\ sent'[x] = IF x \in cache'[u].told THEN 1 ELSE 0
      BY <1>2, <1>4, <1>9 DEF SignOutInv
<1>13. \A u \in TGT : cache'[u] # Nothing =>
          cache'[u].told \subseteq cache'[u].services /\ cache'[u].services \subseteq GrantedOn(u)
      BY <1>9 DEF SignOutInv
<1> QED BY <1>7, <1>8, <1>10, <1>11, <1>12, <1>13 DEF SignOutInv, Stored

\* The steps that change nothing but requests and what is stored of service
\* tickets, and delete at most.
LEMMA SignOutPlain ==
    ASSUME Inv, SignOutInv, NEW th \in Thread,
           UNCHANGED <<chain, issued, added, sent, destroyed>>,
           conflicted \subseteq conflicted',
           \A t \in TGT : cache'[t] # Nothing => cache'[t] = cache[t],
           \A q \in Thread \ {th} : pc'[q] = pc[q] /\ call'[q] = call[q],
           \/ pc'[th] \notin {"check", "grant", "expire", "delete"}
           \/ pc[th] = "check" /\ pc'[th] = "grant" /\ call'[th] = call[th]
    PROVE  SignOutInv'
<1>1. \A q \in Thread :
        \/ pc'[q] = pc[q] /\ call'[q] = call[q]
        \/ /\ pc'[q] \in {"check", "grant", "expire"} =>
                 /\ call'[q].copy.told \subseteq call'[q].copy.services
                 /\ call'[q].copy.services \subseteq GrantedOn(call'[q].ticket)
           /\ pc'[q] # "delete"
      BY DEF SignOutInv
<1>2. \A t \in destroyed' \ conflicted' : t \in destroyed /\ cache'[t] = Nothing
      BY DEF SignOutInv, Stored, Inv, TypeOK
<1> QED BY <1>1, <1>2, SignOutFrame DEF Stored

LEMMA SignOutStep ==
    ASSUME Inv, SignOutInv, [Next]_vars
    PROVE  SignOutInv'
<1>1. CASE UNCHANGED vars
  <2>1. \A t \in destroyed \ conflicted : cache[t] = Nothing
        BY DEF SignOutInv, Stored
  <2> QED BY <1>1, <2>1, SignOutFrame DEF vars, Stored
<1>2. ASSUME NEW x \in Ticket, Evict(x)
      PROVE  SignOutInv'
  <2>1. /\ cache' = [cache EXCEPT ![x] = Nothing]
        /\ UNCHANGED <<chain, issued, request, added, history, conflicted>>
        BY <1>2 DEF Evict, Remove
  <2>2. \A t \in TGT : cache'[t] # Nothing => Stored(t) /\ cache'[t] = cache[t]
        BY <2>1 DEF Inv, TypeOK, Ticket, Stored
  <2>3. \A t \in destroyed' \ conflicted' : t \in destroyed /\ cache'[t] = Nothing
        BY <2>1, <2>2 DEF SignOutInv, Stored, Inv, TypeOK
  <2> QED BY <2>1, <2>2, <2>3, SignOutFrame
<1>3. ASSUME NEW th \in Thread, CreateTicketGrantingTicket(th)
      PROVE  SignOutInv'
  <2>1. PICK x \in TGT \ issued : /\ cache' = [cache EXCEPT ![x] = NewCopy]
                                  /\ added' = added \cup {x} /\ issued' = issued \cup {x}
        BY <1>3 DEF CreateTicketGrantingTicket
  <2>2. UNCHANGED <<chain, request, history, conflicted>>
        BY <1>3 DEF CreateTicketGrantingTicket
  <2>3. x \notin added /\ x \notin ST
        BY RegistryAssumption DEF Inv, TypeOK
  <2>4. \A t \in TGT : cache'[t] # Nothing =>
            \/ Stored(t) /\ cache'[t] = cache[t]
            \/ t \notin added /\ cache'[t].told = {} /\ cache'[t].services = {}
        BY <2>1, <2>3 DEF Inv, TypeOK, Ticket, Stored, NewCopy
  <2>5. \A t \in destroyed' \ conflicted' : t \in destroyed /\ cache'[t] = Nothing
    <3>1. \A t \in destroyed : t \in Ticket /\ t # x
          BY <2>3 DEF Inv, TypeOK, HoldInv, Ticket
    <3> QED BY <2>1, <2>2, <3>1 DEF SignOutInv, Stored, Inv, TypeOK
  <2> QED BY <2>1, <2>2, <2>3, <2>4, <2>5, SignOutFrame
<1>4. ASSUME NEW th \in Thread, GrantGet(th) \/ ValidateGet(th) \/ DelegateGet(th) \/ DestroyGet(th)
      PROVE  SignOutInv'
  <2>1. UNCHANGED <<cache, chain, issued, added, history, conflicted>>
        BY <1>4 DEF GrantGet, ValidateGet, DelegateGet, DestroyGet
  <2>2. \/ \E c : Enter(th, "checkSt", c) \/ Enter(th, "delegate", c)
        \/ \E t \in TGT, label \in {"check", "expire"} :
              Stored(t) /\ Enter(th, label, [NoCall EXCEPT !.ticket = t, !.copy = cache[t]])
        BY <1>4 DEF GrantGet, ValidateGet, DelegateGet, DestroyGet
  <2>3. CASE \E c : Enter(th, "checkSt", c) \/ Enter(th, "delegate", c)
    <3>1. /\ pc'[th] \in {"checkSt", "delegate"}
          /\ \A q \in Thread \ {th} : pc'[q] = pc[q] /\ call'[q] = call[q]
          BY <2>3 DEF Enter, Inv, TypeOK
    <3> QED BY <2>1, <3>1, SignOutPlain
  <2>4. CASE \E t \in TGT, label \in {"check", "expire"} :
              Stored(t) /\ Enter(th, label, [NoCall EXCEPT !.ticket = t, !.copy = cache[t]])
    <3>1. PICK t \in TGT, label \in {"check", "expire"} :
              Stored(t) /\ Enter(th, label, [NoCall EXCEPT !.ticket = t, !.copy = cache[t]])
          BY <2>4
    <3>2. /\ pc'[th] \in {"check", "expire"}
          /\ call'[th].ticket = t /\ call'[th].copy = cache[t]
          /\ \A q \in Thread \ {th} : pc'[q] = pc[q] /\ call'[q] = call[q]
          BY <3>1 DEF Enter, Inv, TypeOK, NoCall
    <3>3. /\ cache[t].told \subseteq cache[t].services
          /\ cache[t].services \subseteq GrantedOn(t)
          BY <3>1 DEF SignOutInv
    <3>4. \A u \in destroyed' \ conflicted' : u \in destroyed /\ cache'[u] = Nothing
          BY <2>1 DEF SignOutInv, Stored
    <3> QED BY <2>1, <3>2, <3>3, <3>4, SignOutFrame DEF Stored
  <2> QED BY <2>2, <2>3, <2>4
<1>5. ASSUME NEW th \in Thread,
             \/ GrantCheck(th) \/ GrantRefused(th) \/ ValidateCheck(th)
             \/ ValidateFinally(th) \/ DelegateCheck(th) \/ ValidateAssert(th)
             \/ RemoveExpired(th)
      PROVE  SignOutInv'
  <2>1. /\ UNCHANGED <<chain, issued, added, sent, destroyed>>
        /\ conflicted \subseteq conflicted'
        BY <1>5 DEF GrantCheck, GrantRefused, ValidateCheck, ValidateFinally, DelegateCheck,
                    ValidateAssert, RemoveExpired
  <2>2. UNCHANGED cache \/ cache' = [cache EXCEPT ![call[th].ticket] = Nothing]
        BY <1>5 DEF GrantCheck, GrantRefused, ValidateCheck, ValidateFinally, DelegateCheck,
                    ValidateAssert, RemoveExpired, Remove
  <2>3. \A t \in TGT : cache'[t] # Nothing => cache'[t] = cache[t]
        BY <2>2 DEF Inv, TypeOK, Ticket
  <2>4. \/ \E label \in {"idle", "remove", "use", "finally", "grantTgt"} : \E c : Enter(th, label, c)
        \/ Enter(th, "grant", call[th]) /\ pc[th] = "check"
        BY <1>5 DEF GrantCheck, GrantRefused, ValidateCheck, ValidateFinally, DelegateCheck,
                    ValidateAssert, RemoveExpired
  <2>5. /\ \A q \in Thread \ {th} : pc'[q] = pc[q] /\ call'[q] = call[q]
        /\ \/ pc'[th] \notin {"check", "grant", "expire", "delete"}
           \/ pc[th] = "check" /\ pc'[th] = "grant" /\ call'[th] = call[th]
        BY <2>4 DEF Enter, Inv, TypeOK
  <2> QED BY <2>1, <2>3, <2>5, SignOutPlain
<1>6. ASSUME NEW th \in Thread, ValidateUse(th) \/ GrantTicketGrantingTicket(th)
      PROVE  SignOutInv'
  <2>1. PICK s \in ST : s = call[th].ticket /\ s \in added
        BY <1>6 DEF ValidateUse, GrantTicketGrantingTicket, Inv, HoldInv
  <2>2. PICK copy \in Copies : Save(th, s, copy)
    <3>1. PICK held \in Copies : held = call[th].copy
          BY DEF Inv, TypeOK, Calls
    <3>2. held.uses + 1 \in Nat
          BY DEF Copies
    <3>3. [held EXCEPT !.uses = @ + 1] \in Copies /\ [held EXCEPT !.granted = TRUE] \in Copies
          BY <3>2 DEF Copies
    <3> QED BY <1>6, <2>1, <3>1, <3>3 DEF ValidateUse, GrantTicketGrantingTicket
  <2>3. /\ conflicted \subseteq conflicted'
        /\ \A y \in TGT : cache'[y] = cache[y]
        BY <2>1, <2>2, SaveOutcome, RegistryAssumption DEF Inv, Ticket
  <2>4. \E label \in {"assert", "finally", "add"} : \E c : Enter(th, label, c)
        BY <1>6 DEF ValidateUse, GrantTicketGrantingTicket
  <2>5. /\ pc'[th] \in {"assert", "finally", "add"}
        /\ \A q \in Thread \ {th} : pc'[q] = pc[q] /\ call'[q] = call[q]
        BY <2>4 DEF Enter, Inv, TypeOK
  <2>6. CASE ValidateUse(th)
    <3>1. UNCHANGED <<chain, issued, added, history>>
          BY <2>6 DEF ValidateUse
    <3> QED BY <2>3, <2>5, <3>1, SignOutPlain
  <2>7. CASE GrantTicketGrantingTicket(th)
    <3>1. PICK t \in TGT \ issued : /\ issued' = issued \cup {t}
                                    /\ chain' = [chain EXCEPT ![t] = chain[call[th].ticket]]
          BY <2>7 DEF GrantTicketGrantingTicket
    <3>2. UNCHANGED <<added, history>>
          BY <2>7 DEF GrantTicketGrantingTicket
    <3>3. \A x \in ST : chain'[x] = chain[x] /\ x # t
          BY <3>1, RegistryAssumption DEF Inv, TypeOK, Ticket
    <3>4. ST \cap issued' \subseteq issued
          BY <3>1, <3>3
    <3>5. \A u \in destroyed' \ conflicted' : u \in destroyed /\ cache'[u] = Nothing
          BY <2>3, <3>2 DEF SignOutInv, Stored, Inv, TypeOK
    <3> QED BY <2>3, <2>5, <3>1, <3>2, <3>3, <3>4, <3>5, SignOutFrame DEF Stored
  <2> QED BY <1>6, <2>6, <2>7
<1>7. ASSUME NEW th \in Thread, AddTicket(th)
      PROVE  SignOutInv'
  <2>1. /\ pc[th] = "add" /\ Enter(th, "idle", NoCall)
        /\ cache' = [cache EXCEPT ![call[th].new] = NewCopy] \/ UNCHANGED cache
        /\ added' = added \cup {call[th].new}
        /\ UNCHANGED <<chain, issued, history, conflicted>>
        BY <1>7 DEF AddTicket
  <2>2. call[th].new \in Ticket \ added
        BY <2>1 DEF Inv, HoldInv, TypeOK
  <2>3. \A t \in TGT : cache'[t] # Nothing =>
            \/ Stored(t) /\ cache'[t] = cache[t]
            \/ t \notin added /\ cache'[t].told = {} /\ cache'[t].services = {}
        BY <2>1, <2>2 DEF Inv, TypeOK, Ticket, Stored, NewCopy
  <2>4. \A q \in Thread : \/ pc'[q] = pc[q] /\ call'[q] = call[q]
                          \/ pc'[q] = "idle"
        BY <2>1 DEF Enter, Inv, TypeOK
  <2>5. \A t \in destroyed' \ conflicted' : t \in destroyed /\ cache'[t] = Nothing
    <3>1. \A t \in destroyed : t \in Ticket /\ t # call[th].new
          BY <2>2 DEF Inv, TypeOK, HoldInv, Ticket
    <3> QED BY <2>1, <3>1 DEF SignOutInv, Stored, Inv, TypeOK
  <2> QED BY <2>1, <2>3, <2>4, <2>5, SignOutFrame
<1>8. ASSUME NEW th \in Thread, AskGrantingTicket(th) \/ AskChainedAuthentication(th)
      PROVE  SignOutInv'
  <2>1. UNCHANGED <<cache, chain, issued, pc, call, faults, added, history, conflicted>>
        BY <1>8 DEF AskGrantingTicket, AskChainedAuthentication
  <2>2. \A t \in destroyed \ conflicted : cache[t] = Nothing
        BY DEF SignOutInv, Stored
  <2> QED BY <2>1, <2>2, SignOutFrame DEF Stored
<1> QED BY <1>1, <1>2, <1>3, <1>4, <1>5, <1>6, <1>7, <1>8, SignOutGrant, SignOutExpire, SignOutDelete
        DEF Next, Call, Proceed

\* The logout that deletes a session reaches every application that was granted
\* a service ticket on it once, for any number of nodes and whatever the other
\* requests do, unless one of them has written or deleted the session from an
\* older copy or a fault has hit it.
THEOREM SignOutReachesAll == Spec => []SingleSignOut
<1>1. Inv /\ SignOutInv /\ [Next]_vars => SignOutInv'
      BY SignOutStep
<1>2. SignOutInv => SingleSignOut
      BY DEF SignOutInv, SingleSignOut, GrantedOn
<1> QED BY Invariant, SignOutInit, <1>1, <1>2, PTL DEF Spec
=============================================================================
