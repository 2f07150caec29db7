---------------------------- MODULE LoginFlow_proofs ----------------------------
(***************************************************************************)
(* The only ways a session is left without a cookie, what a wrong captcha  *)
(* leaves, and what a login ticket is good for: for any number of windows, *)
(* sessions and login tickets.                                             *)
(***************************************************************************)
EXTENDS LoginFlow, SequenceTheorems, TLAPS

Labels   == {"idle", "generateServiceTicket", "renew", "destroyOther", "create",
             "captcha", "send", "logout", "respond"}
Requests == [tgt : Ids, old : Ids, lt : LT \cup {None},
             send : {"nothing", "cookie", "removal"}, seen : Nat]
Flows    == [open : BOOLEAN, tgt : Ids, service : BOOLEAN]

\* Ids the browser and its executions know are those of sessions that have been
\* created; a request has the ticket it has created until its answer is sent.
RequestOK(w) ==
    /\ flow[w].tgt \in issued \cup {None}
    /\ req[w].tgt \in issued \cup {None}
    /\ req[w].old \in issued \cup {None}
    /\ pc[w] \in {"idle", "renew", "destroyOther", "create", "logout"} =>
          req[w].tgt = None /\ req[w].send = "nothing"
    /\ pc[w] \in {"captcha", "send"} => req[w].tgt # None /\ req[w].send = "nothing"
    /\ pc[w] \in {"generateServiceTicket", "respond"} =>
          (req[w].tgt # None <=> req[w].send = "cookie")

RequestInv == cookie \in issued \cup {None} /\ \A w \in Window : RequestOK(w)

\* The ticket a request has created is known to no one else.
SecretInv ==
    \A w \in Window : req[w].tgt # None =>
        /\ cookie # req[w].tgt
        /\ \A v \in Window : flow[v].tgt # req[w].tgt
        /\ \A v \in Window \ {w} : req[v].tgt # req[w].tgt

\* The session an answer takes the cookie from has been ended.
OldInv == \A w \in Window : req[w].send # "nothing" => req[w].old \notin live

RefusedInv ==
    /\ \A t \in refused :
        /\ t # cookie /\ t \notin entered
        /\ \A w \in Window : flow[w].tgt # t /\ req[w].tgt # t
    /\ \A w \in Window : pc[w] = "captcha" => req[w].tgt \notin entered

SessionInv == RequestInv /\ SecretInv /\ OldInv /\ RefusedInv /\ NoOtherOrphans

\* Window w may still log in with login ticket lt.
Has(w, lt) ==
    \/ \E i \in DOMAIN shown[w] : shown[w][i] = lt
    \/ req[w].lt = lt /\ pc[w] # "respond"

LoginTicketInv ==
    \A lt \in LT :
        /\ \A w \in Window : Has(w, lt) => lt \in provided /\ opened[lt] = 0
        /\ \A w, v \in Window : Has(w, lt) /\ Has(v, lt) => w = v
        /\ opened[lt] <= 1
        /\ opened[lt] # 0 => lt \in provided

Inv == TypeOK /\ SessionInv /\ LoginTicketInv

-----------------------------------------------------------------------------
(* What the steps of one window have in common *)

\* The pages of window w: what is shown is what was shown before, or has just
\* been generated; a flow that starts takes the cookie.
Pages(w) ==
    /\ flow' \in [Window -> Flows]
    /\ \A v \in Window : flow'[v].tgt \in {flow[v].tgt, cookie, None}
    /\ shown' \in [Window -> Seq(LT \cup {None})]
    /\ \A v \in Window : Len(shown'[v]) <= MaxSnapshots
    /\ provided \subseteq provided' /\ provided' \subseteq LT
    /\ \A v \in Window \ {w} : shown'[v] = shown[v]
    /\ \A i \in DOMAIN shown'[w] :
        \/ shown'[w][i] = None
        \/ shown'[w][i] \in provided' \ provided
        \/ \E j \in DOMAIN shown[w] : shown'[w][i] = shown[w][j]

\* The request of window w goes on, others wait.
Alone(w) ==
    /\ pc' \in [Window -> Labels] /\ req' \in [Window -> Requests]
    /\ \A v \in Window \ {w} : pc'[v] = pc[v] /\ req'[v] = req[v]

\* No session is created, nor is a cookie sent.
Quiet(w) ==
    /\ UNCHANGED <<cookie, issued, dropped, refused>>
    /\ live' \subseteq live
    /\ req'[w].tgt = req[w].tgt /\ pc'[w] # "captcha"
    /\ req'[w].send # "nothing" => req'[w].old \notin live'
    /\ entered \subseteq entered'
    /\ \A t \in entered' \ entered :
        /\ t \in live
        /\ t \in {flow[w].tgt, req[w].tgt}

LEMMA SamePages ==
    ASSUME TypeOK, NEW w \in Window, UNCHANGED <<pages, provided>>
    PROVE  Pages(w)
BY DEF TypeOK, Pages, pages, Flows

LEMMA EndPages ==
    ASSUME TypeOK, NEW w \in Window, End(w), UNCHANGED provided
    PROVE  Pages(w)
<1>1. <<>> \in Seq(LT \cup {None}) /\ Len(<<>>) = 0 /\ DOMAIN <<>> = {}
      OBVIOUS
<1>2. Ended \in Flows /\ Ended.tgt = None
      BY DEF Ended, Flows, Ids
<1>3. /\ flow' \in [Window -> Flows]
      /\ \A v \in Window : flow'[v].tgt \in {flow[v].tgt, cookie, None}
      BY <1>2 DEF End, TypeOK, Flows
<1>4. /\ shown' \in [Window -> Seq(LT \cup {None})] /\ shown'[w] = <<>>
      /\ \A v \in Window \ {w} : shown'[v] = shown[v]
      BY <1>1 DEF End, TypeOK
<1>5. ASSUME NEW v \in Window PROVE Len(shown'[v]) <= MaxSnapshots
  <2>1. CASE v = w
        BY <1>1, <1>4, <2>1, LoginAssumption
  <2>2. CASE v # w
        BY <1>4, <2>2 DEF TypeOK
  <2> QED BY <2>1, <2>2
<1> QED BY <1>1, <1>3, <1>4, <1>5 DEF Pages, TypeOK

LEMMA ShowPages ==
    ASSUME TypeOK, NEW w \in Window, NEW lt \in LT \cup {None}, Show(w, lt),
           lt = None \/ lt \in provided' \ provided,
           provided \subseteq provided', provided' \subseteq LT
    PROVE  Pages(w)
<1>1. /\ Append(shown[w], lt) \in Seq(LT \cup {None})
      /\ Len(Append(shown[w], lt)) = Len(shown[w]) + 1
      /\ \A i \in 1 .. Len(shown[w]) : Append(shown[w], lt)[i] = shown[w][i]
      /\ Append(shown[w], lt)[Len(shown[w]) + 1] = lt
      /\ DOMAIN Append(shown[w], lt) = 1 .. Len(shown[w]) + 1
      /\ DOMAIN shown[w] = 1 .. Len(shown[w]) /\ Len(shown[w]) \in Nat
      BY AppendProperties DEF TypeOK
<1>2. /\ shown' \in [Window -> Seq(LT \cup {None})] /\ shown'[w] = Append(shown[w], lt)
      /\ \A v \in Window \ {w} : shown'[v] = shown[v]
      BY <1>1 DEF Show, TypeOK
<1>3. ASSUME NEW v \in Window PROVE Len(shown'[v]) <= MaxSnapshots
  <2>1. CASE v = w
        BY <1>1, <1>2, <2>1, LoginAssumption DEF Show
  <2>2. CASE v # w
        BY <1>2, <2>2 DEF TypeOK
  <2> QED BY <2>1, <2>2
<1>4. \A i \in DOMAIN shown'[w] : 
          shown'[w][i] = lt \/ (i \in DOMAIN shown[w] /\ shown'[w][i] = shown[w][i])
      BY <1>1, <1>2
<1> QED BY <1>2, <1>3, <1>4 DEF Pages, Show, TypeOK, Flows

LEMMA ErrorPages ==
    ASSUME TypeOK, NEW w \in Window, LoginError(w)
    PROVE  Pages(w) /\ pc' = [pc EXCEPT ![w] = "respond"]
<1>1. CASE ShowForm(w)
  <2>1. PICK lt \in LT \ provided : Show(w, lt) /\ provided' = provided \cup {lt}
        BY <1>1 DEF ShowForm
  <2>2. Pages(w)
        BY <2>1, ShowPages DEF TypeOK
  <2> QED BY <2>1, <2>2 DEF Show, Goto
<1>2. CASE End(w) /\ UNCHANGED provided
      BY <1>2, EndPages DEF End, Goto
<1> QED BY <1>1, <1>2 DEF LoginError

-----------------------------------------------------------------------------
LEMMA SessionsQuiet ==
    ASSUME TypeOK, SessionInv, NEW w \in Window, Pages(w), Alone(w), Quiet(w), RequestOK(w)'
    PROVE  SessionInv'
<1> USE DEF SessionInv
<1>1. cookie' = cookie /\ issued' = issued
      /\ \A v \in Window : req'[v].tgt = req[v].tgt
      BY DEF Alone, Quiet
<1>2. RequestInv'
  <2>1. \A v \in Window \ {w} : RequestOK(v)'
        BY <1>1 DEF RequestInv, RequestOK, Pages, Alone
  <2> QED BY <1>1, <2>1 DEF RequestInv
<1>3. SecretInv'
  <2> SUFFICES ASSUME NEW u \in Window, req[u].tgt # None
               PROVE  /\ cookie # req[u].tgt
                      /\ \A v \in Window : flow'[v].tgt # req[u].tgt
                      /\ \A v \in Window \ {u} : req[v].tgt # req[u].tgt
      BY <1>1 DEF SecretInv
  <2>1. /\ cookie # req[u].tgt
        /\ \A v \in Window : flow[v].tgt # req[u].tgt
        /\ \A v \in Window \ {u} : req[v].tgt # req[u].tgt
        BY DEF SecretInv
  <2>2. \A v \in Window : flow'[v].tgt \in {flow[v].tgt, cookie, None}
        BY DEF Pages
  <2> QED BY <2>1, <2>2
<1>4. OldInv'
      BY DEF OldInv, Alone, Quiet
<1>5. RefusedInv'
  <2>1. None \notin refused
        BY LoginAssumption DEF TypeOK
  <2>2. \A t \in refused : \A v \in Window : flow'[v].tgt # t /\ req'[v].tgt # t
        BY <1>1, <2>1 DEF RefusedInv, Pages
  <2>3. \A t \in entered' \ entered : t \notin refused
        BY DEF RefusedInv, Quiet
  <2>4. ASSUME NEW v \in Window, pc'[v] = "captcha", req'[v].tgt \in entered' \ entered
        PROVE  FALSE
    <3>1. req[v].tgt \in live /\ req[v].tgt \in {flow[w].tgt, req[w].tgt}
          BY <1>1, <2>4 DEF Quiet
    <3>2. req[v].tgt # None
          BY <3>1, LoginAssumption DEF TypeOK
    <3>3. v # w /\ req[v].tgt = req[w].tgt
          BY <2>4, <3>1, <3>2 DEF SecretInv, Quiet
    <3> QED BY <3>2, <3>3 DEF SecretInv
  <2>5. \A v \in Window : pc'[v] = "captcha" => req'[v].tgt \notin entered
        BY <1>1 DEF RefusedInv, Alone, Quiet
  <2> QED BY <1>1, <2>2, <2>3, <2>4, <2>5 DEF RefusedInv, Quiet
<1>6. NoOtherOrphans'
      BY <1>1 DEF NoOtherOrphans, Quiet
<1> QED BY <1>2, <1>3, <1>4, <1>5, <1>6

\* Of window w nothing is said but that a login ticket it may use now it could
\* have used before, or has just been given.
LEMMA TicketsQuiet ==
    ASSUME TypeOK, LoginTicketInv, NEW w \in Window, Pages(w), Alone(w), UNCHANGED opened,
           \A lt \in LT : req'[w].lt = lt /\ pc'[w] # "respond" => Has(w, lt)
    PROVE  LoginTicketInv'
<1>1. ASSUME NEW lt \in LT, NEW v \in Window \ {w} PROVE Has(v, lt)' <=> Has(v, lt)
      BY DEF Has, Pages, Alone
<1>2. ASSUME NEW lt \in LT, Has(w, lt)' PROVE Has(w, lt) \/ lt \in provided' \ provided
      BY <1>2, LoginAssumption DEF Has, Pages
<1>3. provided \subseteq provided'
      BY DEF Pages
<1> SUFFICES ASSUME NEW lt \in LT
             PROVE  /\ \A v \in Window : Has(v, lt)' => lt \in provided' /\ opened[lt] = 0
                    /\ \A u, v \in Window : Has(u, lt)' /\ Has(v, lt)' => u = v
                    /\ opened[lt] <= 1
                    /\ opened[lt] # 0 => lt \in provided'
    BY DEF LoginTicketInv
<1>4. CASE lt \in provided' \ provided
  <2>1. opened[lt] = 0 /\ \A v \in Window : ~Has(v, lt)
        BY <1>4 DEF LoginTicketInv
  <2>2. \A v \in Window : Has(v, lt)' => v = w
        BY <1>1, <2>1
  <2> QED BY <1>4, <2>1, <2>2
<1>5. CASE lt \notin provided' \ provided
  <2>1. \A v \in Window : Has(v, lt)' => Has(v, lt)
        BY <1>1, <1>2, <1>5
  <2> QED BY <1>3, <2>1 DEF LoginTicketInv
<1> QED BY <1>4, <1>5

\* A login that comes to its end uses up its login ticket.
LEMMA TicketsOpened ==
    ASSUME TypeOK, LoginTicketInv, NEW w \in Window, End(w), UNCHANGED provided,
           pc[w] # "respond", opened' = Opened(w),
           req'[w].lt = req[w].lt, \A v \in Window \ {w} : req'[v] = req[v]
    PROVE  LoginTicketInv' /\ opened' \in [LT -> Nat]
<1>1. /\ pc'[w] = "respond" /\ DOMAIN shown'[w] = {}
      /\ \A v \in Window \ {w} : pc'[v] = pc[v] /\ shown'[v] = shown[v]
      BY DEF End, Goto, TypeOK
<1>2. \A lt \in LT : ~Has(w, lt)' /\ \A v \in Window \ {w} : Has(v, lt)' <=> Has(v, lt)
      BY <1>1 DEF Has
<1>3. opened' \in [LT -> Nat]
      BY DEF Opened, TypeOK
<1> SUFFICES ASSUME NEW lt \in LT
             PROVE  /\ \A v \in Window : Has(v, lt)' => lt \in provided /\ opened'[lt] = 0
                    /\ \A u, v \in Window : Has(u, lt)' /\ Has(v, lt)' => u = v
                    /\ opened'[lt] <= 1
                    /\ opened'[lt] # 0 => lt \in provided
    BY <1>3 DEF LoginTicketInv
<1>4. CASE lt = req[w].lt /\ req[w].tgt # None
  <2>1. Has(w, lt)
        BY <1>4 DEF Has
  <2>2. opened[lt] = 0 /\ lt \in provided /\ \A v \in Window \ {w} : ~Has(v, lt)
        BY <2>1 DEF LoginTicketInv
  <2>3. opened'[lt] = 1
        BY <1>4, <2>2 DEF Opened
  <2> QED BY <1>2, <2>2, <2>3
<1>5. CASE ~(lt = req[w].lt /\ req[w].tgt # None)
  <2>1. opened'[lt] = opened[lt]
        BY <1>5 DEF Opened
  <2> QED BY <1>2, <2>1 DEF LoginTicketInv
<1> QED BY <1>4, <1>5

LEMMA TypeQuiet ==
    ASSUME TypeOK, NEW w \in Window, Pages(w), Alone(w), Quiet(w), opened' \in [LT -> Nat]
    PROVE  TypeOK'
<1>1. entered' \subseteq issued
      BY DEF TypeOK, Quiet
<1> QED BY <1>1 DEF TypeOK, Pages, Alone, Quiet, Flows, Labels, Requests

LEMMA QuietStep ==
    ASSUME Inv, NEW w \in Window, Pages(w), Alone(w), Quiet(w), RequestOK(w)',
           UNCHANGED opened,
           \A lt \in LT : req'[w].lt = lt /\ pc'[w] # "respond" => Has(w, lt)
    PROVE  Inv'
<1>1. TypeOK'
      BY TypeQuiet DEF Inv, TypeOK
<1>2. SessionInv'
      BY SessionsQuiet DEF Inv
<1>3. LoginTicketInv'
      BY TicketsQuiet DEF Inv
<1> QED BY <1>1, <1>2, <1>3 DEF Inv

\* Entering a label, with the request as it was or changed.
LEMMA GotoControl ==
    ASSUME TypeOK, NEW w \in Window, NEW label \in Labels, Goto(w, label),
           \/ UNCHANGED req
           \/ req' \in [Window -> Requests] /\ \A v \in Window \ {w} : req'[v] = req[v]
    PROVE  Alone(w) /\ pc'[w] = label
BY DEF Goto, TypeOK, Alone, Labels, Requests

-----------------------------------------------------------------------------
LEMMA StartStep ==
    ASSUME Inv, NEW w \in Window, Start(w)
    PROVE  Inv'
<1> USE DEF Inv
<1>1. /\ pc[w] = "idle"
      /\ UNCHANGED <<cookie, sessions, req, history>>
      BY DEF Start
<1>2. PICK service \in BOOLEAN :
        /\ flow' = [flow EXCEPT ![w] = [open |-> TRUE, tgt |-> cookie, service |-> service]]
        /\ \/ \E lt \in LT \ provided :
                /\ shown' = [shown EXCEPT ![w] = <<lt>>]
                /\ provided' = provided \cup {lt}
                /\ Goto(w, "respond")
           \/ /\ cookie # None /\ service
              /\ shown' = [shown EXCEPT ![w] = <<>>]
              /\ Goto(w, "generateServiceTicket")
              /\ UNCHANGED provided
      BY DEF Start
<1>3. [open |-> TRUE, tgt |-> cookie, service |-> service] \in Flows
      BY DEF Flows, TypeOK
<1>4. /\ flow' \in [Window -> Flows] /\ flow'[w].tgt = cookie
      /\ \A v \in Window : flow'[v].tgt \in {flow[v].tgt, cookie, None}
      BY <1>2, <1>3 DEF TypeOK, Flows
<1>5. Alone(w) /\ pc'[w] \in {"respond", "generateServiceTicket"}
      BY <1>1, <1>2, GotoControl DEF Labels
<1>6. \A lt \in LT : /\ <<lt>> \in Seq(LT \cup {None}) /\ Len(<<lt>>) = 1
                      /\ DOMAIN <<lt>> = {1} /\ <<lt>>[1] = lt
      OBVIOUS
<1>7. <<>> \in Seq(LT \cup {None}) /\ Len(<<>>) = 0 /\ DOMAIN <<>> = {}
      OBVIOUS
<1>8. Pages(w)
  <2>1. PICK new \in Seq(LT \cup {None}) :
            /\ shown' = [shown EXCEPT ![w] = new]
            /\ Len(new) \in {0, 1}
            /\ \A i \in DOMAIN new : new[i] \in provided' \ provided
    <3>1. CASE \E lt \in LT \ provided :
                  shown' = [shown EXCEPT ![w] = <<lt>>] /\ provided' = provided \cup {lt}
      <4>1. PICK lt \in LT \ provided :
                shown' = [shown EXCEPT ![w] = <<lt>>] /\ provided' = provided \cup {lt}
            BY <3>1
      <4>2. \A i \in DOMAIN <<lt>> : <<lt>>[i] \in provided' \ provided
            BY <4>1, <1>6
      <4> QED BY <4>1, <4>2, <1>6
    <3>2. CASE shown' = [shown EXCEPT ![w] = <<>>]
          BY <3>2, <1>7
    <3> QED BY <1>2, <3>1, <3>2
  <2>2. provided \subseteq provided' /\ provided' \subseteq LT
        BY <1>2 DEF TypeOK
  <2>3. /\ shown' \in [Window -> Seq(LT \cup {None})] /\ shown'[w] = new
        /\ \A v \in Window \ {w} : shown'[v] = shown[v]
        BY <2>1 DEF TypeOK
  <2>4. ASSUME NEW v \in Window PROVE Len(shown'[v]) <= MaxSnapshots
    <3>1. CASE v = w
          BY <2>1, <2>3, <3>1, LoginAssumption
    <3>2. CASE v # w
          BY <2>3, <3>2 DEF TypeOK
    <3> QED BY <3>1, <3>2
  <2> QED BY <1>4, <2>1, <2>2, <2>3, <2>4 DEF Pages
<1>9. RequestOK(w)'
      BY <1>1, <1>4, <1>5 DEF SessionInv, RequestInv, RequestOK, sessions
<1>10. Quiet(w)
      BY <1>1, <1>5 DEF Quiet, SessionInv, RequestInv, RequestOK, sessions, history
<1> QED BY <1>1, <1>5, <1>8, <1>9, <1>10, QuietStep DEF Has, history

LEMMA GenerateStep ==
    ASSUME Inv, NEW w \in Window, GenerateServiceTicket(w)
    PROVE  Inv'
<1> DEFINE t == TicketGrantingTicketId(w)
<1> USE DEF Inv
<1>1. /\ pc[w] = "generateServiceTicket"
      /\ UNCHANGED <<cookie, sessions, req, dropped, refused>>
      BY DEF GenerateServiceTicket
<1>2. t \in {flow[w].tgt, req[w].tgt}
      BY DEF TicketGrantingTicketId
<1>3. ASSUME Pages(w), pc' = [pc EXCEPT ![w] = "respond"],
             entered' = entered \/ (t \in live /\ entered' = entered \cup {t})
      PROVE  Alone(w) /\ Quiet(w) /\ RequestOK(w)' /\ pc'[w] = "respond"
  <2>1. Alone(w) /\ pc'[w] = "respond"
        BY <1>1, <1>3, GotoControl DEF Goto, Labels
  <2>2. Quiet(w)
        BY <1>1, <1>2, <1>3, <2>1 DEF Quiet, SessionInv, OldInv, sessions
  <2>3. RequestOK(w)'
        BY <1>1, <1>3, <2>1 DEF SessionInv, RequestInv, RequestOK, Pages, sessions
  <2> QED BY <2>1, <2>2, <2>3
<1>4. CASE /\ t \in live
           /\ End(w) /\ opened' = Opened(w)
           /\ entered' = entered \cup {t} \/ UNCHANGED entered
           /\ UNCHANGED provided
  <2>1. Pages(w)
        BY <1>4, EndPages
  <2>2. Alone(w) /\ Quiet(w) /\ RequestOK(w)'
        BY <1>3, <1>4, <2>1 DEF End, Goto
  <2>3. LoginTicketInv' /\ opened' \in [LT -> Nat]
        BY <1>1, <1>4, TicketsOpened
  <2>4. TypeOK' /\ SessionInv'
        BY <2>1, <2>2, <2>3, TypeQuiet, SessionsQuiet
  <2> QED BY <2>3, <2>4
<1>5. CASE Show(w, None) /\ UNCHANGED <<entered, opened, provided>>
  <2>1. Pages(w)
        BY <1>5, ShowPages DEF TypeOK
  <2>2. Alone(w) /\ Quiet(w) /\ RequestOK(w)' /\ pc'[w] = "respond"
        BY <1>3, <1>5, <2>1 DEF Show, Goto
  <2> QED BY <1>5, <2>1, <2>2, QuietStep
<1>6. CASE LoginError(w) /\ UNCHANGED <<entered, opened>>
      BY <1>3, <1>6, ErrorPages, QuietStep
<1> QED BY <1>4, <1>5, <1>6 DEF GenerateServiceTicket

LEMMA SubmitStep ==
    ASSUME Inv, NEW w \in Window, Submit(w)
    PROVE  Inv'
<1> USE DEF Inv
<1>1. pc[w] = "idle" /\ UNCHANGED <<cookie, sessions, history>>
      BY DEF Submit
<1>2. req[w].tgt = None /\ req[w].send = "nothing" /\ Len(shown[w]) \in Nat
      BY <1>1 DEF SessionInv, RequestInv, RequestOK, TypeOK
<1>3. PICK page \in DOMAIN shown[w], lt \in provided \cup {None} :
        \/ /\ lt = shown[w][page]
           /\ req' = [req EXCEPT ![w].lt = lt, ![w].seen = Len(shown[w])]
           /\ Goto(w, "renew") \/ Goto(w, "create")
           /\ UNCHANGED <<pages, provided>>
        \/ /\ LoginError(w)
           /\ req' = [req EXCEPT ![w].seen = Len(shown[w])]
      BY DEF Submit
<1>4. /\ req' \in [Window -> Requests] /\ \A v \in Window \ {w} : req'[v] = req[v]
      /\ req'[w].tgt = req[w].tgt /\ req'[w].send = req[w].send /\ req'[w].old = req[w].old
  <2>1. CASE req' = [req EXCEPT ![w].lt = lt, ![w].seen = Len(shown[w])]
    <3>1. lt \in LT \cup {None}
          BY DEF TypeOK
    <3> QED BY <1>2, <2>1, <3>1 DEF TypeOK, Requests
  <2>2. CASE req' = [req EXCEPT ![w].seen = Len(shown[w])]
        BY <1>2, <2>2 DEF TypeOK, Requests
  <2> QED BY <1>3, <2>1, <2>2
<1>5. /\ Alone(w) /\ Pages(w) /\ pc'[w] \in {"renew", "create", "respond"}
  <2>1. CASE LoginError(w)
    <3>1. Pages(w) /\ Goto(w, "respond")
          BY <2>1, ErrorPages DEF Goto
    <3> QED BY <1>4, <3>1, GotoControl DEF Labels
  <2>2. CASE (Goto(w, "renew") \/ Goto(w, "create")) /\ UNCHANGED <<pages, provided>>
        BY <1>4, <2>2, GotoControl, SamePages DEF Labels
  <2> QED BY <1>3, <2>1, <2>2
<1>6. Quiet(w)
      BY <1>1, <1>2, <1>4, <1>5 DEF Quiet, sessions, history
<1>7. RequestOK(w)'
      BY <1>1, <1>2, <1>4, <1>5 DEF SessionInv, RequestInv, RequestOK, Pages, sessions
<1>8. \A l \in LT : req'[w].lt = l /\ pc'[w] # "respond" => Has(w, l)
  <2>1. CASE LoginError(w)
        BY <2>1, ErrorPages DEF TypeOK
  <2>2. CASE lt = shown[w][page] /\ req' = [req EXCEPT ![w].lt = lt, ![w].seen = Len(shown[w])]
    <3>1. req'[w].lt = lt
          BY <2>2 DEF TypeOK
    <3> QED BY <2>2, <3>1 DEF Has
  <2> QED BY <1>3, <2>1, <2>2
<1> QED BY <1>1, <1>5, <1>6, <1>7, <1>8, QuietStep DEF history

LEMMA RenewStep ==
    ASSUME Inv, NEW w \in Window, Renew(w)
    PROVE  Inv'
<1> DEFINE t == flow[w].tgt
<1> USE DEF Inv
<1>1. pc[w] = "renew" /\ UNCHANGED <<cookie, sessions, req, dropped, refused, opened>>
      BY DEF Renew
<1>2. req[w].tgt = None /\ req[w].send = "nothing"
      BY <1>1 DEF SessionInv, RequestInv, RequestOK
<1>3. /\ Goto(w, "respond") \/ Goto(w, "destroyOther")
      /\ Pages(w)
      /\ entered' = entered \/ (t \in live /\ entered' = entered \cup {t})
  <2>1. CASE /\ t \in live /\ End(w) /\ UNCHANGED provided
             /\ entered' = entered \cup {t} \/ UNCHANGED entered
        BY <2>1, EndPages DEF End
  <2>2. CASE LoginError(w) /\ UNCHANGED entered
        BY <2>2, ErrorPages DEF Goto
  <2>3. CASE Goto(w, "destroyOther") /\ UNCHANGED <<pages, entered, provided>>
        BY <2>3, SamePages
  <2> QED BY <2>1, <2>2, <2>3 DEF Renew
<1>4. Alone(w) /\ pc'[w] \in {"respond", "destroyOther"}
      BY <1>1, <1>3, GotoControl DEF Labels
<1>5. Quiet(w)
      BY <1>1, <1>2, <1>3, <1>4 DEF Quiet, sessions
<1>6. RequestOK(w)'
      BY <1>1, <1>2, <1>3, <1>4 DEF SessionInv, RequestInv, RequestOK, Pages, sessions
<1> QED BY <1>1, <1>3, <1>4, <1>5, <1>6, QuietStep DEF Has

LEMMA DestroyOtherStep ==
    ASSUME Inv, NEW w \in Window, DestroyOther(w)
    PROVE  Inv'
<1> USE DEF Inv
<1>1. /\ pc[w] = "destroyOther" /\ live' \subseteq live /\ Goto(w, "create")
      /\ UNCHANGED <<cookie, issued, provided, pages, req, history>>
      BY DEF DestroyOther
<1>2. Alone(w) /\ pc'[w] = "create" /\ Pages(w)
      BY <1>1, GotoControl, SamePages DEF Labels
<1>3. req[w].tgt = None /\ req[w].send = "nothing"
      BY <1>1 DEF SessionInv, RequestInv, RequestOK
<1>4. Quiet(w)
      BY <1>1, <1>2, <1>3 DEF Quiet, history
<1>5. RequestOK(w)'
      BY <1>1, <1>2, <1>3 DEF SessionInv, RequestInv, RequestOK, pages
<1> QED BY <1>1, <1>2, <1>4, <1>5, QuietStep DEF Has, history

LEMMA CreateStep ==
    ASSUME Inv, NEW w \in Window, Create(w)
    PROVE  Inv'
<1> USE DEF Inv
<1>1. pc[w] = "create" /\ UNCHANGED <<cookie, history>>
      BY DEF Create
<1>2. req[w].tgt = None /\ req[w].send = "nothing"
      BY <1>1 DEF SessionInv, RequestInv, RequestOK
<1>3. CASE LoginError(w) /\ UNCHANGED <<sessions, req>>
  <2>1. Pages(w) /\ Alone(w) /\ pc'[w] = "respond"
        BY <1>3, ErrorPages, GotoControl DEF Goto, Labels
  <2>2. Quiet(w) /\ RequestOK(w)'
        BY <1>1, <1>2, <1>3, <2>1
        DEF Quiet, SessionInv, RequestInv, RequestOK, Pages, sessions, history
  <2> QED BY <1>1, <1>3, <2>1, <2>2, QuietStep DEF history
<1>4. ASSUME NEW t \in TGT \ issued,
             issued' = issued \cup {t}, live' = live \cup {t},
             req' = [req EXCEPT ![w].tgt = t],
             Goto(w, "captcha"), UNCHANGED <<pages, provided>>
      PROVE  Inv'
  <2>1. /\ req' \in [Window -> Requests]
        /\ req'[w].tgt = t /\ req'[w].lt = req[w].lt /\ req'[w].send = "nothing"
        /\ req'[w].old = req[w].old
        /\ \A v \in Window \ {w} : req'[v] = req[v]
        BY <1>2, <1>4 DEF TypeOK, Requests, Ids
  <2>2. Alone(w) /\ pc'[w] = "captcha" /\ Pages(w)
        BY <1>4, <2>1, GotoControl, SamePages DEF Labels
  <2>3. TypeOK'
        BY <1>1, <1>4, <2>2 DEF TypeOK, Pages, Alone, Flows, Labels, Requests, history
  <2>4. t # None /\ t \notin issued
        BY <1>4, LoginAssumption
  <2>5. /\ cookie # t /\ t \notin live /\ t \notin entered /\ t \notin refused
        /\ \A v \in Window : flow[v].tgt # t /\ req[v].tgt # t /\ req[v].old # t
        BY <2>4 DEF SessionInv, RequestInv, RequestOK, TypeOK
  <2>6. RequestInv'
    <3>1. \A v \in Window : RequestOK(v)
          BY DEF SessionInv, RequestInv
    <3>2. \A v \in Window \ {w} : RequestOK(v)'
          BY <1>4, <2>2, <3>1 DEF RequestOK, Alone, pages
    <3>3. RequestOK(w)'
          BY <1>4, <2>1, <2>2, <2>4, <3>1 DEF RequestOK, pages
    <3> QED BY <1>1, <1>4, <3>2, <3>3 DEF SessionInv, RequestInv
  <2>7. SecretInv'
        BY <1>1, <1>2, <1>4, <2>1, <2>5 DEF SessionInv, SecretInv, pages
  <2>8. OldInv'
        BY <1>4, <2>1, <2>5 DEF SessionInv, OldInv
  <2>9. RefusedInv'
        BY <1>1, <1>4, <2>1, <2>2, <2>5 DEF SessionInv, RefusedInv, Alone, pages, history
  <2>10. NoOtherOrphans'
        BY <1>1, <1>2, <1>4, <2>1, LoginAssumption DEF SessionInv, NoOtherOrphans, history, TypeOK
  <2>11. LoginTicketInv'
        BY <1>1, <2>1, <2>2, TicketsQuiet DEF Has, history
  <2> QED BY <2>3, <2>6, <2>7, <2>8, <2>9, <2>10, <2>11 DEF SessionInv
<1> QED BY <1>3, <1>4 DEF Create

LEMMA CaptchaStep ==
    ASSUME Inv, NEW w \in Window, Captcha(w)
    PROVE  Inv'
<1> DEFINE t == req[w].tgt
<1> USE DEF Inv
<1>1. pc[w] = "captcha" /\ UNCHANGED <<cookie, sessions>>
      BY DEF Captcha
<1>2. t # None /\ t \in issued /\ req[w].send = "nothing" /\ t \notin entered
      BY <1>1 DEF SessionInv, RequestInv, RequestOK, RefusedInv
<1>3. CASE Goto(w, "send") /\ UNCHANGED <<pages, provided, req, history>>
  <2>1. Pages(w) /\ Alone(w) /\ pc'[w] = "send"
        BY <1>3, SamePages, GotoControl DEF Labels
  <2>2. Quiet(w) /\ RequestOK(w)'
        BY <1>1, <1>2, <1>3, <2>1
        DEF Quiet, SessionInv, RequestInv, RequestOK, Pages, sessions, history
  <2> QED BY <1>1, <1>3, <2>1, <2>2, QuietStep DEF Has, history
<1>4. CASE /\ LoginError(w)
           /\ refused' = refused \cup {t} /\ dropped' = dropped \cup {t}
           /\ req' = [req EXCEPT ![w].tgt = None]
           /\ UNCHANGED <<entered, opened>>
  <2>1. /\ req' \in [Window -> Requests]
        /\ req'[w].tgt = None /\ req'[w].send = "nothing" /\ req'[w].old = req[w].old
        /\ \A v \in Window \ {w} : req'[v] = req[v]
        BY <1>2, <1>4 DEF TypeOK, Requests, Ids
  <2>2. Alone(w) /\ pc'[w] = "respond" /\ Pages(w)
        BY <1>4, <2>1, ErrorPages, GotoControl DEF Goto, Labels
  <2>3. TypeOK'
        BY <1>1, <1>2, <1>4, <2>2 DEF TypeOK, Pages, Alone, Flows, Labels, Requests, sessions
  <2>4. RequestInv'
    <3>1. \A v \in Window : RequestOK(v)
          BY DEF SessionInv, RequestInv
    <3>2. \A v \in Window \ {w} : RequestOK(v)'
          BY <1>1, <2>2, <3>1 DEF RequestOK, Alone, Pages, sessions, SessionInv, RequestInv
    <3>3. RequestOK(w)'
          BY <1>1, <2>1, <2>2, <3>1 DEF RequestOK, Pages, sessions, SessionInv, RequestInv
    <3> QED BY <1>1, <3>2, <3>3 DEF SessionInv, RequestInv, sessions
  <2>5. SecretInv'
    <3> SUFFICES ASSUME NEW u \in Window, req'[u].tgt # None
                 PROVE  /\ cookie # req'[u].tgt
                        /\ \A v \in Window : flow'[v].tgt # req'[u].tgt
                        /\ \A v \in Window \ {u} : req'[v].tgt # req'[u].tgt
        BY <1>1 DEF SecretInv
    <3>1. u # w /\ req'[u].tgt = req[u].tgt
          BY <2>1
    <3>2. \A v \in Window : flow'[v].tgt \in {flow[v].tgt, cookie, None}
          BY <2>2 DEF Pages
    <3> QED BY <2>1, <3>1, <3>2 DEF SessionInv, SecretInv
  <2>6. OldInv'
        BY <1>1, <2>1 DEF SessionInv, OldInv, sessions
  <2>7. RefusedInv'
    <3>1. \A v \in Window : flow'[v].tgt \in {flow[v].tgt, cookie, None}
          BY <2>2 DEF Pages
    <3>2. /\ t # cookie /\ t \notin entered
          /\ \A v \in Window : flow'[v].tgt # t /\ req'[v].tgt # t
          BY <1>2, <2>1, <3>1 DEF SessionInv, SecretInv
    <3>3. None \notin refused
          BY LoginAssumption DEF TypeOK
    <3>4. \A x \in refused :
            /\ x # cookie /\ x \notin entered
            /\ \A v \in Window : flow'[v].tgt # x /\ req'[v].tgt # x
          BY <2>1, <3>1, <3>3 DEF SessionInv, RefusedInv
    <3>5. \A v \in Window : pc'[v] = "captcha" => req'[v].tgt \notin entered
          BY <2>2 DEF SessionInv, RefusedInv, Alone
    <3> QED BY <1>1, <1>4, <3>2, <3>4, <3>5 DEF RefusedInv
  <2>8. NoOtherOrphans'
        BY <1>1, <1>4, <2>1 DEF SessionInv, NoOtherOrphans, sessions
  <2>9. LoginTicketInv'
        BY <1>4, <2>1, <2>2, TicketsQuiet
  <2> QED BY <2>3, <2>4, <2>5, <2>6, <2>7, <2>8, <2>9 DEF SessionInv
<1> QED BY <1>3, <1>4 DEF Captcha

LEMMA SendStep ==
    ASSUME Inv, NEW w \in Window, SendTicketGrantingTicket(w)
    PROVE  Inv'
<1> DEFINE t == req[w].tgt
<1> USE DEF Inv
<1>1. /\ pc[w] = "send"
      /\ req' = [req EXCEPT ![w].send = "cookie", ![w].old = flow[w].tgt]
      /\ live' = live \ ({flow[w].tgt} \ {t})
      /\ UNCHANGED <<cookie, issued, provided, dropped, refused, entered>>
      BY DEF SendTicketGrantingTicket
<1>2. t # None /\ flow[w].tgt # t /\ flow[w].tgt \in issued \cup {None} /\ t \in issued
      BY <1>1 DEF SessionInv, RequestInv, RequestOK, SecretInv
<1>3. /\ req' \in [Window -> Requests]
      /\ req'[w].tgt = t /\ req'[w].send = "cookie" /\ req'[w].old = flow[w].tgt
      /\ req'[w].lt = req[w].lt
      /\ \A v \in Window \ {w} : req'[v] = req[v]
      BY <1>1, <1>2 DEF TypeOK, Requests, Ids
<1>4. ASSUME Pages(w), Goto(w, "respond") \/ Goto(w, "generateServiceTicket")
      PROVE  Alone(w) /\ Quiet(w) /\ RequestOK(w)' /\ pc'[w] # "idle"
  <2>1. Alone(w) /\ pc'[w] \in {"respond", "generateServiceTicket"}
        BY <1>3, <1>4, GotoControl DEF Labels
  <2>2. Quiet(w)
        BY <1>1, <1>2, <1>3, <2>1 DEF Quiet
  <2>3. RequestOK(w)'
        BY <1>1, <1>2, <1>3, <1>4, <2>1 DEF SessionInv, RequestInv, RequestOK, Pages
  <2> QED BY <2>1, <2>2, <2>3
<1>5. CASE Goto(w, "generateServiceTicket") /\ UNCHANGED <<pages, opened>>
  <2>1. Pages(w)
        BY <1>1, <1>5, SamePages
  <2>2. Alone(w) /\ Quiet(w) /\ RequestOK(w)'
        BY <1>4, <1>5, <2>1
  <2> QED BY <1>1, <1>3, <1>5, <2>1, <2>2, QuietStep DEF Has
<1>6. CASE End(w) /\ opened' = Opened(w)
  <2>1. Pages(w)
        BY <1>1, <1>6, EndPages
  <2>2. Alone(w) /\ Quiet(w) /\ RequestOK(w)'
        BY <1>4, <1>6, <2>1 DEF End
  <2>3. LoginTicketInv' /\ opened' \in [LT -> Nat]
        BY <1>1, <1>3, <1>6, TicketsOpened
  <2>4. TypeOK' /\ SessionInv'
        BY <2>1, <2>2, <2>3, TypeQuiet, SessionsQuiet
  <2> QED BY <2>3, <2>4
<1> QED BY <1>5, <1>6 DEF SendTicketGrantingTicket

LEMMA LogoutSteps ==
    ASSUME Inv, NEW w \in Window,
           Logout(w) \/ LogoutFails(w) \/ DestroyTicketGrantingTicket(w)
    PROVE  Inv'
<1> USE DEF Inv
<1>1. /\ pc[w] \in {"idle", "logout"}
      /\ live' \subseteq live
      /\ UNCHANGED <<cookie, issued, provided, pages, history>>
      /\ Goto(w, "logout") \/ Goto(w, "respond")
      BY DEF Logout, LogoutFails, DestroyTicketGrantingTicket, sessions
<1>2. req[w].tgt = None /\ req[w].send = "nothing" /\ Len(shown[w]) \in Nat
      BY <1>1 DEF SessionInv, RequestInv, RequestOK, TypeOK
<1>3. /\ req' \in [Window -> Requests] /\ \A v \in Window \ {w} : req'[v] = req[v]
      /\ req'[w].tgt = None /\ req'[w].lt = req[w].lt
      /\ req'[w].old \in issued \cup {None}
      /\ \/ req'[w].send = "nothing"
         \/ req'[w].send = "removal" /\ req'[w].old \notin live' /\ Goto(w, "respond")
  <2>1. CASE Logout(w)
    <3>1. cookie \in issued
          BY <2>1 DEF Logout, SessionInv, RequestInv
    <3>2. /\ req' = [req EXCEPT ![w].old = cookie, ![w].seen = Len(shown[w])]
          /\ req \in [Window -> Requests] /\ cookie \in Ids
          BY <2>1 DEF Logout, TypeOK, Requests
    <3>3. req' \in [Window -> Requests] /\ \A v \in Window \ {w} : req'[v] = req[v]
          BY <1>2, <3>2 DEF Requests
    <3> QED BY <1>2, <3>1, <3>2, <3>3 DEF Requests
  <2>2. CASE LogoutFails(w)
        BY <1>2, <2>2 DEF LogoutFails, TypeOK, Requests, SessionInv, RequestInv, RequestOK
  <2>3. CASE DestroyTicketGrantingTicket(w)
        BY <1>2, <2>3
        DEF DestroyTicketGrantingTicket, TypeOK, Requests, SessionInv, RequestInv, RequestOK
  <2> QED BY <2>1, <2>2, <2>3
<1>4. Alone(w) /\ Pages(w) /\ pc'[w] \in {"logout", "respond"}
      /\ (Goto(w, "respond") => pc'[w] = "respond")
      BY <1>1, <1>3, GotoControl, SamePages DEF Labels
<1>5. Quiet(w)
      BY <1>1, <1>2, <1>3, <1>4 DEF Quiet, history
<1>6. RequestOK(w)'
      BY <1>1, <1>2, <1>3, <1>4 DEF SessionInv, RequestInv, RequestOK, Pages
<1> QED BY <1>1, <1>3, <1>4, <1>5, <1>6, QuietStep DEF Has, history

\* NoRequest takes the place of a request whose answer has been sent or lost.
LEMMA AnswerControl ==
    ASSUME TypeOK, NEW w \in Window, Goto(w, "idle"), req' = [req EXCEPT ![w] = NoRequest]
    PROVE  /\ Alone(w) /\ pc'[w] = "idle"
           /\ req'[w].tgt = None /\ req'[w].send = "nothing"
           /\ req'[w].old = None /\ req'[w].lt = None
<1>1. NoRequest \in Requests
      BY DEF NoRequest, Requests, Ids
<1>2. req' \in [Window -> Requests] /\ req'[w] = NoRequest
      /\ \A v \in Window \ {w} : req'[v] = req[v]
      BY <1>1 DEF TypeOK, Requests
<1> QED BY <1>2, GotoControl DEF Labels, NoRequest

LEMMA RespondStep ==
    ASSUME Inv, NEW w \in Window, Respond(w)
    PROVE  Inv'
<1> DEFINE r == req[w]
<1> USE DEF Inv
<1>1. /\ pc[w] = "respond"
      /\ dropped' = IF cookie' # cookie THEN dropped \cup ({cookie} \ {r.old, None}) ELSE dropped
      /\ req' = [req EXCEPT ![w] = NoRequest]
      /\ Goto(w, "idle")
      /\ UNCHANGED <<sessions, provided, pages, refused, entered, opened>>
      BY DEF Respond
<1>2. /\ r.tgt # None <=> r.send = "cookie"
      /\ r.send \in {"nothing", "cookie", "removal"}
      /\ r.tgt \in issued \cup {None} /\ r.old \in issued \cup {None}
      BY <1>1 DEF SessionInv, RequestInv, RequestOK, TypeOK
<1>3. \/ r.send = "nothing" /\ cookie' = cookie /\ r.tgt = None
      \/ r.send = "removal" /\ cookie' = None /\ r.tgt = None /\ r.old \notin live
      \/ r.send = "cookie" /\ cookie' = r.tgt /\ r.tgt # None /\ r.old \notin live
      BY <1>2 DEF Respond, SessionInv, OldInv
<1>4. /\ Alone(w) /\ pc'[w] = "idle" /\ Pages(w)
      /\ req'[w].tgt = None /\ req'[w].send = "nothing"
      /\ req'[w].old = None /\ req'[w].lt = None
      /\ \A v \in Window \ {w} : pc'[v] = pc[v] /\ req'[v] = req[v]
      BY <1>1, AnswerControl, SamePages DEF Alone
<1>5. cookie' \in issued \cup {None} /\ cookie \in issued \cup {None}
      BY <1>2, <1>3 DEF SessionInv, RequestInv
<1>6. dropped \subseteq dropped' /\ dropped' \subseteq issued
      BY <1>1, <1>5 DEF TypeOK
<1>7. TypeOK'
  <2>1. cookie' \in Ids
        BY <1>5 DEF Ids, TypeOK
  <2> QED BY <1>1, <1>4, <1>6, <2>1
          DEF TypeOK, Pages, Alone, Flows, Labels, Requests, sessions
<1>8. RequestInv'
  <2>1. \A v \in Window : RequestOK(v)'
        BY <1>1, <1>4 DEF SessionInv, RequestInv, RequestOK, pages, sessions
  <2> QED BY <1>1, <1>5, <2>1 DEF RequestInv, sessions
<1>9. SecretInv'
      BY <1>1, <1>3, <1>4 DEF SessionInv, SecretInv, pages
<1>10. OldInv'
      BY <1>1, <1>4 DEF SessionInv, OldInv, sessions
<1>11. RefusedInv'
      BY <1>1, <1>3, <1>4, LoginAssumption DEF SessionInv, RefusedInv, pages, TypeOK
<1>12. NoOtherOrphans'
  <2>1. ASSUME NEW t \in live, t = cookie, cookie' # cookie PROVE t \in dropped'
    <3>1. t # None /\ t # r.old
          BY <1>3, <2>1, LoginAssumption DEF TypeOK
    <3> QED BY <1>1, <2>1, <3>1
  <2>2. ASSUME NEW t \in live, NEW v \in Window, t = req[v].tgt
        PROVE  t = cookie' \/ \E u \in Window : t = req'[u].tgt
    <3>1. t # None
          BY LoginAssumption DEF TypeOK
    <3> QED BY <1>3, <1>4, <2>2, <3>1
  <2> QED BY <1>1, <1>6, <2>1, <2>2 DEF SessionInv, NoOtherOrphans, sessions
<1>13. LoginTicketInv'
      BY <1>1, <1>4, LoginAssumption, TicketsQuiet
<1> QED BY <1>7, <1>8, <1>9, <1>10, <1>11, <1>12, <1>13 DEF SessionInv

LEMMA ResponseLostStep ==
    ASSUME Inv, NEW w \in Window, ResponseLost(w)
    PROVE  Inv'
<1> DEFINE r == req[w]
<1> USE DEF Inv
<1>1. /\ pc[w] = "respond"
      /\ dropped' = IF r.send = "cookie" THEN dropped \cup {r.tgt} ELSE dropped
      /\ shown' = [shown EXCEPT ![w] = IF Len(@) > r.seen THEN SubSeq(@, 1, r.seen) ELSE @]
      /\ req' = [req EXCEPT ![w] = NoRequest]
      /\ Goto(w, "idle")
      /\ UNCHANGED <<cookie, sessions, provided, flow, refused, entered, opened>>
      BY DEF ResponseLost
<1>2. (r.tgt # None <=> r.send = "cookie") /\ r.tgt \in issued \cup {None} /\ r.seen \in Nat
      BY <1>1 DEF SessionInv, RequestInv, RequestOK, TypeOK
<1>3. /\ Alone(w) /\ pc'[w] = "idle"
      /\ req'[w].tgt = None /\ req'[w].send = "nothing"
      /\ req'[w].old = None /\ req'[w].lt = None
      /\ \A v \in Window \ {w} : pc'[v] = pc[v] /\ req'[v] = req[v]
      BY <1>1, AnswerControl DEF Alone
<1>4. Pages(w)
  <2> DEFINE s == shown[w]
             new == IF Len(s) > r.seen THEN SubSeq(s, 1, r.seen) ELSE s
  <2>1. s \in Seq(LT \cup {None}) /\ Len(s) \in Nat /\ DOMAIN s = 1 .. Len(s)
        /\ Len(s) <= MaxSnapshots
        BY DEF TypeOK
  <2>2. /\ new \in Seq(LT \cup {None}) /\ Len(new) <= Len(s)
        /\ \A i \in DOMAIN new : i \in DOMAIN s /\ new[i] = s[i]
    <3>1. CASE Len(s) > r.seen
      <4>1. \A i \in 1 .. r.seen : s[i] \in LT \cup {None} /\ i \in DOMAIN s
            BY <1>2, <2>1, <3>1
      <4>2. /\ SubSeq(s, 1, r.seen) \in Seq(LT \cup {None})
            /\ Len(SubSeq(s, 1, r.seen)) = (IF 1 <= r.seen THEN r.seen - 1 + 1 ELSE 0)
            /\ \A i \in 1 .. r.seen - 1 + 1 : SubSeq(s, 1, r.seen)[i] = s[1 + i - 1]
            BY <1>2, <4>1, SubSeqProperties
      <4>3. DOMAIN SubSeq(s, 1, r.seen) = 1 .. r.seen
            BY <1>2, <4>2
      <4> QED BY <1>2, <2>1, <3>1, <4>1, <4>2, <4>3
    <3>2. CASE ~(Len(s) > r.seen)
          BY <2>1, <3>2
    <3> QED BY <3>1, <3>2
  <2> HIDE DEF new
  <2>3. shown' = [shown EXCEPT ![w] = new]
        BY <1>1 DEF new
  <2>4. /\ shown' \in [Window -> Seq(LT \cup {None})] /\ shown'[w] = new
        /\ \A v \in Window \ {w} : shown'[v] = shown[v]
        BY <2>2, <2>3 DEF TypeOK
  <2>5. ASSUME NEW v \in Window PROVE Len(shown'[v]) <= MaxSnapshots
    <3>1. CASE v = w
      <4>1. Len(new) \in Nat
            BY <2>2
      <4> QED BY <2>1, <2>2, <2>4, <3>1, <4>1, LoginAssumption
    <3>2. CASE v # w
          BY <2>4, <3>2 DEF TypeOK
    <3> QED BY <3>1, <3>2
  <2>6. /\ flow' \in [Window -> Flows] /\ flow' = flow
        /\ provided' = provided /\ provided \subseteq LT
        BY <1>1 DEF TypeOK, Flows
  <2> QED BY <2>2, <2>4, <2>5, <2>6 DEF Pages
<1>5. dropped \subseteq dropped' /\ dropped' \subseteq issued
      BY <1>1, <1>2 DEF TypeOK
<1>6. TypeOK'
      BY <1>1, <1>3, <1>4, <1>5 DEF TypeOK, Pages, Alone, Flows, Labels, Requests, sessions
<1>7. RequestInv'
  <2>1. \A v \in Window : RequestOK(v)'
        BY <1>1, <1>3 DEF SessionInv, RequestInv, RequestOK, sessions
  <2> QED BY <1>1, <2>1 DEF SessionInv, RequestInv, sessions
<1>8. SecretInv' /\ OldInv'
      BY <1>1, <1>3 DEF SessionInv, SecretInv, OldInv, sessions
<1>9. RefusedInv'
      BY <1>1, <1>3, LoginAssumption DEF SessionInv, RefusedInv, TypeOK
<1>10. NoOtherOrphans'
  <2>1. ASSUME NEW t \in live, NEW v \in Window, t = req[v].tgt
        PROVE  t \in dropped' \/ \E u \in Window : t = req'[u].tgt
    <3>1. t # None
          BY LoginAssumption DEF TypeOK
    <3> QED BY <1>1, <1>2, <1>3, <2>1, <3>1
  <2> QED BY <1>1, <1>5, <2>1 DEF SessionInv, NoOtherOrphans, sessions
<1>11. LoginTicketInv'
      BY <1>1, <1>3, <1>4, LoginAssumption, TicketsQuiet
<1> QED BY <1>6, <1>7, <1>8, <1>9, <1>10, <1>11 DEF SessionInv

LEMMA SessionEndsStep ==
    ASSUME Inv, NEW t \in TGT, SessionEnds(t)
    PROVE  Inv'
<1> USE DEF Inv
<1>1. live' \subseteq live
      /\ UNCHANGED <<cookie, issued, provided, pages, pc, req, history>>
      BY DEF SessionEnds
<1>2. TypeOK'
      BY <1>1 DEF TypeOK, pages, history
<1>3. RequestInv' /\ SecretInv' /\ OldInv' /\ RefusedInv'
      BY <1>1 DEF SessionInv, RequestInv, RequestOK, SecretInv, OldInv, RefusedInv, pages, history
<1>4. NoOtherOrphans'
      BY <1>1 DEF SessionInv, NoOtherOrphans, history
<1>5. LoginTicketInv'
      BY <1>1 DEF LoginTicketInv, Has, pages, history
<1> QED BY <1>2, <1>3, <1>4, <1>5 DEF SessionInv

-----------------------------------------------------------------------------
LEMMA InvInit == Init => Inv
<1> SUFFICES ASSUME Init PROVE Inv
    OBVIOUS
<1>1. <<>> \in Seq(LT \cup {None}) /\ Len(<<>>) = 0 /\ DOMAIN <<>> = {}
      OBVIOUS
<1>2. TypeOK
      BY <1>1, LoginAssumption DEF Init, TypeOK, Ended, NoRequest, Ids
<1>3. RequestInv /\ SecretInv /\ OldInv
      BY DEF Init, RequestInv, RequestOK, SecretInv, OldInv, Ended, NoRequest
<1>4. RefusedInv /\ NoOtherOrphans
      BY DEF Init, RefusedInv, NoOtherOrphans
<1>5. LoginTicketInv
      BY <1>1, LoginAssumption DEF Init, LoginTicketInv, Has, NoRequest
<1> QED BY <1>2, <1>3, <1>4, <1>5 DEF Inv, SessionInv

LEMMA InvStep == Inv /\ [Next]_vars => Inv'
<1> SUFFICES ASSUME Inv, [Next]_vars PROVE Inv'
    OBVIOUS
<1>1. ASSUME NEW w \in Window, Request(w) \/ Proceed(w) PROVE Inv'
      BY <1>1, StartStep, SubmitStep, GenerateStep, RenewStep, DestroyOtherStep,
         CreateStep, CaptchaStep, SendStep, LogoutSteps, RespondStep, ResponseLostStep
      DEF Request, Proceed
<1>2. CASE UNCHANGED vars
      BY <1>2 DEF vars, sessions, pages, history, Inv, TypeOK, SessionInv, RequestInv,
                  RequestOK, SecretInv, OldInv, RefusedInv, NoOtherOrphans,
                  LoginTicketInv, Has
<1> QED BY <1>1, <1>2, SessionEndsStep DEF Next

LEMMA Invariant == Spec => []Inv
BY InvInit, InvStep, PTL DEF Spec

-----------------------------------------------------------------------------
\* Every variable keeps its type.
THEOREM LoginTypeCorrect == Spec => []TypeOK
BY Invariant, PTL DEF Inv

\* A session is live without a cookie, or a request that will send one, only if
\* its captcha was wrong, its cookie was lost, or an answer to a request from
\* before it overwrote the cookie (SendTicketGrantingTicketAction, LogoutController).
THEOREM NoOrphansButTheDropped == Spec => []NoOtherOrphans
BY Invariant, PTL DEF Inv, SessionInv

\* The session behind a wrong captcha is never entered, and its cookie is never
\* sent: its id is in the scope of one request only.
THEOREM WrongCaptchaOpensNothing == Spec => []CaptchaGuardsSession
<1>1. Inv => CaptchaGuardsSession
      BY DEF Inv, SessionInv, RefusedInv, CaptchaGuardsSession
<1> QED BY <1>1, Invariant, PTL

\* A login ticket is good for one login, whatever pages are gone back to.
THEOREM LoginTicketsAreUsedOnce == Spec => []OneLoginPerTicket
<1>1. Inv => OneLoginPerTicket
      BY DEF Inv, LoginTicketInv, OneLoginPerTicket
<1> QED BY <1>1, Invariant, PTL
=============================================================================
