------------------------------ MODULE MCServices ------------------------------
\* Instances of ServicesManager for TLC.
EXTENDS ServicesManager

\* Two versions of one service, and another one.
Texts == {"mail", "mail, revised", "wiki"}
Ids   == [t \in Texts |-> IF t = "wiki" THEN "wiki" ELSE "mail"]
Names == [t \in Texts |-> IF t = "wiki" THEN 2 ELSE 1]

\* A map that is iterated from the highest id down.
Backwards == [i \in IdSpace |-> HighestId(InitStore) + MaxChanges - i]

Initially(t)  == [text |-> t, order |-> 0]
MailOnly == << [id |-> 0, content |-> Initially("mail")] >>
Both     == << [id |-> 0, content |-> Initially("mail")],
               [id |-> 1, content |-> Initially("wiki")] >>
=============================================================================
