---------------------------- MODULE MCServicesPage ----------------------------
\* Instances of ServicesPage for TLC.
EXTENDS ServicesPage

\* Three services, and a second version of the first.
Texts == {"mail", "mail, revised", "wiki", "forum"}
Ids   == [t \in Texts |-> IF t = "mail, revised" THEN "mail" ELSE t]
Names == [t \in Texts |-> CASE t \in {"mail", "mail, revised"} -> 2
                           [] t = "wiki" -> 3
                           [] t = "forum" -> 1]
\* A map that is iterated from the highest id down.
Backwards == [i \in IdSpace |-> HighestId(InitStore) + MaxChanges - i]

Orders == -1 .. 2

Three == << [id |-> 0, content |-> [text |-> "mail", order |-> 0]],
            [id |-> 1, content |-> [text |-> "wiki", order |-> 1]],
            [id |-> 2, content |-> [text |-> "forum", order |-> 1]] >>

ASSUME UndisturbedAdministrator == OneAdministrator
=============================================================================
