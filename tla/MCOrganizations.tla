---------------------------- MODULE MCOrganizations ----------------------------
(* A small instance of Organizations: three days, two monthly extracts.       *)
EXTENDS Organizations

CONSTANTS u1

Sundays == {1, 3}

\* The users are alike: the first point of contact may as well be u1.
InstanceInit == Init /\ \A e \in Entity : \A r \in registry[e] : r.poc = u1

Instance == InstanceInit /\ [][Next]_vars /\ WF_vars(Task)
================================================================================
