---------------------------- MODULE MCNodeStore ----------------------------
(* An application a1 whose image holds one value of the user's, a new         *)
(* application a2, two clients and two localizers: an application can be      *)
(* initialized again while its first localizer is still at work.              *)
EXTENDS NodeStore, TLC

CONSTANTS a1, a2, u1, k1, v1

\* The image of a1: the application's own entry, empty, and the user's, with v1.
Images ==
    [a \in Apps |->
        IF a = a1
        THEN [EmptyTable EXCEPT
                  ![a1] = NewEntry(EmptyData),
                  ![u1] = NewEntry([EmptyData EXCEPT
                                       ![k1] = [data |-> v1, write_time |-> 0]])]
        ELSE None]

Sent(type, o) ==
    [type |-> type, owner |-> o, key |-> k1, data |-> v1, perm |-> FALSE, write_time |-> 1]

\* What peers send: writes of the user and of the application, and a delete, a
\* truncate and a denial of the user's.
Changes ==
    {Sent("Write", u1), Sent("Write", a1), Sent("Delete", u1), Sent("Truncate", u1),
     Sent("Access", u1)}

\* Three commands, or two beside an upload or a gossiped change.
FewAtWork == ops + others <= 3
=============================================================================
