----------------------------- MODULE UniqueIds -----------------------------
(***************************************************************************)
(* What the message ID generator promises to the rest of the system        *)
(* (package messageid: "one positive, globally unique, browser-safe        *)
(* message ID"), with nothing said about segments, rows, locks or crashes: *)
(* an instance hands out an ID that no instance has handed out before,     *)
(* that is larger than all of its own, and that no message stored before   *)
(* the allocator existed carries.  Between instances there is no order.    *)
(***************************************************************************)
EXTENDS Integers, Sequences

CONSTANTS
    Instances,   \* the application instances
    FirstID,     \* IDs below it belong to messages that predate the allocator
    MaxID        \* the largest ID a browser represents exactly

VARIABLE issued  \* issued[i]: the IDs instance i has handed out, in order

IssuedBy(i) == { issued[i][n] : n \in DOMAIN issued[i] }

Init == issued = [i \in Instances |-> <<>>]

Issue(i) ==
    \E id \in FirstID..MaxID :
        /\ \A j \in Instances : id \notin IssuedBy(j)
        /\ \A x \in IssuedBy(i) : x < id
        /\ issued' = [issued EXCEPT ![i] = Append(@, id)]

Next == \E i \in Instances : Issue(i)

Spec == Init /\ [][Next]_issued
=============================================================================
