----------------------------- MODULE MCDelivery -----------------------------
(* Bounded instances of Delivery: two messages for one recipient, or one for
   each of two recipients; no message expires. *)
EXTENDS Delivery

CONSTANTS p1, p2, x, y

OneRecipient == {p1}
TwoRecipients == {p1, p2}
MCContents == {x, y}
MCAddressee == [c \in Contents |-> IF c = y /\ p2 \in Peers THEN p2 ELSE p1]
MCDeadline == [c \in Contents |-> Forever]

\* At most four disturbances in one behaviour: any two kinds meet.
FewDisturbances == connections + crashes + failures + restarts <= 4

=============================================================================
