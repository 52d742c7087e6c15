-------------------------- MODULE InOrderDelivery --------------------------
(***************************************************************************)
(* What a receiver promises about the order of one sender's messages: the  *)
(* sequence numbers start at 1, and the receiver has handed to the         *)
(* application exactly the longest gap-free prefix of the numbers that     *)
(* arrived since the connection was last established.  Nothing is said     *)
(* about how the messages behind a gap are kept.                           *)
(*                                                                         *)
(* SequenceTracker implements this specification.                          *)
(***************************************************************************)
EXTENDS Naturals

CONSTANTS
  Peers,    \* the senders
  MaxSeq    \* the largest sequence number (u64::MAX in the program)

VARIABLES
  arrived,  \* arrived[p]: the numbers received from p in the current epoch
  handed    \* handed[p]: every message up to this number has been handed over

vars == <<arrived, handed>>

\* The end of the longest gap-free prefix 1, 2, ... contained in S.
PrefixEnd(S) == CHOOSE n \in 0..MaxSeq : 1..n \subseteq S /\ n + 1 \notin S

Init ==
  /\ arrived = [p \in Peers |-> {}]
  /\ handed = [p \in Peers |-> 0]

Arrive(p, s) ==
  /\ arrived' = [arrived EXCEPT ![p] = @ \cup {s}]
  /\ handed' = [handed EXCEPT ![p] = PrefixEnd(arrived'[p])]

\* A new connection starts a new epoch: its numbers start at 1 again.
NewEpoch(p) ==
  /\ arrived' = [arrived EXCEPT ![p] = {}]
  /\ handed' = [handed EXCEPT ![p] = 0]

Next ==
  \E p \in Peers :
    \/ \E s \in 1..MaxSeq : Arrive(p, s)
    \/ NewEpoch(p)

Spec == Init /\ [][Next]_vars

=============================================================================
