------------------------- MODULE ReceiverParameters -------------------------
(***************************************************************************)
(* The parameters of the receiving side: the chat requests that peers send *)
(* (ChatRequest in agent-circle-core/src/chat.rs) and the capacity of the  *)
(* duplicate filter.                                                       *)
(***************************************************************************)
EXTENDS Naturals

CONSTANTS
  Peers,      \* senders with an entry in the tracker
  Messages,   \* ChatRequests: records with at least the fields seq and msg_id
  MsgIds,     \* message identities (random u64 values in the program)
  MaxSeq,     \* the largest sequence number (u64::MAX in the program)
  MaxTracked  \* MAX_TRACKED, the capacity of the duplicate filter

ASSUME SeqAssumption ==
  /\ MaxSeq \in Nat
  /\ \A m \in Messages : m.seq \in 0..MaxSeq

ASSUME DedupAssumption ==
  /\ MaxTracked \in Nat \ {0}
  /\ \A m \in Messages : m.msg_id \in MsgIds

=============================================================================
