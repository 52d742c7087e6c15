--------------------------- MODULE MCSenderDaemon ---------------------------
(* Bounded instances of SenderDaemon: one or two recipients, a message that
   never expires and one that does, or two that never expire and are alike. *)
EXTENDS SenderDaemon, TLC

CONSTANTS p1, p2, x, y

MCPeers == {p1, p2}
MCContents == {x, y}
MCAddressee == [c \in Contents |-> p1]
MCDeadline == [c \in Contents |-> IF c = x THEN Forever ELSE 1]
MCNever == [c \in Contents |-> Forever]
OneContent == {y}

\* Two messages to one recipient under one deadline can change places.
Alike == Permutations(MCContents)

=============================================================================
