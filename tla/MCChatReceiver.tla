--------------------------- MODULE MCChatReceiver ---------------------------
(* Bounded instance of ChatReceiver: two senders whose requests share the
   duplicate filter. *)
EXTENDS ChatReceiver

CONSTANTS p1, p2, a, b, c, d, e

MCPeers == {p1, p2}

MCMsgIds == {a, b, c, d, e}

Req(s, id) == [seq |-> s, msg_id |-> id]

\* An ad-hoc request (number 0), three consecutive ones, and a second message
\* under number 2, as a sender that restarted its counter produces it.
MCMessages == {Req(0, a), Req(1, b), Req(2, c), Req(2, d), Req(3, e)}

=============================================================================
