------------------------------ MODULE MCParts ------------------------------
(* Three parts of the program that share no state are checked in one run: the
   interactive programs at a terminal, the commands with a swarm of their own,
   and the reassembly of fragments.  A behaviour is of one part, the others
   stay where they are. *)
EXTENDS Terminal, ClientCommands, Fragments

CONSTANT Parts

VARIABLE part

vars == <<part, terminal, client, fragments>>

\* Other terminals leave the directory empty or torn, with a post that is cut
\* inside a character below the first one, or with fewer contacts.
MCDirectories ==
    {Empty,
     [contacts |-> 2, timeline |-> <<"cut", "fits">>],
     [contacts |-> 1, timeline |-> <<"fits", "fits">>]}

Message(from, id, bytes) == [from |-> from, id |-> id, bytes |-> bytes]

\* Two senders with the same identity, a message that needs no cut, messages
\* with a cut inside and between characters; and one identity given to two
\* messages of different sizes.
MCMailbags ==
    {{Message("ann", 1, <<"one", "lead", "tail", "one">>),
      Message("ann", 2, <<"one", "one">>),
      Message("bob", 1, <<"lead", "tail", "lead", "tail", "one">>)},
     {Message("bob", 2, <<"one", "one", "one">>),
      Message("bob", 2, <<"lead", "tail", "one", "one", "one">>)}}

NoCommand ==
    /\ command = "none" /\ drops = FALSE /\ at = "done" /\ rounds = 0 /\ due = FALSE
    /\ peer = [known |-> FALSE, link |-> "down", heard |-> FALSE]
    /\ requests = <<>> /\ report = Nothing

Init ==
    /\ part \in Parts
    /\ TerminalInit
    /\ IF part = "client" THEN ClientInit ELSE NoCommand
    /\ IF part = "fragments" THEN FragmentsInit
       ELSE mail = {} /\ sessions = <<>> /\ handed = {}

Next ==
    /\ \/ part = "terminal" /\ TerminalNext /\ UNCHANGED <<client, fragments>>
       \/ part = "client" /\ ClientNext /\ UNCHANGED <<terminal, fragments>>
       \/ part = "fragments" /\ FragmentsNext /\ UNCHANGED <<terminal, client>>
    /\ UNCHANGED part

Spec == Init /\ [][Next]_vars /\ ClientFairness

------------------------------------------------------------------------------
\* The state of each part has its type (TerminalTypeOK, ClientTypeOK).
PartsTypeOK == TerminalTypeOK /\ ClientTypeOK
=============================================================================
