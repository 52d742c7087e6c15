--------------------------- MODULE ClientCommands ---------------------------
(* main.rs: the commands that open a swarm of their own, `chat send` with and
   without tracking, `chat pressure-test`, `group join`, `group send` and
   `doctor --remote`.  A swarm moves only while it is polled: a request is
   queued, leaves over a connection, is answered by the peer, and the answer
   reaches the command as an event. *)
EXTENDS Naturals, Sequences, FiniteSets

CONSTANTS
    Commands,       \* "send", "track", "pressure", "join", "group", "doctor"
    Rounds,         \* 5: rounds of discovery
    PressureRounds, \* 8
    Count           \* --count of the pressure test

ASSUME ClientAssumption ==
    /\ Commands \subseteq {"send", "track", "pressure", "join", "group", "doctor"}
    /\ Rounds \in Nat \ {0} /\ PressureRounds \in Nat \ {0}
    /\ Count \in Nat \ {0}

VARIABLES
    command,
    drops,     \* --drop-rate is not zero
    at,        \* where the command is
    rounds,    \* of discovery so far
    due,       \* the deadline has passed
    peer,      \* what the swarm knows of the peer: [known, link, heard]
    requests,  \* "queued", "left", "handled", "answered" or "failed"
    report     \* what the command counts; early: time-outs at the head (ghost)

client == <<command, drops, at, rounds, due, peer, requests, report>>

Nothing == [delivered |-> {}, failed |-> {}, expired |-> 0, early |-> 0, dropped |-> 0]
Begins(c) == CASE c = "doctor" -> "select" [] c \in {"join", "group"} -> "mesh"
               [] OTHER -> "find"

ClientInit ==
    /\ command \in Commands /\ drops \in BOOLEAN
    /\ at = Begins(command) /\ rounds = 0 /\ due = FALSE
    /\ peer = [known |-> FALSE, link |-> "down", heard |-> FALSE]
    /\ requests = IF command = "doctor" THEN <<"queued">> ELSE <<>>
    /\ report = Nothing

current == Len(requests)
Polled == at \in {"find", "select", "mesh", "spread"}
Moves(i, from, to) == requests[i] = from /\ requests' = [requests EXCEPT ![i] = to]

\* A request to a peer without connection and address fails when polled.
Stranded == ~peer.known /\ peer.link = "down" /\ \E i \in DOMAIN requests : requests[i] = "queued"

\* What the peer may become with one event: an announcement on the local
\* network, a connection by either side, its end or the failure of the dial, a
\* subscription, or anything else.
PeerEvents ==
    IF Stranded THEN {}
    ELSE {peer, [peer EXCEPT !.known = TRUE], [peer EXCEPT !.link = "up"],
          [peer EXCEPT !.link = "down", !.heard = FALSE]}
         \union {p \in {[peer EXCEPT !.heard = TRUE]} : p.link = "up"}

\* Inside the swarm, without an event for the command.
Leaves(i) ==
    /\ Polled /\ peer.link = "up" /\ Moves(i, "queued", "left")
    /\ UNCHANGED <<command, drops, at, rounds, due, peer, report>>
Redials ==
    /\ Polled /\ peer.known /\ peer.link = "down"
    /\ \E i \in DOMAIN requests : requests[i] = "queued"
    /\ peer' = [peer EXCEPT !.link = "dialing"]
    /\ UNCHANGED <<command, drops, at, rounds, due, requests, report>>
PeerHandles(i) ==
    /\ at # "done" /\ Moves(i, "left", "handled")
    /\ UNCHANGED <<command, drops, at, rounds, due, peer, report>>

Clock ==
    /\ ~due /\ at \in {"head", "select", "mesh", "spread"} /\ due' = TRUE
    /\ UNCHANGED <<command, drops, at, rounds, peer, requests, report>>

RoundsOf == IF command = "pressure" THEN PressureRounds ELSE Rounds

\* One round: a second of sleep, then one event or a tenth of a second.
Find ==
    /\ at = "find" /\ rounds' = rounds + 1 /\ peer' \in PeerEvents
    /\ at' = IF peer'.link = "up" \/ rounds' = RoundsOf THEN "dial" ELSE "find"
    /\ UNCHANGED <<command, drops, due, requests, report>>

\* dial refuses a peer that is connected already or has no address; the two
\* seconds after it are slept, not polled.
Dial ==
    /\ at = "dial"
    /\ IF peer.known /\ peer.link = "down"
       THEN peer' = [peer EXCEPT !.link = "dialing"] /\ at' = "say"
       ELSE UNCHANGED peer /\ at' = "done"
    /\ UNCHANGED <<command, drops, rounds, due, requests, report>>

\* The request waits for the swarm to be polled.
SendChat == requests' = Append(requests, "queued")

\* `chat send` prints that it has sent, sleeps a second and ends.
Say ==
    /\ at = "say" /\ SendChat /\ due' = FALSE
    /\ at' = IF command = "send" THEN "done" ELSE "head"
    /\ UNCHANGED <<command, drops, rounds, peer, report>>

\* After a message: the next one of the pressure test, or the end.
Another(n) == command = "pressure" /\ n < Count
Over(result) ==
    /\ report' = result
    /\ at' = IF Another(current + result.dropped) THEN "say" ELSE "done"

Drop ==
    /\ at = "say" /\ command = "pressure" /\ drops
    /\ Over([report EXCEPT !.dropped = @ + 1])
    /\ UNCHANGED <<command, drops, rounds, due, peer, requests>>

\* `track` and the pressure test look at the clock at the head of their loop.
LoopHead ==
    /\ at = "head"
    /\ IF due
       THEN Over([report EXCEPT !.expired = @ + (IF command = "pressure" THEN 2 ELSE 1),
                                !.early = @ + 1])
       ELSE at' = "select" /\ UNCHANGED report
    /\ UNCHANGED <<command, drops, rounds, due, peer, requests>>

\* Mutant: the pressure test counts the message once more after the loop.
ExpiresTwice ==
    /\ at = "select" /\ due
    /\ Over([report EXCEPT !.expired = @ + (IF command = "pressure" THEN 2 ELSE 1)])
    /\ UNCHANGED <<command, drops, rounds, due, peer, requests>>
Expires ==
    /\ at = "select" /\ due /\ Over([report EXCEPT !.expired = @ + 1])
    /\ UNCHANGED <<command, drops, rounds, due, peer, requests>>

\* Mutant: any answer is taken for the one that is waited for.
Whichever(i) == i \in DOMAIN requests
Mine(i) == i = current

Back == IF command = "doctor" THEN "select" ELSE "head"
Settles(i, result) ==
    /\ IF Mine(i) THEN Over(result) ELSE at' = Back /\ UNCHANGED report
    /\ UNCHANGED <<command, drops, rounds, due, peer>>
Answer(i) ==
    /\ at = "select" /\ Moves(i, "handled", "answered")
    /\ Settles(i, [report EXCEPT !.delivered = @ \union {current}])
Failure(i) ==
    /\ at = "select"
    /\ \E state \in {"queued", "left", "handled"} : Moves(i, state, "failed")
    /\ Settles(i, [report EXCEPT !.failed = @ \union {current}])

\* Mutant: the timer starts anew with every event.
OtherRestarting ==
    /\ at = "select" /\ peer' \in PeerEvents /\ at' = Back /\ due' = FALSE
    /\ UNCHANGED <<command, drops, rounds, requests, report>>
Other ==
    /\ at = "select" /\ peer' \in PeerEvents /\ at' = Back
    /\ UNCHANGED <<command, drops, rounds, due, requests, report>>

\* The commands of groups dial every peer that announces itself.
Mesh ==
    /\ at = "mesh"
    /\ \E p \in PeerEvents :
          peer' = IF p.known /\ ~peer.known /\ p.link = "down"
                  THEN [p EXCEPT !.link = "dialing"] ELSE p
    /\ UNCHANGED <<command, drops, at, rounds, due, requests, report>>
MeshOver ==
    /\ at = "mesh" /\ due /\ at' = IF command = "join" THEN "done" ELSE "publish"
    /\ UNCHANGED <<command, drops, rounds, due, peer, requests, report>>

\* Published with or without a mesh; without a subscriber it is an error.
Publish ==
    /\ at = "publish" /\ due' = FALSE
    /\ IF peer.heard THEN requests' = <<"queued">> /\ at' = "spread"
                     ELSE UNCHANGED requests /\ at' = "done"
    /\ UNCHANGED <<command, drops, rounds, peer, report>>
Spread ==
    /\ at = "spread" /\ peer' \in PeerEvents
    /\ UNCHANGED <<command, drops, at, rounds, due, requests, report>>
SpreadOver ==
    /\ at = "spread" /\ due /\ at' = "done"
    /\ UNCHANGED <<command, drops, rounds, due, peer, requests, report>>

\* The share of what was sent, and the verdict on it; nothing sent is a share of 0.
Reaches(share) ==
    current > 0 /\ 1000 * Cardinality(report.delivered) >= share * current
Verdict ==
    CASE ~drops /\ Reaches(999) -> "PASS_R26"
      [] drops /\ Reaches(990) -> "PASS_R27"
      [] ~drops /\ Reaches(990) /\ ~Reaches(999) -> "WARN_BELOW_99_9"
      [] OTHER -> "FAIL"

Steps == \/ Find \/ Dial \/ Say \/ Drop \/ LoopHead \/ Expires
         \/ MeshOver \/ Publish \/ SpreadOver
ClientNext ==
    \/ Steps \/ Clock \/ Redials \/ Other \/ Mesh \/ Spread
    \/ \E i \in DOMAIN requests : Leaves(i) \/ PeerHandles(i) \/ Answer(i) \/ Failure(i)

ClientSpec == ClientInit /\ [][ClientNext]_client

\* The command's own steps are taken and its timers fire; nothing is assumed of
\* the network or the peer.
ClientFairness == WF_client(Steps) /\ WF_client(Clock)

------------------------------------------------------------------------------
\* The state of a command has its type; nothing is counted twice as delivered
\* and failed, and no more than was sent (cmd_chat_pressure_test).
ClientTypeOK ==
    /\ rounds <= RoundsOf /\ peer.link \in {"down", "dialing", "up"}
    /\ current + report.dropped <= Count
    /\ report.delivered \subseteq 1..current /\ report.failed \subseteq 1..current
    /\ report.delivered \intersect report.failed = {}

Handled == {i \in DOMAIN requests : requests[i] \in {"handled", "answered"}}

\* What a command reports as delivered was handled by the peer, though answers
\* to earlier messages come late, while a later one is waited for; in particular
\* a pressure test that passes had 99 in a hundred of what it sent handled, so all
\* of it when that is less than a hundred messages (cmd_chat_send_track,
\* cmd_chat_pressure_test, cmd_doctor_remote).
DeliveredIsHandled ==
    /\ report.delivered \subseteq Handled
    /\ command = "pressure" /\ at = "done" /\ Verdict \in {"PASS_R26", "PASS_R27"} =>
          /\ 1000 * Cardinality(Handled) >= 990 * current
          /\ current < 100 => Handled = 1..current

\* The totals of the pressure test: each message that was not dropped is counted
\* once, as delivered, failed or timed out, and once more when its time-out was
\* noticed at the head of the loop; the totals in the report exceed what was
\* sent by exactly these (cmd_chat_pressure_test).
EveryMessageCounted ==
    command = "pressure" /\ at = "done" =>
        Cardinality(report.delivered \union report.failed) + report.expired
            = current + report.early

\* `chat send` has sent the message when it says so and ends (the comment "Let
\* the swarm process for a moment" in cmd_chat_send).
SaidSentHasLeft ==
    command = "send" /\ at = "done" => \A i \in DOMAIN requests : requests[i] # "queued"

\* Every command ends, whatever the network and the peer do, and although
\* events that are not the awaited one keep coming: the deadline bounds the wait
\* and not each event (main.rs, the loops of the commands).
CommandEnds == <>(at = "done")
=============================================================================
