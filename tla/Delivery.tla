------------------------------ MODULE Delivery ------------------------------
(***************************************************************************)
(* One sending daemon (SenderDaemon), its recipients (the receiving half   *)
(* of their daemons: SequenceTracker and DedupFilter) and the connections  *)
(* between them.                                                           *)
(*                                                                         *)
(* A request that the sender hands to libp2p travels on its own stream:    *)
(* requests overtake each other, and one that libp2p reports as failed may *)
(* still arrive.  An answer can be lost, never forged.  A connection       *)
(* raises ConnectionEstablished at both ends; two daemons may have several *)
(* connections at a time.                                                  *)
(***************************************************************************)
EXTENDS SenderDaemon, Sequences

CONSTANTS
  MaxSeq,           \* the largest sequence number (u64::MAX in the program)
  MaxTracked,       \* MAX_TRACKED
  MaxConnections,   \* bound of the model: connections in one behaviour
  MaxRestarts       \* bound of the model: recipients that lose their memory

ASSUME DeliveryAssumption ==
  /\ MaxSeq \in Nat /\ MaxTracked \in Nat \ {0}
  /\ MaxConnections \in Nat /\ MaxRestarts \in Nat

VARIABLES
  lastSeq, buffer, released,   \* each recipient's entry for this sender
  filter,                      \* each recipient's duplicate filter
  processed,                   \* history: what each recipient processed
  linked,        \* recipients connected in this life of the sender
  notified,      \* connections whose event the sender has not handled yet
  wire,          \* requests under way
  left,          \* the last request of this life that left the sender
  answers,       \* acknowledgements under way
  reissued,      \* history: messages handed back to the queue
  connections, restarts

recipients == <<lastSeq, buffer, released, filter, processed>>
network == <<linked, notified, wire, left, answers>>
deliveryVars == <<vars, recipients, network, reissued, connections, restarts>>

\* What travels is the record of the request.
Requests == {r \in PendingRow : r.seq <= MaxSeq}

Tracker == INSTANCE SequenceTracker
             WITH Messages <- Requests, MsgIds <- Nat
Dedup == INSTANCE DedupFilter
           WITH Messages <- Requests, MsgIds <- Nat, admitted <- << >>

----------------------------------------------------------------------------

\* Each life of the sender numbers its requests from 1.
Carried(rid, row) == [life |-> crashes, rid |-> rid, row |-> row]

\* The requests of a handler leave when it is done and the loop polls the swarm.
Poll ==
  IF task' = Idle
    THEN /\ wire' = wire \cup {Carried(r, outstanding'[r]) :
                                 r \in {q \in DOMAIN outstanding' : q > left}}
         /\ left' = nextRid' - 1
    ELSE UNCHANGED <<wire, left>>

\* Mutant: an answer that comes after the failure is kept.
AnswersKept(rid) == answers

AnswersWithout(rid) == answers \ {[life |-> crashes, rid |-> rid]}

\* The sender works by itself.  One life of it gives out at most MaxSeq numbers.
Work ==
  /\ \/ Start \/ StartBlind \/ Step \/ CleanUp \/ DiagClean \/ Tick
     \/ \E c \in Contents : Enqueue(c)
  /\ seqCounter' <= MaxSeq + 1
  /\ Poll
  /\ UNCHANGED <<recipients, linked, notified, answers, reissued, connections,
                 restarts>>

\* A connection: the recipient's handler starts a new epoch at once, the
\* sender's handler comes later (HandleConnection).
Establish(p) ==
  /\ task # Down
  /\ connections < MaxConnections
  /\ connections' = connections + 1
  /\ Tracker!ResetPeer(p)
  /\ linked' = linked \cup {p}
  /\ notified' = notified \cup {p}
  /\ UNCHANGED <<vars, filter, processed, wire, left, answers, reissued, restarts>>

HandleConnection(p) ==
  /\ p \in notified
  /\ notified' = notified \ {p}
  /\ \/ Connect(p)
     \/ task = Idle /\ PendingFor(p, clock) = {} /\ UNCHANGED vars
  /\ UNCHANGED <<recipients, linked, wire, left, answers, reissued, connections,
                 restarts>>

\* The recipient handles a request: order, deduplicate, process, acknowledge.
\* A request of an earlier life, or one that failed, may still arrive.
Deliver(w) ==
  LET p       == w.row.peer
      ordered == Tracker!Ordered(lastSeq[p], buffer[p], w.row)
      result  == Dedup!ProcessAll(filter[p], ordered)
  IN /\ w.life < crashes \/ p \in linked
     /\ Tracker!Ingest(p, w.row)
     /\ filter' = [filter EXCEPT ![p] = result.filter]
     /\ processed' = [processed EXCEPT ![p] = @ \o result.processed]
     /\ wire' = wire \ {w}
     /\ answers' = IF w.life = crashes /\ w.rid \in DOMAIN outstanding
                     THEN answers \cup {[life |-> w.life, rid |-> w.rid]}
                     ELSE answers
     /\ UNCHANGED <<vars, linked, notified, left, reissued, connections, restarts>>

\* The sender handles an acknowledgement ...
HandleAnswer(a) ==
  /\ a.life = crashes
  /\ Response(a.rid) \/ Untracked(a.rid)
  /\ answers' = answers \ {a}
  /\ UNCHANGED <<recipients, linked, notified, wire, left, reissued,
                 connections, restarts>>

\* ... or a failure, whether or not the request arrived.
HandleFailure(rid) ==
  /\ \/ (Retry(rid) \/ Untracked(rid)) /\ UNCHANGED reissued
     \/ Exhaust(rid) /\ reissued' = reissued \cup {tracker[rid].content}
  /\ answers' = AnswersWithout(rid)
  /\ UNCHANGED <<recipients, linked, notified, wire, left, connections, restarts>>

\* The sender ends.  What reached a connection may still arrive.
SenderCrash ==
  /\ Crash
  /\ wire' = {w \in wire : w.life < crashes \/ w.row.peer \in linked}
  /\ left' = 0
  /\ linked' = {}
  /\ notified' = {}
  /\ answers' = {}
  /\ UNCHANGED <<recipients, reissued, connections, restarts>>

\* A recipient starts anew: its tracker and its filter were in memory.
RecipientRestart(p) ==
  /\ restarts < MaxRestarts
  /\ restarts' = restarts + 1
  /\ Tracker!ResetPeer(p)
  /\ filter' = [filter EXCEPT ![p] = Dedup!NoneSeen]
  /\ linked' = linked \ {p}
  /\ UNCHANGED <<vars, processed, notified, wire, left, answers, reissued,
                 connections>>

DeliveryInit ==
  /\ Init
  /\ Tracker!TrackerInit
  /\ filter = [p \in Peers |-> Dedup!NoneSeen]
  /\ processed = [p \in Peers |-> << >>]
  /\ linked = {} /\ notified = {} /\ wire = {} /\ left = 0 /\ answers = {} /\ reissued = {}
  /\ connections = 0 /\ restarts = 0

DeliveryNext ==
  \/ Work
  \/ \E p \in Peers : Establish(p) \/ HandleConnection(p) \/ RecipientRestart(p)
  \/ \E w \in wire : Deliver(w)
  \/ \E a \in answers : HandleAnswer(a)
  \/ \E rid \in DOMAIN outstanding : HandleFailure(rid)
  \/ SenderCrash

DeliverySpec == DeliveryInit /\ [][DeliveryNext]_deliveryVars

----------------------------------------------------------------------------

\* Numbers stay in range on both sides, and an acknowledgement under way always
\* belongs to a request that this life of the sender still waits for.
DeliveryTypeOK ==
  /\ TypeOK
  /\ seqCounter <= MaxSeq + 1
  /\ lastSeq \in [Peers -> 0..MaxSeq]
  /\ linked \subseteq Peers /\ notified \subseteq Peers
  /\ \A w \in wire : w.life \in 0..crashes /\ w.row \in Requests
  /\ \A a \in answers : a.life = crashes /\ a.rid \in DOMAIN outstanding
  /\ reissued \subseteq accepted

Finished(p) == {processed[p][i].content : i \in 1..Len(processed[p])}

\* Whatever the sender repeats, in retries and in recoveries, and however often
\* the connection is set up again: a recipient that keeps its memory processes
\* an identity at most once within a window of MaxTracked others.
OncePerIdentity ==
  restarts = 0 =>
    \A p \in Peers : \A i, j \in 1..Len(processed[p]) :
      i < j /\ processed[p][i].msg_id = processed[p][j].msg_id
        => j - i > MaxTracked

\* A message is processed twice only when it was handed back to the queue after
\* its retries, when the sender died between sending it and marking it, when
\* the recipient lost its memory, or when the filter had to forget it.
TwiceOnlyIfReissued ==
  \A p \in Peers : \A i, j \in 1..Len(processed[p]) :
    i < j /\ processed[p][i].content = processed[p][j].content =>
      \/ processed[p][i].content \in reissued \cup torn
      \/ restarts > 0
      \/ j - i > MaxTracked

\* The numbers of the requests to p that wait for an answer.
InFlightTo(p) ==
  {tracker[r].seq : r \in {q \in DOMAIN tracker : tracker[q].peer = p}}

\* As long as a sender with a single recipient has made one connection, has
\* not restarted and has handed nothing back, an acknowledged message has been
\* processed, or waits behind numbers that are all still in flight.
FirstConnectionLosesNothing ==
  connections <= 1 /\ crashes = 0 /\ restarts = 0 /\ reissued = {} =>
    \A p \in Peers : (\A c \in accepted : Addressee[c] = p) =>
      \A c \in acked :
        \/ c \in Finished(p)
        \/ \E s \in DOMAIN buffer[p] :
             /\ buffer[p][s].content = c
             /\ \A n \in (lastSeq[p] + 1)..(s - 1) :
                  n \in InFlightTo(p) \/ n \in DOMAIN buffer[p]

----------------------------------------------------------------------------
(* What the repository's texts say of the program, and it does not keep.   *)

\* "ACK: message delivered" (the log line of the handler in src/network.rs):
\* when every message is acknowledged and nothing is under way, the recipients
\* have processed them all.
AcknowledgedIsProcessed ==
  (/\ accepted = acked
   /\ task = Idle /\ outstanding = << >> /\ wire = {}) =>
     \A c \in acked : c \in Finished(Addressee[c])

=============================================================================
