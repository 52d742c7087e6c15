---------------------------- MODULE MessageQueue ----------------------------
(***************************************************************************)
(* The SQLite database of src/message_queue.rs: the table `messages` of    *)
(* messages waiting for their recipient and the table `pending` of         *)
(* requests in flight.  Each operator below is one SQL statement, which    *)
(* SQLite runs atomically; the program never groups statements into a      *)
(* transaction.                                                            *)
(*                                                                         *)
(* Times are seconds on one clock.  A NULL expiry and the time-to-live     *)
(* i64::MAX that the daemon derives from it are both Forever.              *)
(***************************************************************************)
EXTENDS Integers, Functions

CONSTANTS
  Peers,      \* recipients
  Contents,   \* message texts
  Forever     \* no expiry: later than every time of the clock

VARIABLES
  messages,     \* table messages: id |-> row
  nextId,       \* AUTOINCREMENT: the next id of messages
  pendingRows   \* table pending: request_id |-> row

tables == <<messages, nextId, pendingRows>>

MessageRow ==
  [peer : Peers, content : Contents, expires_at : Nat, delivered : BOOLEAN]

\* A row of pending; also the fields the in-memory tracker keeps of a request.
PendingRow ==
  [peer : Peers, content : Contents, msg_id : Nat, ttl : Nat, seq : Nat,
   retries : Nat]

EmptyTables ==
  /\ messages = << >>
  /\ nextId = 1
  /\ pendingRows = << >>

----------------------------------------------------------------------------
(* Queries.                                                                *)

\* Undelivered and not expired, the snapshot a flush works on.
PendingFor(p, now) ==
  {[id |-> i, content |-> messages[i].content,
    expires_at |-> messages[i].expires_at] :
     i \in {j \in DOMAIN messages :
              /\ messages[j].peer = p
              /\ ~messages[j].delivered
              /\ messages[j].expires_at > now}}

\* (request_id, row) for every row of pending.
LoadAllPending ==
  {[rid |-> r, row |-> pendingRows[r]] : r \in DOMAIN pendingRows}

----------------------------------------------------------------------------
(* Statements on the table messages.                                       *)

\* Mutant: the next row takes the same id again.
PushWithTtlSameId(p, c, exp) ==
  /\ messages' = [i \in DOMAIN messages \cup {nextId} |->
                    IF i = nextId
                      THEN [peer |-> p, content |-> c, expires_at |-> exp,
                            delivered |-> FALSE]
                      ELSE messages[i]]
  /\ UNCHANGED <<nextId, pendingRows>>

PushWithTtl(p, c, exp) ==
  /\ messages' = [i \in DOMAIN messages \cup {nextId} |->
                    IF i = nextId
                      THEN [peer |-> p, content |-> c, expires_at |-> exp,
                            delivered |-> FALSE]
                      ELSE messages[i]]
  /\ nextId' = nextId + 1
  /\ UNCHANGED pendingRows

\* UPDATE ... WHERE id: no effect when the row is gone.
MarkDelivered(id) ==
  /\ messages' = [i \in DOMAIN messages |->
                    IF i = id THEN [messages[i] EXCEPT !.delivered = TRUE]
                              ELSE messages[i]]
  /\ UNCHANGED <<nextId, pendingRows>>

\* Mutant: a row without an expiry counts as expired.
ExpiredIdsNull(cutoff) ==
  {i \in DOMAIN messages :
     /\ messages[i].expires_at <= cutoff \/ messages[i].expires_at = Forever
     /\ ~messages[i].delivered}

ExpiredIds(cutoff) ==
  {i \in DOMAIN messages :
     messages[i].expires_at <= cutoff /\ ~messages[i].delivered}

DeliveredIds == {i \in DOMAIN messages : messages[i].delivered}

\* The message rows that the ids of gone leave.
MessagesWithout(gone) == Restrict(messages, DOMAIN messages \ gone)

ExpireBefore(cutoff) ==
  /\ messages' = MessagesWithout(ExpiredIds(cutoff))
  /\ UNCHANGED <<nextId, pendingRows>>

PruneDelivered ==
  /\ messages' = MessagesWithout(DeliveredIds)
  /\ UNCHANGED <<nextId, pendingRows>>

----------------------------------------------------------------------------
(* Statements on the table pending.                                        *)

\* INSERT OR REPLACE: a row under the same request id is overwritten.
PushPending(rid, row) ==
  /\ pendingRows' = [r \in DOMAIN pendingRows \cup {rid} |->
                       IF r = rid THEN row ELSE pendingRows[r]]
  /\ UNCHANGED <<messages, nextId>>

RemovePending(rid) ==
  /\ pendingRows' = Restrict(pendingRows, DOMAIN pendingRows \ {rid})
  /\ UNCHANGED <<messages, nextId>>

ExpiredRids(cutoff) == {r \in DOMAIN pendingRows : pendingRows[r].ttl < cutoff}

ExpirePending(cutoff) ==
  /\ pendingRows' = Restrict(pendingRows,
                             DOMAIN pendingRows \ ExpiredRids(cutoff))
  /\ UNCHANGED <<messages, nextId>>

=============================================================================
