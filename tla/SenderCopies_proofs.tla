------------------------- MODULE SenderCopies_proofs ------------------------
(***************************************************************************)
(* Proofs about SenderDaemon: where a message is.  Between handlers it has *)
(* exactly one durable copy, recovery sees exactly the requests in flight, *)
(* and the retry budget bounds how often a message was sent.               *)
(*                                                                         *)
(* All three are about states between handlers, and none is inductive: in  *)
(* the middle of a handler a message has no copy, or two.  The invariant   *)
(* says of every message whose handler was not cut short where it may be   *)
(* at every stage: waiting in the queue, persisted in `pending`, tracked   *)
(* in memory, loaded by recovery, in the snapshot of a flush, or in the    *)
(* hands of a handler; in each place at most once, which places exclude    *)
(* which, and that it is somewhere (Placed).                               *)
(***************************************************************************)
EXTENDS SenderDaemon_proofs

----------------------------------------------------------------------------

\* The undelivered rows of the queue, the rows of `pending` and the entries of
\* the tracker that hold the message c.
Waiting(c) ==
  {i \in DOMAIN messages : messages[i].content = c /\ ~messages[i].delivered}
Persisted(c) == {r \in DOMAIN pendingRows : pendingRows[r].content = c}
Tracked(c) == {r \in DOMAIN tracker : tracker[r].content = c}

\* The rows that recovery has loaded and not yet sent again.
Reloaded ==
  CASE task.at = "clear" -> task.stored
    [] task.at = "resend" -> task.rest
    [] OTHER -> {}

\* The entries of the flush's snapshot that are still to be sent.
ToFlush == IF task.at \in {"flush", "mark"} THEN task.rest ELSE {}

\* The running handler holds the message c: as the record of a failed request, as
\* the entry it just flushed, or as the request just acknowledged.
Holding(c) ==
  task.at \in {"swap", "persist", "giveup", "requeue"} /\ task.row.content = c
Marking(c) == task.at = "mark" /\ task.entry.content = c
Settling(c) == task.at = "settle" /\ task.row.content = c

AtMostOne(S) == \A x, y \in S : x = y

\* Each place holds the message at most once.
AtMostOnce(c) ==
  /\ AtMostOne(Waiting(c)) /\ AtMostOne(Persisted(c)) /\ AtMostOne(Tracked(c))
  /\ \A s, t \in Reloaded : s.row.content = c /\ t.row.content = c => s = t
  /\ \A e, f \in ToFlush : e.content = c /\ f.content = c => e = f

\* A message that waits in the queue is nowhere else, but for the moment between
\* its flush and its mark.
WaitsAlone(c) ==
  \A i \in Waiting(c) :
    /\ c \notin acked /\ ~Holding(c)
    /\ \A s \in Reloaded : s.row.content # c
    /\ \A e \in ToFlush : e.content = c => i = e.id
    /\ Marking(c) => i = task.entry.id
    /\ Persisted(c) \cup Tracked(c) # {} => Marking(c)

\* A tracked message is neither acknowledged, nor loaded, nor to be flushed.
TrackedAlone(c) ==
  \A r \in Tracked(c) :
    /\ c \notin acked
    /\ \A s \in Reloaded : s.row.content # c
    /\ \A e \in ToFlush : e.content # c
    /\ Holding(c) => task.at \in {"swap", "persist"}

\* A row of `pending` is tracked, or a handler is about to remove it, or it waits
\* for recovery; recovery has still to remove every row it finds.
PersistedAlone(c) ==
  \A r \in Persisted(c) :
    /\ c \in acked => Settling(c)
    /\ \A e \in ToFlush : e.content # c
    /\ task.at = "resend" => \A s \in task.rest : s.row.content # c
    /\ task.at = "clear" => \E s \in task.rest : s.rid = r /\ s.row.content = c
    /\ Settling(c) => r = task.rid
    /\ Holding(c) => task.at \in {"swap", "giveup"} /\ r = task.old
    /\ r \in Tracked(c) \/ task.at \in {"down", "clear"} \/ Holding(c) \/ Settling(c)

\* What a handler works on has not been acknowledged; what is being marked is
\* persisted already, and what recovery has still to remove is.
InHand(c) ==
  /\ \A s \in Reloaded : s.row.content = c => c \notin acked
  /\ \A e \in ToFlush : e.content = c => c \notin acked /\ ~Marking(c)
  /\ Holding(c) => c \notin acked
  /\ Marking(c) => c \notin acked /\ Persisted(c) # {}
  /\ task.at = "clear" =>
       \A s \in task.rest : s.row.content = c => s.rid \in Persisted(c)

\* The message is somewhere: no step loses it.
Present(c) ==
  \/ c \in acked \cup expired
  \/ Waiting(c) # {}
  \/ Persisted(c) # {}
  \/ \E s \in Reloaded : s.row.content = c
  \/ Holding(c) /\ task.at \in {"persist", "requeue"}

\* Where the message c may be.
Placed(c) ==
  /\ AtMostOnce(c) /\ WaitsAlone(c) /\ TrackedAlone(c) /\ PersistedAlone(c)
  /\ InHand(c) /\ Present(c)

\* The running handler and the tracker: only a running process tracks, a retry is
\* tracked under its new id alone, and an id is loaded once.
Handler ==
  /\ task.at \in {"down", "clear"} => DOMAIN tracker = {}
  /\ task.at \in {"swap", "persist"} =>
       task.new \in DOMAIN tracker /\ tracker[task.new] = task.row
  /\ task.at \in {"swap", "giveup"} => task.old \notin DOMAIN tracker
  /\ task.at = "settle" => task.rid \notin DOMAIN tracker
  /\ task.at = "clear" => \A s, t \in task.stored : s.rid = t.rid => s = t

\* The rows of a flush's snapshot may be gone, but their ids are not used again.
Snapshot(e) ==
  e.id < nextId /\ (e.id \in DOMAIN messages => messages[e.id].content = e.content)

Snapshots ==
  /\ \A e \in ToFlush : Snapshot(e)
  /\ task.at = "mark" => Snapshot(task.entry)

\* No step changes the text of a row, and a new row takes the next id.
LEMMA MessagesStep ==
  ASSUME TypeInv, [Next]_vars
  PROVE  /\ nextId' \in Nat /\ nextId \in Nat /\ nextId <= nextId'
         /\ \A i \in DOMAIN messages' :
              \/ i = nextId
              \/ i \in DOMAIN messages /\ messages'[i].content = messages[i].content
<1>0. TablesOK
  BY TypeInvIs
<1>1. CASE UNCHANGED tables
  BY <1>0, <1>1 DEF tables, TablesOK
<1>2. ASSUME \E rid, row : PushPending(rid, row) \/ RemovePending(rid) \/ ExpirePending(clock)
      PROVE  UNCHANGED <<messages, nextId>>
  BY <1>2 DEF PushPending, RemovePending, ExpirePending
<1>3. CASE ExpireBefore(clock) \/ PruneDelivered
  BY <1>0, <1>3 DEF ExpireBefore, PruneDelivered, MessagesWithout, Restrict, TablesOK
<1>4. ASSUME NEW id, MarkDelivered(id)
      PROVE  /\ nextId' = nextId
             /\ \A i \in DOMAIN messages' :
                  i \in DOMAIN messages /\ messages'[i].content = messages[i].content
  BY <1>0, <1>4 DEF MarkDelivered, TablesOK, MessageRow
<1>5. ASSUME NEW p, NEW c, NEW exp, PushWithTtl(p, c, exp)
      PROVE  /\ nextId' = nextId + 1
             /\ \A i \in DOMAIN messages' :
                  i = nextId \/ (i \in DOMAIN messages /\ messages'[i].content = messages[i].content)
  BY <1>0, <1>5 DEF PushWithTtl, TablesOK
<1>6. \/ UNCHANGED tables \/ ExpireBefore(clock) \/ PruneDelivered
      \/ \E rid, row : PushPending(rid, row) \/ RemovePending(rid) \/ ExpirePending(clock)
      \/ \E id : MarkDelivered(id)
      \/ \E p, c, exp : PushWithTtl(p, c, exp)
  BY DEF Next, Step, vars, Runs, Fault, Deletes, Start, StartBlind, ClearRow, ResendRow,
         SkipExpired, FlushEntry, MarkEntry, Settle, Swap, Persist, GiveUp, Requeue,
         Prune, Purge, Connect, Response, Untracked, Retry, Exhaust, CleanUp, Enqueue,
         DiagClean, Tick, Crash
<1>7. nextId \in Nat
  BY <1>0 DEF TablesOK
<1> QED
  BY <1>1, <1>2, <1>3, <1>4, <1>5, <1>6, <1>7

\* Every step keeps what is known of the flush's snapshot.
LEMMA SnapshotsStep ==
  ASSUME TypeInv, Snapshots, [Next]_vars
  PROVE  Snapshots'
<1>1. ASSUME NEW e, Snapshot(e), e.id \in Nat PROVE Snapshot(e)'
  BY <1>1, MessagesStep DEF Snapshot
<1>2. CASE UNCHANGED task
  <2>1. ToFlush' = ToFlush
    BY <1>2 DEF ToFlush
  <2>2. /\ \A e \in ToFlush : e.id \in Nat
        /\ task.at = "mark" => task.entry.id \in Nat
    BY TypeInvIs, TaskIs DEF ToFlush, Entry
  <2> QED
    BY <1>1, <1>2, <2>1, <2>2 DEF Snapshots
<1>3. ASSUME NEW p \in Peers, Connect(p) PROVE Snapshots'
  <2>1. \A e \in PendingFor(p, clock) : Snapshot(e)' /\ e.id \in Nat
    BY <1>3, TypeInvIs DEF PendingFor, Snapshot, TablesOK, Connect, tables
  <2> QED
    BY <1>3, <2>1 DEF Connect, Snapshots, ToFlush
<1>4. CASE FlushEntry
  <2>1. PICK e \in task.rest :
          task' = [at |-> "mark", entry |-> e, peer |-> task.peer, rest |-> task.rest \ {e}]
    BY <1>4 DEF FlushEntry
  <2>2. \A f \in task.rest : Snapshot(f) /\ f.id \in Nat
    BY <1>4, TypeInvIs, TaskIs DEF FlushEntry, Snapshots, ToFlush, Entry
  <2>3. ToFlush' = task.rest \ {e} /\ task'.entry = e
    BY <2>1 DEF ToFlush
  <2> QED
    BY <1>1, <2>1, <2>2, <2>3 DEF Snapshots
<1>5. CASE MarkEntry
  <2>1. \A f \in task.rest : Snapshot(f) /\ f.id \in Nat
    BY <1>5, TypeInvIs, TaskIs DEF MarkEntry, Snapshots, ToFlush, Entry
  <2>2. ToFlush' \subseteq task.rest /\ task'.at # "mark"
    BY <1>5 DEF MarkEntry, ToFlush, Idle
  <2> QED
    BY <1>1, <2>1, <2>2 DEF Snapshots
<1>6. ASSUME task'.at \notin {"flush", "mark"} PROVE Snapshots'
  BY <1>6 DEF Snapshots, ToFlush
<1>7. CASE ClearRow \/ ResendRow \/ SkipExpired
  <2>1. task'.at \in {"clear", "resend", "idle"}
    BY <1>7, TypeInvIs, TaskIs DEF ClearRow, ResendRow, SkipExpired, AfterResend, Idle
  <2> QED
    BY <1>6, <2>1
<1>8. CASE Start \/ StartBlind
  <2>1. task'.at \in {"clear", "idle"}
    BY <1>8 DEF Start, StartBlind, Idle
  <2> QED
    BY <1>6, <2>1
<1>9. CASE Settle \/ Swap \/ Persist \/ GiveUp \/ Requeue \/ CleanUp \/ Prune \/ Purge \/ Crash
  <2>1. task'.at \in {"idle", "persist", "requeue", "prune", "purge", "down"}
    BY <1>9 DEF Settle, Swap, Persist, GiveUp, Requeue, CleanUp, Prune, Purge, Crash, Idle, Down
  <2> QED
    BY <1>6, <2>1
<1>10. ASSUME NEW rid, Response(rid) \/ Retry(rid) \/ Exhaust(rid) PROVE Snapshots'
  <2>1. task'.at \in {"settle", "swap", "giveup"}
    BY <1>10 DEF Response, Retry, Exhaust
  <2> QED
    BY <1>6, <2>1
<1>11. CASE \/ UNCHANGED vars \/ DiagClean \/ Tick
            \/ \E c \in Contents : Enqueue(c)
            \/ \E rid \in DOMAIN outstanding : Untracked(rid)
  BY <1>2, <1>11 DEF vars, DiagClean, Tick, Enqueue, Untracked
<1> QED
  BY <1>3, <1>4, <1>5, <1>7, <1>8, <1>9, <1>10, <1>11 DEF Next, Step

\* Every step keeps the running handler and the tracker consistent.
LEMMA HandlerStep ==
  ASSUME TypeInv, Handler, [Next]_vars
  PROVE  Handler'
<1> USE DEF Handler
<1>1. CASE UNCHANGED vars
  BY <1>1 DEF vars, volatile
<1>2. CASE Start \/ StartBlind
  BY <1>2 DEF Start, StartBlind, volatile, LoadAllPending, Idle, Down
<1>3. CASE ClearRow
  BY <1>3, TypeInvIs, TaskIs DEF ClearRow, volatile
<1>4. CASE ResendRow \/ SkipExpired
  BY <1>4, TypeInvIs, TaskIs DEF ResendRow, SkipExpired, AfterResend, Idle
<1>5. CASE FlushEntry \/ MarkEntry
  <2>1. task'.at \in {"mark", "idle", "flush"}
    <3>1. CASE FlushEntry
      BY <3>1 DEF FlushEntry
    <3>2. CASE MarkEntry /\ task.rest = {}
      BY <3>2 DEF MarkEntry, Idle
    <3>3. CASE MarkEntry /\ task.rest # {}
      BY <3>3 DEF MarkEntry
    <3> QED
      BY <1>5, <3>1, <3>2, <3>3
  <2> QED
    BY <2>1
<1>11. CASE Settle \/ Persist \/ Requeue \/ Prune \/ Purge \/ CleanUp
  <2>1. task'.at \in {"idle", "prune", "purge"}
    BY <1>11 DEF Settle, Persist, Requeue, Prune, Purge, CleanUp, Idle
  <2> QED
    BY <2>1
<1>6. CASE Swap \/ GiveUp
  BY <1>6 DEF Swap, GiveUp, volatile
<1>7. ASSUME NEW p \in Peers, Connect(p) PROVE Handler'
  BY <1>7 DEF Connect
<1>8. ASSUME NEW rid \in DOMAIN outstanding,
             Response(rid) \/ Untracked(rid) \/ Retry(rid) \/ Exhaust(rid)
      PROVE  Handler'
  BY <1>8, TypeInvIs DEF Response, Untracked, Retry, Exhaust, CanTake, Idle, Ack, Without,
     Restrict, FailAndRetrack, MemoryOK
<1>9. CASE DiagClean \/ Tick \/ \E c \in Contents : Enqueue(c)
  BY <1>9 DEF DiagClean, Tick, Enqueue, volatile
<1>10. CASE Crash
  BY <1>10 DEF Crash, Down
<1> QED
  BY <1>1, <1>2, <1>3, <1>4, <1>5, <1>6, <1>7, <1>8, <1>9, <1>10, <1>11 DEF Next, Step

\* What a step leaves alone keeps its messages.
LEMMA PlacesFrame ==
  ASSUME NEW c
  PROVE  /\ UNCHANGED messages => Waiting(c)' = Waiting(c)
         /\ UNCHANGED pendingRows => Persisted(c)' = Persisted(c)
         /\ UNCHANGED tracker => Tracked(c)' = Tracked(c)
BY DEF Waiting, Persisted, Tracked

\* What each statement of the program does to the places of the message c:
\* removing a row of `pending` takes it from there.
LEMMA RemovePendingIs ==
  ASSUME NEW c, NEW rid, RemovePending(rid)
  PROVE  Waiting(c)' = Waiting(c) /\ Persisted(c)' = Persisted(c) \ {rid}
BY DEF RemovePending, Restrict, Waiting, Persisted

\* Storing a row puts its message there, and overwrites another's.
LEMMA PushPendingIs ==
  ASSUME NEW c, NEW rid, NEW row, PushPending(rid, row)
  PROVE  /\ Waiting(c)' = Waiting(c)
         /\ row.content = c => Persisted(c)' = Persisted(c) \cup {rid}
         /\ row.content # c => Persisted(c)' = Persisted(c) \ {rid}
BY DEF PushPending, Waiting, Persisted

\* Appending a row lets its message wait.
LEMMA PushWithTtlIs ==
  ASSUME NEW c, NEW p, NEW d, NEW exp, PushWithTtl(p, d, exp), nextId \notin DOMAIN messages
  PROVE  /\ Persisted(c)' = Persisted(c)
         /\ c = d => Waiting(c)' = Waiting(c) \cup {nextId}
         /\ c # d => Waiting(c)' = Waiting(c)
BY DEF PushWithTtl, Waiting, Persisted

\* Marking a row delivered ends its waiting.
LEMMA MarkDeliveredIs ==
  ASSUME TablesOK, NEW c, NEW id, MarkDelivered(id)
  PROVE  Persisted(c)' = Persisted(c) /\ Waiting(c)' = Waiting(c) \ {id}
BY DEF MarkDelivered, Waiting, Persisted, TablesOK, MessageRow

\* Expiry leaves the messages alone that it does not report.
LEMMA ExpireBeforeIs ==
  ASSUME NEW c, ExpireBefore(clock), c \notin Queued(ExpiredIds(clock))
  PROVE  Persisted(c)' = Persisted(c) /\ Waiting(c)' = Waiting(c)
BY DEF ExpireBefore, MessagesWithout, Restrict, Waiting, Persisted, Queued, ExpiredIds

\* Expiry adds nothing.
LEMMA ExpireBeforeShrinks ==
  ASSUME NEW c, ExpireBefore(clock)
  PROVE  Persisted(c)' = Persisted(c) /\ Waiting(c)' \subseteq Waiting(c)
BY DEF ExpireBefore, MessagesWithout, Restrict, Waiting, Persisted

\* Pruning delivered rows touches no waiting message.
LEMMA PruneDeliveredIs ==
  ASSUME NEW c, PruneDelivered
  PROVE  Persisted(c)' = Persisted(c) /\ Waiting(c)' = Waiting(c)
BY DEF PruneDelivered, MessagesWithout, DeliveredIds, Restrict, Waiting, Persisted

\* Purging `pending` adds nothing, and takes only what it reports.
LEMMA ExpirePendingIs ==
  ASSUME NEW c, ExpirePending(clock)
  PROVE  /\ Waiting(c)' = Waiting(c) /\ Persisted(c)' \subseteq Persisted(c)
         /\ c \notin InFlight(ExpiredRids(clock)) => Persisted(c)' = Persisted(c)
BY DEF ExpirePending, Restrict, Waiting, Persisted, InFlight, ExpiredRids

\* A tracked entry displaces what stood under its id.
LEMMA TrackIs ==
  ASSUME NEW c, NEW rid, NEW row \in PendingRow, Track(rid, row)
  PROVE  /\ row.content = c => Tracked(c)' = Tracked(c) \cup {rid}
         /\ row.content # c => Tracked(c)' = Tracked(c) \ {rid}
BY DEF Track, Put, Tracked, PendingRow

\* An acknowledged entry is gone.
LEMMA AckIs ==
  ASSUME NEW c, NEW rid, Ack(rid)
  PROVE  Tracked(c)' = Tracked(c) \ {rid}
BY DEF Ack, Without, Restrict, Tracked

\* A retried entry moves to its new id.
LEMMA RetrackIs ==
  ASSUME MemoryOK, NEW c, NEW rid \in DOMAIN tracker, NEW new, new \notin DOMAIN tracker,
         FailAndRetrack(rid, new)
  PROVE  Tracked(c)' = IF tracker[rid].content = c THEN (Tracked(c) \ {rid}) \cup {new}
                       ELSE Tracked(c)
BY DEF FailAndRetrack, Failed, Tracked, MemoryOK, PendingRow

----------------------------------------------------------------------------
(* One lemma per action: it keeps every message in its place.             *)

\* Removing the row of a failed request leaves its message with the handler, and
\* no other: a live row is tracked, and the failed id is not.
LEMMA SwapPlaced ==
  ASSUME TypeInv, Handler, NEW c \in accepted \ torn, Placed(c), Swap \/ GiveUp, c \notin torn'
  PROVE  Placed(c)'
<1>a. /\ \/ task.at = "swap" /\ task'.at = "persist"
         \/ task.at = "giveup" /\ task'.at = "requeue"
      /\ task'.row = task.row
      /\ UNCHANGED <<acked, expired, tracker>>
  BY DEF Swap, GiveUp, volatile
<1>1. Waiting(c)' = Waiting(c) /\ Tracked(c)' = Tracked(c)
  BY PlacesFrame, RemovePendingIs DEF Swap, GiveUp, Runs, Fault, tables, volatile
<1>2. \/ Persisted(c)' = Persisted(c) \ {task.old}
      \/ Persisted(c)' = Persisted(c) /\ c # task.row.content
  BY PlacesFrame, RemovePendingIs DEF Swap, GiveUp, Runs, Fault, tables
<1>3. Holding(c)' <=> Holding(c)
  BY <1>a DEF Holding
<1>4. Reloaded = {} /\ ToFlush = {} /\ ~Marking(c) /\ ~Settling(c)
      /\ Reloaded' = {} /\ ToFlush' = {} /\ ~Marking(c)' /\ ~Settling(c)'
  BY <1>a DEF Reloaded, ToFlush, Marking, Settling
<1>5. ~Holding(c) => task.old \notin Persisted(c)
  BY <1>a, <1>4 DEF Handler, Placed, PersistedAlone, Tracked
<1>6. Holding(c) => Persisted(c)' = {}
  BY <1>a, <1>2 DEF Placed, PersistedAlone, Holding
<1> QED
  BY <1>a, <1>1, <1>2, <1>3, <1>4, <1>5, <1>6 DEF Placed, AtMostOnce, AtMostOne, WaitsAlone, TrackedAlone, PersistedAlone, InHand, Present

\* Storing the retried request overwrites no other message's row: a live row is
\* tracked under its id, and the new id is tracked for this message.
LEMMA PersistPlaced ==
  ASSUME TypeInv, Handler, NEW c \in accepted \ torn, Placed(c), Persist, c \notin torn'
  PROVE  Placed(c)'
<1>a. task.at = "persist" /\ task' = Idle /\ task'.at = "idle"
      /\ UNCHANGED <<acked, expired>> /\ UNCHANGED tracker
  BY DEF Persist, volatile, Idle
<1>1. Waiting(c)' = Waiting(c) /\ Tracked(c)' = Tracked(c)
  BY PlacesFrame, PushPendingIs DEF Persist, Runs, Fault, tables, volatile
<1>2. /\ c = task.row.content => Persisted(c)' = Persisted(c) \cup {task.new}
      /\ c # task.row.content => \/ Persisted(c)' = Persisted(c) \ {task.new}
                                 \/ Persisted(c)' = Persisted(c)
  BY PlacesFrame, PushPendingIs DEF Persist, Runs, Fault, tables
<1>3. Holding(c) <=> c = task.row.content
  BY <1>a DEF Holding
<1>4. Reloaded = {} /\ ToFlush = {} /\ ~Marking(c) /\ ~Settling(c)
      /\ Reloaded' = {} /\ ToFlush' = {} /\ ~Marking(c)' /\ ~Settling(c)' /\ ~Holding(c)'
  BY <1>a DEF Reloaded, ToFlush, Marking, Settling, Holding
<1>5. ~Holding(c) => task.new \notin Persisted(c)
  BY <1>a, <1>3, <1>4 DEF Handler, Placed, PersistedAlone, Tracked
<1>6. Holding(c) => Persisted(c) = {} /\ task.new \in Tracked(c)
  BY <1>a, <1>3 DEF Handler, Placed, PersistedAlone, Tracked
<1> QED
  BY <1>a, <1>1, <1>2, <1>3, <1>4, <1>5, <1>6 DEF Placed, AtMostOnce, AtMostOne, WaitsAlone, TrackedAlone, PersistedAlone, InHand, Present

\* Removing the row of an acknowledged message leaves no copy of it.
LEMMA SettlePlaced ==
  ASSUME TypeInv, Handler, NEW c \in accepted \ torn, Placed(c), Settle, c \notin torn'
  PROVE  Placed(c)'
<1>a. task.at = "settle" /\ task' = Idle /\ task'.at = "idle"
      /\ UNCHANGED <<acked, expired>> /\ UNCHANGED tracker
  BY DEF Settle, volatile, Idle
<1>1. Waiting(c)' = Waiting(c) /\ Tracked(c)' = Tracked(c)
  BY PlacesFrame, RemovePendingIs DEF Settle, Runs, Fault, tables, volatile
<1>2. \/ Persisted(c)' = Persisted(c) \ {task.rid}
      \/ Persisted(c)' = Persisted(c) /\ c # task.row.content
  BY PlacesFrame, RemovePendingIs DEF Settle, Runs, Fault, tables
<1>3. Settling(c) <=> c = task.row.content
  BY <1>a DEF Settling
<1>4. Reloaded = {} /\ ToFlush = {} /\ ~Marking(c) /\ ~Holding(c)
      /\ Reloaded' = {} /\ ToFlush' = {} /\ ~Marking(c)' /\ ~Settling(c)' /\ ~Holding(c)'
  BY <1>a DEF Reloaded, ToFlush, Marking, Settling, Holding
<1>5. Settling(c) => Persisted(c)' = {} /\ c \in acked
  BY <1>2, <1>a, TypeInvIs DEF Placed, PersistedAlone, Settling, HandlerTraced
<1>6. ~Settling(c) => task.rid \notin Persisted(c)
  BY <1>a, <1>3, <1>4 DEF Handler, Placed, PersistedAlone, Tracked
<1> QED
  BY <1>a, <1>1, <1>2, <1>3, <1>4, <1>5, <1>6 DEF Placed, AtMostOnce, AtMostOne, WaitsAlone, TrackedAlone, PersistedAlone, InHand, Present

\* Handing an exhausted message back makes it wait, once.
LEMMA RequeuePlaced ==
  ASSUME TypeInv, Handler, NEW c \in accepted \ torn, Placed(c), Requeue, c \notin torn'
  PROVE  Placed(c)'
<1>a. task.at = "requeue" /\ task' = Idle /\ task'.at = "idle"
      /\ UNCHANGED <<acked, expired>> /\ UNCHANGED tracker /\ nextId \notin DOMAIN messages
  BY TypeInvIs DEF Requeue, volatile, Idle, TablesOK
<1>1. Persisted(c)' = Persisted(c) /\ Tracked(c)' = Tracked(c)
  BY <1>a, PlacesFrame, PushWithTtlIs DEF Requeue, Runs, Fault, tables, volatile
<1>2. /\ c = task.row.content => Waiting(c)' = Waiting(c) \cup {nextId}
      /\ c # task.row.content => Waiting(c)' = Waiting(c)
  <2>1. CASE Fault(task.row.content)
    BY <1>a, <2>1, PlacesFrame DEF Fault, tables
  <2>2. CASE PushWithTtl(task.row.peer, task.row.content, task.row.ttl)
    BY <1>a, <2>2 DEF PushWithTtl, Waiting
  <2> QED
    BY <2>1, <2>2 DEF Requeue, Runs
<1>3. Holding(c) <=> c = task.row.content
  BY <1>a DEF Holding
<1>4. Reloaded = {} /\ ToFlush = {} /\ ~Marking(c) /\ ~Settling(c)
      /\ Reloaded' = {} /\ ToFlush' = {} /\ ~Marking(c)' /\ ~Settling(c)' /\ ~Holding(c)'
  BY <1>a DEF Reloaded, ToFlush, Marking, Settling, Holding
<1>5. Holding(c) => Waiting(c) = {} /\ Persisted(c) = {} /\ Tracked(c) = {} /\ c \notin acked
  BY <1>a DEF Placed, WaitsAlone, PersistedAlone, TrackedAlone, InHand
<1> QED
  BY <1>a, <1>1, <1>2, <1>3, <1>4, <1>5 DEF Placed, AtMostOnce, AtMostOne, WaitsAlone, TrackedAlone, PersistedAlone, InHand, Present

\* A step that moves nothing.
LEMMA QuietFrame ==
  ASSUME NEW c, Placed(c),
         Waiting(c)' = Waiting(c), Persisted(c)' = Persisted(c), Tracked(c)' = Tracked(c),
         UNCHANGED <<task, acked>>, expired \subseteq expired'
  PROVE  Placed(c)'
<1>1. /\ Reloaded' = Reloaded /\ ToFlush' = ToFlush /\ Holding(c)' = Holding(c)
      /\ Marking(c)' = Marking(c) /\ Settling(c)' = Settling(c)
  BY DEF Reloaded, ToFlush, Marking, Settling, Holding
<1> QED
  BY <1>1 DEF Placed, AtMostOnce, AtMostOne, WaitsAlone, TrackedAlone,
     PersistedAlone, InHand, Present

\* An ignored answer, the clock and a step of the environment elsewhere move
\* nothing.
LEMMA UntrackedPlaced ==
  ASSUME TypeInv, NEW c \in accepted \ torn, Placed(c),
         \/ \E rid \in DOMAIN outstanding : Untracked(rid)
         \/ Tick \/ UNCHANGED vars
  PROVE  Placed(c)'
<1>1. UNCHANGED <<tables, tracker, task, acked, expired>>
  BY DEF Untracked, Tick, vars, history, volatile
<1> QED
  BY <1>1, PlacesFrame, QuietFrame DEF tables

\* An acknowledgement takes the message from the tracker to the handler.
LEMMA ResponsePlaced ==
  ASSUME TypeInv, NEW c \in accepted \ torn, Placed(c),
         NEW rid \in DOMAIN outstanding, Response(rid)
  PROVE  Placed(c)'
<1>a. /\ task = Idle /\ task.at = "idle" /\ rid \in DOMAIN tracker
      /\ task' = [at |-> "settle", rid |-> rid, row |-> tracker[rid]]
      /\ acked' = acked \cup {tracker[rid].content} /\ UNCHANGED <<tables, expired>>
  BY DEF Response, CanTake, Idle
<1>1. /\ Waiting(c)' = Waiting(c) /\ Persisted(c)' = Persisted(c)
      /\ Tracked(c)' = Tracked(c) \ {rid}
  BY <1>a, PlacesFrame, AckIs DEF Response, tables
<1>2. /\ Reloaded = {} /\ ToFlush = {} /\ ~Marking(c) /\ ~Settling(c) /\ ~Holding(c)
      /\ Reloaded' = {} /\ ToFlush' = {} /\ ~Marking(c)' /\ ~Holding(c)'
      /\ Settling(c)' <=> tracker[rid].content = c
  BY <1>a DEF Reloaded, ToFlush, Marking, Settling, Holding
<1>3. rid \in Tracked(c) <=> tracker[rid].content = c
  BY <1>a DEF Tracked
<1> QED
  BY <1>a, <1>1, <1>2, <1>3 DEF Placed, AtMostOnce, AtMostOne, WaitsAlone, TrackedAlone,
     PersistedAlone, InHand, Present

\* An exhausted request goes from the tracker to the handler.
LEMMA ExhaustPlaced ==
  ASSUME TypeInv, NEW c \in accepted \ torn, Placed(c),
         NEW rid \in DOMAIN outstanding, Exhaust(rid)
  PROVE  Placed(c)'
<1>a. /\ task = Idle /\ task.at = "idle" /\ rid \in DOMAIN tracker
      /\ task' = [at |-> "giveup", old |-> rid, row |-> Failed(rid)]
      /\ UNCHANGED <<tables, expired, acked>>
  BY DEF Exhaust, CanTake, Idle, history
<1>b. Failed(rid).content = tracker[rid].content
  BY <1>a, TypeInvIs DEF Failed, MemoryOK, PendingRow
<1>1. /\ Waiting(c)' = Waiting(c) /\ Persisted(c)' = Persisted(c)
      /\ Tracked(c)' = Tracked(c) \ {rid}
  BY <1>a, PlacesFrame, AckIs DEF Exhaust, tables
<1>2. /\ Reloaded = {} /\ ToFlush = {} /\ ~Marking(c) /\ ~Settling(c) /\ ~Holding(c)
      /\ Reloaded' = {} /\ ToFlush' = {} /\ ~Marking(c)' /\ ~Settling(c)'
      /\ Holding(c)' <=> tracker[rid].content = c
  BY <1>a, <1>b DEF Reloaded, ToFlush, Marking, Settling, Holding
<1>3. rid \in Tracked(c) <=> tracker[rid].content = c
  BY <1>a DEF Tracked
<1> QED
  BY <1>a, <1>1, <1>2, <1>3 DEF Placed, AtMostOnce, AtMostOne, WaitsAlone, TrackedAlone,
     PersistedAlone, InHand, Present

\* A retry moves the message to a request id that nothing is tracked under.
LEMMA RetryPlaced ==
  ASSUME TypeInv, TrackedIsOutstanding, NEW c \in accepted \ torn, Placed(c),
         NEW rid \in DOMAIN outstanding, Retry(rid)
  PROVE  Placed(c)'
<1>a. /\ task = Idle /\ task.at = "idle" /\ rid \in DOMAIN tracker
      /\ task' = [at |-> "swap", old |-> rid, new |-> nextRid, row |-> Failed(rid)]
      /\ UNCHANGED <<tables, expired, acked>>
  BY DEF Retry, CanTake, Idle, history
<1>b. Failed(rid).content = tracker[rid].content
  BY <1>a, TypeInvIs DEF Failed, MemoryOK, PendingRow
<1>c. nextRid \notin DOMAIN tracker
  BY TypeInvIs DEF MemoryOK, TrackedIsOutstanding
<1>1. /\ Waiting(c)' = Waiting(c) /\ Persisted(c)' = Persisted(c)
      /\ Tracked(c)' = IF tracker[rid].content = c THEN (Tracked(c) \ {rid}) \cup {nextRid}
                       ELSE Tracked(c)
  <2>1. MemoryOK /\ FailAndRetrack(rid, nextRid)
    BY TypeInvIs DEF Retry
  <2> QED
    BY <1>a, <1>c, <2>1, PlacesFrame, RetrackIs DEF tables
<1>2. /\ Reloaded = {} /\ ToFlush = {} /\ ~Marking(c) /\ ~Settling(c) /\ ~Holding(c)
      /\ Reloaded' = {} /\ ToFlush' = {} /\ ~Marking(c)' /\ ~Settling(c)'
      /\ Holding(c)' <=> tracker[rid].content = c
  BY <1>a, <1>b DEF Reloaded, ToFlush, Marking, Settling, Holding
<1>3. rid \in Tracked(c) <=> tracker[rid].content = c
  BY <1>a DEF Tracked
<1> QED
  BY <1>a, <1>1, <1>2, <1>3 DEF Placed, AtMostOnce, AtMostOne, WaitsAlone, TrackedAlone,
     PersistedAlone, InHand, Present

\* Loading `pending` puts every persisted message in recovery's hands; a load that
\* fails leaves no live row.
LEMMA StartPlaced ==
  ASSUME TypeInv, Handler, NEW c \in accepted \ torn, Placed(c), Start \/ StartBlind,
         c \notin torn'
  PROVE  Placed(c)'
<1>a. /\ task = Down /\ task.at = "down" /\ DOMAIN tracker = {}
      /\ UNCHANGED <<tables, tracker, expired, acked>>
  BY DEF Start, StartBlind, Down, volatile, history, Handler
<1>1. /\ Waiting(c)' = Waiting(c) /\ Persisted(c)' = Persisted(c)
      /\ Tracked(c)' = {} /\ Tracked(c) = {}
  BY <1>a, PlacesFrame DEF tables, Tracked
<1>2. /\ Reloaded = {} /\ ToFlush = {} /\ ~Marking(c) /\ ~Settling(c) /\ ~Holding(c)
  BY <1>a DEF Reloaded, ToFlush, Marking, Settling, Holding
<1>3. CASE task' = Idle /\ Persisted(c) = {}
  <2>1. /\ Reloaded' = {} /\ ToFlush' = {} /\ ~Marking(c)' /\ ~Settling(c)'
        /\ ~Holding(c)' /\ task'.at = "idle"
    BY <1>3 DEF Reloaded, ToFlush, Marking, Settling, Holding, Idle
  <2> QED
    BY <1>a, <1>1, <1>2, <1>3, <2>1 DEF Placed, AtMostOnce, AtMostOne, WaitsAlone, TrackedAlone,
     PersistedAlone, InHand, Present
<1>4. CASE task' = [at |-> "clear", rest |-> LoadAllPending, stored |-> LoadAllPending]
  <2>1. /\ Reloaded' = LoadAllPending /\ ToFlush' = {} /\ ~Marking(c)' /\ ~Settling(c)'
        /\ ~Holding(c)' /\ task'.at = "clear" /\ task'.rest = LoadAllPending
    BY <1>4 DEF Reloaded, ToFlush, Marking, Settling, Holding
  <2>2. /\ \A r \in Persisted(c) : \E s \in LoadAllPending : s.rid = r /\ s.row.content = c
        /\ \A s \in LoadAllPending : s.row.content = c => s.rid \in Persisted(c)
    <3>1. \A r \in DOMAIN pendingRows : [rid |-> r, row |-> pendingRows[r]] \in LoadAllPending
      BY DEF LoadAllPending
    <3>2. \A s \in LoadAllPending :
            s.rid \in DOMAIN pendingRows /\ s.row = pendingRows[s.rid]
      BY DEF LoadAllPending
    <3> QED
      BY <3>1, <3>2 DEF Persisted
  <2>3. \A s, t \in LoadAllPending : s.rid = t.rid => s = t
    BY DEF LoadAllPending
  <2> QED
    BY <1>a, <1>1, <1>2, <2>1, <2>2, <2>3 DEF Placed, AtMostOnce, AtMostOne, WaitsAlone, TrackedAlone,
     PersistedAlone, InHand, Present
<1>5. StartBlind => task' = Idle /\ Persisted(c) = {}
  <2>1. \A r \in Persisted(c) : c \in Texts(LoadAllPending)
    <3> TAKE r \in Persisted(c)
    <3>1. [rid |-> r, row |-> pendingRows[r]] \in LoadAllPending
      BY DEF LoadAllPending, Persisted
    <3>2. \A s \in LoadAllPending : s.row.content \in Texts(LoadAllPending)
      BY DEF Texts
    <3> QED
      BY <3>1, <3>2 DEF Persisted
  <2> QED
    BY <2>1 DEF StartBlind
<1>6. Start => \/ task' = Idle /\ Persisted(c) = {}
               \/ task' = [at |-> "clear", rest |-> LoadAllPending, stored |-> LoadAllPending]
  BY DEF Start, LoadAllPending, Persisted
<1> QED
  BY <1>3, <1>4, <1>5, <1>6

\* Recovery removes the one row of the message, and has it in hand.
LEMMA ClearRowPlaced ==
  ASSUME TypeInv, Handler, NEW c \in accepted \ torn, Placed(c), ClearRow, c \notin torn'
  PROVE  Placed(c)'
<1>0. PICK s \in task.rest :
       /\ Runs(RemovePending(s.rid), s.row.content)
       /\ task' = IF task.rest = {s}
                    THEN [at |-> "resend", rest |-> task.stored]
                    ELSE [task EXCEPT !.rest = @ \ {s}]
  BY DEF ClearRow
<1>a. /\ task.at = "clear" /\ DOMAIN tracker = {} /\ UNCHANGED <<tracker, expired, acked>>
      /\ task = [at |-> "clear", rest |-> task.rest, stored |-> task.stored]
      /\ task.rest \subseteq task.stored
  BY TypeInvIs, TaskIs DEF ClearRow, volatile, Handler, HandlerTraced
<1>b. \/ task.rest = {s} /\ task' = [at |-> "resend", rest |-> task.stored]
      \/ task' = [at |-> "clear", rest |-> task.rest \ {s}, stored |-> task.stored]
  BY <1>0, <1>a
<1>1. Waiting(c)' = Waiting(c) /\ Tracked(c)' = {} /\ Tracked(c) = {}
  BY <1>0, <1>a, PlacesFrame, RemovePendingIs DEF Runs, Fault, tables, Tracked
<1>2. /\ s.row.content = c => Persisted(c)' = Persisted(c) \ {s.rid}
      /\ s.row.content # c => Persisted(c)' = Persisted(c)
  <2>1. \/ Persisted(c)' = Persisted(c) \ {s.rid}
        \/ Persisted(c)' = Persisted(c) /\ s.row.content # c
    BY <1>0, PlacesFrame, RemovePendingIs DEF Runs, Fault, tables
  <2>2. s.row.content # c => s.rid \notin Persisted(c)
    BY <1>0, <1>a DEF Handler, Placed, PersistedAlone
  <2> QED
    BY <2>1, <2>2
<1>3. /\ Reloaded = task.stored /\ ToFlush = {} /\ ~Marking(c) /\ ~Settling(c) /\ ~Holding(c)
      /\ Reloaded' = task.stored /\ ToFlush' = {} /\ ~Marking(c)' /\ ~Settling(c)' /\ ~Holding(c)'
  BY <1>a, <1>b DEF Reloaded, ToFlush, Marking, Settling, Holding
<1>4. s.row.content = c => Persisted(c)' = {}
  BY <1>0, <1>2, <1>a, <1>3 DEF Placed, PersistedAlone, InHand, AtMostOnce, AtMostOne
<1>5. AtMostOnce(c)' /\ WaitsAlone(c)' /\ TrackedAlone(c)'
  BY <1>a, <1>1, <1>2, <1>3 DEF Placed, AtMostOnce, AtMostOne, WaitsAlone, TrackedAlone
<1>6. PersistedAlone(c)'
  BY <1>a, <1>b, <1>1, <1>2, <1>3, <1>4 DEF Placed, PersistedAlone
<1>7. InHand(c)'
  BY <1>0, <1>a, <1>b, <1>1, <1>2, <1>3 DEF Placed, InHand, AtMostOnce, Handler
<1>8. Present(c)'
  BY <1>0, <1>a, <1>1, <1>2, <1>3 DEF Placed, Present
<1> QED
  BY <1>5, <1>6, <1>7, <1>8 DEF Placed

\* A row that is sent again is persisted and tracked once; one that is skipped
\* has expired.
LEMMA ResendPlaced ==
  ASSUME TypeInv, TrackedIsOutstanding, NEW c \in accepted \ torn, Placed(c),
         ResendRow \/ SkipExpired, c \notin torn'
  PROVE  Placed(c)'
<1>0. PICK s \in task.rest :
       /\ task' = AfterResend(s)
       /\ \/ /\ Fault(s.row.content)
             /\ UNCHANGED <<tracker, expired>>
          \/ /\ PushPending(nextRid, s.row)
             /\ Track(nextRid, s.row)
             /\ UNCHANGED expired
          \/ UNCHANGED tables /\ UNCHANGED tracker /\ expired' = expired \cup {s.row.content}
  BY DEF ResendRow, SkipExpired, volatile
<1>a. /\ task.at = "resend" /\ UNCHANGED acked
      /\ task = [at |-> "resend", rest |-> task.rest] /\ s.row \in PendingRow
      /\ nextRid \notin DOMAIN tracker
  BY TypeInvIs, TaskIs DEF ResendRow, SkipExpired, TrackedIsOutstanding, MemoryOK, Stored
<1>b. \/ task' = Idle /\ task.rest = {s}
      \/ task' = [at |-> "resend", rest |-> task.rest \ {s}]
  BY <1>0, <1>a DEF AfterResend
<1>1. /\ Reloaded = task.rest /\ ToFlush = {} /\ ~Marking(c) /\ ~Settling(c) /\ ~Holding(c)
      /\ Reloaded' = task.rest \ {s} /\ ToFlush' = {} /\ ~Marking(c)' /\ ~Settling(c)'
      /\ ~Holding(c)' /\ task'.at \in {"idle", "resend"}
      /\ task'.at = "resend" => task'.rest = task.rest \ {s}
  BY <1>a, <1>b DEF Reloaded, ToFlush, Marking, Settling, Holding, Idle
<1>2. Persisted(c) \subseteq Tracked(c) /\ nextRid \notin Tracked(c)
  BY <1>a, <1>1 DEF Placed, PersistedAlone, Tracked
<1>3. CASE s.row.content # c
  <2>1. Waiting(c)' = Waiting(c) /\ Persisted(c)' = Persisted(c) /\ Tracked(c)' = Tracked(c)
    <3>1. CASE UNCHANGED tables /\ UNCHANGED tracker
      BY <3>1, PlacesFrame DEF tables
    <3>2. CASE PushPending(nextRid, s.row) /\ Track(nextRid, s.row)
      <4>1. Tracked(c)' = Tracked(c) \ {nextRid}
        BY <1>a, <1>3, <3>2, TrackIs
      <4>2. Waiting(c)' = Waiting(c) /\ Persisted(c)' = Persisted(c) \ {nextRid}
        BY <1>3, <3>2, PushPendingIs
      <4> QED
        BY <1>2, <4>1, <4>2
    <3> QED
      BY <1>0, <3>1, <3>2 DEF Fault
  <2>2. expired \subseteq expired'
    BY <1>0
  <2> QED
    BY <1>a, <1>1, <1>3, <2>1, <2>2 DEF Placed, AtMostOnce, AtMostOne, WaitsAlone, TrackedAlone,
     PersistedAlone, InHand, Present
<1>4. CASE s.row.content = c /\ PushPending(nextRid, s.row) /\ Track(nextRid, s.row)
  <2>1. Tracked(c)' = Tracked(c) \cup {nextRid}
    BY <1>a, <1>4, TrackIs
  <2>2. Waiting(c)' = Waiting(c) /\ Persisted(c)' = Persisted(c) \cup {nextRid}
    BY <1>4, PushPendingIs
  <2>3. Waiting(c) = {} /\ Persisted(c) = {} /\ Tracked(c) = {} /\ c \notin acked
    BY <1>a, <1>1, <1>4 DEF Placed, WaitsAlone, PersistedAlone, TrackedAlone, InHand
  <2>4. \A t \in task.rest \ {s} : t.row.content # c
    BY <1>1, <1>4 DEF Placed, AtMostOnce
  <2> QED
    BY <1>a, <1>1, <2>1, <2>2, <2>3, <2>4 DEF Placed, AtMostOnce, AtMostOne, WaitsAlone, TrackedAlone,
     PersistedAlone, InHand, Present
<1>5. CASE s.row.content = c /\ UNCHANGED tables /\ UNCHANGED tracker /\ c \in expired'
  <2>1. Waiting(c)' = Waiting(c) /\ Persisted(c)' = Persisted(c) /\ Tracked(c)' = Tracked(c)
    BY <1>5, PlacesFrame DEF tables
  <2> QED
    BY <1>a, <1>1, <1>5, <2>1 DEF Placed, AtMostOnce, AtMostOne, WaitsAlone, TrackedAlone,
     PersistedAlone, InHand, Present
<1> QED
  BY <1>0, <1>3, <1>4, <1>5 DEF Fault

\* A flush's snapshot lists waiting messages, each once.
LEMMA ConnectPlaced ==
  ASSUME TypeInv, NEW c \in accepted \ torn, Placed(c), NEW p \in Peers, Connect(p)
  PROVE  Placed(c)'
<1>a. /\ task = Idle /\ task.at = "idle" /\ UNCHANGED <<tables, tracker, acked, expired>>
      /\ task' = [at |-> "flush", peer |-> p, rest |-> PendingFor(p, clock)]
  BY DEF Connect, Idle, volatile, history
<1>1. Waiting(c)' = Waiting(c) /\ Persisted(c)' = Persisted(c) /\ Tracked(c)' = Tracked(c)
  BY <1>a, PlacesFrame DEF tables
<1>2. /\ Reloaded = {} /\ ToFlush = {} /\ ~Marking(c) /\ ~Settling(c) /\ ~Holding(c)
      /\ Reloaded' = {} /\ ToFlush' = PendingFor(p, clock) /\ ~Marking(c)' /\ ~Settling(c)'
      /\ ~Holding(c)' /\ task'.at = "flush"
  BY <1>a DEF Reloaded, ToFlush, Marking, Settling, Holding
<1>3. /\ \A e \in PendingFor(p, clock) : e.content = c => e.id \in Waiting(c)
      /\ \A e, f \in PendingFor(p, clock) : e.id = f.id => e = f
  BY DEF PendingFor, Waiting
<1> QED
  BY <1>a, <1>1, <1>2, <1>3 DEF Placed, AtMostOnce, AtMostOne, WaitsAlone, TrackedAlone,
     PersistedAlone, InHand, Present

\* A flushed message is tracked and persisted before its row is marked.
LEMMA FlushEntryPlaced ==
  ASSUME TypeInv, TrackedIsOutstanding, NEW c \in accepted \ torn, Placed(c),
         FlushEntry, c \notin torn'
  PROVE  Placed(c)'
<1>0. PICK e \in task.rest, row \in PendingRow :
       /\ row.content = e.content
       /\ Track(nextRid, row)
       /\ Runs(PushPending(nextRid, row), e.content)
       /\ task' = [at |-> "mark", entry |-> e, peer |-> task.peer, rest |-> task.rest \ {e}]
  <2>1. PICK e \in task.rest :
       LET row == [peer |-> task.peer, content |-> e.content,
                   msg_id |-> nextMsgId, ttl |-> e.expires_at,
                   seq |-> seqCounter, retries |-> 0]
       IN /\ Track(nextRid, row)
          /\ Runs(PushPending(nextRid, row), e.content)
          /\ task' = [at |-> "mark", entry |-> e, peer |-> task.peer,
                      rest |-> task.rest \ {e}]
    BY DEF FlushEntry
  <2>2. [peer |-> task.peer, content |-> e.content, msg_id |-> nextMsgId,
         ttl |-> e.expires_at, seq |-> seqCounter, retries |-> 0] \in PendingRow
    BY TypeInvIs, TaskIs DEF FlushEntry, MemoryOK, CountersOK, PendingRow, Entry
  <2> QED
    BY <2>1, <2>2
<1>a. /\ task.at = "flush" /\ UNCHANGED <<acked, expired>> /\ nextRid \notin DOMAIN tracker
  BY TypeInvIs DEF FlushEntry, TrackedIsOutstanding, MemoryOK
<1>1. /\ Reloaded = {} /\ ToFlush = task.rest /\ ~Marking(c) /\ ~Settling(c) /\ ~Holding(c)
      /\ Reloaded' = {} /\ ToFlush' = task.rest \ {e} /\ ~Settling(c)' /\ ~Holding(c)'
      /\ Marking(c)' <=> e.content = c
      /\ task'.at = "mark" /\ task'.entry = e
  BY <1>0, <1>a DEF Reloaded, ToFlush, Marking, Settling, Holding
<1>2. Persisted(c) \subseteq Tracked(c) /\ nextRid \notin Tracked(c)
  BY <1>a, <1>1 DEF Placed, PersistedAlone, Tracked
<1>3. CASE e.content # c
  <2>1. Waiting(c)' = Waiting(c) /\ Persisted(c)' = Persisted(c) /\ Tracked(c)' = Tracked(c)
    <3>1. Tracked(c)' = Tracked(c) \ {nextRid}
      BY <1>0, <1>3, TrackIs
    <3>2. /\ Waiting(c)' = Waiting(c)
          /\ Persisted(c)' = Persisted(c) \/ Persisted(c)' = Persisted(c) \ {nextRid}
      BY <1>0, <1>3, PushPendingIs, PlacesFrame DEF Runs, Fault, tables
    <3> QED
      BY <1>2, <3>1, <3>2
  <2> QED
    BY <1>a, <1>1, <1>3, <2>1 DEF Placed, AtMostOnce, AtMostOne, WaitsAlone, TrackedAlone,
     PersistedAlone, InHand, Present
<1>4. CASE e.content = c
  <2>1. Tracked(c)' = Tracked(c) \cup {nextRid}
    BY <1>0, <1>4, TrackIs
  <2>2. Waiting(c)' = Waiting(c) /\ Persisted(c)' = Persisted(c) \cup {nextRid}
    BY <1>0, <1>4, PushPendingIs DEF Runs, Fault
  <2>3. /\ Persisted(c) = {} /\ Tracked(c) = {} /\ c \notin acked
        /\ \A i \in Waiting(c) : i = e.id
    BY <1>0, <1>a, <1>1, <1>4 DEF Placed, WaitsAlone, PersistedAlone, TrackedAlone, InHand
  <2>4. \A f \in task.rest \ {e} : f.content # c
    BY <1>0, <1>1, <1>4 DEF Placed, AtMostOnce
  <2> QED
    BY <1>a, <1>1, <1>4, <2>1, <2>2, <2>3, <2>4 DEF Placed, AtMostOnce, AtMostOne, WaitsAlone, TrackedAlone,
     PersistedAlone, InHand, Present
<1> QED
  BY <1>3, <1>4

\* The mark ends the waiting of the flushed message and of no other, although its
\* row may have been deleted in between.
LEMMA MarkEntryPlaced ==
  ASSUME TypeInv, Snapshots, NEW c \in accepted \ torn, Placed(c), MarkEntry, c \notin torn'
  PROVE  Placed(c)'
<1>a. /\ task.at = "mark" /\ UNCHANGED <<tracker, acked, expired>>
      /\ task'.at \in {"idle", "flush"}
      /\ task' = IF task.rest = {} THEN Idle
                 ELSE [at |-> "flush", peer |-> task.peer, rest |-> task.rest]
  <2>1. task.rest = {} => task'.at = "idle"
    BY DEF MarkEntry, Idle
  <2>2. task.rest # {} => task'.at = "flush"
    BY DEF MarkEntry
  <2> QED
    BY <2>1, <2>2 DEF MarkEntry, volatile
<1>1. /\ Reloaded = {} /\ ToFlush = task.rest /\ ~Settling(c) /\ ~Holding(c)
      /\ Marking(c) <=> task.entry.content = c
      /\ Reloaded' = {} /\ ~Marking(c)' /\ ~Settling(c)' /\ ~Holding(c)'
  BY <1>a DEF Reloaded, ToFlush, Marking, Settling, Holding
<1>2. ToFlush' = task.rest
  <2>1. CASE task.rest = {}
    BY <1>a, <2>1 DEF ToFlush, Idle
  <2>2. CASE task.rest # {}
    BY <1>a, <2>2 DEF ToFlush
  <2> QED
    BY <2>1, <2>2
<1>3. Persisted(c)' = Persisted(c) /\ Tracked(c)' = Tracked(c)
  BY <1>a, TypeInvIs, PlacesFrame, MarkDeliveredIs DEF MarkEntry, Runs, Fault, tables
<1>4. Waiting(c)' = Waiting(c) \ {task.entry.id} \/ (Waiting(c)' = Waiting(c) /\ ~Marking(c))
  BY <1>a, <1>1, TypeInvIs, PlacesFrame, MarkDeliveredIs DEF MarkEntry, Runs, Fault, tables
<1>5. ~Marking(c) => task.entry.id \notin Waiting(c)
  BY <1>a, <1>1 DEF Snapshots, Snapshot, Waiting
<1>6. Marking(c) => Waiting(c)' = {}
  BY <1>1, <1>4 DEF Placed, WaitsAlone
<1> QED
  BY <1>a, <1>1, <1>2, <1>3, <1>4, <1>5, <1>6 DEF Placed, AtMostOnce, AtMostOne, WaitsAlone, TrackedAlone,
     PersistedAlone, InHand, Present

\* A deletion takes only messages that it reports as expired.
LEMMA DeletesPlaced ==
  ASSUME NEW c, Placed(c), UNCHANGED <<tracker, acked>>, expired \subseteq expired',
         \/ UNCHANGED tables
         \/ ExpireBefore(clock) /\ Queued(ExpiredIds(clock)) \subseteq expired'
         \/ PruneDelivered
         \/ ExpirePending(clock) /\ InFlight(ExpiredRids(clock)) \subseteq expired'
             /\ task.at = "purge",
         \/ UNCHANGED task
         \/ task.at \in {"idle", "prune", "purge"} /\ task'.at \in {"idle", "prune", "purge"}
  PROVE  Placed(c)'
<1>1. /\ Waiting(c)' \subseteq Waiting(c) /\ Persisted(c)' \subseteq Persisted(c)
      /\ Tracked(c)' = Tracked(c)
      /\ task.at # "purge" => Persisted(c)' = Persisted(c)
      /\ c \notin expired' => Waiting(c)' = Waiting(c) /\ Persisted(c)' = Persisted(c)
  BY PlacesFrame, ExpireBeforeIs, ExpireBeforeShrinks, PruneDeliveredIs, ExpirePendingIs
     DEF tables
<1>2. CASE UNCHANGED task
  <2>1. /\ Reloaded' = Reloaded /\ ToFlush' = ToFlush /\ Holding(c)' = Holding(c)
        /\ Marking(c)' = Marking(c) /\ Settling(c)' = Settling(c)
    BY <1>2 DEF Reloaded, ToFlush, Marking, Settling, Holding
  <2>2. task.at = "purge" => ~Marking(c)
    BY DEF Marking
  <2> QED
    BY <1>1, <1>2, <2>1, <2>2 DEF Placed, AtMostOnce, AtMostOne, WaitsAlone, TrackedAlone,
     PersistedAlone, InHand, Present
<1>3. CASE task.at \in {"idle", "prune", "purge"} /\ task'.at \in {"idle", "prune", "purge"}
  <2>1. /\ Reloaded = {} /\ ToFlush = {} /\ ~Marking(c) /\ ~Settling(c) /\ ~Holding(c)
        /\ Reloaded' = {} /\ ToFlush' = {} /\ ~Marking(c)' /\ ~Settling(c)' /\ ~Holding(c)'
    BY <1>3 DEF Reloaded, ToFlush, Marking, Settling, Holding
  <2> QED
    BY <1>1, <1>3, <2>1 DEF Placed, AtMostOnce, AtMostOne, WaitsAlone, TrackedAlone,
     PersistedAlone, InHand, Present
<1> QED
  BY <1>2, <1>3

\* The deletions of the clean-up and of `diag clean`, whatever runs.
LEMMA CleanUpPlaced ==
  ASSUME NEW c, Placed(c), CleanUp \/ Prune \/ Purge \/ DiagClean
  PROVE  Placed(c)'
<1>1. CASE CleanUp
  <2>1. task.at = "idle" /\ task'.at = "prune" /\ UNCHANGED <<tracker, acked>>
    BY <1>1 DEF CleanUp, Idle, volatile
  <2> QED
    BY <1>1, <2>1, DeletesPlaced DEF CleanUp, Deletes
<1>2. CASE Prune
  <2>1. task.at = "prune" /\ task'.at = "purge" /\ UNCHANGED <<tracker, acked>>
    BY <1>2 DEF Prune, volatile
  <2> QED
    BY <1>2, <2>1, DeletesPlaced DEF Prune, Deletes
<1>3. CASE Purge
  <2>1. task.at = "purge" /\ task'.at = "idle" /\ UNCHANGED <<tracker, acked>>
    BY <1>3 DEF Purge, Idle, volatile
  <2> QED
    BY <1>3, <2>1, DeletesPlaced DEF Purge, Deletes
<1>4. CASE DiagClean
  <2>1. UNCHANGED <<tracker, acked, task>>
    BY <1>4 DEF DiagClean, volatile
  <2> QED
    BY <1>4, <2>1, DeletesPlaced DEF DiagClean
<1> QED
  BY <1>1, <1>2, <1>3, <1>4

\* A message that was just accepted waits in the queue and is nowhere else.
LEMMA EnqueuePlaced ==
  ASSUME TypeInv, NEW d \in Contents, Enqueue(d),
         NEW c \in accepted' \ torn', c \in accepted => Placed(c)
  PROVE  Placed(c)'
<1>a. /\ UNCHANGED <<tracker, task, acked, expired>> /\ nextId \notin DOMAIN messages
      /\ PushWithTtl(Addressee[d], d, Deadline[d]) /\ accepted' = accepted \cup {d}
      /\ d \notin accepted
  BY TypeInvIs DEF Enqueue, volatile, TablesOK
<1>1. Persisted(c)' = Persisted(c) /\ Tracked(c)' = Tracked(c)
  BY <1>a, PlacesFrame, PushWithTtlIs
<1>2. CASE c \in accepted
  <2>1. Waiting(c)' = Waiting(c)
    BY <1>a, <1>2 DEF PushWithTtl, Waiting
  <2> QED
    BY <1>a, <1>1, <1>2, <2>1, QuietFrame
<1>3. CASE c = d
  <2>1. Waiting(c)' = {nextId}
    BY <1>a, <1>3, TypeInvIs DEF PushWithTtl, Waiting, QueueTraced
  <2>2. Persisted(c) = {} /\ Tracked(c) = {}
    BY <1>a, <1>3, TypeInvIs DEF Records, Known, Persisted, Tracked
  <2>3. /\ \A s \in Reloaded' : s.row.content # c
        /\ \A e \in ToFlush' : e.content # c
        /\ ~Holding(c)' /\ ~Marking(c)' /\ ~Settling(c)'
    BY <1>a, <1>3, TypeInvIs DEF Records, Known, HandlerTraced, FromQueue, HistoryOK,
       Reloaded, ToFlush, Marking, Settling, Holding
  <2>4. c \notin acked'
    BY <1>a, <1>3, TypeInvIs DEF HistoryOK
  <2>5. task'.at = "clear" => \A s \in task'.rest : s.row.content # c
    BY <1>a, <2>3, TypeInvIs DEF Reloaded, HandlerTraced
  <2> QED
    BY <1>1, <2>1, <2>2, <2>3, <2>4, <2>5 DEF Placed, AtMostOnce, AtMostOne, WaitsAlone, TrackedAlone,
     PersistedAlone, InHand, Present
<1> QED
  BY <1>a, <1>2, <1>3

\* The end of the process leaves every message in the database but those that it
\* endangers.
LEMMA CrashPlaced ==
  ASSUME TypeInv, NEW c \in accepted \ torn, Placed(c), Crash, c \notin torn'
  PROVE  Placed(c)'
<1>a. /\ task' = Down /\ task'.at = "down" /\ DOMAIN tracker' = {}
      /\ UNCHANGED <<tables, acked, expired>> /\ c \notin Endangered
  BY DEF Crash, Down
<1>1. Waiting(c)' = Waiting(c) /\ Persisted(c)' = Persisted(c) /\ Tracked(c)' = {}
  BY <1>a, PlacesFrame DEF tables, Tracked
<1>2. /\ Reloaded' = {} /\ ToFlush' = {} /\ ~Marking(c)' /\ ~Settling(c)' /\ ~Holding(c)'
  BY <1>a DEF Reloaded, ToFlush, Marking, Settling, Holding
<1>3. /\ ~Marking(c) /\ ~Settling(c)
      /\ Holding(c) => task.at \in {"swap", "giveup"}
      /\ task.at = "resend" => \A s \in task.rest : s.row.content # c
      /\ task.at = "clear" => \A s \in task.stored \ task.rest : s.row.content # c
  BY <1>a DEF Endangered, Texts, Marking, Settling, Holding
<1>4. (\E s \in Reloaded : s.row.content = c) => Persisted(c) # {}
  BY <1>3 DEF Reloaded, Placed, InHand
<1> QED
  BY <1>a, <1>1, <1>2, <1>3, <1>4 DEF Placed, AtMostOnce, AtMostOne, WaitsAlone, TrackedAlone,
     PersistedAlone, InHand, Present

----------------------------------------------------------------------------

\* Every message whose handler was not cut short is in its place.
Where == \A c \in accepted \ torn : Placed(c)

\* The inductive invariant behind OneCopy.
PlaceInv == TypeInv /\ TrackedIsOutstanding /\ Handler /\ Snapshots /\ Where

\* Every step keeps every such message in its place.
LEMMA WhereStep ==
  ASSUME PlaceInv, [Next]_vars
  PROVE  Where'
<1> USE DEF PlaceInv
<1>1. ASSUME \E c \in Contents : Enqueue(c) PROVE Where'
  <2>1. UNCHANGED torn
    BY <1>1 DEF Enqueue
  <2>2. accepted \ torn \subseteq accepted' \ torn'
    BY <1>1 DEF Enqueue
  <2> QED
    BY <1>1, <2>1, EnqueuePlaced DEF Where
<1>2. ASSUME ~\E c \in Contents : Enqueue(c) PROVE Where'
  <2>1. accepted' = accepted /\ torn \subseteq torn'
    BY <1>2 DEF Next, Step, vars, bounds, history, Runs, Fault, Start, StartBlind, ClearRow,
       ResendRow, SkipExpired, FlushEntry, MarkEntry, Settle, Swap, Persist, GiveUp, Requeue,
       Prune, Purge, Connect, Response, Untracked, Retry, Exhaust, CleanUp, DiagClean, Tick,
       Crash
  <2> SUFFICES ASSUME NEW c \in accepted \ torn, c \notin torn' PROVE Placed(c)'
    BY <2>1 DEF Where
  <2>2. Placed(c)
    BY DEF Where
  <2>3. CASE Step
    BY <2>2, <2>3, ClearRowPlaced, ResendPlaced, FlushEntryPlaced, MarkEntryPlaced,
       SettlePlaced, SwapPlaced, PersistPlaced, RequeuePlaced, CleanUpPlaced
       DEF Step
  <2> QED
    BY <1>2, <2>2, <2>3, StartPlaced, ConnectPlaced, ResponsePlaced, UntrackedPlaced,
       RetryPlaced, ExhaustPlaced, CleanUpPlaced, CrashPlaced DEF Next
<1> QED
  BY <1>1, <1>2

\* The inductive invariant holds in every behaviour of the daemon.
LEMMA PlaceInvariant == Spec => []PlaceInv
<1>1. Init => PlaceInv
  <2> SUFFICES ASSUME Init PROVE PlaceInv
    OBVIOUS
  <2>1. TypeInv
    BY InitTypeInv
  <2> QED
    BY <2>1 DEF Init, PlaceInv, TrackedIsOutstanding, Handler, Snapshots, ToFlush, Where, Down
<1>2. PlaceInv /\ [Next]_vars => PlaceInv'
  BY StepTypeInv, OutstandingStep, HandlerStep, SnapshotsStep, WhereStep DEF PlaceInv
<1> QED
  BY <1>1, <1>2, PTL DEF Spec

\* Between handlers, a message in its place has one durable copy until it is
\* acknowledged, and none after.
LEMMA PlacedOnce ==
  ASSUME AtRest, NEW c, Placed(c), Persisted(c) # {} => Waiting(c) = {}, c \notin expired
  PROVE  IF c \in acked THEN Copies(c) = {} ELSE \E k \in Copies(c) : Copies(c) = {k}
<1>a. Copies(c) = {<<"messages", i>> : i \in Waiting(c)} \cup {<<"pending", r>> : r \in Persisted(c)}
  BY DEF Copies, Waiting, Persisted
<1>1. /\ ~Holding(c) /\ ~Settling(c) /\ \A s \in Reloaded : FALSE
  BY DEF AtRest, Idle, Down, Holding, Settling, Reloaded
<1>2. CASE c \in acked
  BY <1>1, <1>2, <1>a DEF Placed, WaitsAlone, PersistedAlone
<1>3. CASE c \notin acked /\ Persisted(c) = {}
  <2>1. PICK i \in Waiting(c) : TRUE
    BY <1>1, <1>3 DEF Placed, Present
  <2>2. Waiting(c) = {i}
    BY <2>1 DEF Placed, AtMostOnce, AtMostOne
  <2>3. Copies(c) = {<<"messages", i>>}
    BY <1>a, <1>3, <2>2
  <2> QED
    BY <1>3, <2>3
<1>4. CASE c \notin acked /\ Persisted(c) # {}
  <2>1. PICK r \in Persisted(c) : TRUE
    BY <1>4
  <2>2. Persisted(c) = {r}
    BY <2>1 DEF Placed, AtMostOnce, AtMostOne
  <2>3. Waiting(c) = {}
    BY <1>4
  <2>4. Copies(c) = {<<"pending", r>>}
    BY <1>a, <2>2, <2>3
  <2> QED
    BY <1>4, <2>4
<1> QED
  BY <1>2, <1>3, <1>4

\* Whatever was flushed, retried, handed back and recovered, between handlers an
\* accepted message that neither expired nor had its handler cut short stands in
\* exactly one row of the database, and in none once it was acknowledged.
THEOREM OneDurableCopy == Spec => []OneCopy
<1>1. PlaceInv => OneCopy
  <2> SUFFICES ASSUME PlaceInv, AtRest, NEW c \in accepted \ (expired \cup torn)
               PROVE  IF c \in acked THEN Copies(c) = {}
                      ELSE \E k \in Copies(c) : Copies(c) = {k}
    BY DEF OneCopy
  <2>1. Placed(c)
    BY DEF PlaceInv, Where
  <2>2. Persisted(c) # {} => Waiting(c) = {}
    BY <2>1 DEF AtRest, Idle, Down, Placed, WaitsAlone, Marking
  <2> QED
    BY <2>1, <2>2, PlacedOnce
<1> QED
  BY <1>1, PlaceInvariant, PTL

----------------------------------------------------------------------------

\* The row of `pending` has the identity of the tracker's entry, of the handler's
\* record, and of the row that recovery has loaded.
Agrees(c) ==
  /\ \A r \in Persisted(c) :
       /\ r \in Tracked(c) => pendingRows[r].msg_id = tracker[r].msg_id
       /\ Holding(c) => pendingRows[r].msg_id = task.row.msg_id
  /\ task.at = "clear" => \A s \in task.rest :
       s.row.content = c => pendingRows[s.rid].msg_id = s.row.msg_id

Agreement == \A c \in accepted \ torn : Agrees(c)

\* A step adds no row, and no entry, of the message c and changes none.
RowsKept(c) == \A r \in Persisted(c)' :
  r \in Persisted(c) /\ pendingRows'[r] = pendingRows[r]
EntriesKept(c) == \A r \in Tracked(c)' :
  r \in Tracked(c) /\ tracker'[r] = tracker[r]

\* Deletions keep the remaining rows.
LEMMA RowsKeptIs ==
  ASSUME NEW c,
         \/ UNCHANGED pendingRows
         \/ \E rid : RemovePending(rid)
         \/ ExpirePending(clock)
  PROVE  RowsKept(c)
BY DEF RowsKept, Persisted, RemovePending, ExpirePending, Restrict

\* Acknowledgements keep the remaining entries.
LEMMA EntriesKeptIs ==
  ASSUME NEW c, UNCHANGED tracker \/ \E rid : Ack(rid)
  PROVE  EntriesKept(c)
BY DEF EntriesKept, Tracked, Ack, Without, Restrict

\* A step that adds nothing keeps the agreement, unless a handler takes the
\* message in hand.
LEMMA AgreesFrame ==
  ASSUME NEW c, Agrees(c), RowsKept(c), EntriesKept(c),
         \/ task'.at \notin {"clear", "swap", "persist", "giveup", "requeue"}
         \/ UNCHANGED <<task, pendingRows>>
         \/ Holding(c) /\ task'.row = task.row /\ task'.at # "clear"
         \/ ~Holding(c)' /\ task'.at # "clear"
  PROVE  Agrees(c)'
BY DEF Agrees, RowsKept, EntriesKept, Holding

\* Every step keeps the rows, the entries and the handlers in agreement.
LEMMA AgreesStep ==
  ASSUME PlaceInv, [Next]_vars, NEW c \in accepted \ torn, Agrees(c), c \notin torn'
  PROVE  Agrees(c)'
<1>p. Placed(c) /\ TypeInv /\ Handler /\ TrackedIsOutstanding
  BY DEF PlaceInv, Where
<1>n. nextRid \notin DOMAIN tracker /\ MemoryOK /\ TablesOK
  BY <1>p, TypeInvIs DEF MemoryOK, TrackedIsOutstanding
<1>1. CASE \/ \E p \in Peers : Connect(p)
           \/ MarkEntry \/ Settle \/ Requeue \/ CleanUp \/ Prune \/ Purge \/ StartBlind
           \/ \E rid \in DOMAIN outstanding : Response(rid)
  <2>1. EntriesKept(c)
    BY <1>1, EntriesKeptIs DEF Connect, MarkEntry, Settle, Requeue, CleanUp, Prune, Purge,
       StartBlind, Response, volatile
  <2>2. RowsKept(c)
    BY <1>1, RowsKeptIs DEF Connect, MarkEntry, Settle, Requeue, CleanUp, Prune, Purge,
       StartBlind, Response, tables, Runs, Fault, Deletes, MarkDelivered, PushWithTtl,
       ExpireBefore, PruneDelivered
  <2>3. task'.at \notin {"clear", "swap", "persist", "giveup", "requeue"}
    <3>1. CASE MarkEntry
      <4>1. CASE task.rest = {}
        BY <3>1, <4>1 DEF MarkEntry, Idle
      <4>2. CASE task.rest # {}
        BY <3>1, <4>2 DEF MarkEntry
      <4> QED
        BY <4>1, <4>2
    <3>2. CASE ~MarkEntry
      BY <1>1, <3>2 DEF Connect, Settle, Requeue, CleanUp, Prune, Purge, StartBlind, Response,
         Idle
    <3> QED
      BY <3>1, <3>2
  <2> QED
    BY <2>1, <2>2, <2>3, AgreesFrame
<1>2. CASE \/ UNCHANGED vars \/ DiagClean \/ Tick \/ \E d \in Contents : Enqueue(d)
  <2>1. UNCHANGED <<task, pendingRows, tracker>>
    BY <1>2 DEF vars, DiagClean, Tick, Enqueue, tables, volatile, ExpireBefore, PruneDelivered,
       PushWithTtl
  <2> QED
    BY <2>1, RowsKeptIs, EntriesKeptIs, AgreesFrame
<1>3. ASSUME NEW rid \in DOMAIN outstanding, Untracked(rid) PROVE Agrees(c)'
  <2>1. UNCHANGED <<task, pendingRows, tracker>>
    BY <1>3 DEF Untracked, tables
  <2> QED
    BY <2>1, RowsKeptIs, EntriesKeptIs, AgreesFrame
<1>4. CASE Swap \/ GiveUp
  <2>1. task'.row = task.row /\ task'.at \in {"persist", "requeue"} /\ UNCHANGED tracker
        /\ task.at \in {"swap", "giveup"}
    BY <1>4 DEF Swap, GiveUp, volatile
  <2>2. RowsKept(c)
    BY <1>4, RowsKeptIs DEF Swap, GiveUp, Runs, Fault, tables
  <2>3. Holding(c)' => Holding(c)
    BY <2>1 DEF Holding
  <2> QED
    BY <2>1, <2>2, <2>3, EntriesKeptIs, AgreesFrame
<1>5. CASE Start
  <2>1. UNCHANGED <<pendingRows, tracker>> /\ task'.at \in {"idle", "clear"}
        /\ (task'.at = "clear" => task'.rest = LoadAllPending)
    BY <1>5 DEF Start, tables, volatile, Idle
  <2>2. \A s \in LoadAllPending : s.row = pendingRows[s.rid]
    BY DEF LoadAllPending
  <2> QED
    BY <2>1, <2>2 DEF Agrees, Persisted, Tracked, Holding
<1>6. CASE ClearRow
  <2>0. PICK s \in task.rest :
         /\ Runs(RemovePending(s.rid), s.row.content)
         /\ task' = IF task.rest = {s}
                      THEN [at |-> "resend", rest |-> task.stored]
                      ELSE [task EXCEPT !.rest = @ \ {s}]
    BY <1>6 DEF ClearRow
  <2>1. /\ task.at = "clear" /\ UNCHANGED tracker
        /\ task = [at |-> "clear", rest |-> task.rest, stored |-> task.stored]
        /\ \A t \in task.rest : t.rid = s.rid => t = s
    BY <1>6, <2>0, <1>p, TypeInvIs, TaskIs DEF ClearRow, volatile, Handler, HandlerTraced
  <2>2. \/ task'.at = "resend" /\ task' = [at |-> "resend", rest |-> task.stored]
        \/ task'.at = "clear" /\ task'.rest = task.rest \ {s}
    BY <2>0, <2>1
  <2>3. \/ pendingRows' = Restrict(pendingRows, DOMAIN pendingRows \ {s.rid})
        \/ UNCHANGED pendingRows
    BY <2>0 DEF Runs, Fault, tables, RemovePending
  <2>4. \A t \in task.rest \ {s} :
          t.row.content = c => t.rid \in Persisted(c) /\ t.rid # s.rid
    BY <2>1, <1>p DEF Placed, InHand
  <2>5. \A t \in task.rest \ {s} :
          t.row.content = c => pendingRows'[t.rid] = pendingRows[t.rid]
    BY <2>3, <2>4 DEF Restrict, Persisted
  <2>6. RowsKept(c) /\ EntriesKept(c) /\ ~Holding(c)'
    BY <2>0, <2>1, <2>2, RowsKeptIs, EntriesKeptIs DEF Runs, Fault, tables, Holding
  <2> QED
    BY <2>1, <2>2, <2>5, <2>6 DEF Agrees, RowsKept, EntriesKept
<1>7. CASE SkipExpired
  <2>1. UNCHANGED <<pendingRows, tracker>> /\ task'.at \in {"idle", "resend"}
    BY <1>7, <1>p, TypeInvIs, TaskIs DEF SkipExpired, tables, volatile, AfterResend, Idle
  <2> QED
    BY <2>1, RowsKeptIs, EntriesKeptIs, AgreesFrame
<1>8. ASSUME NEW row \in PendingRow, Track(nextRid, row), PushPending(nextRid, row),
             task'.at \in {"idle", "resend", "mark"}
      PROVE  Agrees(c)'
  <2>1. /\ \A r \in DOMAIN tracker' : r = nextRid \/ (r \in DOMAIN tracker /\ tracker'[r] = tracker[r])
        /\ \A r \in DOMAIN pendingRows' :
             r = nextRid \/ (r \in DOMAIN pendingRows /\ pendingRows'[r] = pendingRows[r])
        /\ nextRid \in DOMAIN tracker' => tracker'[nextRid].msg_id = row.msg_id
        /\ nextRid \in DOMAIN pendingRows' => pendingRows'[nextRid] = row
    BY <1>8 DEF Track, Put, PushPending, PendingRow
  <2> QED
    BY <1>8, <2>1 DEF Agrees, Persisted, Tracked, Holding
<1>9. CASE ResendRow
  <2>0. PICK s \in task.rest :
         /\ \/ PushPending(nextRid, s.row) /\ Track(nextRid, s.row)
            \/ Fault(s.row.content) /\ UNCHANGED tracker
         /\ task' = AfterResend(s)
    BY <1>9 DEF ResendRow
  <2>1. s.row \in PendingRow /\ task'.at \in {"idle", "resend"}
    BY <1>9, <2>0, <1>p, TypeInvIs, TaskIs DEF ResendRow, Stored, AfterResend, Idle
  <2>2. CASE UNCHANGED <<pendingRows, tracker>>
    BY <2>1, <2>2, RowsKeptIs, EntriesKeptIs, AgreesFrame
  <2> QED
    BY <2>0, <2>1, <2>2, <1>8 DEF Fault, tables
<1>10. CASE FlushEntry
  <2>1. PICK e \in task.rest, row \in PendingRow :
         /\ row.content = e.content
         /\ Track(nextRid, row)
         /\ Runs(PushPending(nextRid, row), e.content)
         /\ task'.at = "mark"
    <3>1. PICK e \in task.rest :
         LET row == [peer |-> task.peer, content |-> e.content,
                     msg_id |-> nextMsgId, ttl |-> e.expires_at,
                     seq |-> seqCounter, retries |-> 0]
         IN /\ Track(nextRid, row)
            /\ Runs(PushPending(nextRid, row), e.content)
            /\ task' = [at |-> "mark", entry |-> e, peer |-> task.peer,
                        rest |-> task.rest \ {e}]
      BY <1>10 DEF FlushEntry
    <3>2. [peer |-> task.peer, content |-> e.content, msg_id |-> nextMsgId,
           ttl |-> e.expires_at, seq |-> seqCounter, retries |-> 0] \in PendingRow
      BY <1>10, <1>p, TypeInvIs, TaskIs DEF FlushEntry, MemoryOK, CountersOK, PendingRow, Entry
    <3> QED
      BY <3>1, <3>2
  <2>2. CASE PushPending(nextRid, row)
    BY <2>1, <2>2, <1>8
  <2>3. CASE Fault(e.content)
    <3>1. c # e.content /\ UNCHANGED pendingRows
      BY <2>3 DEF Fault, tables
    <3>2. EntriesKept(c)
      BY <2>1, <3>1 DEF EntriesKept, Tracked, Track, Put, PendingRow
    <3> QED
      BY <2>1, <3>1, <3>2, RowsKeptIs, AgreesFrame
  <2> QED
    BY <2>1, <2>2, <2>3 DEF Runs
<1>11. CASE Persist
  <2>1. task.at = "persist" /\ task'.at = "idle" /\ UNCHANGED tracker
    BY <1>11 DEF Persist, Idle, volatile
  <2>2. CASE PushPending(task.new, task.row)
    <3>1. \A r \in DOMAIN pendingRows' :
            \/ r = task.new /\ pendingRows'[r] = task.row
            \/ r \in DOMAIN pendingRows /\ pendingRows'[r] = pendingRows[r]
      BY <2>2 DEF PushPending
    <3> QED
      BY <1>p, <2>1, <3>1 DEF Agrees, Persisted, Tracked, Holding, Handler
  <2>3. CASE UNCHANGED pendingRows
    BY <2>1, <2>3, RowsKeptIs, EntriesKeptIs, AgreesFrame
  <2> QED
    BY <1>11, <2>2, <2>3 DEF Persist, Runs, Fault, tables
<1>12. ASSUME NEW rid \in DOMAIN outstanding, Retry(rid) PROVE Agrees(c)'
  <2>1. /\ task.at = "idle" /\ rid \in DOMAIN tracker /\ UNCHANGED pendingRows
        /\ task' = [at |-> "swap", old |-> rid, new |-> nextRid, row |-> Failed(rid)]
        /\ FailAndRetrack(rid, nextRid)
    BY <1>12 DEF Retry, CanTake, Idle, tables
  <2>2. Failed(rid).content = tracker[rid].content /\ Failed(rid).msg_id = tracker[rid].msg_id
    BY <1>n, <2>1 DEF Failed, MemoryOK, PendingRow
  <2>3. /\ Persisted(c)' = Persisted(c) /\ Persisted(c) \subseteq Tracked(c) /\ AtMostOne(Tracked(c))
        /\ nextRid \notin Tracked(c) /\ (rid \in Tracked(c) <=> tracker[rid].content = c)
    BY <1>p, <1>n, <2>1 DEF Placed, PersistedAlone, AtMostOnce, Persisted, Tracked, Holding, Settling
  <2>4. \A r \in Tracked(c)' : r = nextRid \/ (r \in Tracked(c) /\ tracker'[r] = tracker[r])
    BY <2>1 DEF FailAndRetrack, Tracked
  <2> QED
    BY <2>1, <2>2, <2>3, <2>4 DEF Agrees, Holding, AtMostOne
<1>13. ASSUME NEW rid \in DOMAIN outstanding, Exhaust(rid) PROVE Agrees(c)'
  <2>1. /\ task.at = "idle" /\ rid \in DOMAIN tracker /\ UNCHANGED pendingRows
        /\ task' = [at |-> "giveup", old |-> rid, row |-> Failed(rid)] /\ EntriesKept(c)
    BY <1>13, EntriesKeptIs DEF Exhaust, CanTake, Idle, tables
  <2>2. Failed(rid).content = tracker[rid].content /\ Failed(rid).msg_id = tracker[rid].msg_id
    BY <1>n, <2>1 DEF Failed, MemoryOK, PendingRow
  <2>3. /\ Persisted(c)' = Persisted(c) /\ Persisted(c) \subseteq Tracked(c) /\ AtMostOne(Tracked(c))
        /\ (rid \in Tracked(c) <=> tracker[rid].content = c)
    BY <1>p, <2>1 DEF Placed, PersistedAlone, AtMostOnce, Persisted, Tracked, Holding, Settling
  <2> QED
    BY <2>1, <2>2, <2>3 DEF Agrees, Holding, AtMostOne, EntriesKept
<1>14. CASE Crash
  <2>1. UNCHANGED pendingRows /\ DOMAIN tracker' = {} /\ task'.at = "down"
    BY <1>14 DEF Crash, tables, Down
  <2> QED
    BY <2>1 DEF Agrees, Tracked, Holding
<1> QED
  BY <1>1, <1>2, <1>3, <1>4, <1>5, <1>6, <1>7, <1>9, <1>10, <1>11, <1>12, <1>13, <1>14
     DEF Next, Step

\* The inductive invariant behind RecoverySeesInFlight.
AgreeInv == PlaceInv /\ Agreement

\* It holds in every behaviour of the daemon.
LEMMA AgreeInvariant == Spec => []AgreeInv
<1>1. Init => Agreement
  BY DEF Init, Agreement
<1>2. AgreeInv /\ [Next]_vars => Agreement'
  <2> SUFFICES ASSUME AgreeInv, [Next]_vars, NEW c \in accepted' \ torn' PROVE Agrees(c)'
    BY DEF Agreement
  <2>1. torn \subseteq torn'
    BY DEF AgreeInv, Next, Step, vars, bounds, history, Runs, Fault, Start, StartBlind, ClearRow,
       ResendRow, SkipExpired, FlushEntry, MarkEntry, Settle, Swap, Persist, GiveUp, Requeue,
       Prune, Purge, Connect, Response, Untracked, Retry, Exhaust, CleanUp, Enqueue, DiagClean,
       Tick, Crash
  <2>2. CASE c \in accepted
    BY <2>1, <2>2, AgreesStep DEF AgreeInv, Agreement
  <2>3. CASE c \notin accepted
    <3>1. Enqueue(c)
      BY <2>3 DEF AgreeInv, Next, Step, vars, bounds, history, Start, StartBlind, ClearRow,
       ResendRow, SkipExpired, FlushEntry, MarkEntry, Settle, Swap, Persist, GiveUp, Requeue,
       Prune, Purge, Connect, Response, Untracked, Retry, Exhaust, CleanUp, Enqueue, DiagClean,
       Tick, Crash
    <3>2. UNCHANGED <<task, pendingRows, tracker>> /\ TypeInv
      BY <3>1 DEF Enqueue, PushWithTtl, volatile, AgreeInv, PlaceInv
    <3>3. /\ Persisted(c)' = {}
          /\ task.at = "clear" => \A s \in task.rest : s.row.content # c
      BY <2>3, <3>2, TypeInvIs DEF Records, Known, Persisted, HandlerTraced
    <3> QED
      BY <3>2, <3>3 DEF Agrees
  <2> QED
    BY <2>2, <2>3
<1> QED
  BY <1>1, <1>2, PlaceInvariant, PTL DEF Spec, AgreeInv

\* Between handlers the table `pending` and the tracker list the same requests,
\* with the same recipient, text, identity, deadline and number: a crash now
\* makes recovery resend exactly what was in flight.
THEOREM RecoveryIsExact == Spec => []RecoverySeesInFlight
<1>1. AgreeInv => RecoverySeesInFlight
  <2> SUFFICES ASSUME AgreeInv, task = Idle PROVE RecoverySeesInFlight
    BY DEF RecoverySeesInFlight
  <2>a. /\ StableIdentity /\ \A c \in accepted \ torn : Placed(c) /\ Agrees(c)
        /\ \A e \in Records : e.content \in accepted
    BY TypeInvIs DEF AgreeInv, PlaceInv, Where, Agreement, TypeInv, Known
  <2>b. /\ task.at = "idle" /\ Reloaded = {}
        /\ \A c : ~Holding(c) /\ ~Settling(c) /\ ~Marking(c)
    BY DEF Idle, Reloaded, Holding, Settling, Marking
  <2>1. ASSUME NEW r \in DOMAIN tracker, tracker[r].content \notin expired \cup torn
        PROVE  r \in DOMAIN pendingRows /\ SameRequest(pendingRows[r], tracker[r])
    <3> DEFINE c == tracker[r].content
    <3>1. c \in accepted \ torn /\ r \in Tracked(c)
      BY <2>a, <2>1 DEF Records, Tracked
    <3>2. Placed(c) /\ Agrees(c) /\ c \notin expired
      BY <2>a, <2>1, <3>1
    <3> HIDE DEF c
    <3>3. Persisted(c) # {}
      BY <2>b, <3>1, <3>2 DEF Placed, Present, TrackedAlone, WaitsAlone
    <3>4. r \in Persisted(c)
      BY <2>b, <3>1, <3>2, <3>3 DEF Placed, PersistedAlone, AtMostOnce, AtMostOne
    <3>5. pendingRows[r].msg_id = tracker[r].msg_id
      BY <3>1, <3>2, <3>4 DEF Agrees
    <3>6. tracker[r] \in Records /\ pendingRows[r] \in Records /\ r \in DOMAIN pendingRows
      BY <2>1, <3>4 DEF Records, Persisted
    <3> QED
      BY <2>a, <3>5, <3>6 DEF StableIdentity
  <2>2. ASSUME NEW r \in DOMAIN pendingRows, pendingRows[r].content \notin torn
        PROVE  r \in DOMAIN tracker /\ SameRequest(pendingRows[r], tracker[r])
    <3> DEFINE c == pendingRows[r].content
    <3>1. c \in accepted \ torn /\ r \in Persisted(c)
      BY <2>a, <2>2 DEF Records, Persisted
    <3>2. Placed(c) /\ Agrees(c)
      BY <2>a, <2>2, <3>1
    <3> HIDE DEF c
    <3>3. r \in Tracked(c)
      BY <2>b, <3>1, <3>2 DEF Placed, PersistedAlone
    <3>5. pendingRows[r].msg_id = tracker[r].msg_id
      BY <3>1, <3>2, <3>3 DEF Agrees
    <3>6. tracker[r] \in Records /\ pendingRows[r] \in Records /\ r \in DOMAIN tracker
      BY <2>2, <3>3 DEF Records, Tracked
    <3> QED
      BY <2>a, <3>5, <3>6 DEF StableIdentity
  <2> QED
    BY <2>1, <2>2 DEF RecoverySeesInFlight
<1> QED
  BY <1>1, AgreeInvariant, PTL

----------------------------------------------------------------------------

\* The budget of the lives of the process that have ended.
Lives == (MaxRetries + 1) * crashes

\* How often an identity was sent, at every stage: within a life as often as its
\* entry counts, before it at most the budget of each earlier life.  The entry
\* is gone when the budget is exhausted, so the handler's record counts too.
Budget ==
  /\ \A r \in DOMAIN tracker :
       /\ tracker[r].retries <= MaxRetries
       /\ tracker[r].content \notin torn =>
            sends[tracker[r].msg_id] <= Lives + tracker[r].retries + 1
  /\ task.at = "down" => \A r \in DOMAIN pendingRows :
       pendingRows[r].content \notin torn => sends[pendingRows[r].msg_id] <= Lives
  /\ \A s \in Reloaded : s.row.content \notin torn => sends[s.row.msg_id] <= Lives
  /\ task.at = "giveup" /\ task.row.content \notin torn =>
       sends[task.row.msg_id] <= Lives + MaxRetries + 1

\* A crash adds one life's budget.
LEMMA LivesIs ==
  ASSUME CountersOK, CountersOK'
  PROVE  /\ Lives \in Nat
         /\ UNCHANGED crashes => Lives' = Lives
         /\ crashes' = crashes + 1 => Lives' = Lives + MaxRetries + 1
<1>1. MaxRetries \in Nat /\ crashes \in Nat
  BY SenderAssumption DEF CountersOK
<1>2. \A m, n \in Nat : (m + 1) * (n + 1) = (m + 1) * n + m + 1
  OBVIOUS
<1>3. \A m, n \in Nat : (m + 1) * n \in Nat
  OBVIOUS
<1> QED
  BY <1>1, <1>2, <1>3 DEF Lives

\* A step that sends nothing and hands no record to a handler or to recovery
\* keeps the budget.
LEMMA BudgetFrame ==
  ASSUME TypeInv, Budget, CountersOK', UNCHANGED <<sends, crashes>>, torn \subseteq torn',
         \A r \in DOMAIN tracker' : r \in DOMAIN tracker /\ tracker'[r] = tracker[r],
         \/ UNCHANGED <<task, pendingRows>>
         \/ task'.at \notin {"down", "clear", "resend", "giveup"}
         \/ task'.at \in {"clear", "resend"} /\ Reloaded' \subseteq Reloaded
  PROVE  Budget'
<1>1. Lives' = Lives
  BY TypeInvIs, LivesIs
<1>2. CASE UNCHANGED <<task, pendingRows>>
  BY <1>1, <1>2 DEF Budget, Reloaded
<1>3. CASE task'.at \notin {"down", "clear", "resend", "giveup"}
  BY <1>1, <1>3 DEF Budget, Reloaded
<1>4. CASE task'.at \in {"clear", "resend"} /\ Reloaded' \subseteq Reloaded
  BY <1>1, <1>4 DEF Budget
<1> QED
  BY <1>2, <1>3, <1>4

\* Sending an identity counts it and no other.
LEMMA CountIs ==
  ASSUME NEW id, Count(id)
  PROVE  /\ \A i \in DOMAIN sends : i # id => sends'[i] = sends[i]
         /\ id \in DOMAIN sends => sends'[id] = sends[id] + 1
         /\ id \notin DOMAIN sends => sends'[id] = 1
BY DEF Count

\* The numbers that the comparisons of Budget are about.
LEMMA SentIs ==
  ASSUME TypeInv
  PROVE  /\ \A e \in Records : e.msg_id \in DOMAIN sends /\ sends[e.msg_id] \in Nat
         /\ \A r \in DOMAIN tracker :
              tracker[r] \in Records /\ tracker[r].retries \in Nat
         /\ \A r \in DOMAIN pendingRows : pendingRows[r] \in Records
         /\ \A s \in Reloaded : s.row \in Records
         /\ task.at = "giveup" => task.row \in Records
         /\ Lives \in Nat /\ MaxRetries \in Nat
<1>1. Lives \in Nat /\ MaxRetries \in Nat
  <2>1. \A m, n \in Nat : (m + 1) * n \in Nat
    OBVIOUS
  <2>2. MaxRetries \in Nat /\ crashes \in Nat
    BY TypeInvIs, SenderAssumption DEF CountersOK
  <2> QED
    BY <2>1, <2>2 DEF Lives
<1>2. \A s \in Reloaded : s.row \in Records
  BY DEF Reloaded, Records
<1> QED
  BY <1>1, <1>2, TypeInvIs DEF Records, Known, CountersOK, MemoryOK, PendingRow

\* Recovery sends a loaded row once, with a budget started again; no tracked
\* entry shares its identity.
LEMMA ResendBudget ==
  ASSUME AgreeInv, Budget, ResendRow, TypeInv'
  PROVE  Budget'
<1>t. TypeInv /\ CountersOK /\ CountersOK' /\ TrackedIsOutstanding
      /\ \A c \in accepted \ torn : Placed(c)
  BY TypeInvIs DEF AgreeInv, PlaceInv, Where, TypeInv, TypeOK, CountersOK
<1>0. PICK s \in task.rest :
       /\ SendRequest(s.row)
       /\ \/ /\ PushPending(nextRid, s.row)
             /\ Track(nextRid, s.row)
             /\ UNCHANGED torn
          \/ /\ Fault(s.row.content)
             /\ UNCHANGED tracker
       /\ task' = AfterResend(s)
  BY DEF ResendRow
<1>1. /\ task.at = "resend" /\ s \in Reloaded /\ s.row \in Records /\ s.row \in PendingRow
      /\ s.row.content \in accepted
      /\ task'.at \in {"idle", "resend"} /\ Reloaded' = Reloaded \ {s} /\ Reloaded = task.rest
      /\ Lives' = Lives
  <2>1. task = [at |-> "resend", rest |-> task.rest] /\ task.rest \in SUBSET Stored
    BY <1>t, TypeInvIs, TaskIs DEF ResendRow
  <2>2. Reloaded = task.rest /\ s.row \in Records /\ s.row \in PendingRow
    BY <2>1 DEF Reloaded, Records, Stored
  <2>3. CASE task.rest = {s}
    BY <1>0, <2>1, <2>2, <2>3, <1>t, TypeInvIs, LivesIs
       DEF AfterResend, Idle, Reloaded, ResendRow, Known
  <2>4. CASE task.rest # {s}
    BY <1>0, <2>1, <2>2, <2>4, <1>t, TypeInvIs, LivesIs
       DEF AfterResend, Reloaded, ResendRow, Known
  <2> QED
    BY <2>3, <2>4
<1>2. /\ \A i \in DOMAIN sends : i # s.row.msg_id => sends'[i] = sends[i]
      /\ sends'[s.row.msg_id] = sends[s.row.msg_id] + 1
      /\ torn \subseteq torn'
  BY <1>0, <1>1, <1>t, SentIs, CountIs DEF SendRequest, Fault
<1>3. \A r \in DOMAIN tracker : tracker[r].content \notin torn' => tracker[r].msg_id # s.row.msg_id
  <2> SUFFICES ASSUME NEW r \in DOMAIN tracker, tracker[r].content \notin torn',
                      tracker[r].msg_id = s.row.msg_id
               PROVE  FALSE
    OBVIOUS
  <2> DEFINE c == s.row.content
  <2>1. tracker[r].content = c
    BY <1>t, <1>1, SentIs DEF TypeInv, StableIdentity, SameRequest
  <2>2. r \in Tracked(c) /\ c \in accepted \ torn
    BY <1>1, <1>2, <2>1 DEF Tracked
  <2> HIDE DEF c
  <2>3. Placed(c)
    BY <1>t, <2>2
  <2> QED
    BY <1>1, <2>2, <2>3 DEF Placed, TrackedAlone, c
<1>4. \A t \in Reloaded \ {s} : t.row.content \notin torn' => t.row.msg_id # s.row.msg_id
  <2> SUFFICES ASSUME NEW t \in Reloaded \ {s}, t.row.content \notin torn',
                      t.row.msg_id = s.row.msg_id
               PROVE  FALSE
    OBVIOUS
  <2> DEFINE c == s.row.content
  <2>1. t.row.content = c
    BY <1>t, <1>1, SentIs DEF TypeInv, StableIdentity, SameRequest
  <2>2. c \in accepted \ torn
    BY <1>1, <1>2, <2>1
  <2> HIDE DEF c
  <2>3. Placed(c)
    BY <1>t, <2>2
  <2> QED
    BY <1>1, <2>1, <2>3 DEF Placed, AtMostOnce, c
<1>5. \A t \in Reloaded' : t.row.content \notin torn' => sends'[t.row.msg_id] <= Lives
  BY <1>1, <1>2, <1>4, <1>t, SentIs DEF Budget
<1>6. ASSUME NEW r \in DOMAIN tracker', r \in DOMAIN tracker, tracker'[r] = tracker[r]
      PROVE  /\ tracker'[r].retries <= MaxRetries
             /\ tracker'[r].content \notin torn' =>
                  sends'[tracker'[r].msg_id] <= Lives + tracker'[r].retries + 1
  BY <1>2, <1>3, <1>6, <1>t, SentIs DEF Budget
<1>7. ASSUME s.row.content \notin torn', NEW e, e = [s.row EXCEPT !.retries = 0]
      PROVE  /\ e.retries <= MaxRetries
             /\ e.content \notin torn' => sends'[e.msg_id] <= Lives + e.retries + 1
  <2>1. e.retries = 0 /\ e.msg_id = s.row.msg_id
    BY <1>7, <1>1 DEF PendingRow
  <2>2. sends[s.row.msg_id] <= Lives
    BY <1>1, <1>2, <1>7 DEF Budget
  <2> QED
    BY <1>1, <1>2, <1>t, <2>1, <2>2, SentIs
<1>8. \A r \in DOMAIN tracker' :
        \/ r \in DOMAIN tracker /\ tracker'[r] = tracker[r]
        \/ tracker'[r] = [s.row EXCEPT !.retries = 0] /\ UNCHANGED torn
  BY <1>0 DEF Track, Put
<1>9. ASSUME s.row.content \in torn, NEW e, e = [s.row EXCEPT !.retries = 0]
      PROVE  e.retries <= MaxRetries /\ e.content \in torn
  BY <1>9, <1>1, <1>t, SentIs DEF PendingRow
<1> QED
  BY <1>1, <1>2, <1>5, <1>6, <1>7, <1>8, <1>9 DEF Budget

\* The flush sends a new identity for the first time.
LEMMA FlushBudget ==
  ASSUME AgreeInv, Budget, FlushEntry, TypeInv'
  PROVE  Budget'
<1>t. TypeInv /\ CountersOK /\ CountersOK'
  BY TypeInvIs DEF AgreeInv, PlaceInv, TypeInv, TypeOK, CountersOK
<1>0. PICK row \in PendingRow :
       /\ row.msg_id = nextMsgId /\ row.retries = 0
       /\ Track(nextRid, row) /\ Count(nextMsgId)
       /\ task'.at = "mark" /\ torn \subseteq torn'
  <2>1. PICK e \in task.rest :
       LET row == [peer |-> task.peer, content |-> e.content,
                   msg_id |-> nextMsgId, ttl |-> e.expires_at,
                   seq |-> seqCounter, retries |-> 0]
       IN /\ SendRequest(row)
          /\ Track(nextRid, row)
          /\ Runs(PushPending(nextRid, row), e.content)
          /\ task' = [at |-> "mark", entry |-> e, peer |-> task.peer,
                      rest |-> task.rest \ {e}]
    BY DEF FlushEntry
  <2>2. [peer |-> task.peer, content |-> e.content, msg_id |-> nextMsgId,
         ttl |-> e.expires_at, seq |-> seqCounter, retries |-> 0] \in PendingRow
    BY <1>t, TypeInvIs, TaskIs DEF FlushEntry, MemoryOK, CountersOK, PendingRow, Entry
  <2> QED
    BY <2>1, <2>2 DEF SendRequest, Runs, Fault
<1>1. nextMsgId \notin DOMAIN sends /\ Lives' = Lives
  BY <1>t, LivesIs DEF CountersOK, FlushEntry
<1>2. /\ \A i \in DOMAIN sends : sends'[i] = sends[i]
      /\ sends'[nextMsgId] = 1
  BY <1>0, <1>1, CountIs
<1>3. \A r \in DOMAIN tracker' :
        \/ r \in DOMAIN tracker /\ tracker'[r] = tracker[r]
        \/ tracker'[r] = [row EXCEPT !.retries = 0]
  BY <1>0 DEF Track, Put
<1>4. ASSUME NEW e, e = [row EXCEPT !.retries = 0]
      PROVE  e.retries <= MaxRetries /\ sends'[e.msg_id] <= Lives + e.retries + 1
  <2>1. e.retries = 0 /\ e.msg_id = nextMsgId
    BY <1>0, <1>4 DEF PendingRow
  <2> QED
    BY <1>2, <1>t, <2>1, SentIs
<1>5. Reloaded' = {}
  BY <1>0 DEF Reloaded
<1>6. ASSUME NEW r \in DOMAIN tracker
      PROVE  /\ tracker[r].retries <= MaxRetries
             /\ tracker[r].content \notin torn' =>
                  sends'[tracker[r].msg_id] <= Lives + tracker[r].retries + 1
  BY <1>0, <1>2, <1>t, SentIs DEF Budget
<1> QED
  BY <1>0, <1>1, <1>3, <1>4, <1>5, <1>6 DEF Budget

\* A retry sends once and counts once, within the budget.
LEMMA RetryBudgetStep ==
  ASSUME AgreeInv, Budget, NEW rid \in DOMAIN outstanding, Retry(rid), TypeInv'
  PROVE  Budget'
<1>t. TypeInv /\ MemoryOK /\ CountersOK /\ CountersOK'
      /\ \A c \in accepted \ torn : Placed(c)
  BY TypeInvIs DEF AgreeInv, PlaceInv, Where, TypeInv, TypeOK, CountersOK
<1> DEFINE e == tracker[rid]
<1>1. /\ rid \in DOMAIN tracker /\ Failed(rid).retries <= MaxRetries
      /\ Count(e.msg_id) /\ FailAndRetrack(rid, nextRid)
      /\ task'.at = "swap" /\ UNCHANGED torn /\ Lives' = Lives
  BY <1>t, LivesIs DEF Retry
<1>2. /\ Failed(rid).content = e.content /\ Failed(rid).msg_id = e.msg_id
      /\ Failed(rid).retries = e.retries + 1
  BY <1>t, <1>1 DEF Failed, MemoryOK, PendingRow
<1>3. /\ \A i \in DOMAIN sends : i # e.msg_id => sends'[i] = sends[i]
      /\ sends'[e.msg_id] = sends[e.msg_id] + 1
  BY <1>1, <1>t, SentIs, CountIs
<1>4. ASSUME NEW r \in DOMAIN tracker, tracker[r].content \notin torn, r # rid
      PROVE  tracker[r].msg_id # e.msg_id
  <2> SUFFICES ASSUME tracker[r].msg_id = e.msg_id PROVE FALSE
    OBVIOUS
  <2> DEFINE c == e.content
  <2>1. tracker[r].content = c /\ c \in accepted \ torn
    BY <1>t, <1>1, <1>4, SentIs, TypeInvIs DEF TypeInv, StableIdentity, SameRequest, Known
  <2>2. r \in Tracked(c) /\ rid \in Tracked(c)
    BY <1>1, <2>1 DEF Tracked
  <2> HIDE DEF c
  <2>3. Placed(c)
    BY <1>t, <2>1
  <2> QED
    BY <1>4, <2>2, <2>3 DEF Placed, AtMostOnce, AtMostOne
<1>5. ASSUME NEW r \in DOMAIN tracker, r # rid
      PROVE  /\ tracker[r].retries <= MaxRetries
             /\ tracker[r].content \notin torn =>
                  sends'[tracker[r].msg_id] <= Lives + tracker[r].retries + 1
  BY <1>3, <1>4, <1>5, <1>t, SentIs DEF Budget
<1>6. e.content \notin torn => sends'[e.msg_id] <= Lives + Failed(rid).retries + 1
  BY <1>1, <1>2, <1>3, <1>t, SentIs DEF Budget
<1>7. \A r \in DOMAIN tracker' :
        \/ r \in DOMAIN tracker \ {rid} /\ tracker'[r] = tracker[r]
        \/ tracker'[r] = Failed(rid)
  BY <1>1 DEF FailAndRetrack
<1>8. Reloaded' = {}
  BY <1>1 DEF Reloaded
<1> QED
  BY <1>1, <1>2, <1>5, <1>6, <1>7, <1>8 DEF Budget

\* The record of an exhausted request used up the budget of this life.
LEMMA ExhaustBudget ==
  ASSUME AgreeInv, Budget, NEW rid \in DOMAIN outstanding, Exhaust(rid), TypeInv'
  PROVE  Budget'
<1>t. TypeInv /\ MemoryOK /\ CountersOK /\ CountersOK'
  BY TypeInvIs DEF AgreeInv, PlaceInv, TypeInv, TypeOK, CountersOK
<1>1. /\ rid \in DOMAIN tracker /\ Ack(rid) /\ UNCHANGED <<torn, sends>> /\ Lives' = Lives
      /\ task'.at = "giveup" /\ task'.row = Failed(rid)
  BY <1>t, LivesIs DEF Exhaust, history
<1>2. /\ Failed(rid).content = tracker[rid].content /\ Failed(rid).msg_id = tracker[rid].msg_id
  BY <1>t, <1>1 DEF Failed, MemoryOK, PendingRow
<1>3. tracker[rid].content \notin torn => sends[tracker[rid].msg_id] <= Lives + MaxRetries + 1
  BY <1>1, <1>t, SentIs DEF Budget
<1>4. /\ Reloaded' = {}
      /\ \A r \in DOMAIN tracker' : r \in DOMAIN tracker /\ tracker'[r] = tracker[r]
  BY <1>1 DEF Reloaded, Ack, Without, Restrict
<1> QED
  BY <1>1, <1>2, <1>3, <1>4 DEF Budget

\* After a crash every row that recovery will find was sent at most as often as
\* the lives so far allow, whichever handler was running.
LEMMA CrashBudget ==
  ASSUME AgreeInv, Budget, Crash, TypeInv'
  PROVE  Budget'
<1>t. TypeInv /\ CountersOK /\ CountersOK' /\ Handler
      /\ \A c \in accepted \ torn : Placed(c) /\ Agrees(c)
  BY TypeInvIs DEF AgreeInv, PlaceInv, Where, Agreement, TypeInv, TypeOK, CountersOK
<1>1. /\ task' = Down /\ task'.at = "down" /\ DOMAIN tracker' = {}
      /\ UNCHANGED <<sends, pendingRows>> /\ task.at # "down"
      /\ torn' = torn \cup Endangered /\ Lives' = Lives + MaxRetries + 1
  <2>1. task.at # "down"
    BY <1>t, TypeInvIs, TaskIs DEF Crash
  <2> QED
    BY <1>t, <2>1, LivesIs DEF Crash, Down, tables
<1>2. Reloaded' = {}
  BY <1>1 DEF Reloaded
<1>3. ASSUME NEW r \in DOMAIN pendingRows, pendingRows[r].content \notin torn'
      PROVE  sends[pendingRows[r].msg_id] <= Lives + MaxRetries + 1
  <2> DEFINE c == pendingRows[r].content
  <2>1. c \in accepted \ torn /\ r \in Persisted(c) /\ c \notin Endangered
    BY <1>1, <1>3, <1>t, TypeInvIs, SentIs DEF Known, Persisted
  <2>2. Placed(c) /\ Agrees(c)
    BY <1>t, <2>1
  <2> HIDE DEF c
  <2>3. ~Settling(c)
    BY <2>1 DEF Endangered, Settling
  <2>4. CASE r \in Tracked(c)
    <3>1. r \in DOMAIN tracker /\ tracker[r].content = c
      BY <2>4 DEF Tracked
    <3>2. sends[tracker[r].msg_id] <= Lives + tracker[r].retries + 1 /\ tracker[r].retries <= MaxRetries
      BY <2>1, <3>1 DEF Budget
    <3>3. pendingRows[r].msg_id = tracker[r].msg_id
      BY <2>1, <2>2, <2>4 DEF Agrees
    <3> QED
      BY <1>t, <3>1, <3>2, <3>3, SentIs
  <2>5. CASE task.at = "clear"
    <3>1. PICK s \in task.rest : s.rid = r /\ s.row.content = c
      BY <2>1, <2>2, <2>5 DEF Placed, PersistedAlone
    <3>2. pendingRows[r].msg_id = s.row.msg_id /\ s \in Reloaded
      BY <1>t, <2>2, <2>5, <3>1, TypeInvIs DEF Agrees, HandlerTraced, Reloaded
    <3>3. sends[s.row.msg_id] <= Lives
      BY <2>1, <3>1, <3>2 DEF Budget
    <3> QED
      BY <1>t, <3>2, <3>3, SentIs
  <2>6. CASE Holding(c)
    <3>1. pendingRows[r].msg_id = task.row.msg_id /\ task.row.content = c
      BY <2>1, <2>2, <2>6 DEF Agrees, Holding
    <3>2. CASE task.at = "swap"
      <4>1. task.new \in DOMAIN tracker /\ tracker[task.new] = task.row
        BY <1>t, <3>2 DEF Handler
      <4>2. sends[task.row.msg_id] <= Lives + task.row.retries + 1 /\ task.row.retries <= MaxRetries
        BY <2>1, <3>1, <4>1 DEF Budget
      <4> QED
        BY <1>t, <3>1, <4>1, <4>2, SentIs
    <3>3. CASE task.at = "giveup"
      BY <2>1, <3>1, <3>3 DEF Budget
    <3> QED
      BY <2>1, <2>2, <2>6, <3>2, <3>3 DEF Placed, PersistedAlone
  <2> QED
    BY <1>1, <2>1, <2>2, <2>3, <2>4, <2>5, <2>6 DEF Placed, PersistedAlone
<1> QED
  BY <1>1, <1>2, <1>3 DEF Budget

\* Recovery loads rows of earlier lives.
LEMMA StartBudget ==
  ASSUME TypeInv, Budget, Start \/ StartBlind, TypeInv'
  PROVE  Budget'
<1>1. /\ Lives' = Lives /\ UNCHANGED <<sends, tracker, pendingRows>> /\ torn \subseteq torn'
      /\ task.at = "down"
      /\ \/ task'.at = "idle"
         \/ task'.at = "clear" /\ task'.stored = LoadAllPending
  <2>1. CountersOK /\ CountersOK'
    BY TypeInvIs DEF TypeInv, TypeOK, CountersOK
  <2> QED
    BY <2>1, LivesIs DEF Start, StartBlind, volatile, tables, history, bounds, Idle, Down
<1>2. \A s \in LoadAllPending : \E r \in DOMAIN pendingRows : s.row = pendingRows[r]
  BY DEF LoadAllPending
<1>3. Reloaded' \subseteq LoadAllPending
  BY <1>1 DEF Reloaded
<1> QED
  BY <1>1, <1>2, <1>3 DEF Budget

\* Every step keeps the budget.
LEMMA BudgetStep ==
  ASSUME AgreeInv, Budget, [Next]_vars
  PROVE  Budget'
<1>t. TypeInv /\ TypeInv' /\ CountersOK'
  BY StepTypeInv DEF AgreeInv, PlaceInv, TypeInv, TypeOK, CountersOK
<1> HIDE DEF CountersOK
<1>1. CASE \/ UNCHANGED vars \/ DiagClean \/ Tick \/ \E c \in Contents : Enqueue(c)
           \/ \E rid \in DOMAIN outstanding : Untracked(rid)
  <2>1. UNCHANGED <<sends, crashes, torn, tracker, task, pendingRows>>
    BY <1>1 DEF vars, DiagClean, Tick, Enqueue, Untracked, tables, volatile, history, bounds,
       ExpireBefore, PruneDelivered, PushWithTtl
  <2> QED
    BY <1>t, <2>1, BudgetFrame
<1>2. CASE \/ \E p \in Peers : Connect(p)
           \/ MarkEntry \/ Settle \/ Swap \/ Persist \/ GiveUp \/ Requeue
           \/ CleanUp \/ Prune \/ Purge
           \/ \E rid \in DOMAIN outstanding : Response(rid)
  <2>1. /\ UNCHANGED <<sends, crashes>> /\ torn \subseteq torn'
        /\ \A r \in DOMAIN tracker' : r \in DOMAIN tracker /\ tracker'[r] = tracker[r]
    BY <1>2 DEF Connect, MarkEntry, Settle, Swap, Persist, GiveUp, Requeue, CleanUp, Prune,
       Purge, Response, volatile, history, bounds, Runs, Fault, Deletes, Ack, Without, Restrict
  <2>2. task'.at \notin {"down", "clear", "resend", "giveup"}
    <3>1. CASE MarkEntry
      <4>1. CASE task.rest = {}
        BY <3>1, <4>1 DEF MarkEntry, Idle
      <4>2. CASE task.rest # {}
        BY <3>1, <4>2 DEF MarkEntry
      <4> QED
        BY <4>1, <4>2
    <3>2. CASE ~MarkEntry
      BY <1>2, <3>2 DEF Connect, Settle, Swap, Persist, GiveUp, Requeue, CleanUp, Prune, Purge,
         Response, Idle
    <3> QED
      BY <3>1, <3>2
  <2> QED
    BY <1>t, <2>1, <2>2, BudgetFrame
<1>3. CASE ClearRow \/ SkipExpired
  <2>1. /\ UNCHANGED <<sends, crashes, tracker>> /\ torn \subseteq torn'
    BY <1>3 DEF ClearRow, SkipExpired, volatile, bounds, Runs, Fault
  <2>2. \/ task'.at = "idle"
        \/ task'.at \in {"clear", "resend"} /\ Reloaded' \subseteq Reloaded
    <3>1. CASE ClearRow
      <4>1. /\ task.at = "clear"
            /\ task = [at |-> "clear", rest |-> task.rest, stored |-> task.stored]
        BY <1>t, <3>1, TypeInvIs, TaskIs DEF ClearRow
      <4>2. \/ task' = [at |-> "resend", rest |-> task.stored]
            \/ \E s : task' = [at |-> "clear", rest |-> task.rest \ {s}, stored |-> task.stored]
        BY <3>1, <4>1 DEF ClearRow
      <4> QED
        BY <4>1, <4>2 DEF Reloaded
    <3>2. CASE SkipExpired
      <4>1. /\ task.at = "resend" /\ task = [at |-> "resend", rest |-> task.rest]
        BY <1>t, <3>2, TypeInvIs, TaskIs DEF SkipExpired
      <4>2. \/ task' = Idle
            \/ \E s : task' = [at |-> "resend", rest |-> task.rest \ {s}]
        BY <3>2, <4>1 DEF SkipExpired, AfterResend
      <4> QED
        BY <4>1, <4>2 DEF Reloaded, Idle
    <3> QED
      BY <1>3, <3>1, <3>2
  <2> QED
    BY <1>t, <2>1, <2>2, BudgetFrame
<1> QED
  BY <1>1, <1>2, <1>3, <1>t, ResendBudget, FlushBudget, RetryBudgetStep, ExhaustBudget,
     CrashBudget, StartBudget DEF Next, Step

\* A tracked request was sent once and then once per counted retry in this life
\* of the process, at most MaxRetries + 1 times, and no oftener in any earlier
\* life, unless its handler was cut short.
THEOREM RetriesAreBounded == Spec => []RetryBudget
<1>1. Init => Budget
  BY DEF Init, EmptyTables, Budget, Reloaded, Down
<1>2. AgreeInv /\ Budget /\ [Next]_vars => Budget'
  BY BudgetStep
<1>3. Budget => RetryBudget
  BY DEF Budget, RetryBudget, Lives
<1> QED
  BY <1>1, <1>2, <1>3, AgreeInvariant, PTL DEF Spec
=============================================================================
