------------------------- MODULE SenderDaemon_proofs ------------------------
(***************************************************************************)
(* Proofs about SenderDaemon: types, identities, origin, and what the      *)
(* memory of the process says of the requests in flight.                   *)
(*                                                                         *)
(* Types alone are not inductive.  That a row goes back into the queue for *)
(* the right recipient depends on what the rows of `pending`, the tracker  *)
(* and the running handler say of the message; that a fresh identity is    *)
(* fresh depends on every record's identity having been sent before.  So   *)
(* TypeInv carries Traced (every record is of an accepted message, with    *)
(* its recipient and deadline, under an identity that was sent) and        *)
(* StableIdentity along.  All actions but the flush of a queue entry only  *)
(* copy records, Inherits, and then both hold by InheritsIs.               *)
(***************************************************************************)
EXTENDS SenderDaemon, TLAPS

----------------------------------------------------------------------------
(* Types.                                                                  *)

\* The four parts of the type invariant: the database, the memory of the
\* process, the counters, and the histories.
TablesOK ==
  /\ messages \in [DOMAIN messages -> MessageRow]
  /\ DOMAIN messages \subseteq 1..(nextId - 1) /\ nextId \in Nat \ {0}
  /\ pendingRows \in [DOMAIN pendingRows -> PendingRow]
  /\ DOMAIN pendingRows \subseteq Nat

MemoryOK ==
  /\ tracker \in [DOMAIN tracker -> PendingRow]
  /\ outstanding \in [DOMAIN outstanding -> PendingRow]
  /\ DOMAIN outstanding \subseteq 1..(nextRid - 1) /\ nextRid \in Nat \ {0}
  /\ seqCounter \in Nat \ {0}

CountersOK ==
  /\ nextMsgId \in Nat \ {0}
  /\ sends \in [DOMAIN sends -> Nat] /\ DOMAIN sends \subseteq 1..(nextMsgId - 1)
  /\ clock \in 0..MaxClock
  /\ crashes \in 0..MaxCrashes
  /\ failures \in 0..MaxFailures
  /\ faults \in 0..MaxFaults

HistoryOK ==
  /\ accepted \subseteq Contents /\ acked \subseteq accepted
  /\ expired \subseteq accepted /\ torn \subseteq accepted

\* The type invariant in four parts.
LEMMA TypeIs ==
  TypeOK <=> TablesOK /\ MemoryOK /\ CountersOK /\ HistoryOK /\ task \in Tasks
BY DEF TypeOK, TablesOK, MemoryOK, CountersOK, HistoryOK

\* Appending a row for a known recipient keeps the database well typed, and no
\* row of messages has an id from the counter on.
LEMMA PushWithTtlOK ==
  ASSUME TablesOK, NEW p \in Peers, NEW c \in Contents, NEW exp \in Nat,
         PushWithTtl(p, c, exp)
  PROVE  TablesOK'
BY DEF TablesOK, PushWithTtl, MessageRow

\* Marking a row delivered keeps the database well typed.
LEMMA MarkDeliveredOK ==
  ASSUME TablesOK, NEW id, MarkDelivered(id)
  PROVE  TablesOK'
BY DEF TablesOK, MarkDelivered, MessageRow

\* A function restricted to part of its domain keeps its values there.
LEMMA RestrictedOK ==
  ASSUME NEW f, NEW S, NEW T, f \in [DOMAIN f -> S], T \subseteq DOMAIN f
  PROVE  /\ Restrict(f, T) \in [DOMAIN Restrict(f, T) -> S]
         /\ DOMAIN Restrict(f, T) = T
         /\ \A x \in T : Restrict(f, T)[x] = f[x]
BY DEF Restrict

\* Each deletion of the program keeps the database well typed.
LEMMA DeletionsOK ==
  ASSUME TablesOK,
         \/ \E cutoff : ExpireBefore(cutoff) \/ ExpirePending(cutoff)
         \/ PruneDelivered
         \/ \E rid : RemovePending(rid)
  PROVE  TablesOK'
BY DEF TablesOK, ExpireBefore, ExpirePending, PruneDelivered, RemovePending, MessagesWithout, Restrict

\* Storing a request in flight keeps the database well typed.
LEMMA PushPendingOK ==
  ASSUME TablesOK, NEW rid \in Nat, NEW row \in PendingRow, PushPending(rid, row)
  PROVE  TablesOK'
BY DEF TablesOK, PushPending

\* A request that is sent gets an id no outstanding request has, and its
\* identity is below the counter of identities.
LEMMA SendRequestOK ==
  ASSUME MemoryOK, CountersOK, NEW row \in PendingRow, SendRequest(row),
         row.msg_id \in 1..(nextMsgId' - 1), nextMsgId' \in Nat, nextMsgId <= nextMsgId'
  PROVE  /\ outstanding' \in [DOMAIN outstanding' -> PendingRow]
         /\ DOMAIN outstanding' \subseteq 1..(nextRid' - 1) /\ nextRid' \in Nat \ {0}
         /\ sends' \in [DOMAIN sends' -> Nat] /\ DOMAIN sends' \subseteq 1..(nextMsgId' - 1)
         /\ DOMAIN sends' = DOMAIN sends \cup {row.msg_id}
BY DEF MemoryOK, CountersOK, SendRequest, Count, PendingRow

----------------------------------------------------------------------------

\* The running handler, by its stage.
LEMMA TaskIs ==
  ASSUME task \in Tasks
  PROVE  /\ task.at \in {"idle", "down", "clear", "resend", "flush", "mark", "settle",
                         "swap", "persist", "giveup", "requeue", "prune", "purge"}
         /\ task.at = "idle" => task = Idle
         /\ task.at = "down" => task = Down
         /\ task.at = "clear" =>
              /\ task = [at |-> "clear", rest |-> task.rest, stored |-> task.stored]
              /\ task.rest \in SUBSET Stored /\ task.stored \in SUBSET Stored
         /\ task.at = "resend" =>
              task = [at |-> "resend", rest |-> task.rest] /\ task.rest \in SUBSET Stored
         /\ task.at = "flush" =>
              /\ task = [at |-> "flush", peer |-> task.peer, rest |-> task.rest]
              /\ task.peer \in Peers /\ task.rest \in SUBSET Entry
         /\ task.at = "mark" =>
              /\ task = [at |-> "mark", entry |-> task.entry, peer |-> task.peer,
                         rest |-> task.rest]
              /\ task.entry \in Entry /\ task.peer \in Peers /\ task.rest \in SUBSET Entry
         /\ task.at = "settle" => task.rid \in Nat /\ task.row \in PendingRow
         /\ task.at = "swap" =>
              task.old \in Nat /\ task.new \in Nat /\ task.row \in PendingRow
         /\ task.at = "persist" => task.new \in Nat /\ task.row \in PendingRow
         /\ task.at = "giveup" => task.old \in Nat /\ task.row \in PendingRow
         /\ task.at = "requeue" => task.row \in PendingRow
BY DEF Tasks, Idle, Down

\* What every record of a request says of its message.
Known(e) ==
  /\ e.content \in accepted
  /\ e.msg_id \in DOMAIN sends
  /\ e.peer = Addressee[e.content] /\ e.ttl = Deadline[e.content]

\* An entry of the flush's snapshot is of the peer that connected.
FromQueue(e) ==
  /\ e.content \in accepted
  /\ task.peer = Addressee[e.content] /\ e.expires_at = Deadline[e.content]

\* Every row of the queue is of an accepted message, with its recipient and its
\* deadline.
QueueTraced == \A i \in DOMAIN messages :
  /\ messages[i].content \in accepted
  /\ messages[i].peer = Addressee[messages[i].content]
  /\ messages[i].expires_at = Deadline[messages[i].content]

\* What the running handler holds besides records.
HandlerTraced ==
  /\ task.at = "settle" => task.row.content \in acked
  /\ task.at \in {"flush", "mark"} => \A e \in task.rest : FromQueue(e)
  /\ task.at = "mark" => FromQueue(task.entry)
  /\ task.at = "clear" => task.rest \subseteq task.stored

\* Every record and every row comes from an accepted message.
Traced == (\A e \in Records : Known(e)) /\ QueueTraced /\ HandlerTraced

\* The inductive invariant behind the theorems of this module.
TypeInv == TypeOK /\ Traced /\ StableIdentity

\* Every record of the next state is one of this state, up to its retries.
Inherits == \A e \in Records' : \E f \in Records : SameRequest(e, f)

\* A step that only copies records keeps what is known of them, and the
\* identities stable.
LEMMA InheritsIs ==
  ASSUME Traced, StableIdentity, Inherits, accepted \subseteq accepted',
         DOMAIN sends \subseteq DOMAIN sends'
  PROVE  (\A e \in Records' : Known(e)') /\ StableIdentity'
BY DEF Traced, StableIdentity, Inherits, SameRequest, Known

\* What is left to show of an action that only copies records.
LEMMA TypeInvNext ==
  ASSUME TypeInv, TablesOK', MemoryOK', CountersOK', HistoryOK', task' \in Tasks,
         Inherits, accepted \subseteq accepted', DOMAIN sends \subseteq DOMAIN sends',
         QueueTraced', HandlerTraced'
  PROVE  TypeInv'
<1>1. TypeOK'
  BY DEF TypeOK, TablesOK, MemoryOK, CountersOK, HistoryOK
<1> QED
  BY <1>1, InheritsIs DEF TypeInv, Traced

\* The parts of the invariant, for citation.
LEMMA TypeInvIs ==
  TypeInv => /\ TablesOK /\ MemoryOK /\ CountersOK /\ HistoryOK
             /\ task \in Tasks /\ QueueTraced /\ HandlerTraced
             /\ \A e \in Records : Known(e)
BY TypeIs DEF TypeInv, Traced

\* A step that adds no row and changes no recipient, text or deadline keeps the
\* queue traced.
LEMMA QueueShrinks ==
  ASSUME QueueTraced, accepted \subseteq accepted',
         \A i \in DOMAIN messages' :
           /\ i \in DOMAIN messages
           /\ messages'[i].content = messages[i].content
           /\ messages'[i].peer = messages[i].peer
           /\ messages'[i].expires_at = messages[i].expires_at
  PROVE  QueueTraced'
BY DEF QueueTraced

\* What an action leaves alone keeps its type.
LEMMA Frames ==
  ASSUME TypeInv
  PROVE  /\ UNCHANGED tables => TablesOK'
         /\ UNCHANGED volatile => MemoryOK'
         /\ /\ UNCHANGED <<nextMsgId, clock, sends, crashes, failures>>
            /\ faults' = faults \/ (faults < MaxFaults /\ faults' = faults + 1)
            => CountersOK'
         /\ /\ UNCHANGED <<accepted, acked>>
            /\ torn' \subseteq accepted /\ expired' \subseteq accepted
            => HistoryOK'
<1>1. TablesOK /\ MemoryOK /\ CountersOK /\ HistoryOK
  BY TypeInvIs
<1>2. UNCHANGED tables => TablesOK'
  BY <1>1 DEF TablesOK, tables
<1>3. UNCHANGED volatile => MemoryOK'
  BY <1>1 DEF MemoryOK, volatile
<1>4. /\ UNCHANGED <<nextMsgId, clock, sends, crashes, failures>>
      /\ faults' = faults \/ (faults < MaxFaults /\ faults' = faults + 1)
      => CountersOK'
  BY <1>1, SenderAssumption DEF CountersOK
<1>5. /\ UNCHANGED <<accepted, acked>>
      /\ torn' \subseteq accepted /\ expired' \subseteq accepted
      => HistoryOK'
  BY <1>1 DEF HistoryOK
<1> QED
  BY <1>2, <1>3, <1>4, <1>5

\* Loading the table `pending`, or failing to, preserves the invariant.
LEMMA StartInv ==
  ASSUME TypeInv, Start \/ StartBlind
  PROVE  TypeInv' /\ Inherits
<1> USE DEF Start, StartBlind
<1>1. LoadAllPending \in SUBSET Stored /\ Texts(LoadAllPending) \subseteq accepted
  BY TypeInvIs DEF LoadAllPending, Stored, TablesOK, Texts, Known, Records
<1>2. task' \in Tasks
  BY <1>1 DEF Tasks
<1>3. TablesOK' /\ MemoryOK' /\ CountersOK' /\ HistoryOK'
  BY <1>1, TypeInvIs, Frames DEF HistoryOK, tables, volatile, history, bounds
<1>4. Inherits
  BY DEF Inherits, Records, tables, volatile, LoadAllPending, SameRequest, Down, Idle
<1>5. HandlerTraced' /\ QueueTraced'
  BY TypeInvIs DEF HandlerTraced, QueueTraced, tables, history, Idle
<1> QED
  BY <1>2, <1>3, <1>4, <1>5, TypeInvNext DEF history

\* Recovery's removal of one old row preserves the invariant.
LEMMA ClearRowInv ==
  ASSUME TypeInv, ClearRow
  PROVE  TypeInv' /\ Inherits
<1> USE DEF ClearRow
<1>0. PICK s \in task.rest :
       /\ Runs(RemovePending(s.rid), s.row.content)
       /\ task' = IF task.rest = {s}
                    THEN [at |-> "resend", rest |-> task.stored]
                    ELSE [task EXCEPT !.rest = @ \ {s}]
  OBVIOUS
<1>1. s.row \in Records /\ Known(s.row)
  BY TypeInvIs DEF Records, HandlerTraced
<1>2. task' \in Tasks
  BY <1>0, TypeInvIs, TaskIs DEF Tasks
<1>3. TablesOK'
  BY <1>0, TypeInvIs, Frames, DeletionsOK DEF Runs, Fault
<1>4. MemoryOK' /\ CountersOK' /\ HistoryOK'
  BY <1>0, <1>1, TypeInvIs, Frames DEF HistoryOK, Runs, Fault, Known
<1>5. Inherits
  BY <1>0, TypeInvIs, TaskIs DEF Inherits, Records, volatile, SameRequest, Runs, Fault,
     RemovePending, Restrict, tables
<1>6. HandlerTraced' /\ QueueTraced'
  BY <1>0, TypeInvIs, TaskIs DEF HandlerTraced, QueueTraced, tables, Runs, Fault, RemovePending
<1> QED
  BY <1>2, <1>3, <1>4, <1>5, <1>6, TypeInvNext

\* Recovery's resending of one row preserves the invariant: the old identity is
\* sent again under a fresh request id.
LEMMA ResendRowInv ==
  ASSUME TypeInv, ResendRow
  PROVE  TypeInv' /\ Inherits
<1> USE DEF ResendRow
<1>0. PICK s \in task.rest :
       /\ s.row.ttl >= clock
       /\ SendRequest(s.row)
       /\ \/ /\ PushPending(nextRid, s.row)
             /\ Track(nextRid, s.row)
             /\ UNCHANGED <<torn, faults>>
          \/ /\ Fault(s.row.content)
             /\ UNCHANGED tracker
       /\ task' = AfterResend(s)
  OBVIOUS
<1>1. s.row \in PendingRow /\ s.row \in Records /\ Known(s.row)
  BY TypeInvIs, TaskIs DEF Records, Stored
<1>2. nextRid \in Nat /\ nextMsgId' \in Nat /\ nextMsgId' = nextMsgId /\ s.row.msg_id \in 1..(nextMsgId' - 1)
  BY <1>1, TypeInvIs DEF MemoryOK, Known, CountersOK
<1>3. task' \in Tasks
  BY <1>0, TypeInvIs, TaskIs DEF AfterResend, Tasks
<1>4. TablesOK'
  BY <1>0, <1>1, <1>2, TypeInvIs, Frames, PushPendingOK DEF Fault
<1>5. tracker' \in [DOMAIN tracker' -> PendingRow]
  BY <1>0, <1>1, TypeInvIs DEF Track, Put, MemoryOK, PendingRow
<1>6. /\ outstanding' \in [DOMAIN outstanding' -> PendingRow]
      /\ DOMAIN outstanding' \subseteq 1..(nextRid' - 1) /\ nextRid' \in Nat \ {0}
      /\ sends' \in [DOMAIN sends' -> Nat] /\ DOMAIN sends' \subseteq 1..(nextMsgId' - 1)
      /\ DOMAIN sends \subseteq DOMAIN sends'
  <2>1. nextMsgId <= nextMsgId' /\ MemoryOK /\ CountersOK /\ SendRequest(s.row)
    BY <1>0, <1>2, TypeInvIs
  <2> QED
    BY <2>1, <1>1, <1>2, SendRequestOK
<1>7. MemoryOK' /\ CountersOK' /\ HistoryOK'
  <2>1. MemoryOK'
    BY <1>5, <1>6, TypeInvIs DEF MemoryOK
  <2>2. CountersOK'
    BY <1>0, <1>6, TypeInvIs, SenderAssumption DEF CountersOK, Fault
  <2> QED
    BY <1>0, <1>1, <2>1, <2>2, TypeInvIs, Frames DEF HistoryOK, Known, Fault
<1>8. Inherits
  BY <1>0, <1>1, TypeInvIs, TaskIs DEF Inherits, Records, Fault, tables, PushPending,
     Track, Put, AfterResend, Idle, SameRequest, PendingRow
<1>9. HandlerTraced' /\ QueueTraced'
  BY <1>0, TypeInvIs, TaskIs DEF HandlerTraced, QueueTraced, AfterResend, Idle, Fault,
     PushPending, tables
<1> QED
  BY <1>3, <1>4, <1>6, <1>7, <1>8, <1>9, TypeInvNext

\* Skipping an expired row preserves the invariant.
LEMMA SkipExpiredInv ==
  ASSUME TypeInv, SkipExpired
  PROVE  TypeInv' /\ Inherits
<1> USE DEF SkipExpired
<1>0. PICK s \in task.rest :
       /\ s.row.ttl < clock
       /\ expired' = expired \cup {s.row.content}
       /\ task' = AfterResend(s)
  OBVIOUS
<1>1. s.row \in Records /\ Known(s.row)
  BY TypeInvIs DEF Records
<1>2. task' \in Tasks
  BY <1>0, TypeInvIs, TaskIs DEF AfterResend, Tasks
<1>3. TablesOK' /\ MemoryOK' /\ CountersOK' /\ HistoryOK'
  BY <1>0, <1>1, TypeInvIs, Frames DEF HistoryOK, bounds, Known
<1>4. Inherits
  BY <1>0, TypeInvIs, TaskIs DEF Inherits, Records, tables, volatile, AfterResend, Idle,
     SameRequest
<1>5. HandlerTraced' /\ QueueTraced'
  BY <1>0, TypeInvIs, TaskIs DEF HandlerTraced, QueueTraced, AfterResend, Idle, tables
<1> QED
  BY <1>2, <1>3, <1>4, <1>5, TypeInvNext

\* Taking the snapshot of a recipient's rows preserves the invariant.
LEMMA ConnectInv ==
  ASSUME TypeInv, NEW p \in Peers, Connect(p)
  PROVE  TypeInv' /\ Inherits
<1> USE DEF Connect
<1>1. /\ PendingFor(p, clock) \in SUBSET Entry
      /\ \A e \in PendingFor(p, clock) :
           /\ e.content \in accepted
           /\ p = Addressee[e.content] /\ e.expires_at = Deadline[e.content]
  BY TypeInvIs DEF PendingFor, Entry, TablesOK, MessageRow, QueueTraced
<1>2. task' \in Tasks
  BY <1>1 DEF Tasks
<1>3. TablesOK' /\ MemoryOK' /\ CountersOK' /\ HistoryOK'
  BY TypeInvIs, Frames DEF HistoryOK, history, bounds
<1>4. Inherits
  BY DEF Inherits, Records, tables, volatile, SameRequest, Idle
<1>5. HandlerTraced' /\ QueueTraced'
  BY <1>1, TypeInvIs DEF HandlerTraced, QueueTraced, FromQueue, tables, history, Idle
<1> QED
  BY <1>2, <1>3, <1>4, <1>5, TypeInvNext DEF history

\* Flushing an entry preserves the invariant.  This is the one action that makes
\* a new record: its identity is the next unused one, so no other record has it.
LEMMA FlushEntryInv ==
  ASSUME TypeInv, FlushEntry
  PROVE  TypeInv'
<1>0. PICK e \in task.rest :
       LET row == [peer |-> task.peer, content |-> e.content,
                   msg_id |-> nextMsgId, ttl |-> e.expires_at,
                   seq |-> seqCounter, retries |-> 0]
       IN /\ \A f \in task.rest : e.id <= f.id
          /\ SendRequest(row)
          /\ Track(nextRid, row)
          /\ Runs(PushPending(nextRid, row), e.content)
          /\ task' = [at |-> "mark", entry |-> e, peer |-> task.peer,
                      rest |-> task.rest \ {e}]
  BY DEF FlushEntry
<1>u. /\ task.at = "flush" /\ seqCounter' = seqCounter + 1 /\ nextMsgId' = nextMsgId + 1
      /\ UNCHANGED <<clock, accepted, acked, expired, crashes, failures>>
  BY DEF FlushEntry
<1> DEFINE row == [peer |-> task.peer, content |-> e.content,
                   msg_id |-> nextMsgId, ttl |-> e.expires_at,
                   seq |-> seqCounter, retries |-> 0]
<1>1. e \in Entry /\ task.peer \in Peers /\ task.rest \in SUBSET Entry
  BY <1>u, TypeInvIs, TaskIs
<1>2. FromQueue(e) /\ \A f \in task.rest : FromQueue(f)
  BY <1>u, TypeInvIs DEF HandlerTraced
<1>3. /\ row \in PendingRow /\ nextRid \in Nat
      /\ nextMsgId' \in Nat \ {0} /\ nextMsgId \in Nat /\ nextMsgId' = nextMsgId + 1
      /\ row.msg_id = nextMsgId /\ row.msg_id \in 1..(nextMsgId' - 1)
      /\ seqCounter' \in Nat \ {0} /\ [row EXCEPT !.retries = 0] = row
  BY <1>u, <1>1, TypeInvIs DEF MemoryOK, CountersOK, PendingRow, Entry
<1>4. /\ SendRequest(row) /\ Track(nextRid, row)
      /\ Runs(PushPending(nextRid, row), e.content)
      /\ task' = [at |-> "mark", entry |-> e, peer |-> task.peer, rest |-> task.rest \ {e}]
  BY <1>u, <1>0
<1>5. row.content = e.content /\ row.peer = Addressee[e.content]
      /\ row.ttl = Deadline[e.content] /\ e.content \in accepted
  BY <1>u, <1>2 DEF FromQueue
<1> HIDE DEF row
<1>6. task' \in Tasks
  BY <1>u, <1>1, <1>4 DEF Tasks
<1>7. TablesOK'
  BY <1>u, <1>3, <1>4, TypeInvIs, Frames, PushPendingOK DEF Runs, Fault
<1>8. tracker' \in [DOMAIN tracker' -> PendingRow]
  BY <1>u, <1>3, <1>4, TypeInvIs DEF Track, Put, MemoryOK
<1>9. /\ outstanding' \in [DOMAIN outstanding' -> PendingRow]
      /\ DOMAIN outstanding' \subseteq 1..(nextRid' - 1) /\ nextRid' \in Nat \ {0}
      /\ sends' \in [DOMAIN sends' -> Nat] /\ DOMAIN sends' \subseteq 1..(nextMsgId' - 1)
      /\ DOMAIN sends' = DOMAIN sends \cup {row.msg_id}
  <2>1. nextMsgId <= nextMsgId' /\ MemoryOK /\ CountersOK
    BY <1>u, <1>3, TypeInvIs
  <2> QED
    BY <2>1, <1>3, <1>4, SendRequestOK
<1>10. MemoryOK' /\ CountersOK' /\ HistoryOK'
  <2>1. MemoryOK'
    BY <1>u, <1>3, <1>8, <1>9 DEF MemoryOK
  <2>2. CountersOK'
    BY <1>u, <1>3, <1>4, <1>9, TypeInvIs, SenderAssumption DEF CountersOK, Runs, Fault
  <2> QED
    BY <1>u, <1>4, <1>5, <2>1, <2>2, TypeInvIs, Frames DEF HistoryOK, Runs, Fault
<1>11. \A f \in Records' : f = row \/ f \in Records
  <2>1. \A r \in DOMAIN tracker' : tracker'[r] = row \/ (r \in DOMAIN tracker /\ tracker'[r] = tracker[r])
    BY <1>3, <1>4 DEF Track, Put
  <2>2. \A r \in DOMAIN pendingRows' :
          \/ pendingRows'[r] = row
          \/ r \in DOMAIN pendingRows /\ pendingRows'[r] = pendingRows[r]
    BY <1>4 DEF Runs, Fault, tables, PushPending
  <2>3. task'.at = "mark"
    BY <1>u, <1>4
  <2> QED
    BY <2>1, <2>2, <2>3 DEF Records
<1>12. \A f \in Records : Known(f) /\ f.msg_id < nextMsgId
  BY <1>u, TypeInvIs DEF Known, CountersOK
<1>13. \A f \in Records' : Known(f)'
  BY <1>u, <1>5, <1>9, <1>11, <1>12 DEF Known
<1>14. StableIdentity'
  BY <1>u, <1>3, <1>11, <1>12 DEF StableIdentity, SameRequest, TypeInv
<1>15. HandlerTraced' /\ QueueTraced'
  BY <1>u, <1>2, <1>4, TypeInvIs DEF HandlerTraced, QueueTraced, FromQueue, Runs, Fault,
     PushPending, tables
<1> QED
  BY <1>u, <1>6, <1>7, <1>10, <1>13, <1>14, <1>15, TypeIs' DEF TypeInv, Traced, TypeOK, TablesOK, MemoryOK, CountersOK, HistoryOK

\* Marking the flushed row delivered preserves the invariant.
LEMMA MarkEntryInv ==
  ASSUME TypeInv, MarkEntry
  PROVE  TypeInv' /\ Inherits
<1> USE DEF MarkEntry
<1>1. /\ task.entry \in Entry /\ task.peer \in Peers /\ task.rest \in SUBSET Entry
      /\ FromQueue(task.entry) /\ \A f \in task.rest : FromQueue(f)
  BY TypeInvIs, TaskIs DEF HandlerTraced
<1>2. task' \in Tasks
  BY <1>1 DEF Tasks
<1>3. TablesOK'
  BY TypeInvIs, Frames, MarkDeliveredOK DEF Runs, Fault
<1>4. MemoryOK' /\ CountersOK' /\ HistoryOK'
  BY <1>1, TypeInvIs, Frames DEF HistoryOK, Runs, Fault, FromQueue
<1>5. Inherits
  BY DEF Inherits, Records, volatile, SameRequest, Runs, Fault, MarkDelivered, tables, Idle
<1>6. HandlerTraced'
  BY <1>1 DEF HandlerTraced, FromQueue, Idle
<1>7. QueueTraced'
  <2>1. CASE UNCHANGED tables
    BY <2>1, TypeInvIs DEF QueueTraced, tables
  <2>2. CASE MarkDelivered(task.entry.id)
    <3>1. \A i \in DOMAIN messages' :
           /\ i \in DOMAIN messages
           /\ messages'[i].content = messages[i].content
           /\ messages'[i].peer = messages[i].peer
           /\ messages'[i].expires_at = messages[i].expires_at
      BY <2>2, TypeInvIs DEF MarkDelivered, TablesOK, MessageRow
    <3> QED
      BY <3>1, TypeInvIs, QueueShrinks
  <2> QED
    BY <2>1, <2>2 DEF Runs, Fault
<1> QED
  BY <1>2, <1>3, <1>4, <1>5, <1>6, <1>7, TypeInvNext

\* Removing the row of an acknowledged request preserves the invariant.
LEMMA SettleInv ==
  ASSUME TypeInv, Settle
  PROVE  TypeInv' /\ Inherits
<1> USE DEF Settle
<1>1. task.row.content \in accepted
  BY TypeInvIs DEF HandlerTraced, HistoryOK
<1>2. task' \in Tasks
  BY DEF Tasks
<1>3. TablesOK'
  BY TypeInvIs, Frames, DeletionsOK DEF Runs, Fault
<1>4. MemoryOK' /\ CountersOK' /\ HistoryOK'
  BY <1>1, TypeInvIs, Frames DEF HistoryOK, Runs, Fault
<1>5. Inherits
  BY DEF Inherits, Records, volatile, SameRequest, Runs, Fault, RemovePending, Restrict,
     tables, Idle
<1>6. HandlerTraced' /\ QueueTraced'
  BY TypeInvIs DEF HandlerTraced, QueueTraced, Idle, Runs, Fault, RemovePending, tables
<1> QED
  BY <1>2, <1>3, <1>4, <1>5, <1>6, TypeInvNext

\* Removing the row of a failed request, to move it or to give it up, preserves
\* the invariant.
LEMMA SwapInv ==
  ASSUME TypeInv, Swap \/ GiveUp
  PROVE  TypeInv' /\ Inherits
<1> USE DEF Swap, GiveUp
<1>1. task.row \in Records /\ Known(task.row)
  BY TypeInvIs DEF Records
<1>2. task' \in Tasks
  BY TypeInvIs, TaskIs DEF Tasks
<1>3. TablesOK'
  BY TypeInvIs, Frames, DeletionsOK DEF Runs, Fault
<1>4. MemoryOK' /\ CountersOK' /\ HistoryOK'
  BY <1>1, TypeInvIs, Frames DEF HistoryOK, Runs, Fault, Known
<1>5. Inherits
  BY DEF Inherits, Records, volatile, SameRequest, Runs, Fault, RemovePending, Restrict,
     tables
<1>6. HandlerTraced' /\ QueueTraced'
  BY TypeInvIs DEF HandlerTraced, QueueTraced, Runs, Fault, RemovePending, tables
<1> QED
  BY <1>2, <1>3, <1>4, <1>5, <1>6, TypeInvNext

\* Storing the retried request under its new id preserves the invariant.
LEMMA PersistInv ==
  ASSUME TypeInv, Persist
  PROVE  TypeInv' /\ Inherits
<1> USE DEF Persist
<1>1. task.row \in Records /\ Known(task.row) /\ task.row \in PendingRow /\ task.new \in Nat
  BY TypeInvIs, TaskIs DEF Records
<1>2. task' \in Tasks
  BY DEF Tasks
<1>3. TablesOK'
  BY <1>1, TypeInvIs, Frames, PushPendingOK DEF Runs, Fault
<1>4. MemoryOK' /\ CountersOK' /\ HistoryOK'
  BY <1>1, TypeInvIs, Frames DEF HistoryOK, Runs, Fault, Known
<1>5. Inherits
  BY DEF Inherits, Records, volatile, SameRequest, Runs, Fault, PushPending, tables, Idle
<1>6. HandlerTraced' /\ QueueTraced'
  BY TypeInvIs DEF HandlerTraced, QueueTraced, Runs, Fault, PushPending, tables, Idle
<1> QED
  BY <1>2, <1>3, <1>4, <1>5, <1>6, TypeInvNext

\* Handing an exhausted message back to the queue preserves the invariant: the
\* new row has the recipient and the deadline of the message.
LEMMA RequeueInv ==
  ASSUME TypeInv, Requeue
  PROVE  TypeInv' /\ Inherits
<1> USE DEF Requeue
<1>1. task.row \in Records /\ Known(task.row) /\ task.row \in PendingRow
  BY TypeInvIs, TaskIs DEF Records
<1>2. task' \in Tasks
  BY DEF Tasks
<1>3. TablesOK'
  BY <1>1, TypeInvIs, Frames, PushWithTtlOK DEF Runs, Fault, PendingRow
<1>4. MemoryOK' /\ CountersOK' /\ HistoryOK'
  BY <1>1, TypeInvIs, Frames DEF HistoryOK, Runs, Fault, Known
<1>5. Inherits
  BY DEF Inherits, Records, volatile, SameRequest, Runs, Fault, PushWithTtl, tables, Idle
<1>6. HandlerTraced' /\ QueueTraced'
  BY <1>1, TypeInvIs DEF HandlerTraced, QueueTraced, Runs, Fault, PushWithTtl, tables, Idle,
     Known
<1> QED
  BY <1>2, <1>3, <1>4, <1>5, <1>6, TypeInvNext

\* Taking an acknowledgement preserves the invariant.
LEMMA ResponseInv ==
  ASSUME TypeInv, NEW rid \in DOMAIN outstanding, Response(rid)
  PROVE  TypeInv' /\ Inherits
<1> USE DEF Response, CanTake
<1>1. /\ tracker[rid] \in Records /\ Known(tracker[rid]) /\ tracker[rid] \in PendingRow
      /\ rid \in Nat
  BY TypeInvIs DEF Records, MemoryOK
<1>2. task' \in Tasks
  BY <1>1 DEF Tasks
<1>3. MemoryOK'
  BY TypeInvIs DEF MemoryOK, Answered, Ack, Without, Restrict
<1>4. TablesOK' /\ CountersOK' /\ HistoryOK'
  BY <1>1, TypeInvIs, Frames DEF HistoryOK, Known, bounds
<1>5. Inherits
  BY DEF Inherits, Records, tables, SameRequest, Ack, Without, Restrict, Idle
<1>6. HandlerTraced' /\ QueueTraced'
  BY TypeInvIs DEF HandlerTraced, QueueTraced, tables
<1> QED
  BY <1>2, <1>3, <1>4, <1>5, <1>6, TypeInvNext

\* Ignoring an answer to an untracked request preserves the invariant.
LEMMA UntrackedInv ==
  ASSUME TypeInv, NEW rid \in DOMAIN outstanding, Untracked(rid)
  PROVE  TypeInv' /\ Inherits
<1> USE DEF Untracked, CanTake
<1>1. task' \in Tasks
  BY TypeInvIs
<1>2. MemoryOK'
  BY TypeInvIs DEF MemoryOK, Answered, Restrict
<1>3. TablesOK' /\ CountersOK' /\ HistoryOK'
  BY TypeInvIs, Frames DEF HistoryOK, history, bounds
<1>4. Inherits
  BY DEF Inherits, Records, tables, SameRequest, Idle
<1>5. HandlerTraced' /\ QueueTraced'
  BY TypeInvIs DEF HandlerTraced, QueueTraced, tables, Idle, history
<1> QED
  BY <1>1, <1>2, <1>3, <1>4, <1>5, TypeInvNext DEF history

\* A retry preserves the invariant: it counts in the record and changes nothing
\* else of it.
LEMMA RetryInv ==
  ASSUME TypeInv, NEW rid \in DOMAIN outstanding, Retry(rid)
  PROVE  TypeInv' /\ Inherits
<1> USE DEF Retry, CanTake
<1>1. /\ tracker[rid] \in Records /\ Known(tracker[rid]) /\ tracker[rid] \in PendingRow
      /\ rid \in Nat /\ nextRid \in Nat /\ tracker[rid].msg_id \in 1..(nextMsgId - 1)
      /\ tracker[rid].msg_id \in DOMAIN sends
  BY TypeInvIs DEF Records, MemoryOK, Known, CountersOK
<1>2. Failed(rid) \in PendingRow /\ SameRequest(Failed(rid), tracker[rid])
  BY <1>1 DEF Failed, PendingRow, SameRequest
<1>3. task' \in Tasks
  BY <1>1, <1>2 DEF Tasks
<1>4. MemoryOK'
  BY <1>2, TypeInvIs DEF MemoryOK, Answered, FailAndRetrack, Restrict
<1>5. CountersOK' /\ DOMAIN sends' = DOMAIN sends
  BY <1>1, TypeInvIs, SenderAssumption DEF CountersOK, Count
<1>6. TablesOK' /\ HistoryOK'
  BY TypeInvIs, Frames DEF HistoryOK
<1>7. Inherits
  <2>1. \A e \in Records' : e \in Records \/ e = Failed(rid)
    BY DEF Records, tables, FailAndRetrack, Idle
  <2> QED
    BY <1>1, <1>2, <2>1 DEF Inherits, SameRequest
<1>8. HandlerTraced' /\ QueueTraced'
  BY TypeInvIs DEF HandlerTraced, QueueTraced, tables
<1> QED
  BY <1>3, <1>4, <1>5, <1>6, <1>7, <1>8, TypeInvNext

\* Giving up on a request preserves the invariant.
LEMMA ExhaustInv ==
  ASSUME TypeInv, NEW rid \in DOMAIN outstanding, Exhaust(rid)
  PROVE  TypeInv' /\ Inherits
<1> USE DEF Exhaust, CanTake
<1>1. /\ tracker[rid] \in Records /\ tracker[rid] \in PendingRow /\ rid \in Nat
  BY TypeInvIs DEF Records, MemoryOK
<1>2. Failed(rid) \in PendingRow /\ SameRequest(Failed(rid), tracker[rid])
  BY <1>1 DEF Failed, PendingRow, SameRequest
<1>3. task' \in Tasks
  BY <1>1, <1>2 DEF Tasks
<1>4. MemoryOK'
  BY TypeInvIs DEF MemoryOK, Answered, Ack, Without, Restrict
<1>5. CountersOK'
  BY TypeInvIs, SenderAssumption DEF CountersOK, history
<1>6. TablesOK' /\ HistoryOK'
  BY TypeInvIs, Frames DEF HistoryOK, history
<1>7. Inherits
  <2>1. \A e \in Records' : e \in Records \/ e = Failed(rid)
    BY DEF Records, tables, Ack, Without, Restrict, Idle
  <2> QED
    BY <1>1, <1>2, <2>1 DEF Inherits, SameRequest
<1>8. HandlerTraced' /\ QueueTraced'
  BY TypeInvIs DEF HandlerTraced, QueueTraced, tables, history
<1> QED
  BY <1>3, <1>4, <1>5, <1>6, <1>7, <1>8, TypeInvNext DEF history

\* The three deletions of the daemon's clean-up preserve the invariant.
LEMMA CleanUpInv ==
  ASSUME TypeInv, CleanUp \/ Prune \/ Purge
  PROVE  TypeInv' /\ Inherits
<1> USE DEF CleanUp, Prune, Purge, Deletes
<1>1. /\ Queued(ExpiredIds(clock)) \subseteq accepted
      /\ InFlight(ExpiredRids(clock)) \subseteq accepted
  BY TypeInvIs DEF Queued, InFlight, ExpiredIds, ExpiredRids, QueueTraced, Known, Records
<1>2. task' \in Tasks
  BY DEF Tasks
<1>3. TablesOK'
  BY TypeInvIs, Frames, DeletionsOK
<1>4. MemoryOK' /\ CountersOK' /\ HistoryOK'
  BY <1>1, TypeInvIs, Frames DEF HistoryOK
<1>5. Inherits
  BY DEF Inherits, Records, volatile, tables, SameRequest, Idle, ExpireBefore,
     PruneDelivered, ExpirePending, Restrict
<1>6. HandlerTraced'
  BY DEF HandlerTraced, Idle
<1>7. QueueTraced'
  BY TypeInvIs DEF QueueTraced, ExpireBefore, PruneDelivered, ExpirePending,
     MessagesWithout, Restrict, tables
<1> QED
  BY <1>2, <1>3, <1>4, <1>5, <1>6, <1>7, TypeInvNext

\* The deletions of `diag clean` preserve the invariant, whatever runs.
LEMMA DiagCleanInv ==
  ASSUME TypeInv, DiagClean
  PROVE  TypeInv' /\ Inherits
<1> USE DEF DiagClean
<1>1. Queued(ExpiredIds(clock)) \subseteq accepted
  BY TypeInvIs DEF Queued, ExpiredIds, QueueTraced
<1>2. TablesOK'
  BY TypeInvIs, DeletionsOK
<1>3. task' \in Tasks /\ MemoryOK' /\ CountersOK' /\ HistoryOK'
  BY <1>1, TypeInvIs, Frames DEF HistoryOK, bounds
<1>4. Inherits
  BY DEF Inherits, Records, volatile, SameRequest, ExpireBefore, PruneDelivered
<1>5. HandlerTraced'
  BY TypeInvIs DEF HandlerTraced, FromQueue
<1>6. QueueTraced'
  BY TypeInvIs DEF QueueTraced, ExpireBefore, PruneDelivered, MessagesWithout, Restrict
<1> QED
  BY <1>2, <1>3, <1>4, <1>5, <1>6, TypeInvNext

\* A message pushed by another process preserves the invariant.
LEMMA EnqueueInv ==
  ASSUME TypeInv, NEW c \in Contents, Enqueue(c)
  PROVE  TypeInv' /\ Inherits
<1> USE DEF Enqueue
<1>1. Addressee[c] \in Peers /\ Deadline[c] \in Nat
  BY SenderAssumption
<1>2. TablesOK'
  BY <1>1, TypeInvIs, PushWithTtlOK
<1>3. task' \in Tasks /\ MemoryOK' /\ CountersOK' /\ HistoryOK'
  BY TypeInvIs, Frames DEF HistoryOK, bounds
<1>4. Inherits
  BY DEF Inherits, Records, volatile, SameRequest, PushWithTtl
<1>5. HandlerTraced'
  BY TypeInvIs DEF HandlerTraced, FromQueue
<1>6. QueueTraced'
  BY TypeInvIs DEF QueueTraced, PushWithTtl
<1> QED
  BY <1>2, <1>3, <1>4, <1>5, <1>6, TypeInvNext

\* The clock preserves the invariant.
LEMMA TickInv ==
  ASSUME TypeInv, Tick
  PROVE  TypeInv' /\ Inherits
<1> USE DEF Tick
<1>1. CountersOK'
  BY TypeInvIs, SenderAssumption DEF CountersOK, history, bounds
<1>2. task' \in Tasks /\ TablesOK' /\ MemoryOK' /\ HistoryOK'
  BY TypeInvIs, Frames DEF HistoryOK, history
<1>3. Inherits
  BY DEF Inherits, Records, volatile, tables, SameRequest
<1>4. HandlerTraced' /\ QueueTraced'
  BY TypeInvIs DEF HandlerTraced, QueueTraced, FromQueue, tables, history
<1> QED
  BY <1>1, <1>2, <1>3, <1>4, TypeInvNext DEF history

\* The end of the process preserves the invariant.
LEMMA CrashInv ==
  ASSUME TypeInv, Crash
  PROVE  TypeInv' /\ Inherits
<1> USE DEF Crash
<1>1. Endangered \subseteq accepted
  <2>1. \A e \in Records : e.content \in accepted
    BY TypeInvIs DEF Known
  <2>2. task.at = "clear" => Texts(task.stored \ task.rest) \subseteq accepted
    BY <2>1 DEF Texts, Records
  <2>3. task.at = "resend" => Texts(task.rest) \subseteq accepted
    BY <2>1 DEF Texts, Records
  <2>4. task.at = "mark" => task.entry.content \in accepted
    BY TypeInvIs DEF HandlerTraced, FromQueue
  <2>5. task.at \in {"settle", "persist", "requeue"} => task.row.content \in accepted
    BY <2>1, TypeInvIs DEF HandlerTraced, HistoryOK, Records
  <2> QED
    BY <2>2, <2>3, <2>4, <2>5 DEF Endangered
<1>2. task' \in Tasks
  BY DEF Tasks
<1>3. MemoryOK'
  BY DEF MemoryOK
<1>4. CountersOK'
  BY TypeInvIs, SenderAssumption DEF CountersOK
<1>5. TablesOK' /\ HistoryOK'
  BY <1>1, TypeInvIs, Frames DEF HistoryOK
<1>6. Inherits
  BY DEF Inherits, Records, tables, SameRequest, Down
<1>7. HandlerTraced' /\ QueueTraced'
  BY TypeInvIs DEF HandlerTraced, QueueTraced, Down, tables
<1> QED
  BY <1>2, <1>3, <1>4, <1>5, <1>6, <1>7, TypeInvNext

\* The invariant holds before the first start of the process.
LEMMA InitTypeInv == Init => TypeInv
<1> SUFFICES ASSUME Init PROVE TypeInv
  OBVIOUS
<1> USE DEF Init, EmptyTables
<1>1. TypeOK
  BY SenderAssumption DEF TypeOK, Tasks
<1>2. Records = {}
  BY DEF Records, Down
<1> QED
  BY <1>1, <1>2 DEF TypeInv, Traced, StableIdentity, QueueTraced, HandlerTraced, Down

\* Every step preserves the invariant, and copies records unless it flushes.
LEMMA StepInherits ==
  ASSUME TypeInv, [Next]_vars
  PROVE  TypeInv' /\ (Inherits \/ FlushEntry)
<1>1. CASE UNCHANGED vars
  <2>1. Inherits
    BY <1>1 DEF vars, Inherits, Records, tables, volatile, SameRequest
  <2>2. task' \in Tasks /\ TablesOK' /\ MemoryOK' /\ CountersOK' /\ HistoryOK'
    BY <1>1, TypeInvIs, Frames DEF vars, history, bounds, HistoryOK
  <2>3. HandlerTraced' /\ QueueTraced'
    BY <1>1, TypeInvIs DEF HandlerTraced, QueueTraced, FromQueue, vars, tables, history
  <2> QED
    BY <1>1, <2>1, <2>2, <2>3, TypeInvNext DEF vars, history
<1>2. CASE Step
  BY <1>2, ClearRowInv, ResendRowInv, SkipExpiredInv, FlushEntryInv, MarkEntryInv,
     SettleInv, SwapInv, PersistInv, RequeueInv, CleanUpInv DEF Step
<1>3. CASE Next /\ ~Step
  BY <1>3, StartInv, ConnectInv, ResponseInv, UntrackedInv, RetryInv, ExhaustInv,
     CleanUpInv, DiagCleanInv, EnqueueInv, TickInv, CrashInv DEF Next
<1> QED
  BY <1>1, <1>2, <1>3

\* Every step preserves the invariant.
LEMMA StepTypeInv == TypeInv /\ [Next]_vars => TypeInv'
BY StepInherits

\* The inductive invariant holds in every behaviour of the daemon.
LEMMA TypeInvariant == Spec => []TypeInv
BY InitTypeInv, StepTypeInv, PTL DEF Spec

\* The database, the tracker, the table of outstanding requests, the handler and
\* the histories keep their types; ids of rows and of requests are never handed
\* out twice, for any number of crashes, failures and faults.
THEOREM TypeCorrect == Spec => []TypeOK
BY TypeInvariant, PTL DEF TypeInv

\* Retries, recoveries and hand-overs between the tracker, the table `pending`
\* and the handlers keep the identity of a message.
THEOREM IdentityIsStable == Spec => []StableIdentity
BY TypeInvariant, PTL DEF TypeInv

\* The recipient and the deadline follow a message through the queue, the
\* tracker, the table of requests in flight and back into the queue.
THEOREM OriginFollows == Spec => []Provenance
<1>1. TypeInv => Provenance
  BY DEF TypeInv, Traced, Known, QueueTraced, Provenance
<1> QED
  BY <1>1, TypeInvariant, PTL

\* The only actions that touch the tracker or the outstanding requests.
LEMMA MemorySteps ==
  ASSUME [Next]_vars
  PROVE  \/ UNCHANGED <<tracker, outstanding, nextRid>>
         \/ ResendRow \/ FlushEntry \/ Crash
         \/ \E rid \in DOMAIN outstanding :
              Response(rid) \/ Untracked(rid) \/ Retry(rid) \/ Exhaust(rid)
BY DEF Next, Step, vars, volatile, Start, StartBlind, ClearRow, SkipExpired, MarkEntry,
       Settle, Swap, Persist, GiveUp, Requeue, Prune, Purge, Connect, CleanUp, Enqueue,
       DiagClean, Tick

\* Every step keeps each tracked request outstanding, with what was sent.
LEMMA OutstandingStep ==
  ASSUME TypeInv, TrackedIsOutstanding, [Next]_vars
  PROVE  TrackedIsOutstanding'
<1> USE DEF TrackedIsOutstanding
<1>a. /\ nextRid \notin DOMAIN outstanding
      /\ \A r \in DOMAIN tracker : tracker[r] \in PendingRow
  BY TypeInvIs DEF MemoryOK
<1>1. CASE UNCHANGED <<tracker, outstanding, nextRid>>
  BY <1>1
<1>2. CASE ResendRow
  <2>1. PICK s \in task.rest :
         /\ SendRequest(s.row)
         /\ UNCHANGED tracker \/ Track(nextRid, s.row)
    BY <1>2 DEF ResendRow
  <2>2. s.row \in PendingRow
    BY <1>2, TypeInvIs, TaskIs DEF ResendRow, Stored
  <2> QED
    BY <1>a, <2>1, <2>2 DEF SendRequest, Track, Put, SameRequest, PendingRow
<1>3. CASE FlushEntry
  <2>1. PICK row : /\ SendRequest(row) /\ Track(nextRid, row)
                   /\ row = [row EXCEPT !.retries = 0]
    BY <1>3 DEF FlushEntry
  <2> QED
    BY <1>a, <2>1 DEF SendRequest, Track, Put, SameRequest
<1>4. CASE Crash
  BY <1>4 DEF Crash
<1>5. ASSUME NEW rid \in DOMAIN outstanding, Response(rid) \/ Exhaust(rid)
      PROVE  TrackedIsOutstanding'
  BY <1>5 DEF Response, Exhaust, Ack, Without, Answered, Restrict, SameRequest
<1>6. ASSUME NEW rid \in DOMAIN outstanding, Untracked(rid)
      PROVE  TrackedIsOutstanding'
  BY <1>6 DEF Untracked, Answered, Restrict, SameRequest
<1>7. ASSUME NEW rid \in DOMAIN outstanding, Retry(rid)
      PROVE  TrackedIsOutstanding'
  BY <1>a, <1>7 DEF Retry, FailAndRetrack, SameRequest
<1> QED
  BY <1>1, <1>2, <1>3, <1>4, <1>5, <1>6, <1>7, MemorySteps

\* No entry of the tracker waits under an id that libp2p has already reported,
\* or stands for a message other than the one sent under its id.
THEOREM NoneWaitsForNothing == Spec => []TrackedIsOutstanding
<1>1. Init => TrackedIsOutstanding
  BY DEF Init, TrackedIsOutstanding
<1> QED
  BY <1>1, TypeInvariant, OutstandingStep, PTL DEF Spec

\* Every step that drops a message as expired comes after its deadline, and the
\* clock never goes back.
LEMMA ExpiredStep ==
  ASSUME TypeInv, ExpiredIsLate, [Next]_vars
  PROVE  ExpiredIsLate'
<1> USE DEF ExpiredIsLate
<1>a. clock \in Nat /\ clock' \in Nat /\ clock <= clock'
  <2>1. CountersOK /\ CountersOK'
    BY StepTypeInv DEF TypeInv, TypeOK, CountersOK
  <2>2. clock' = clock \/ clock' = clock + 1
    BY DEF Next, Step, vars, bounds, history, Start, StartBlind, ClearRow, ResendRow,
           SkipExpired, FlushEntry, MarkEntry, Settle, Swap, Persist, GiveUp, Requeue,
           Prune, Purge, Connect, Response, Untracked, Retry, Exhaust, CleanUp, Enqueue,
           DiagClean, Tick, Crash
  <2> QED
    BY <2>1, <2>2 DEF CountersOK
<1>1. \A c \in expired' : c \in expired \/ Deadline[c] <= clock
  <2>1. CASE SkipExpired
    <3>1. PICK s \in task.rest : s.row.ttl < clock /\ expired' = expired \cup {s.row.content}
      BY <2>1 DEF SkipExpired
    <3>2. s.row.ttl \in Nat /\ s.row.ttl = Deadline[s.row.content]
      BY <2>1, TypeInvIs, TaskIs DEF SkipExpired, Records, Known, Stored, PendingRow
    <3> QED
      BY <1>a, <3>1, <3>2
  <2>2. CASE CleanUp \/ DiagClean \/ Prune
    BY <2>2, TypeInvIs DEF CleanUp, DiagClean, Prune, Deletes, Queued, ExpiredIds, QueueTraced
  <2>3. CASE Purge
    <3>1. \A r \in ExpiredRids(clock) : Deadline[pendingRows[r].content] <= clock
      BY <1>a, TypeInvIs DEF ExpiredRids, Records, Known, TablesOK, PendingRow
    <3> QED
      BY <2>3, <3>1 DEF Purge, Deletes, InFlight
  <2>4. CASE UNCHANGED expired
    BY <2>4
  <2> QED
    BY <2>1, <2>2, <2>3, <2>4 
       DEF Next, Step, vars, history, Start, StartBlind, ClearRow, ResendRow,
           FlushEntry, MarkEntry, Settle, Swap, Persist, GiveUp, Requeue,
           Connect, Response, Untracked, Retry, Exhaust, Enqueue, Tick, Crash
<1>2. \A c \in Contents : Deadline[c] \in Nat
  BY SenderAssumption
<1>3. expired' \subseteq Contents
  BY StepTypeInv DEF TypeInv, TypeOK
<1> QED
  BY <1>a, <1>1, <1>2, <1>3

\* Neither recovery, nor the clean-up, nor `diag clean` drops a message before
\* its deadline.
THEOREM NoneExpiresEarly == Spec => []ExpiredIsLate
<1>1. Init => ExpiredIsLate
  BY DEF Init, ExpiredIsLate
<1> QED
  BY <1>1, TypeInvariant, ExpiredStep, PTL DEF Spec
=============================================================================
