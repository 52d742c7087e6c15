---------------------------- MODULE SenderDaemon ----------------------------
(***************************************************************************)
(* The sending half of the daemon (run_daemon in src/network.rs): the      *)
(* flush of the offline queue when a recipient connects, acknowledgements, *)
(* retries, the hand-back to the queue after too many of them, crash       *)
(* recovery from the table `pending`, and the periodic clean-up.           *)
(*                                                                         *)
(* The event loop is one task: handlers do not interleave with each other. *)
(* The process can end anywhere, though (a crash, or the control socket's  *)
(* `quit`, which exits from a task of its own), and other processes work   *)
(* on the same database.  So every SQL statement of a handler is a step of *)
(* its own, and `task` says what the running handler has left to do.       *)
(* Requests queued by a handler leave the process only when the loop polls *)
(* the swarm again, so nothing is answered while a handler runs.           *)
(***************************************************************************)
EXTENDS MessageQueue, PendingTracker

CONSTANTS
  Addressee,     \* Addressee[c]: the recipient of the message c
  Deadline,      \* Deadline[c]: the expiry it is queued with
  MaxRetries,    \* MAX_RETRIES
  MaxClock,      \* bound of the model: the last time of the clock
  MaxCrashes,    \* bound of the model: ends of the process
  MaxFailures,   \* bound of the model: outbound failures
  MaxFaults      \* bound of the model: SQL statements that fail

ASSUME SenderAssumption ==
  /\ Addressee \in [Contents -> Peers]
  /\ MaxRetries \in Nat
  /\ MaxClock \in Nat /\ MaxCrashes \in Nat
  /\ MaxFailures \in Nat /\ MaxFaults \in Nat
  /\ Forever \in Nat /\ Forever > MaxClock
  /\ Deadline \in [Contents -> 0..Forever]

VARIABLES
  task,          \* what the event loop is doing
  outstanding,   \* requests libp2p has not answered yet: request id |-> row
  nextRid,       \* the next OutboundRequestId of this process
  seqCounter,    \* the one sequence counter of this process
  nextMsgId,     \* fresh message identities (random u64 values)
  clock

\* History and bounds.
VARIABLES
  accepted,      \* messages pushed into the queue
  acked,         \* messages whose acknowledgement was processed
  expired,       \* messages that a clean-up or a recovery dropped as expired
  torn,          \* messages whose handler was cut short, by a crash or a fault
  sends,         \* sends[m]: how often the identity m was handed to libp2p
  crashes, failures, faults

volatile == <<tracker, outstanding, nextRid, seqCounter>>
history == <<accepted, acked, expired, torn, sends>>
bounds == <<crashes, failures, faults>>
vars == <<tables, volatile, task, nextMsgId, clock, history, bounds>>

----------------------------------------------------------------------------
(* What the event loop can be doing.                                       *)

Idle == [at |-> "idle"]    \* waiting for an event
Down == [at |-> "down"]    \* the process does not run

Entry == [id : Nat, content : Contents, expires_at : Nat]
Stored == [rid : Nat, row : PendingRow]

Tasks ==
  {Idle, Down}
    \cup [at : {"clear"}, rest : SUBSET Stored, stored : SUBSET Stored]
    \cup [at : {"resend"}, rest : SUBSET Stored]
    \cup [at : {"flush"}, peer : Peers, rest : SUBSET Entry]
    \cup [at : {"mark"}, entry : Entry, peer : Peers, rest : SUBSET Entry]
    \cup [at : {"settle"}, rid : Nat, row : PendingRow]
    \cup [at : {"swap"}, old : Nat, new : Nat, row : PendingRow]
    \cup [at : {"persist"}, new : Nat, row : PendingRow]
    \cup [at : {"giveup"}, old : Nat, row : PendingRow]
    \cup [at : {"requeue"}, row : PendingRow]
    \cup [at : {"prune", "purge"}]

Texts(S) == {s.row.content : s \in S}

\* The messages that have no durable copy, or two, when the process ends now.
Endangered ==
  CASE task.at = "clear" -> Texts(task.stored \ task.rest)
    [] task.at = "resend" -> Texts(task.rest)
    [] task.at = "mark" -> {task.entry.content}
    [] task.at \in {"settle", "persist", "requeue"} -> {task.row.content}
    [] OTHER -> {}

\* libp2p accepts one more request for the identity id.
Count(id) ==
  sends' = [i \in DOMAIN sends \cup {id} |->
              IF i # id THEN sends[i]
              ELSE IF id \in DOMAIN sends THEN sends[id] + 1 ELSE 1]

SendRequest(row) ==
  /\ outstanding' = [r \in DOMAIN outstanding \cup {nextRid} |->
                       IF r = nextRid THEN row ELSE outstanding[r]]
  /\ nextRid' = nextRid + 1
  /\ Count(row.msg_id)

\* libp2p answers the request rid, and forgets it.
Answered(rid) == Restrict(outstanding, DOMAIN outstanding \ {rid})

\* A statement runs, or fails and changes nothing.  The program logs the error
\* at most, and goes on; c is the message the statement was about.
Fault(c) ==
  /\ faults < MaxFaults
  /\ faults' = faults + 1
  /\ torn' = torn \cup {c}
  /\ UNCHANGED tables

Runs(statement, c) ==
  \/ statement /\ UNCHANGED <<torn, faults>>
  \/ Fault(c)

----------------------------------------------------------------------------
(* Crash recovery, at the start of the process.                            *)

\* Load every row of pending; nothing to recover leaves the loop idle.
Start ==
  /\ task = Down
  /\ task' = IF LoadAllPending = {} THEN Idle
             ELSE [at |-> "clear", rest |-> LoadAllPending,
                   stored |-> LoadAllPending]
  /\ UNCHANGED <<tables, volatile, nextMsgId, clock, history, bounds>>

\* A load that fails counts as nothing to recover: the old rows stay under
\* request ids that this process will use again.
StartBlind ==
  /\ task = Down
  /\ faults < MaxFaults
  /\ faults' = faults + 1
  /\ torn' = torn \cup Texts(LoadAllPending)
  /\ task' = Idle
  /\ UNCHANGED <<tables, volatile, nextMsgId, clock, accepted, acked, expired,
                 sends, crashes, failures>>

\* Mutant: a deletion that fails ends the recovery.
ClearRowAborting ==
  /\ task.at = "clear"
  /\ \E s \in task.rest :
       \/ /\ RemovePending(s.rid)
          /\ task' = IF task.rest = {s}
                       THEN [at |-> "resend", rest |-> task.stored]
                       ELSE [task EXCEPT !.rest = @ \ {s}]
          /\ UNCHANGED <<torn, faults>>
       \/ Fault(s.row.content) /\ task' = Idle
  /\ UNCHANGED <<volatile, nextMsgId, clock, accepted, acked, expired, sends,
                 crashes, failures>>

\* First all the old rows are removed, one statement each.
ClearRow ==
  /\ task.at = "clear"
  /\ \E s \in task.rest :
       /\ Runs(RemovePending(s.rid), s.row.content)
       /\ task' = IF task.rest = {s}
                    THEN [at |-> "resend", rest |-> task.stored]
                    ELSE [task EXCEPT !.rest = @ \ {s}]
  /\ UNCHANGED <<volatile, nextMsgId, clock, accepted, acked, expired, sends,
                 crashes, failures>>

AfterResend(s) ==
  IF task.rest = {s} THEN Idle ELSE [task EXCEPT !.rest = @ \ {s}]

\* Mutant: an insertion that fails ends the recovery.
ResendRowAborting ==
  /\ task.at = "resend"
  /\ \E s \in task.rest :
       /\ s.row.ttl >= clock
       /\ SendRequest(s.row)
       /\ \/ /\ PushPending(nextRid, s.row)
             /\ Track(nextRid, s.row)
             /\ task' = AfterResend(s)
             /\ UNCHANGED <<torn, faults>>
          \/ /\ Fault(s.row.content)
             /\ task' = Idle
             /\ UNCHANGED tracker
  /\ UNCHANGED <<seqCounter, nextMsgId, clock, accepted, acked, expired,
                 crashes, failures>>

\* Mutant: the row that is sent again keeps its old request id.
ResendRowOldId ==
  /\ task.at = "resend"
  /\ \E s \in task.rest :
       /\ s.row.ttl >= clock
       /\ SendRequest(s.row)
       /\ \/ /\ PushPending(s.rid, s.row)
             /\ Track(s.rid, s.row)
             /\ UNCHANGED <<torn, faults>>
          \/ /\ Fault(s.row.content)
             /\ UNCHANGED tracker
       /\ task' = AfterResend(s)
  /\ UNCHANGED <<seqCounter, nextMsgId, clock, accepted, acked, expired,
                 crashes, failures>>

\* Mutant: after an insertion that fails the table is read again, with the rows
\* that were already sent.
ResendRowAgain ==
  /\ task.at = "resend"
  /\ \E s \in task.rest :
       /\ s.row.ttl >= clock
       /\ SendRequest(s.row)
       /\ \/ /\ PushPending(nextRid, s.row)
             /\ Track(nextRid, s.row)
             /\ task' = AfterResend(s)
             /\ UNCHANGED <<torn, faults>>
          \/ /\ Fault(s.row.content)
             /\ LET rest == (task.rest \ {s}) \cup LoadAllPending
                IN task' = IF rest = {} THEN Idle ELSE [task EXCEPT !.rest = rest]
             /\ UNCHANGED tracker
  /\ UNCHANGED <<seqCounter, nextMsgId, clock, accepted, acked, expired,
                 crashes, failures>>

\* Then each row that has not expired is sent again with its old identity and
\* number, persisted under the new request id and, if that worked, tracked.
ResendRow ==
  /\ task.at = "resend"
  /\ \E s \in task.rest :
       /\ s.row.ttl >= clock
       /\ SendRequest(s.row)
       /\ \/ /\ PushPending(nextRid, s.row)
             /\ Track(nextRid, s.row)
             /\ UNCHANGED <<torn, faults>>
          \/ /\ Fault(s.row.content)
             /\ UNCHANGED tracker
       /\ task' = AfterResend(s)
  /\ UNCHANGED <<seqCounter, nextMsgId, clock, accepted, acked, expired,
                 crashes, failures>>

\* An expired row is skipped: its message is given up.
SkipExpired ==
  /\ task.at = "resend"
  /\ \E s \in task.rest :
       /\ s.row.ttl < clock
       /\ expired' = expired \cup {s.row.content}
       /\ task' = AfterResend(s)
  /\ UNCHANGED <<tables, volatile, nextMsgId, clock, accepted, acked, torn,
                 sends, bounds>>

----------------------------------------------------------------------------
(* ConnectionEstablished: flush the offline queue of the recipient.        *)

Connect(p) ==
  /\ task = Idle
  /\ PendingFor(p, clock) # {}
  /\ task' = [at |-> "flush", peer |-> p, rest |-> PendingFor(p, clock)]
  /\ UNCHANGED <<tables, volatile, nextMsgId, clock, history, bounds>>

\* The next message in id order gets a number and an identity, is sent, tracked
\* and persisted.
FlushEntry ==
  /\ task.at = "flush"
  /\ \E e \in task.rest :
       LET row == [peer |-> task.peer, content |-> e.content,
                   msg_id |-> nextMsgId, ttl |-> e.expires_at,
                   seq |-> seqCounter, retries |-> 0]
       IN /\ \A f \in task.rest : e.id <= f.id
          /\ SendRequest(row)
          /\ Track(nextRid, row)
          /\ Runs(PushPending(nextRid, row), e.content)
          /\ task' = [at |-> "mark", entry |-> e, peer |-> task.peer,
                      rest |-> task.rest \ {e}]
  /\ seqCounter' = seqCounter + 1
  /\ nextMsgId' = nextMsgId + 1
  /\ UNCHANGED <<clock, accepted, acked, expired, crashes, failures>>

\* Its row in the queue is marked delivered, before any acknowledgement.
MarkEntry ==
  /\ task.at = "mark"
  /\ Runs(MarkDelivered(task.entry.id), task.entry.content)
  /\ task' = IF task.rest = {} THEN Idle
             ELSE [at |-> "flush", peer |-> task.peer, rest |-> task.rest]
  /\ UNCHANGED <<volatile, nextMsgId, clock, accepted, acked, expired, sends,
                 crashes, failures>>

----------------------------------------------------------------------------
(* Answers of libp2p: every request is answered once.                      *)

\* The loop is free to take the answer to the request rid.
CanTake(rid) == task = Idle /\ rid \in DOMAIN outstanding

\* A ChatResponse for a request the tracker knows.
Response(rid) ==
  /\ CanTake(rid)
  /\ rid \in DOMAIN tracker
  /\ outstanding' = Answered(rid)
  /\ Ack(rid)
  /\ acked' = acked \cup {tracker[rid].content}
  /\ task' = [at |-> "settle", rid |-> rid, row |-> tracker[rid]]
  /\ UNCHANGED <<tables, nextRid, seqCounter, nextMsgId, clock, accepted,
                 expired, torn, sends, bounds>>

Settle ==
  /\ task.at = "settle"
  /\ Runs(RemovePending(task.rid), task.row.content)
  /\ task' = Idle
  /\ UNCHANGED <<volatile, nextMsgId, clock, accepted, acked, expired, sends,
                 crashes, failures>>

\* An answer to a request that recovery could not persist is ignored.
Untracked(rid) ==
  /\ CanTake(rid)
  /\ rid \notin DOMAIN tracker
  /\ outstanding' = Answered(rid)
  /\ UNCHANGED <<tables, tracker, nextRid, seqCounter, task, nextMsgId, clock,
                 history, bounds>>

\* OutboundFailure within the budget: send the same message again at once,
\* whatever its time-to-live; move its row to the new request id.
Retry(rid) ==
  /\ CanTake(rid)
  /\ rid \in DOMAIN tracker
  /\ failures < MaxFailures
  /\ Failed(rid).retries <= MaxRetries
  /\ outstanding' = [r \in (DOMAIN outstanding \ {rid}) \cup {nextRid} |->
                       IF r = nextRid THEN Failed(rid) ELSE outstanding[r]]
  /\ nextRid' = nextRid + 1
  /\ Count(tracker[rid].msg_id)
  /\ FailAndRetrack(rid, nextRid)
  /\ task' = [at |-> "swap", old |-> rid, new |-> nextRid, row |-> Failed(rid)]
  /\ failures' = failures + 1
  /\ UNCHANGED <<tables, seqCounter, nextMsgId, clock, accepted, acked,
                 expired, torn, crashes, faults>>

\* Mutant: the retried request is persisted under its old id.
SwapOld ==
  /\ task.at = "swap"
  /\ Runs(RemovePending(task.old), task.row.content)
  /\ task' = [at |-> "persist", new |-> task.old, row |-> task.row]
  /\ UNCHANGED <<volatile, nextMsgId, clock, accepted, acked, expired, sends,
                 crashes, failures>>

Swap ==
  /\ task.at = "swap"
  /\ Runs(RemovePending(task.old), task.row.content)
  /\ task' = [at |-> "persist", new |-> task.new, row |-> task.row]
  /\ UNCHANGED <<volatile, nextMsgId, clock, accepted, acked, expired, sends,
                 crashes, failures>>

Persist ==
  /\ task.at = "persist"
  /\ Runs(PushPending(task.new, task.row), task.row.content)
  /\ task' = Idle
  /\ UNCHANGED <<volatile, nextMsgId, clock, accepted, acked, expired, sends,
                 crashes, failures>>

\* OutboundFailure beyond the budget: back to the offline queue.
Exhaust(rid) ==
  /\ CanTake(rid)
  /\ rid \in DOMAIN tracker
  /\ failures < MaxFailures
  /\ Failed(rid).retries > MaxRetries
  /\ outstanding' = Answered(rid)
  /\ Ack(rid)
  /\ task' = [at |-> "giveup", old |-> rid, row |-> Failed(rid)]
  /\ failures' = failures + 1
  /\ UNCHANGED <<tables, nextRid, seqCounter, nextMsgId, clock, history,
                 crashes, faults>>

\* Mutant: the row of the exhausted request stays.
GiveUpKept ==
  /\ task.at = "giveup"
  /\ task' = [at |-> "requeue", row |-> task.row]
  /\ UNCHANGED <<tables, volatile, nextMsgId, clock, history, bounds>>

GiveUp ==
  /\ task.at = "giveup"
  /\ Runs(RemovePending(task.old), task.row.content)
  /\ task' = [at |-> "requeue", row |-> task.row]
  /\ UNCHANGED <<volatile, nextMsgId, clock, accepted, acked, expired, sends,
                 crashes, failures>>

\* Mutant: the exhausted message goes back without its deadline.
RequeueForever ==
  /\ task.at = "requeue"
  /\ Runs(PushWithTtl(task.row.peer, task.row.content, Forever),
          task.row.content)
  /\ task' = Idle
  /\ UNCHANGED <<volatile, nextMsgId, clock, accepted, acked, expired, sends,
                 crashes, failures>>

\* Mutant: the exhausted message is not handed back.
RequeueDropped ==
  /\ task.at = "requeue"
  /\ task' = Idle
  /\ UNCHANGED <<tables, volatile, nextMsgId, clock, history, bounds>>

Requeue ==
  /\ task.at = "requeue"
  /\ Runs(PushWithTtl(task.row.peer, task.row.content, task.row.ttl),
          task.row.content)
  /\ task' = Idle
  /\ UNCHANGED <<volatile, nextMsgId, clock, accepted, acked, expired, sends,
                 crashes, failures>>

----------------------------------------------------------------------------
(* The clean-up that the statistics timer starts every tenth tick: three    *)
(* deletions, one after the other, each whether or not the one before      *)
(* worked.                                                                 *)

Queued(ids) == {messages[i].content : i \in ids}
InFlight(rids) == {pendingRows[r].content : r \in rids}

\* A deletion that fails loses nothing: the next clean-up repeats it.
Deletes(statement, contents) ==
  \/ statement /\ expired' = expired \cup contents /\ UNCHANGED faults
  \/ /\ faults < MaxFaults
     /\ faults' = faults + 1
     /\ UNCHANGED <<tables, expired>>

CleanUp ==
  /\ task = Idle
  /\ Deletes(ExpireBefore(clock), Queued(ExpiredIds(clock)))
  /\ task' = [at |-> "prune"]
  /\ UNCHANGED <<volatile, nextMsgId, clock, accepted, acked, torn, sends,
                 crashes, failures>>

Prune ==
  /\ task.at = "prune"
  /\ Deletes(PruneDelivered, {})
  /\ task' = [at |-> "purge"]
  /\ UNCHANGED <<volatile, nextMsgId, clock, accepted, acked, torn, sends,
                 crashes, failures>>

Purge ==
  /\ task.at = "purge"
  /\ Deletes(ExpirePending(clock), InFlight(ExpiredRids(clock)))
  /\ task' = Idle
  /\ UNCHANGED <<volatile, nextMsgId, clock, accepted, acked, torn, sends,
                 crashes, failures>>

----------------------------------------------------------------------------
(* The environment.                                                        *)

\* Another process pushes a message into the queue.
Enqueue(c) ==
  /\ c \notin accepted
  /\ accepted' = accepted \cup {c}
  /\ PushWithTtl(Addressee[c], c, Deadline[c])
  /\ UNCHANGED <<volatile, task, nextMsgId, clock, acked, expired, torn, sends,
                 bounds>>

\* `agent-circle diag clean`, in a process of its own, whatever the daemon does:
\* two deletions, each whether or not the other worked.
DiagClean ==
  /\ \/ ExpireBefore(clock) /\ expired' = expired \cup Queued(ExpiredIds(clock))
     \/ PruneDelivered /\ UNCHANGED expired
  /\ UNCHANGED <<volatile, task, nextMsgId, clock, accepted, acked, torn, sends,
                 bounds>>

Tick ==
  /\ clock < MaxClock
  /\ clock' = clock + 1
  /\ UNCHANGED <<tables, volatile, task, nextMsgId, history, bounds>>

\* The process ends: a crash, or `quit` on the control socket.
Crash ==
  /\ task # Down
  /\ crashes < MaxCrashes
  /\ crashes' = crashes + 1
  /\ task' = Down
  /\ tracker' = << >>
  /\ outstanding' = << >>
  /\ nextRid' = 1
  /\ seqCounter' = 1
  /\ torn' = torn \cup Endangered
  /\ UNCHANGED <<tables, nextMsgId, clock, accepted, acked, expired, sends,
                 failures, faults>>

----------------------------------------------------------------------------

Init ==
  /\ EmptyTables
  /\ tracker = << >>
  /\ task = Down
  /\ outstanding = << >>
  /\ nextRid = 1
  /\ seqCounter = 1
  /\ nextMsgId = 1
  /\ clock = 0
  /\ accepted = {} /\ acked = {} /\ expired = {} /\ torn = {}
  /\ sends = << >>
  /\ crashes = 0 /\ failures = 0 /\ faults = 0

\* The rest of a handler, once its event was taken.
Step ==
  \/ ClearRow \/ ResendRow \/ SkipExpired
  \/ FlushEntry \/ MarkEntry
  \/ Settle \/ Swap \/ Persist \/ GiveUp \/ Requeue
  \/ Prune \/ Purge

Next ==
  \/ Start \/ StartBlind
  \/ Step
  \/ \E p \in Peers : Connect(p)
  \/ \E rid \in DOMAIN outstanding :
       Response(rid) \/ Untracked(rid) \/ Retry(rid) \/ Exhaust(rid)
  \/ CleanUp
  \/ \E c \in Contents : Enqueue(c)
  \/ DiagClean
  \/ Tick
  \/ Crash

Spec == Init /\ [][Next]_vars

\* Every request is answered: libp2p reports a response, or a failure after its
\* timeout.
Answer ==
  \E rid \in DOMAIN outstanding :
    Response(rid) \/ Untracked(rid) \/ Retry(rid) \/ Exhaust(rid)

\* The supervisor restarts the daemon, and a handler that started runs on.  An
\* event that keeps coming back is taken although the loop is busy in between:
\* select! chooses at random among the ready branches, and the clean-up comes
\* with a timer.  Recipients connect again and again.
FairSpec ==
  /\ Spec
  /\ WF_vars(Start) /\ WF_vars(Step)
  /\ SF_vars(Answer) /\ SF_vars(CleanUp)
  /\ \A p \in Peers : SF_vars(Connect(p))

----------------------------------------------------------------------------

\* The tables, the tracker, the running handler and the histories keep their
\* types; row ids and request ids are never handed out twice.
TypeOK ==
  /\ messages \in [DOMAIN messages -> MessageRow]
  /\ DOMAIN messages \subseteq 1..(nextId - 1) /\ nextId \in Nat \ {0}
  /\ pendingRows \in [DOMAIN pendingRows -> PendingRow]
  /\ DOMAIN pendingRows \subseteq Nat
  /\ tracker \in [DOMAIN tracker -> PendingRow]
  /\ outstanding \in [DOMAIN outstanding -> PendingRow]
  /\ DOMAIN outstanding \subseteq 1..(nextRid - 1) /\ nextRid \in Nat \ {0}
  /\ task \in Tasks
  /\ seqCounter \in Nat \ {0} /\ nextMsgId \in Nat \ {0}
  /\ clock \in 0..MaxClock
  /\ accepted \subseteq Contents /\ acked \subseteq accepted
  /\ expired \subseteq accepted /\ torn \subseteq accepted
  /\ sends \in [DOMAIN sends -> Nat] /\ DOMAIN sends \subseteq 1..(nextMsgId - 1)
  /\ crashes \in 0..MaxCrashes
  /\ failures \in 0..MaxFailures
  /\ faults \in 0..MaxFaults

\* The durable copies of a message: undelivered rows of the queue and rows of
\* requests in flight.
Copies(c) ==
  {<<"messages", i>> : i \in {j \in DOMAIN messages :
                                /\ messages[j].content = c
                                /\ ~messages[j].delivered}}
    \cup {<<"pending", r>> : r \in {q \in DOMAIN pendingRows :
                                      pendingRows[q].content = c}}

AtRest == task \in {Idle, Down}

\* Whatever was flushed, retried, handed back and recovered: between handlers a
\* message that nobody acknowledged stands in exactly one place of the
\* database, and an acknowledged one in none.  Excepted are messages that
\* expired and messages whose handler was cut short.
OneCopy ==
  AtRest =>
    \A c \in accepted \ (expired \cup torn) :
      IF c \in acked THEN Copies(c) = {} ELSE \E k \in Copies(c) : Copies(c) = {k}

SameRequest(e, f) ==
  /\ e.peer = f.peer /\ e.content = f.content /\ e.msg_id = f.msg_id
  /\ e.ttl = f.ttl /\ e.seq = f.seq

\* Between handlers the table `pending` and the tracker agree on the requests
\* in flight, so that a crash now loses none and resurrects none.
RecoverySeesInFlight ==
  task = Idle =>
    /\ \A r \in DOMAIN tracker :
         \/ tracker[r].content \in expired \cup torn
         \/ r \in DOMAIN pendingRows /\ SameRequest(pendingRows[r], tracker[r])
    /\ \A r \in DOMAIN pendingRows :
         \/ pendingRows[r].content \in torn
         \/ r \in DOMAIN tracker /\ SameRequest(pendingRows[r], tracker[r])

\* Every tracked request will still be answered, and the entry describes what
\* was sent under its request id: no entry waits under an id that libp2p has
\* already reported, or stands for a message other than the one in flight.
TrackedIsOutstanding ==
  \A r \in DOMAIN tracker :
    r \in DOMAIN outstanding /\ SameRequest(tracker[r], outstanding[r])

\* Every record of a request, in memory, in the database and in the handler.
Records ==
  {tracker[r] : r \in DOMAIN tracker}
    \cup {pendingRows[r] : r \in DOMAIN pendingRows}
    \cup (IF task.at \in {"swap", "persist", "giveup", "requeue"}
            THEN {task.row} ELSE {})
    \cup (IF task.at \in {"clear"} THEN {s.row : s \in task.stored} ELSE {})
    \cup (IF task.at \in {"resend"} THEN {s.row : s \in task.rest} ELSE {})

\* Retries and recoveries keep the identity of a message: two records with one
\* msg_id are the same message, under the same number and deadline, which is
\* what lets the recipient recognise a repetition.
StableIdentity ==
  \A e, f \in Records : e.msg_id = f.msg_id => SameRequest(e, f)

\* The recipient and the deadline follow a message through the queue, the
\* tracker, the table of requests in flight and back into the queue.
Provenance ==
  /\ \A e \in Records : e.peer = Addressee[e.content] /\ e.ttl = Deadline[e.content]
  /\ \A i \in DOMAIN messages :
       /\ messages[i].peer = Addressee[messages[i].content]
       /\ messages[i].expires_at = Deadline[messages[i].content]

\* A tracked request was sent once and then once per counted retry in this life
\* of the process, at most MaxRetries + 1 times, and no oftener in any earlier
\* life: recovery starts the budget again.  Messages whose handler was cut short
\* may be tracked twice and are excepted.
RetryBudget ==
  \A r \in DOMAIN tracker :
    LET e == tracker[r]
    IN e.content \notin torn =>
         /\ e.retries <= MaxRetries
         /\ sends[e.msg_id] <= (MaxRetries + 1) * crashes + e.retries + 1

\* A message is dropped as expired only after its deadline.
ExpiredIsLate == \A c \in expired : Deadline[c] <= clock

\* Every accepted message is acknowledged, expires, or was torn.
EventuallySettled ==
  \A c \in Contents : c \in accepted ~> c \in acked \cup expired \cup torn

----------------------------------------------------------------------------
(* What the repository's texts say of the program, and it does not keep.   *)

\* "After this time the message should not be retried or stored"
\* (agent-circle-core/src/chat.rs): no request is sent again past its
\* time-to-live.  The retry on a failure does not look at it.
NoRetryAfterTtl ==
  [][\A r \in DOMAIN outstanding' \ DOMAIN outstanding :
       outstanding'[r].retries > 0 => outstanding'[r].ttl >= clock]_vars

\* "crash recovery without loss of data" (README.md): a message that was
\* accepted, and neither acknowledged nor expired, has a durable copy.
CrashLosesNothing ==
  AtRest => \A c \in accepted \ (acked \cup expired) : Copies(c) # {}

=============================================================================
