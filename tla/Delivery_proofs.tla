-------------------------- MODULE Delivery_proofs ---------------------------
(***************************************************************************)
(* Proofs about Delivery: what the recipients process of what one sender   *)
(* repeats.                                                                *)
(*                                                                         *)
(* A step of the whole system is a step of the sender or leaves it alone,  *)
(* and a step of the recipients' trackers or leaves them alone, so what is *)
(* proved of SenderDaemon and of SequenceTracker holds here too.  What the *)
(* composition adds is that no other message travels than the sender made: *)
(* every request under way, in a buffer or processed is one that some      *)
(* record of the sender once was (Seen), and as long as nobody lost its    *)
(* memory every number the sender gave out was released, is buffered, or   *)
(* is in flight (Lossless).                                                *)
(***************************************************************************)
EXTENDS Delivery, SenderCopies_proofs, SequenceTheorems

\* The proofs about the two halves of a recipient.
T == INSTANCE SequenceTracker_proofs WITH Messages <- Requests, MsgIds <- Nat
D == INSTANCE DedupFilter_proofs
       WITH Messages <- Requests, MsgIds <- Nat, admitted <- << >>

----------------------------------------------------------------------------
(* The operators of the model are those of the proofs.                     *)

\* The requests keep the assumptions on the messages of a recipient.
LEMMA ParametersOK ==
  /\ MaxSeq \in Nat /\ \A m \in Requests : m.seq \in 0..MaxSeq
  /\ MaxTracked \in Nat \ {0} /\ \A m \in Requests : m.msg_id \in Nat
BY DeliveryAssumption DEF Requests, PendingRow

\* The two instances of the tracker release the same.
LEMMA SameOrdered ==
  ASSUME NEW last, NEW buf, NEW m
  PROVE  Tracker!Ordered(last, buf, m) = T!Ordered(last, buf, m)
BY DEF Tracker!Ordered, T!Ordered, Tracker!RunEnd, T!RunEnd

\* The two instances of the tracker take the same steps.
LEMMA SameTracker ==
  ASSUME NEW p, NEW m
  PROVE  /\ Tracker!Ingest(p, m) <=> T!Ingest(p, m)
         /\ Tracker!ResetPeer(p) <=> T!ResetPeer(p)
<1>1. Tracker!Ingest(p, m) <=> T!Ingest(p, m)
  BY SameOrdered
  DEF Tracker!Ingest, T!Ingest, Tracker!Stale, T!Stale, Tracker!Hold, T!Hold,
      Tracker!Advance, T!Advance, Tracker!RunEnd, T!RunEnd, Tracker!WithoutRun,
      T!WithoutRun, Tracker!Insert, T!Insert, Tracker!Restrict, T!Restrict
<1>2. Tracker!ResetPeer(p) <=> T!ResetPeer(p)
  BY DEF Tracker!ResetPeer, T!ResetPeer
<1> QED
  BY <1>1, <1>2

\* The two instances of the filter process the same.
LEMMA SameFilter ==
  ASSUME NEW f, NEW ordered
  PROVE  Dedup!ProcessAll(f, ordered) = D!ProcessAll(f, ordered)
<1>1. \A acc, m : Dedup!Process(acc, m) = D!Process(acc, m)
  BY DEF Dedup!Process, D!Process, Dedup!IsDup, D!IsDup, Dedup!AfterIsDup,
         D!AfterIsDup, Dedup!Remember, D!Remember, Dedup!Evict, D!Evict,
         Dedup!Cardinality, D!Cardinality
<1> QED
  BY <1>1 DEF Dedup!ProcessAll, D!ProcessAll

----------------------------------------------------------------------------
(* The sender and the trackers in the composition.                         *)

\* The sender takes only its own steps.
LEMMA SenderStep ==
  ASSUME [DeliveryNext]_deliveryVars
  PROVE  [Next]_vars
<1>1. CASE UNCHANGED deliveryVars
  BY <1>1 DEF deliveryVars
<1>2. CASE Work
  BY <1>2 DEF Work, Next
<1>3. ASSUME NEW p \in Peers, Establish(p) \/ HandleConnection(p) \/ RecipientRestart(p)
      PROVE  [Next]_vars
  BY <1>3 DEF Establish, HandleConnection, RecipientRestart, Next
<1>4. ASSUME NEW w \in wire, Deliver(w) PROVE [Next]_vars
  BY <1>4 DEF Deliver
<1>5. ASSUME NEW a \in answers, HandleAnswer(a) PROVE [Next]_vars
  BY <1>5 DEF HandleAnswer, Next, Response, Untracked, CanTake
<1>6. ASSUME NEW rid \in DOMAIN outstanding, HandleFailure(rid) PROVE [Next]_vars
  BY <1>6 DEF HandleFailure, Next
<1>7. CASE SenderCrash
  BY <1>7 DEF SenderCrash, Next
<1> QED
  BY <1>1, <1>2, <1>3, <1>4, <1>5, <1>6, <1>7 DEF DeliveryNext

\* The daemon that sends over the network keeps what SenderDaemon promises.
THEOREM SendsAsSpecified == DeliverySpec => Spec
<1>1. DeliveryInit => Init
  BY DEF DeliveryInit
<1> QED
  BY <1>1, SenderStep, PTL DEF DeliverySpec, Spec

\* Every record of a request and every request that libp2p has.
Mentions == Records \cup {outstanding[r] : r \in DOMAIN outstanding}

\* The record that the flush of a queue entry makes.
Flushed(e) ==
  /\ FlushEntry
  /\ e.content = task'.entry.content /\ e.msg_id = nextMsgId /\ e.seq = seqCounter
  /\ e.peer = task'.peer /\ task'.at = "mark"
  /\ seqCounter' = seqCounter + 1 /\ nextMsgId' = nextMsgId + 1

\* What a step of the sender mentions it mentioned before, or it is the record
\* of the entry it flushes.
LEMMA MentionsStep ==
  ASSUME TypeInv, [Next]_vars, NEW e \in Mentions'
  PROVE  Flushed(e) \/ \E f \in Mentions : SameRequest(e, f)
<1>1. CASE FlushEntry
  <2>1. PICK x \in task.rest :
         LET row == [peer |-> task.peer, content |-> x.content,
                     msg_id |-> nextMsgId, ttl |-> x.expires_at,
                     seq |-> seqCounter, retries |-> 0]
         IN /\ SendRequest(row)
            /\ Track(nextRid, row)
            /\ Runs(PushPending(nextRid, row), x.content)
            /\ task' = [at |-> "mark", entry |-> x, peer |-> task.peer,
                        rest |-> task.rest \ {x}]
    BY <1>1 DEF FlushEntry
  <2> DEFINE row == [peer |-> task.peer, content |-> x.content,
                     msg_id |-> nextMsgId, ttl |-> x.expires_at,
                     seq |-> seqCounter, retries |-> 0]
  <2>2. /\ row.content = x.content /\ row.msg_id = nextMsgId /\ row.seq = seqCounter
        /\ row.peer = task.peer /\ [row EXCEPT !.retries = 0] = row
    OBVIOUS
  <2>3. /\ SendRequest(row) /\ Track(nextRid, row)
        /\ Runs(PushPending(nextRid, row), x.content)
        /\ task' = [at |-> "mark", entry |-> x, peer |-> task.peer,
                    rest |-> task.rest \ {x}]
    BY <2>1
  <2> HIDE DEF row
  <2>4. \A r \in DOMAIN tracker' :
          tracker'[r] = row \/ (r \in DOMAIN tracker /\ tracker'[r] = tracker[r])
    BY <2>2, <2>3 DEF Track, Put
  <2>5. \A r \in DOMAIN pendingRows' :
          \/ pendingRows'[r] = row
          \/ r \in DOMAIN pendingRows /\ pendingRows'[r] = pendingRows[r]
    BY <2>3 DEF Runs, Fault, tables, PushPending
  <2>6. \A r \in DOMAIN outstanding' :
          \/ outstanding'[r] = row
          \/ r \in DOMAIN outstanding /\ outstanding'[r] = outstanding[r]
    BY <2>3 DEF SendRequest
  <2>7. task'.at = "mark" /\ task'.entry = x /\ task'.peer = task.peer
    BY <2>3
  <2>8. e = row \/ e \in Mentions
    BY <2>4, <2>5, <2>6, <2>7 DEF Records, Mentions
  <2>9. seqCounter' = seqCounter + 1 /\ nextMsgId' = nextMsgId + 1
    BY <1>1 DEF FlushEntry
  <2> QED
    BY <1>1, <2>2, <2>7, <2>8, <2>9 DEF Flushed, SameRequest
<1>2. CASE ~FlushEntry
  <2>1. Inherits
    BY <1>2, StepInherits
  <2>2. CASE e \in Records'
    BY <2>1, <2>2 DEF Inherits, Mentions
  <2>3. ASSUME NEW r \in DOMAIN outstanding', e = outstanding'[r]
        PROVE  \E f \in Mentions : SameRequest(e, f)
    <3>1. CASE UNCHANGED <<tracker, outstanding, nextRid>>
      BY <2>3, <3>1 DEF Mentions, SameRequest
    <3>2. CASE ResendRow
      <4>1. PICK s \in task.rest : SendRequest(s.row)
        BY <3>2 DEF ResendRow
      <4>2. s.row \in Records
        BY <3>2 DEF Records, ResendRow
      <4> QED
        BY <2>3, <4>1, <4>2 DEF SendRequest, Mentions, SameRequest
    <3>3. CASE Crash
      BY <2>3, <3>3 DEF Crash
    <3>4. ASSUME NEW rid \in DOMAIN outstanding,
                 Response(rid) \/ Untracked(rid) \/ Exhaust(rid)
          PROVE  \E f \in Mentions : SameRequest(e, f)
      BY <2>3, <3>4 DEF Response, Untracked, Exhaust, Answered, Restrict, Mentions,
                        SameRequest
    <3>5. ASSUME NEW rid \in DOMAIN outstanding, Retry(rid)
          PROVE  \E f \in Mentions : SameRequest(e, f)
      <4>1. tracker[rid] \in Records /\ tracker[rid] \in PendingRow
        BY <3>5, TypeInvIs DEF Retry, Records, MemoryOK
      <4>2. SameRequest(Failed(rid), tracker[rid])
        BY <4>1 DEF Failed, SameRequest, PendingRow
      <4> QED
        BY <2>3, <3>5, <4>1, <4>2 DEF Retry, Mentions, SameRequest
    <3> QED
      BY <1>2, <3>1, <3>2, <3>3, <3>4, <3>5, MemorySteps
  <2> QED
    BY <2>2, <2>3 DEF Mentions
<1> QED
  BY <1>1, <1>2

----------------------------------------------------------------------------
(* The network.                                                            *)

\* Numbers stay in range, what is under way was handed over by some life of the
\* sender, and an acknowledgement is of a request it still waits for.
NetworkOK ==
  /\ seqCounter <= MaxSeq + 1
  /\ \A e \in Mentions : e.seq <= MaxSeq
  /\ linked \subseteq Peers /\ notified \subseteq Peers
  /\ \A w \in wire : w.life \in 0..crashes /\ w.row \in Requests
  /\ \A a \in answers :
       a = [life |-> crashes, rid |-> a.rid] /\ a.rid \in DOMAIN outstanding
  /\ reissued \subseteq accepted
  /\ restarts \in Nat

\* While the sender works by itself it forgets no request and does not end.
LEMMA WorkIs ==
  ASSUME Work
  PROVE  /\ crashes' = crashes /\ accepted \subseteq accepted'
         /\ DOMAIN outstanding \subseteq DOMAIN outstanding'
         /\ [Next]_vars /\ seqCounter' <= MaxSeq + 1
         /\ UNCHANGED <<recipients, linked, notified, answers, reissued,
                        connections, restarts>>
<1>1. CASE Start \/ StartBlind \/ CleanUp \/ DiagClean \/ Tick
             \/ \E c \in Contents : Enqueue(c)
  BY <1>1 DEF Start, StartBlind, CleanUp, DiagClean, Tick, Enqueue, history, bounds,
              volatile, Work, Next
<1>2. CASE Step
  <2>1. CASE FlushEntry
    BY <1>2, <2>1 DEF FlushEntry, SendRequest, Next, Work
  <2>2. CASE ResendRow
    BY <1>2, <2>2 DEF ResendRow, SendRequest, Next, Work
  <2>3. CASE Step /\ ~FlushEntry /\ ~ResendRow
    BY <2>3 DEF Step, ClearRow, SkipExpired, MarkEntry, Settle, Swap, Persist, GiveUp,
                Requeue, Prune, Purge, volatile, history, bounds, Next, Work
  <2> QED
    BY <1>2, <2>1, <2>2, <2>3
<1> QED
  BY <1>1, <1>2 DEF Work

\* What goes on the wire is what libp2p has.
LEMMA PollIs ==
  ASSUME Poll, NEW w \in wire'
  PROVE  w \in wire \/ \E r \in DOMAIN outstanding' : w = Carried(r, outstanding'[r])
BY DEF Poll

\* Every step keeps the network in order.
LEMMA NetworkStep ==
  ASSUME TypeInv, NetworkOK, [DeliveryNext]_deliveryVars
  PROVE  NetworkOK'
<1>1. [Next]_vars /\ TypeInv'
  BY SenderStep, StepTypeInv
<1>2. /\ TypeOK /\ TypeOK' /\ MaxSeq \in Nat
      /\ crashes \in Nat /\ seqCounter \in Nat /\ seqCounter' \in Nat
  BY <1>1, DeliveryAssumption DEF TypeInv, TypeOK
<1>3. seqCounter' <= MaxSeq + 1 => \A e \in Mentions' : e.seq <= MaxSeq
  BY <1>1, <1>2, MentionsStep DEF NetworkOK, Flushed, SameRequest
<1>4. \A r \in DOMAIN outstanding' :
        outstanding'[r] \in PendingRow /\ outstanding'[r] \in Mentions'
  BY <1>2 DEF TypeOK, Mentions
<1>5. CASE UNCHANGED deliveryVars
  BY <1>2, <1>3, <1>5
  DEF deliveryVars, network, recipients, vars, volatile, history, bounds, NetworkOK
<1>6. CASE Work
  <2>1. \A w \in wire' : w.life \in 0..crashes /\ w.row \in Requests
    <3> TAKE w \in wire'
    <3>1. CASE w \in wire
      BY <3>1 DEF NetworkOK
    <3>2. ASSUME NEW r \in DOMAIN outstanding', w = Carried(r, outstanding'[r])
          PROVE  w.life \in 0..crashes /\ w.row \in Requests
      <4>1. w.life = crashes /\ w.row = outstanding'[r]
        BY <3>2 DEF Carried
      <4>2. outstanding'[r].seq <= MaxSeq
        BY <1>3, <1>4, <1>6, WorkIs
      <4> QED
        BY <1>2, <1>4, <4>1, <4>2 DEF Requests
    <3> QED
      BY <1>6, <3>1, <3>2, PollIs DEF Work
  <2> QED
    BY <1>3, <1>6, <2>1, WorkIs DEF NetworkOK
<1>7. ASSUME NEW p \in Peers, Establish(p) PROVE NetworkOK'
  <2>1. UNCHANGED vars
    BY <1>7 DEF Establish
  <2> QED
    BY <1>2, <1>3, <1>7, <2>1 DEF Establish, NetworkOK, vars, volatile, history, bounds
<1>8. ASSUME NEW p \in Peers, HandleConnection(p) PROVE NetworkOK'
  BY <1>2, <1>3, <1>8
  DEF HandleConnection, Connect, NetworkOK, vars, volatile, history, bounds
<1>9. ASSUME NEW p \in Peers, RecipientRestart(p) PROVE NetworkOK'
  BY <1>2, <1>3, <1>9 DEF RecipientRestart, NetworkOK, vars, volatile, history, bounds
<1>10. ASSUME NEW w \in wire, Deliver(w) PROVE NetworkOK'
  BY <1>2, <1>3, <1>10 DEF Deliver, NetworkOK, vars, volatile, history, bounds
<1>11. ASSUME NEW a \in answers, HandleAnswer(a) PROVE NetworkOK'
  <2>1. /\ outstanding' = Answered(a.rid) /\ answers' = answers \ {a}
        /\ UNCHANGED <<seqCounter, linked, notified, wire, crashes, reissued,
                       accepted, restarts>>
    BY <1>11 DEF HandleAnswer, Response, Untracked, history, bounds
  <2>2. \A b \in answers' : b.rid # a.rid /\ b.rid \in DOMAIN outstanding'
    BY <1>11, <2>1 DEF NetworkOK, Answered, Restrict
  <2> QED
    BY <1>2, <1>3, <2>1, <2>2 DEF NetworkOK
<1>12. ASSUME NEW rid \in DOMAIN outstanding, HandleFailure(rid) PROVE NetworkOK'
  <2>1. /\ DOMAIN outstanding \ {rid} \subseteq DOMAIN outstanding'
        /\ answers' = AnswersWithout(rid)
        /\ UNCHANGED <<seqCounter, linked, notified, wire, crashes, accepted, restarts>>
    BY <1>12 DEF HandleFailure, Retry, Untracked, Exhaust, history, bounds, Answered,
                 Restrict
  <2>2. reissued' \subseteq accepted'
    <3>1. Exhaust(rid) => tracker[rid].content \in accepted
      BY TypeInvIs DEF Exhaust, Records, Known
    <3> QED
      BY <1>12, <2>1, <3>1 DEF HandleFailure, NetworkOK
  <2>3. \A b \in answers' :
          b \in answers /\ b.rid # rid /\ b.rid \in DOMAIN outstanding'
    BY <2>1 DEF AnswersWithout, NetworkOK
  <2> QED
    BY <1>2, <1>3, <2>1, <2>2, <2>3 DEF NetworkOK
<1>13. CASE SenderCrash
  <2>1. /\ seqCounter' = 1 /\ crashes' = crashes + 1
        /\ wire' \subseteq wire /\ linked' = {} /\ notified' = {} /\ answers' = {}
        /\ UNCHANGED <<accepted, reissued, restarts>>
    BY <1>13 DEF SenderCrash, Crash
  <2> QED
    BY <1>2, <1>3, <2>1 DEF NetworkOK
<1> QED
  BY <1>5, <1>6, <1>7, <1>8, <1>9, <1>10, <1>11, <1>12, <1>13 DEF DeliveryNext

----------------------------------------------------------------------------
(* The recipients.                                                         *)

\* The recipients' trackers take only their own steps.
LEMMA TrackersStep ==
  ASSUME NetworkOK, [DeliveryNext]_deliveryVars
  PROVE  [T!TrackerNext]_(T!trackerVars)
<1>1. UNCHANGED recipients => UNCHANGED T!trackerVars
  BY DEF recipients, T!trackerVars
<1>2. ASSUME NEW p \in Peers, Tracker!ResetPeer(p) PROVE T!TrackerNext
  BY <1>2, SameTracker DEF T!TrackerNext
<1>3. ASSUME NEW w \in wire, Deliver(w) PROVE T!TrackerNext
  <2>1. w.row \in Requests /\ w.row.peer \in Peers
    BY DEF NetworkOK, Requests, PendingRow
  <2>2. T!Ingest(w.row.peer, w.row)
    BY <1>3, SameTracker DEF Deliver
  <2> QED
    BY <2>1, <2>2 DEF T!TrackerNext
<1> QED
  BY <1>1, <1>2, <1>3
  DEF DeliveryNext, deliveryVars, Work, Establish, HandleConnection, RecipientRestart,
      HandleAnswer, HandleFailure, SenderCrash

\* As long as no recipient lost its memory: what each has processed is what its
\* filter admitted.
FiltersOK ==
  /\ filter = [p \in Peers |-> filter[p]]
  /\ processed = [p \in Peers |-> processed[p]]
  /\ restarts = 0 => \A p \in Peers :
       /\ processed[p] \in Seq(Requests)
       /\ D!Sound(filter[p], D!Ids(processed[p]))

\* What a delivery leaves with the recipient: everything in its buffer and
\* everything processed was there before, or is the request delivered; what was
\* processed stays so, and every released identity has been processed.
LEMMA DeliverIs ==
  ASSUME NetworkOK, T!IInv, FiltersOK, restarts = 0, NEW w \in wire, Deliver(w)
  PROVE  LET p == w.row.peer
         IN /\ p \in Peers /\ w.row \in Requests
            /\ processed'[p] \in Seq(Requests)
            /\ D!Sound(filter'[p], D!Ids(processed'[p]))
            /\ \A i \in 1..Len(processed'[p]) :
                 \/ i \in 1..Len(processed[p]) /\ processed'[p][i] = processed[p][i]
                 \/ processed'[p][i] = w.row
                 \/ \E s \in DOMAIN buffer[p] : processed'[p][i] = buffer[p][s]
            /\ \A i \in 1..Len(processed[p]) :
                 i \in 1..Len(processed'[p]) /\ processed'[p][i] = processed[p][i]
            /\ \A i \in 1..Len(T!Ordered(lastSeq[p], buffer[p], w.row)) :
                 \E j \in 1..Len(processed'[p]) :
                   processed'[p][j].msg_id = T!Ordered(lastSeq[p], buffer[p], w.row)[i].msg_id
            /\ \A s \in DOMAIN buffer'[p] :
                 \/ buffer'[p][s] = w.row
                 \/ s \in DOMAIN buffer[p] /\ buffer'[p][s] = buffer[p][s]
            /\ \A q \in Peers \ {p} :
                 /\ buffer'[q] = buffer[q]
                 /\ processed'[q] = processed[q] /\ filter'[q] = filter[q]
<1> DEFINE p == w.row.peer
<1> DEFINE ordered == T!Ordered(lastSeq[p], buffer[p], w.row)
<1> DEFINE result == D!ProcessAll(filter[p], ordered)
<1> DEFINE old == processed[p]
<1>1. p \in Peers /\ w.row \in Requests
  BY DEF NetworkOK, Requests, PendingRow
<1>2. /\ T!Ingest(p, w.row)
      /\ filter' = [filter EXCEPT ![p] = result.filter]
      /\ processed' = [processed EXCEPT ![p] = @ \o result.processed]
  BY SameOrdered, SameFilter, SameTracker DEF Deliver
<1>3. ordered \in Seq(Requests)
  BY <1>1, <1>2, ParametersOK, T!ReleasesAre
<1>4. /\ \A i \in 1..Len(ordered) :
           ordered[i] = w.row \/ \E s \in DOMAIN buffer[p] : ordered[i] = buffer[p][s]
      /\ \A s \in DOMAIN buffer'[p] :
           \/ buffer'[p][s] = w.row
           \/ s \in DOMAIN buffer[p] /\ buffer'[p][s] = buffer[p][s]
      /\ \A q \in Peers \ {p} : buffer'[q] = buffer[q]
  BY <1>1, <1>2, ParametersOK, T!IngestMoves
<1>5. /\ old \in Seq(Requests) /\ D!Sound(filter[p], D!Ids(old))
      /\ filter = [q \in Peers |-> filter[q]]
      /\ processed = [q \in Peers |-> processed[q]]
  BY <1>1 DEF FiltersOK
<1>6. /\ filter'[p] = result.filter /\ processed'[p] = old \o result.processed
      /\ \A q \in Peers \ {p} : processed'[q] = processed[q] /\ filter'[q] = filter[q]
  BY <1>1, <1>2, <1>5
<1> HIDE DEF ordered
<1>7. /\ result.processed \in Seq(Requests)
      /\ D!Sound(result.filter, D!With(D!Ids(old), result.processed))
      /\ \A i \in 1..Len(ordered) :
           D!Knows(D!With(D!Ids(old), result.processed), ordered[i].msg_id)
      /\ \A j \in 1..Len(result.processed) :
           \E i \in 1..Len(ordered) : result.processed[j] = ordered[i]
  <2> DEFINE g == filter[p]
  <2> DEFINE h == D!Ids(old)
  <2>1. D!Sound(g, h)
    BY <1>5
  <2> HIDE DEF g, h
  <2>2. LET r == D!ProcessAll(g, ordered)
        IN /\ r.processed \in Seq(Requests)
           /\ D!Sound(r.filter, D!With(h, r.processed))
           /\ \A i \in 1..Len(ordered) :
                D!Knows(D!With(h, r.processed), ordered[i].msg_id)
           /\ \A j \in 1..Len(r.processed) :
                \E i \in 1..Len(ordered) : r.processed[j] = ordered[i]
    BY <1>3, <2>1, ParametersOK, D!ProcessAllIsSound
  <2> QED
    BY <1>5, <2>2 DEF g, h
<1> DEFINE new == result.processed
<1> HIDE DEF old, result, p, new
<1>8. /\ old \o new \in Seq(Requests)
      /\ D!Ids(old \o new) = D!With(D!Ids(old), new)
      /\ Len(old) \in Nat /\ Len(new) \in Nat /\ Len(old \o new) = Len(old) + Len(new)
      /\ \A i \in 1..(Len(old) + Len(new)) :
           (old \o new)[i] = IF i <= Len(old) THEN old[i] ELSE new[i - Len(old)]
  <2>1. old \in Seq(Requests) /\ new \in Seq(Requests)
    BY <1>5, <1>7 DEF new
  <2>2. D!Ids(old \o new) = D!With(D!Ids(old), new)
    BY <2>1, ParametersOK, D!IdsOfBoth
  <2> QED
    BY <2>1, <2>2, ConcatProperties
<1>9. ASSUME NEW i \in 1..Len(old \o new)
      PROVE  \/ i \in 1..Len(old) /\ (old \o new)[i] = old[i]
             \/ (old \o new)[i] = w.row
             \/ \E s \in DOMAIN buffer[p] : (old \o new)[i] = buffer[p][s]
  <2>1. CASE i <= Len(old)
    BY <1>8, <2>1
  <2>2. CASE ~(i <= Len(old))
    <3>1. i - Len(old) \in 1..Len(new) /\ (old \o new)[i] = new[i - Len(old)]
      BY <1>8, <2>2
    <3> QED
      BY <1>4, <1>7, <3>1 DEF new
  <2> QED
    BY <2>1, <2>2
<1>10. processed'[p] = old \o new
  BY <1>6 DEF new
<1>11. D!Sound(filter'[p], D!Ids(processed'[p]))
  BY <1>6, <1>7, <1>8, <1>10 DEF new
<1>12. \A i \in 1..Len(old) : i \in 1..Len(old \o new) /\ (old \o new)[i] = old[i]
  BY <1>8
<1>13. ASSUME NEW i \in 1..Len(ordered)
       PROVE  \E j \in 1..Len(old \o new) : (old \o new)[j].msg_id = ordered[i].msg_id
  <2>1. PICK j \in 1..Len(D!Ids(old \o new)) : D!Ids(old \o new)[j] = ordered[i].msg_id
    BY <1>7, <1>8 DEF new, D!Knows
  <2>2. Len(D!Ids(old \o new)) = Len(old \o new)
    BY <1>8 DEF D!Ids
  <2> QED
    BY <2>1, <2>2 DEF D!Ids
<1>14. /\ processed'[p] \in Seq(Requests)
       /\ \A i \in 1..Len(processed'[p]) :
            \/ i \in 1..Len(processed[p]) /\ processed'[p][i] = processed[p][i]
            \/ processed'[p][i] = w.row
            \/ \E s \in DOMAIN buffer[p] : processed'[p][i] = buffer[p][s]
       /\ \A i \in 1..Len(processed[p]) :
            i \in 1..Len(processed'[p]) /\ processed'[p][i] = processed[p][i]
  BY <1>8, <1>9, <1>10, <1>12 DEF old
<1>15. \A i \in 1..Len(ordered) :
         \E j \in 1..Len(processed'[p]) : processed'[p][j].msg_id = ordered[i].msg_id
  BY <1>10, <1>13
<1> QED
  BY <1>1, <1>4, <1>6, <1>11, <1>14, <1>15 DEF p, ordered

\* Every step keeps the filters sound.
LEMMA FiltersStep ==
  ASSUME NetworkOK, T!IInv, FiltersOK, [DeliveryNext]_deliveryVars
  PROVE  FiltersOK'
<1>1. CASE UNCHANGED <<filter, processed, restarts>>
  BY <1>1 DEF FiltersOK
<1>2. ASSUME NEW w \in wire, Deliver(w) PROVE FiltersOK'
  <2>1. w.row.peer \in Peers
    BY DEF NetworkOK, Requests, PendingRow
  <2>2. /\ filter' = [p \in Peers |-> filter'[p]]
        /\ processed' = [p \in Peers |-> processed'[p]]
        /\ restarts' = restarts
    BY <1>2, <2>1 DEF Deliver, FiltersOK
  <2>3. restarts = 0 => \A p \in Peers :
          /\ processed'[p] \in Seq(Requests)
          /\ D!Sound(filter'[p], D!Ids(processed'[p]))
    BY <1>2, DeliverIs DEF FiltersOK
  <2> QED
    BY <2>2, <2>3 DEF FiltersOK
<1>3. ASSUME NEW p \in Peers, RecipientRestart(p) PROVE FiltersOK'
  <2>1. /\ filter' = [q \in Peers |-> filter'[q]]
        /\ processed' = [q \in Peers |-> processed'[q]]
    BY <1>3 DEF RecipientRestart, FiltersOK
  <2>2. restarts' # 0
    BY <1>3 DEF RecipientRestart, NetworkOK
  <2> QED
    BY <2>1, <2>2 DEF FiltersOK
<1> QED
  BY <1>1, <1>2, <1>3
  DEF DeliveryNext, deliveryVars, recipients, Work, Establish, HandleConnection,
      HandleAnswer, HandleFailure, SenderCrash

----------------------------------------------------------------------------
(* What a message is called.                                               *)

\* A message waits for its first request: its row in the queue is not marked and
\* not about to be, or the running flush has still to send it.
Unsent(c) ==
  \/ Waiting(c) # {} /\ ~Marking(c)
  \/ \E e \in ToFlush : e.content = c

\* No handler goes back: a message waits for a first request only if it did so
\* before, and was not just flushed, or if it is handed back to the queue.
LEMMA UnsentStep ==
  ASSUME PlaceInv, [Next]_vars, NEW c \in accepted, c \notin torn', Placed(c), Unsent(c)'
  PROVE  \/ Unsent(c) /\ ~(FlushEntry /\ task'.entry.content = c)
         \/ Requeue /\ task.row.content = c
<1>1. TablesOK /\ nextId \notin DOMAIN messages /\ task \in Tasks
  BY TypeInvIs DEF PlaceInv, TablesOK
<1>a. FlushEntry => task.at = "flush" /\ task'.at = "mark"
  BY DEF FlushEntry
<1>2. CASE FlushEntry
  <2>1. PICK x \in task.rest : task' = [at |-> "mark", entry |-> x, peer |-> task.peer,
                                        rest |-> task.rest \ {x}]
    BY <1>2 DEF FlushEntry
  <2>2. Waiting(c)' = Waiting(c)
    BY <1>2, PlacesFrame DEF FlushEntry, Runs, Fault, tables, PushPending
  <2>3. /\ ToFlush = task.rest /\ ~Marking(c) /\ ToFlush' = task.rest \ {x}
        /\ task'.entry = x /\ (Marking(c)' <=> x.content = c)
    BY <1>2, <2>1 DEF FlushEntry, ToFlush, Marking
  <2>4. x.content # c
    BY <2>3 DEF Unsent, Placed, AtMostOnce
  <2> QED
    BY <2>2, <2>3, <2>4 DEF Unsent
<1>3. CASE MarkEntry
  <2>1. ToFlush' = ToFlush /\ task.at = "mark" /\ ~FlushEntry
    BY <1>3 DEF MarkEntry, ToFlush, Idle, FlushEntry
  <2>2. CASE Marking(c)
    <3>1. MarkDelivered(task.entry.id)
      BY <1>3, <2>2 DEF MarkEntry, Marking, Runs, Fault
    <3>2. Waiting(c)' = Waiting(c) \ {task.entry.id}
      BY <1>1, <3>1, MarkDeliveredIs
    <3>3. \A i \in Waiting(c) : i = task.entry.id
      BY <2>2 DEF Placed, WaitsAlone
    <3>4. Waiting(c)' = {}
      BY <3>2, <3>3
    <3> QED
      BY <2>1, <3>4 DEF Unsent
  <2>3. CASE ~Marking(c)
    <3>1. Waiting(c)' \subseteq Waiting(c)
      BY <1>1, <1>3, PlacesFrame, MarkDeliveredIs DEF MarkEntry, Runs, Fault, tables
    <3> QED
      BY <2>1, <2>3, <3>1 DEF Unsent
  <2> QED
    BY <2>2, <2>3
<1>4. ASSUME NEW p \in Peers, Connect(p) PROVE Unsent(c) /\ ~FlushEntry
  <2>1. /\ task.at = "idle" /\ Waiting(c)' = Waiting(c)
        /\ task' = [at |-> "flush", peer |-> p, rest |-> PendingFor(p, clock)]
    BY <1>4, PlacesFrame DEF Connect, Idle, tables
  <2>2. ASSUME NEW e \in PendingFor(p, clock), e.content = c PROVE Waiting(c) # {}
    BY <2>2 DEF PendingFor, Waiting
  <2> QED
    BY <2>1, <2>2 DEF Unsent, ToFlush, Marking, FlushEntry
<1>5. CASE Requeue
  <2>1. CASE task.row.content # c
    <3>1. Waiting(c)' = Waiting(c)
      BY <1>1, <1>5, <2>1, PlacesFrame, PushWithTtlIs DEF Requeue, Runs, Fault, tables
    <3> QED
      BY <1>5, <3>1 DEF Requeue, Unsent, ToFlush, Marking, Idle, FlushEntry
  <2> QED
    BY <1>5, <2>1
<1>6. CASE Crash
  <2>1. task' = Down /\ torn' = torn \cup Endangered /\ Waiting(c)' = Waiting(c)
    BY <1>6, PlacesFrame DEF Crash, tables
  <2>2. ~Marking(c)
    BY <2>1 DEF Endangered, Marking
  <2> QED
    BY <2>1, <2>2 DEF Unsent, ToFlush, Down, FlushEntry
<1>7. ASSUME NEW d \in Contents, Enqueue(d) PROVE Unsent(c) /\ ~FlushEntry
  <2>1. d # c /\ UNCHANGED task
    BY <1>7 DEF Enqueue
  <2>2. Waiting(c)' = Waiting(c)
    BY <1>1, <1>7, <2>1, PushWithTtlIs DEF Enqueue
  <2> QED
    BY <2>1, <2>2, <1>7 DEF Unsent, ToFlush, Marking, Enqueue, FlushEntry
<1>8. CASE CleanUp \/ DiagClean \/ Prune \/ Purge
  <2>1. Waiting(c)' \subseteq Waiting(c)
    BY <1>8, PlacesFrame, ExpireBeforeShrinks, PruneDeliveredIs, ExpirePendingIs
    DEF CleanUp, DiagClean, Prune, Purge, Deletes, tables
  <2>2. \/ UNCHANGED task
        \/ task'.at \notin {"flush", "mark"} /\ task.at \notin {"flush", "mark"}
    BY <1>8 DEF CleanUp, DiagClean, Prune, Purge, Idle
  <2>3. task'.at # "mark" \/ UNCHANGED task
    BY <2>2
  <2>4. Unsent(c)
    BY <2>1, <2>2 DEF Unsent, ToFlush, Marking
  <2>5. ~FlushEntry
    BY <1>a, <2>2
  <2> QED
    BY <2>4, <2>5
<1>9. ASSUME UNCHANGED <<messages, task>> PROVE Unsent(c) /\ ~FlushEntry
  <2>1. Waiting(c)' = Waiting(c)
    BY <1>9, PlacesFrame
  <2> QED
    BY <1>9, <1>a, <2>1 DEF Unsent, ToFlush, Marking
<1>10. ASSUME UNCHANGED messages, task.at \notin {"flush", "mark"},
              task'.at \notin {"flush", "mark"}
       PROVE  Unsent(c) /\ ~FlushEntry
  <2>1. Waiting(c)' = Waiting(c)
    BY <1>10, PlacesFrame
  <2> QED
    BY <1>10, <2>1 DEF Unsent, ToFlush, Marking, FlushEntry
<1>11. CASE \/ Tick \/ UNCHANGED vars
            \/ \E rid \in DOMAIN outstanding : Untracked(rid)
  BY <1>9, <1>11 DEF Tick, Untracked, vars, tables
<1>12. ASSUME NEW rid \in DOMAIN outstanding, Response(rid) \/ Retry(rid) \/ Exhaust(rid)
       PROVE  Unsent(c) /\ ~FlushEntry
  BY <1>10, <1>12 DEF Response, Retry, Exhaust, CanTake, Idle, tables
<1>13. CASE Start \/ StartBlind \/ Settle \/ Swap \/ Persist \/ GiveUp
  <2>1. UNCHANGED messages
    BY <1>13 DEF Start, StartBlind, Settle, Swap, Persist, GiveUp, Runs, Fault, tables,
                 RemovePending, PushPending
  <2>2. task.at \notin {"flush", "mark"} /\ task'.at \notin {"flush", "mark"}
    BY <1>13 DEF Start, StartBlind, Settle, Swap, Persist, GiveUp, Idle, Down
  <2> QED
    BY <1>10, <2>1, <2>2
<1>14. CASE ClearRow \/ ResendRow \/ SkipExpired
  <2>1. UNCHANGED messages
    BY <1>14 DEF ClearRow, ResendRow, SkipExpired, Runs, Fault, tables, RemovePending,
                 PushPending
  <2>2. task.at \notin {"flush", "mark"}
    BY <1>14 DEF ClearRow, ResendRow, SkipExpired
  <2>3. task'.at \notin {"flush", "mark"}
    <3>1. CASE ClearRow
      <4>1. task = [at |-> "clear", rest |-> task.rest, stored |-> task.stored]
        BY <1>1, <3>1, TaskIs DEF ClearRow
      <4> QED
        BY <3>1, <4>1 DEF ClearRow
    <3>2. CASE ResendRow \/ SkipExpired
      <4>1. task = [at |-> "resend", rest |-> task.rest]
        BY <1>1, <3>2, TaskIs DEF ResendRow, SkipExpired
      <4> QED
        BY <3>2, <4>1 DEF ResendRow, SkipExpired, AfterResend, Idle
    <3> QED
      BY <1>14, <3>1, <3>2
  <2> QED
    BY <1>10, <2>1, <2>2, <2>3
<1> QED
  BY <1>2, <1>3, <1>4, <1>5, <1>6, <1>7, <1>8, <1>11, <1>12, <1>13, <1>14
  DEF Next, Step

\* Every request that is anywhere: with the sender, under way, in a buffer, or
\* processed.
Held(p) == {buffer[p][s] : s \in DOMAIN buffer[p]}
Done(p) == {processed[p][i] : i \in 1..Len(processed[p])}
Seen == Mentions \cup {w.row : w \in wire} \cup UNION {Held(p) \cup Done(p) : p \in Peers}

\* The only source of a new request is the flush of a queue entry.
LEMMA SeenStep ==
  ASSUME TypeInv, NetworkOK, T!IInv, FiltersOK, restarts' = 0,
         [DeliveryNext]_deliveryVars, NEW e \in Seen'
  PROVE  Flushed(e) \/ \E f \in Seen : SameRequest(e, f)
<1>1. [Next]_vars /\ Mentions \subseteq Seen
  BY SenderStep DEF Seen
<1>2. ASSUME NEW x \in Mentions' PROVE Flushed(x) \/ \E f \in Seen : SameRequest(x, f)
  BY <1>1, MentionsStep
<1>3. ASSUME e \in Seen PROVE \E f \in Seen : SameRequest(e, f)
  BY <1>3 DEF SameRequest
<1>4. ASSUME NEW w \in wire', e = w.row
      PROVE  Flushed(e) \/ \E f \in Seen : SameRequest(e, f)
  <2>1. CASE w \in wire
    BY <1>3, <1>4, <2>1 DEF Seen
  <2>2. CASE w \notin wire
    <3>1. Poll
      BY <2>2 DEF DeliveryNext, deliveryVars, network, Work, Establish, HandleConnection,
                  RecipientRestart, Deliver, HandleAnswer, HandleFailure, SenderCrash
    <3>2. e \in Mentions'
      BY <1>4, <2>2, <3>1, PollIs DEF Carried, Mentions
    <3> QED
      BY <1>2, <3>2
  <2> QED
    BY <2>1, <2>2
<1>5. ASSUME NEW p \in Peers, e \in (Held(p) \cup Done(p))' PROVE e \in Seen
  <2>1. CASE UNCHANGED <<buffer, processed>>
    BY <1>5, <2>1 DEF Held, Done, Seen
  <2>2. ASSUME NEW w \in wire, Deliver(w) PROVE e \in Seen
    <3>1. restarts = 0
      BY <2>2 DEF Deliver
    <3>2. CASE p = w.row.peer
      <4>1. /\ \A i \in 1..Len(processed'[p]) :
                 \/ i \in 1..Len(processed[p]) /\ processed'[p][i] = processed[p][i]
                 \/ processed'[p][i] = w.row
                 \/ \E s \in DOMAIN buffer[p] : processed'[p][i] = buffer[p][s]
            /\ \A s \in DOMAIN buffer'[p] :
                 \/ buffer'[p][s] = w.row
                 \/ s \in DOMAIN buffer[p] /\ buffer'[p][s] = buffer[p][s]
        BY <2>2, <3>1, <3>2, DeliverIs
      <4>2. e \in Held(p) \cup Done(p) \/ e = w.row
        BY <1>5, <4>1 DEF Held, Done
      <4> QED
        BY <4>2 DEF Seen
    <3>3. CASE p # w.row.peer
      BY <1>5, <2>2, <3>1, <3>3, DeliverIs DEF Held, Done, Seen
    <3> QED
      BY <3>2, <3>3
  <2>3. ASSUME NEW q \in Peers, Tracker!ResetPeer(q), UNCHANGED processed PROVE e \in Seen
    <3>1. buffer' = [buffer EXCEPT ![q] = << >>] /\ buffer = [r \in Peers |-> buffer[r]]
      BY <2>3 DEF Tracker!ResetPeer, T!IInv, T!TrackerTypeOK
    <3>2. CASE p = q
      BY <1>5, <2>3, <3>1, <3>2 DEF Held, Done, Seen
    <3>3. CASE p # q
      BY <1>5, <2>3, <3>1, <3>3 DEF Held, Done, Seen
    <3> QED
      BY <3>2, <3>3
  <2> QED
    BY <2>1, <2>2, <2>3
    DEF DeliveryNext, deliveryVars, recipients, Work, Establish, HandleConnection,
        RecipientRestart, HandleAnswer, HandleFailure, SenderCrash
<1> QED
  BY <1>2, <1>3, <1>4, <1>5 DEF Seen

\* As long as no recipient lost its memory: only accepted messages are requested;
\* a message has one identity, and none while it is unsent, unless it was handed
\* back or its handler was cut short; and what a handler gives up was handed back.
NamesOK ==
  restarts = 0 =>
    /\ \A e \in Seen : e.content \in accepted
    /\ \A e, f \in Seen :
         e.content = f.content /\ e.content \notin reissued \cup torn => e.msg_id = f.msg_id
    /\ \A e \in Seen : Unsent(e.content) => e.content \in reissued \cup torn
    /\ task.at \in {"giveup", "requeue"} => task.row.content \in reissued

\* The histories only grow.
LEMMA HistoriesGrow ==
  ASSUME NetworkOK, [DeliveryNext]_deliveryVars
  PROVE  /\ accepted \subseteq accepted' /\ torn \subseteq torn'
         /\ reissued \subseteq reissued'
         /\ restarts' = 0 => restarts = 0
<1>1. accepted \subseteq accepted' /\ torn \subseteq torn'
  <2>1. [Next]_vars
    BY SenderStep
  <2> QED
    BY <2>1 DEF Next, Step, vars, bounds, history, Runs, Fault, Start, StartBlind, ClearRow,
       ResendRow, SkipExpired, FlushEntry, MarkEntry, Settle, Swap, Persist, GiveUp, Requeue,
       Prune, Purge, Connect, Response, Untracked, Retry, Exhaust, CleanUp, DiagClean, Tick,
       Crash, Enqueue
<1>2. reissued \subseteq reissued' /\ (restarts' = 0 => restarts = 0)
  <2>1. CASE Work
    BY <2>1, WorkIs
  <2>2. ASSUME NEW p \in Peers, RecipientRestart(p) PROVE restarts' # 0 /\ UNCHANGED reissued
    BY <2>2 DEF RecipientRestart, NetworkOK
  <2> QED
    BY <2>1, <2>2 DEF DeliveryNext, deliveryVars, Establish, HandleConnection, Deliver,
                      HandleAnswer, HandleFailure, SenderCrash
<1> QED
  BY <1>1, <1>2

\* A handler that gives a request up was started by its last failure.
LEMMA GivenUpStep ==
  ASSUME TypeInv, NetworkOK, [DeliveryNext]_deliveryVars,
         task.at \in {"giveup", "requeue"} => task.row.content \in reissued,
         task'.at \in {"giveup", "requeue"}
  PROVE  task'.row.content \in reissued'
<1>1. reissued \subseteq reissued' /\ task \in Tasks
  BY HistoriesGrow, TypeInvIs
<1>2. CASE UNCHANGED task
  BY <1>1, <1>2
<1>3. ASSUME NEW rid \in DOMAIN outstanding, HandleFailure(rid)
      PROVE  task'.row.content \in reissued'
  <2>1. CASE Exhaust(rid)
    <3>1. tracker[rid] \in PendingRow /\ task'.row = Failed(rid)
      BY <2>1, TypeInvIs DEF Exhaust, MemoryOK
    <3>2. Failed(rid).content = tracker[rid].content
      BY <3>1 DEF Failed, PendingRow
    <3>3. reissued' = reissued \cup {tracker[rid].content}
      BY <1>3, <2>1 DEF HandleFailure, Exhaust, Retry, Untracked
    <3> QED
      BY <3>1, <3>2, <3>3
  <2>2. CASE Retry(rid)
    BY <2>2 DEF Retry
  <2>3. CASE Untracked(rid)
    BY <1>2, <2>3 DEF Untracked
  <2> QED
    BY <1>3, <2>1, <2>2, <2>3 DEF HandleFailure
<1>4. CASE GiveUp
  BY <1>1, <1>4 DEF GiveUp
<1>5. [Next]_vars
  BY SenderStep
<1>6. CASE Step /\ ~GiveUp
  <2>1. ASSUME ClearRow PROVE UNCHANGED task \/ task'.at \in {"clear", "resend"}
    <3>1. task = [at |-> "clear", rest |-> task.rest, stored |-> task.stored]
      BY <1>1, <2>1, TaskIs DEF ClearRow
    <3> QED
      BY <2>1, <3>1 DEF ClearRow
  <2>2. ASSUME ResendRow \/ SkipExpired PROVE task'.at \in {"resend", "idle"}
    <3>1. task = [at |-> "resend", rest |-> task.rest]
      BY <1>1, <2>2, TaskIs DEF ResendRow, SkipExpired
    <3> QED
      BY <2>2, <3>1 DEF ResendRow, SkipExpired, AfterResend, Idle
  <2>3. ASSUME FlushEntry \/ MarkEntry PROVE task'.at \in {"mark", "flush", "idle"}
    <3>1. CASE FlushEntry
      BY <3>1 DEF FlushEntry
    <3>2. CASE MarkEntry
      BY <3>2 DEF MarkEntry, Idle
    <3> QED
      BY <2>3, <3>1, <3>2
  <2>4. ASSUME Settle \/ Swap \/ Persist \/ Requeue \/ Prune \/ Purge
        PROVE  task'.at \in {"persist", "purge", "idle"}
    BY <2>4 DEF Settle, Swap, Persist, Requeue, Prune, Purge, Idle
  <2> QED
    BY <1>2, <1>6, <2>1, <2>2, <2>3, <2>4 DEF Step
<1>7. CASE Start \/ StartBlind \/ CleanUp \/ DiagClean \/ Tick
             \/ \E c \in Contents : Enqueue(c)
  BY <1>2, <1>7 DEF Start, StartBlind, CleanUp, DiagClean, Tick, Enqueue, Idle
<1>8. CASE Work
  BY <1>4, <1>6, <1>7, <1>8 DEF Work
<1>9. ASSUME NEW p \in Peers, Establish(p) \/ HandleConnection(p) \/ RecipientRestart(p)
      PROVE  task'.row.content \in reissued'
  BY <1>2, <1>9 DEF Establish, HandleConnection, RecipientRestart, Connect, vars
<1>10. ASSUME NEW w \in wire, Deliver(w) PROVE task'.row.content \in reissued'
  BY <1>2, <1>10 DEF Deliver, vars
<1>11. ASSUME NEW a \in answers, HandleAnswer(a) PROVE task'.row.content \in reissued'
  BY <1>2, <1>11 DEF HandleAnswer, Response, Untracked
<1>12. CASE SenderCrash
  BY <1>12 DEF SenderCrash, Crash, Down
<1>13. CASE UNCHANGED deliveryVars
  BY <1>2, <1>13 DEF deliveryVars, vars
<1> QED
  BY <1>3, <1>8, <1>9, <1>10, <1>11, <1>12, <1>13 DEF DeliveryNext

\* Every step keeps the names.
LEMMA NamesStep ==
  ASSUME PlaceInv, NetworkOK, T!IInv, FiltersOK, NamesOK, [DeliveryNext]_deliveryVars
  PROVE  NamesOK'
<1> SUFFICES ASSUME restarts' = 0 PROVE NamesOK'
  BY DEF NamesOK
<1>1. TypeInv /\ [Next]_vars
  BY SenderStep DEF PlaceInv
<1>2. /\ accepted \subseteq accepted' /\ torn \subseteq torn'
      /\ reissued \subseteq reissued' /\ restarts = 0
  BY HistoriesGrow
<1>3. \A e \in Seen' : Flushed(e) \/ \E f \in Seen : SameRequest(e, f)
  BY <1>1, SeenStep
<1>4. ASSUME FlushEntry
      PROVE  /\ task'.entry.content \in accepted
             /\ Unsent(task'.entry.content)
             /\ task'.at = "mark"
  <2>1. PICK x \in task.rest : task' = [at |-> "mark", entry |-> x, peer |-> task.peer,
                                        rest |-> task.rest \ {x}]
    BY <1>4 DEF FlushEntry
  <2>2. x \in ToFlush /\ x.content \in accepted
    BY <1>1, <1>4, <2>1, TypeInvIs DEF FlushEntry, ToFlush, HandlerTraced, FromQueue
  <2> QED
    BY <2>1, <2>2 DEF Unsent
<1>5. \A e \in Seen : e.content \in accepted
  BY <1>2 DEF NamesOK
<1>6. \A e \in Seen' : e.content \in accepted
  BY <1>3, <1>4, <1>5 DEF Flushed, SameRequest
<1>7. ASSUME NEW e \in Seen', NEW f \in Seen', e.content = f.content,
             e.content \notin (reissued \cup torn)'
      PROVE  e.msg_id = f.msg_id
  <2>1. e.content \notin reissued \cup torn
    BY <1>2, <1>7
  <2>2. ASSUME NEW g \in Seen, g.content = e.content PROVE ~Unsent(e.content)
    BY <1>2, <2>1, <2>2 DEF NamesOK
  <2>3. CASE Flushed(e)
    BY <1>3, <1>4, <1>7, <2>2, <2>3 DEF Flushed, SameRequest
  <2>4. CASE Flushed(f)
    BY <1>3, <1>4, <1>7, <2>2, <2>4 DEF Flushed, SameRequest
  <2>5. CASE (\E g \in Seen : SameRequest(e, g)) /\ (\E h \in Seen : SameRequest(f, h))
    BY <1>2, <1>7, <2>1, <2>5 DEF NamesOK, SameRequest
  <2> QED
    BY <1>3, <1>7, <2>3, <2>4, <2>5
<1>8. task.at \in {"giveup", "requeue"} => task.row.content \in reissued
  BY <1>2 DEF NamesOK
<1>9. ASSUME NEW e \in Seen', Unsent(e.content)' PROVE e.content \in (reissued \cup torn)'
  <2> SUFFICES ASSUME e.content \notin (reissued \cup torn)' PROVE FALSE
    OBVIOUS
  <2> DEFINE c == e.content
  <2>1. /\ c \in accepted /\ c \notin reissued \cup torn /\ c \notin torn'
        /\ Unsent(c)'
    BY <1>2, <1>6, <1>9
  <2>2. Placed(c)
    BY <2>1 DEF PlaceInv, Where
  <2> HIDE DEF c
  <2>3. \/ Unsent(c) /\ ~(FlushEntry /\ task'.entry.content = c)
        \/ Requeue /\ task.row.content = c
    BY <1>1, <2>1, <2>2, UnsentStep
  <2>4. ~(Requeue /\ task.row.content = c)
    BY <1>8, <2>1 DEF Requeue
  <2>5. \E f \in Seen : f.content = c
    BY <1>3, <2>3, <2>4 DEF Flushed, SameRequest, c
  <2> QED
    BY <1>2, <2>1, <2>3, <2>4, <2>5 DEF NamesOK
<1>10. task'.at \in {"giveup", "requeue"} => task'.row.content \in reissued'
  BY <1>1, <1>8, GivenUpStep
<1> QED
  BY <1>2, <1>6, <1>7, <1>9, <1>10 DEF NamesOK

----------------------------------------------------------------------------
(* The numbers of one life of the sender.                                  *)

\* What a life of the sender has numbered, named and handed over stays so.
LEMMA OutstandingKept ==
  ASSUME TypeInv, [Next]_vars, crashes' = crashes
  PROVE  /\ nextRid \in Nat /\ nextRid' \in Nat /\ nextRid <= nextRid'
         /\ \A r \in DOMAIN outstanding' :
              /\ r \in 1..(nextRid' - 1)
              /\ r < nextRid => r \in DOMAIN outstanding /\ outstanding'[r] = outstanding[r]
         /\ seqCounter \in Nat /\ seqCounter' \in Nat
         /\ nextMsgId \in Nat /\ nextMsgId' \in Nat
         /\ IF FlushEntry THEN seqCounter' = seqCounter + 1 /\ nextMsgId' = nextMsgId + 1
                          ELSE seqCounter' = seqCounter /\ nextMsgId' = nextMsgId
<1>1. TypeOK /\ TypeOK'
  BY StepTypeInv DEF TypeInv
<1>2. /\ nextRid \in Nat /\ nextRid' \in Nat /\ seqCounter \in Nat /\ seqCounter' \in Nat
      /\ nextMsgId \in Nat /\ nextMsgId' \in Nat /\ crashes \in Nat
      /\ DOMAIN outstanding \subseteq 1..(nextRid - 1)
      /\ DOMAIN outstanding' \subseteq 1..(nextRid' - 1)
  BY <1>1 DEF TypeOK
<1>3. ~Crash
  BY <1>2 DEF Crash
<1>4. /\ nextRid <= nextRid'
      /\ \A r \in DOMAIN outstanding' :
           r < nextRid => r \in DOMAIN outstanding /\ outstanding'[r] = outstanding[r]
  <2>1. CASE UNCHANGED <<tracker, outstanding, nextRid>>
    BY <1>2, <2>1
  <2>2. CASE ResendRow
    <3>1. PICK s \in task.rest : SendRequest(s.row)
      BY <2>2 DEF ResendRow
    <3> QED
      BY <1>2, <3>1 DEF SendRequest
  <2>3. CASE FlushEntry
    <3>1. PICK row : SendRequest(row)
      BY <2>3 DEF FlushEntry
    <3> QED
      BY <1>2, <3>1 DEF SendRequest
  <2>4. ASSUME NEW rid \in DOMAIN outstanding,
               Response(rid) \/ Untracked(rid) \/ Exhaust(rid)
        PROVE  /\ nextRid <= nextRid'
               /\ \A r \in DOMAIN outstanding' :
                    r < nextRid => r \in DOMAIN outstanding /\ outstanding'[r] = outstanding[r]
    BY <1>2, <2>4 DEF Response, Untracked, Exhaust, Answered, Restrict
  <2>5. ASSUME NEW rid \in DOMAIN outstanding, Retry(rid)
        PROVE  /\ nextRid <= nextRid'
               /\ \A r \in DOMAIN outstanding' :
                    r < nextRid => r \in DOMAIN outstanding /\ outstanding'[r] = outstanding[r]
    BY <1>2, <2>5 DEF Retry
  <2> QED
    BY <1>3, <2>1, <2>2, <2>3, <2>4, <2>5, MemorySteps
<1>5. IF FlushEntry THEN seqCounter' = seqCounter + 1 /\ nextMsgId' = nextMsgId + 1
                    ELSE seqCounter' = seqCounter /\ nextMsgId' = nextMsgId
  <2>1. CASE FlushEntry
    BY <2>1 DEF FlushEntry
  <2>2. CASE ~FlushEntry
    BY <1>3, <2>2
    DEF Next, Step, vars, volatile, Start, StartBlind, ClearRow, ResendRow, SkipExpired,
        MarkEntry, Settle, Swap, Persist, GiveUp, Requeue, Prune, Purge, Connect, CleanUp,
        Enqueue, DiagClean, Tick, Response, Untracked, Retry, Exhaust
  <2> QED
    BY <2>1, <2>2
<1> QED
  BY <1>2, <1>4, <1>5

\* A step after which the sender has never died was one of its first life.
LEMMA FirstLife ==
  ASSUME TypeInv, [Next]_vars, crashes' = 0
  PROVE  crashes = 0
<1>1. CASE Crash
  BY <1>1 DEF Crash, TypeInv, TypeOK
<1>2. CASE ~Crash
  BY <1>2
  DEF Next, Step, vars, bounds, Start, StartBlind, ClearRow, ResendRow, SkipExpired,
      FlushEntry, MarkEntry, Settle, Swap, Persist, GiveUp, Requeue, Prune, Purge, Connect,
      CleanUp, Enqueue, DiagClean, Tick, Response, Untracked, Retry, Exhaust
<1> QED
  BY <1>1, <1>2

\* As long as nobody lost its memory: a request has a number and an identity that
\* the sender gave out, and goes to the recipient of its message; a number, and
\* an identity, is of one message; and what is under way for a request that
\* libp2p waits for is that request.
NumbersOK ==
  crashes = 0 /\ restarts = 0 =>
    /\ \A e \in Seen : /\ e.seq \in 1..(seqCounter - 1)
                       /\ e.msg_id \in 1..(nextMsgId - 1)
                       /\ e.peer = Addressee[e.content]
    /\ \A e, f \in Seen :
         e.seq = f.seq \/ e.msg_id = f.msg_id => e.content = f.content
    /\ \A w \in wire : /\ w.rid \in 1..(nextRid - 1)
                       /\ w.rid \in DOMAIN outstanding => w.row = outstanding[w.rid]

\* Every step keeps the numbers.
LEMMA NumbersStep ==
  ASSUME TypeInv, NetworkOK, T!IInv, FiltersOK, NumbersOK, [DeliveryNext]_deliveryVars
  PROVE  NumbersOK'
<1> SUFFICES ASSUME crashes' = 0, restarts' = 0 PROVE NumbersOK'
  BY DEF NumbersOK
<1>1. [Next]_vars /\ restarts = 0
  BY SenderStep, HistoriesGrow
<1>2. crashes = 0 /\ crashes' = crashes
  BY <1>1, FirstLife
<1>3. /\ nextRid \in Nat /\ nextRid' \in Nat /\ nextRid <= nextRid'
      /\ \A r \in DOMAIN outstanding' :
           /\ r \in 1..(nextRid' - 1)
           /\ r < nextRid => r \in DOMAIN outstanding /\ outstanding'[r] = outstanding[r]
      /\ seqCounter \in Nat /\ seqCounter' \in Nat
      /\ nextMsgId \in Nat /\ nextMsgId' \in Nat
      /\ seqCounter <= seqCounter' /\ nextMsgId <= nextMsgId'
  BY <1>1, <1>2, OutstandingKept
<1>4. /\ \A e \in Seen : /\ e.seq \in 1..(seqCounter - 1)
                         /\ e.msg_id \in 1..(nextMsgId - 1)
                         /\ e.peer = Addressee[e.content]
      /\ \A e, f \in Seen :
           e.seq = f.seq \/ e.msg_id = f.msg_id => e.content = f.content
      /\ \A w \in wire : /\ w.rid \in 1..(nextRid - 1)
                         /\ w.rid \in DOMAIN outstanding => w.row = outstanding[w.rid]
  BY <1>1, <1>2 DEF NumbersOK
<1>5. \A e \in Seen' : Flushed(e) \/ \E f \in Seen : SameRequest(e, f)
  BY <1>1, SeenStep
<1>6. ASSUME NEW e, Flushed(e)
      PROVE  /\ e.seq = seqCounter /\ e.msg_id = nextMsgId
             /\ seqCounter \in 1..(seqCounter' - 1) /\ nextMsgId \in 1..(nextMsgId' - 1)
             /\ e.content = task'.entry.content /\ e.peer = Addressee[e.content]
  <2>1. TypeInv'
    BY <1>1, StepTypeInv
  <2>2. task'.peer = Addressee[task'.entry.content]
    BY <1>6, <2>1 DEF Flushed, TypeInv, Traced, HandlerTraced, FromQueue
  <2>3. seqCounter # 0 /\ nextMsgId # 0
    BY DEF TypeInv, TypeOK
  <2> QED
    BY <1>3, <1>6, <2>2, <2>3 DEF Flushed
<1>7. ASSUME NEW e \in Seen'
      PROVE  /\ e.seq \in 1..(seqCounter' - 1)
             /\ e.msg_id \in 1..(nextMsgId' - 1)
             /\ e.peer = Addressee[e.content]
  <2>1. CASE Flushed(e)
    BY <1>6, <2>1
  <2>2. ASSUME NEW f \in Seen, SameRequest(e, f)
        PROVE  /\ e.seq \in 1..(seqCounter' - 1)
               /\ e.msg_id \in 1..(nextMsgId' - 1)
               /\ e.peer = Addressee[e.content]
    BY <1>3, <1>4, <2>2 DEF SameRequest
  <2> QED
    BY <1>5, <2>1, <2>2
<1>8. ASSUME NEW e \in Seen', NEW f \in Seen', e.seq = f.seq \/ e.msg_id = f.msg_id
      PROVE  e.content = f.content
  <2>1. ASSUME NEW g \in Seen PROVE g.seq # seqCounter /\ g.msg_id # nextMsgId
    BY <1>3, <1>4
  <2>2. CASE Flushed(e) /\ Flushed(f)
    BY <1>6, <2>2
  <2>3. CASE Flushed(e) /\ ~Flushed(f)
    BY <1>5, <1>6, <1>8, <2>1, <2>3 DEF SameRequest
  <2>4. CASE ~Flushed(e) /\ Flushed(f)
    BY <1>5, <1>6, <1>8, <2>1, <2>4 DEF SameRequest
  <2>5. CASE ~Flushed(e) /\ ~Flushed(f)
    BY <1>4, <1>5, <1>8, <2>5 DEF SameRequest
  <2> QED
    BY <2>2, <2>3, <2>4, <2>5
<1>9. ASSUME NEW w \in wire'
      PROVE  /\ w.rid \in 1..(nextRid' - 1)
             /\ w.rid \in DOMAIN outstanding' => w.row = outstanding'[w.rid]
  <2>1. CASE w \in wire
    BY <1>3, <1>4, <2>1
  <2>2. CASE w \notin wire
    <3>1. Poll
      BY <2>2 DEF DeliveryNext, deliveryVars, network, Work, Establish, HandleConnection,
                  RecipientRestart, Deliver, HandleAnswer, HandleFailure, SenderCrash
    <3>2. PICK r \in DOMAIN outstanding' : w = Carried(r, outstanding'[r])
      BY <2>2, <3>1, PollIs
    <3> QED
      BY <1>3, <3>2 DEF Carried
  <2> QED
    BY <2>1, <2>2
<1> QED
  BY <1>7, <1>8, <1>9 DEF NumbersOK

----------------------------------------------------------------------------
(* The first connection.                                                   *)

\* The number n has arrived at p: it was released or waits in the buffer.
Reached(p, n) == n <= lastSeq[p] \/ n \in DOMAIN buffer[p]

\* What a delivery does with the numbers of its recipient: what it releases is the
\* request or was buffered, and was processed under its identity; what arrived
\* stays so.
LEMMA ArrivalIs ==
  ASSUME NetworkOK, T!IInv, FiltersOK, restarts = 0, NEW w \in wire, Deliver(w)
  PROVE  LET p == w.row.peer
         IN /\ p \in Peers
            /\ lastSeq[p] \in Nat /\ lastSeq'[p] \in Nat /\ lastSeq[p] <= lastSeq'[p]
            /\ \A n \in (lastSeq[p] + 1)..lastSeq'[p] :
                 n = w.row.seq \/ n \in DOMAIN buffer[p]
            /\ \A n : n \in DOMAIN buffer[p] \/ n = w.row.seq => Reached(p, n)'
            /\ \A m : (m = w.row \/ m \in Held(p)) /\ lastSeq[p] < m.seq /\ m.seq <= lastSeq'[p]
                        => \E d \in Done(p)' : d.msg_id = m.msg_id
            /\ Done(p) \subseteq Done(p)'
            /\ Done(p)' \subseteq Done(p) \cup Held(p) \cup {w.row}
<1> DEFINE p == w.row.peer
           ordered == T!Ordered(lastSeq[p], buffer[p], w.row)
<1>1. p \in Peers /\ w.row \in Requests /\ w.row.seq \in Nat /\ T!Ingest(p, w.row)
  BY SameTracker DEF Deliver, NetworkOK, Requests, PendingRow
<1>2. /\ lastSeq[p] \in Nat /\ buffer[p] \in T!Buffers
      /\ DOMAIN buffer[p] \subseteq Nat
      /\ \A s \in DOMAIN buffer[p] : s > lastSeq[p] + 1 /\ buffer[p][s].seq = s
  <2>1. lastSeq[p] \in Nat /\ buffer[p] \in T!Buffers
    BY <1>1, ParametersOK DEF T!IInv, T!TrackerTypeOK
  <2>2. DOMAIN buffer[p] \subseteq 0..MaxSeq
    BY <2>1, ParametersOK, T!BufferIs
  <2> QED
    BY <1>1, <2>1, <2>2, ParametersOK DEF T!IInv, T!BufferBehindGap
<1>h. \A m : m = w.row \/ m \in Held(p) => m.seq \in Nat
  BY <1>1, <1>2 DEF Held
<1>3. /\ Done(p) \subseteq Done(p)'
      /\ Done(p)' \subseteq Done(p) \cup Held(p) \cup {w.row}
      /\ \A i \in 1..Len(ordered) : \E d \in Done(p)' : d.msg_id = ordered[i].msg_id
  <2>1. /\ \A i \in 1..Len(processed'[p]) :
             \/ i \in 1..Len(processed[p]) /\ processed'[p][i] = processed[p][i]
             \/ processed'[p][i] = w.row
             \/ \E s \in DOMAIN buffer[p] : processed'[p][i] = buffer[p][s]
        /\ \A i \in 1..Len(processed[p]) :
             i \in 1..Len(processed'[p]) /\ processed'[p][i] = processed[p][i]
        /\ \A i \in 1..Len(ordered) :
             \E j \in 1..Len(processed'[p]) : processed'[p][j].msg_id = ordered[i].msg_id
    BY DeliverIs
  <2> HIDE DEF ordered, p
  <2> QED
    BY <2>1 DEF Done, Held
<1>4. CASE T!Stale(p, w.row)
  <2>1. lastSeq' = lastSeq /\ buffer' = buffer /\ w.row.seq <= lastSeq[p]
    BY <1>4 DEF T!Stale
  <2> HIDE DEF p, ordered
  <2>2. \A m : m.seq \in Nat => ~(lastSeq[p] < m.seq /\ m.seq <= lastSeq'[p])
    BY <1>2, <2>1
  <2> QED
    BY <1>1, <1>2, <1>3, <1>h, <2>1, <2>2 DEF Reached, p
<1>5. CASE T!Hold(p, w.row)
  <2>1. /\ lastSeq' = lastSeq
        /\ DOMAIN buffer'[p] = DOMAIN buffer[p] \cup {w.row.seq}
    BY <1>1, <1>5, ParametersOK, T!HoldIs
  <2> HIDE DEF p, ordered
  <2>2. \A m : m.seq \in Nat => ~(lastSeq[p] < m.seq /\ m.seq <= lastSeq'[p])
    BY <1>2, <2>1
  <2> QED
    BY <1>1, <1>2, <1>3, <1>h, <2>1, <2>2 DEF Reached, p
<1>6. CASE T!Advance(p, w.row)
  <2>1. /\ w.row.seq = lastSeq[p] + 1
        /\ lastSeq'[p] \in (lastSeq[p] + 1)..MaxSeq
        /\ (lastSeq[p] + 2)..lastSeq'[p] \subseteq DOMAIN buffer[p]
        /\ DOMAIN buffer'[p] = DOMAIN buffer[p] \ ((lastSeq[p] + 2)..lastSeq'[p])
    BY <1>1, <1>6, ParametersOK, T!AdvanceIs DEF T!Advance
  <2>2. lastSeq'[p] = T!RunEnd(lastSeq[p], buffer[p])
    BY <1>1, <1>6 DEF T!Advance, T!IInv, T!TrackerTypeOK
  <2>3. /\ Len(ordered) = lastSeq'[p] - lastSeq[p] /\ ordered[1] = w.row
        /\ \A i \in 2..(lastSeq'[p] - lastSeq[p]) : ordered[i] = buffer[p][lastSeq[p] + i]
    <3> DEFINE e == T!RunEnd(lastSeq[p], buffer[p])
    <3>1. /\ Len(ordered) = e - lastSeq[p] /\ ordered[1] = w.row
          /\ \A i \in 2..(e - lastSeq[p]) : ordered[i] = buffer[p][lastSeq[p] + i]
      BY <1>1, <1>2, <2>1, ParametersOK, T!OrderedIs
    <3> HIDE DEF e, ordered
    <3> QED
      BY <2>2, <3>1 DEF e
  <2> HIDE DEF ordered
  <2>4. ASSUME NEW m, m = w.row \/ m \in Held(p), lastSeq[p] < m.seq, m.seq <= lastSeq'[p]
        PROVE  \E d \in Done(p)' : d.msg_id = m.msg_id
    <3>1. CASE m = w.row
      BY <1>2, <1>3, <2>1, <2>3, <3>1
    <3>2. CASE m \in Held(p)
      <4>1. PICK s \in DOMAIN buffer[p] : m = buffer[p][s]
        BY <3>2 DEF Held
      <4>2. s \in Nat /\ s = m.seq /\ s > lastSeq[p] + 1
        BY <1>2, <4>1
      <4>3. s - lastSeq[p] \in 2..(lastSeq'[p] - lastSeq[p])
            /\ lastSeq[p] + (s - lastSeq[p]) = s
        BY <1>2, <2>1, <2>4, <4>2
      <4>4. s - lastSeq[p] \in 1..Len(ordered) /\ ordered[s - lastSeq[p]] = m
        BY <1>2, <2>1, <2>3, <4>1, <4>3
      <4> QED
        BY <1>3, <4>4
    <3> QED
      BY <2>4, <3>1, <3>2
  <2>5. \A n \in (lastSeq[p] + 1)..lastSeq'[p] : n = w.row.seq \/ n \in DOMAIN buffer[p]
    BY <1>2, <2>1
  <2>6. \A n : n \in DOMAIN buffer[p] \/ n = w.row.seq => Reached(p, n)'
    BY <1>2, <2>1 DEF Reached
  <2> HIDE DEF p
  <2> QED
    BY <1>1, <1>2, <1>3, <2>1, <2>4, <2>5, <2>6 DEF p
<1> QED
  BY <1>1, <1>4, <1>5, <1>6 DEF T!Ingest

\* Nobody lost its memory, nothing was handed back, and there was no second
\* connection.
Undisturbed == connections <= 1 /\ crashes = 0 /\ restarts = 0 /\ reissued = {}

\* p is the recipient of everything.
Sole(p) == \A c \in accepted : Addressee[c] = p

\* Each number was released, is buffered or is in flight; what has a released
\* number was processed; what is answered has arrived; and what is acknowledged
\* was processed or is buffered.
Lossless(p) ==
  /\ connections = 0 => linked = {} /\ lastSeq[p] = 0 /\ DOMAIN buffer[p] = {}
  /\ lastSeq[p] < seqCounter
  /\ \A n \in 1..(seqCounter - 1) : Reached(p, n) \/ n \in InFlightTo(p)
  /\ \A e \in Seen : e.seq <= lastSeq[p] => e.content \in Finished(p)
  /\ \A a \in answers : Reached(p, outstanding[a.rid].seq)
  /\ \A c \in acked : c \in Finished(p) \/ \E s \in DOMAIN buffer[p] : buffer[p][s].content = c

FirstOK ==
  connections \in Nat /\ (Undisturbed => \A p \in Peers : Sole(p) => Lossless(p))

\* What a recipient has finished is what it has done.
LEMMA FinishedIs == \A p : Finished(p) = {d.content : d \in Done(p)}
BY DEF Finished, Done

\* What a delivery leaves undisturbed.
LEMMA DeliverLossless ==
  ASSUME PlaceInv, NetworkOK, T!IInv, T!IInv', FiltersOK, NamesOK, NumbersOK, FirstOK,
         Undisturbed, NEW p \in Peers, Sole(p), Lossless(p), NEW w \in wire, Deliver(w),
         \A e \in Seen' : \E f \in Seen : SameRequest(e, f)
  PROVE  Lossless(p)'
<1>1. w.row \in Seen /\ w.row \in Requests
  BY DEF Seen, NetworkOK
<1>2. /\ \A e \in Seen : /\ e.seq \in 1..(seqCounter - 1)
                         /\ e.msg_id \in 1..(nextMsgId - 1)
                         /\ e.peer = Addressee[e.content]
      /\ \A e, f \in Seen :
           e.seq = f.seq \/ e.msg_id = f.msg_id => e.content = f.content
      /\ w.rid \in DOMAIN outstanding => w.row = outstanding[w.rid]
  BY DEF NumbersOK, Undisturbed
<1>3. w.row.peer = p
  BY <1>1, <1>2 DEF NamesOK, Undisturbed, Sole
<1>4. connections # 0
  BY <1>3 DEF Deliver, Undisturbed, NetworkOK, Lossless
<1>5. /\ lastSeq[p] \in Nat /\ lastSeq'[p] \in Nat /\ lastSeq[p] <= lastSeq'[p]
      /\ \A n \in (lastSeq[p] + 1)..lastSeq'[p] : n = w.row.seq \/ n \in DOMAIN buffer[p]
      /\ \A n : n \in DOMAIN buffer[p] \/ n = w.row.seq => Reached(p, n)'
      /\ \A m : (m = w.row \/ m \in Held(p)) /\ lastSeq[p] < m.seq /\ m.seq <= lastSeq'[p]
                  => \E d \in Done(p)' : d.msg_id = m.msg_id
      /\ Done(p) \subseteq Done(p)' /\ Done(p)' \subseteq Done(p) \cup Held(p) \cup {w.row}
  BY <1>3, ArrivalIs DEF Undisturbed
<1>6. Held(p) \subseteq Seen /\ Done(p) \subseteq Seen /\ Done(p)' \subseteq Seen
  BY <1>1, <1>5 DEF Seen
<1>7. Finished(p) \subseteq Finished(p)' /\ Finished(p)' = {d.content : d \in Done(p)'}
  <2>1. Finished(p) = {d.content : d \in Done(p)} /\ Finished(p)' = {d.content : d \in Done(p)'}
    BY DEF Finished, Done
  <2> QED
    BY <1>5, <2>1
<1>8. \A s \in DOMAIN buffer[p] : buffer[p][s] \in Held(p) /\ buffer[p][s].seq = s
  BY ParametersOK DEF T!IInv, T!BufferBehindGap, Held
<1>9. ASSUME NEW f \in Seen, f.seq <= lastSeq'[p] PROVE f.content \in Finished(p)'
  <2>1. CASE f.seq <= lastSeq[p]
    BY <1>7, <2>1 DEF Lossless
  <2>2. CASE ~(f.seq <= lastSeq[p])
    <3>1. f.seq \in Nat /\ f.seq \in (lastSeq[p] + 1)..lastSeq'[p]
      BY <1>2, <1>5, <1>9, <2>2
    <3>2. PICK m : (m = w.row \/ m \in Held(p)) /\ m.seq = f.seq
      BY <1>5, <1>8, <3>1
    <3>3. lastSeq[p] < m.seq /\ m.seq <= lastSeq'[p] /\ m \in Seen
      BY <1>1, <1>5, <1>6, <3>1, <3>2
    <3>4. PICK d \in Done(p)' : d.msg_id = m.msg_id
      BY <1>5, <3>2, <3>3
    <3>5. d.content = m.content /\ m.content = f.content
      BY <1>2, <1>6, <3>2, <3>3, <3>4
    <3> QED
      BY <1>7, <3>4, <3>5
  <2> QED
    BY <2>1, <2>2
<1>10. UNCHANGED <<seqCounter, tracker, outstanding, acked, connections>>
  BY DEF Deliver, vars, volatile, history
<1>11. lastSeq'[p] < seqCounter'
  <2>1. CASE lastSeq'[p] = lastSeq[p]
    BY <1>10, <2>1 DEF Lossless
  <2>2. CASE lastSeq'[p] # lastSeq[p]
    <3>1. lastSeq'[p] \in (lastSeq[p] + 1)..lastSeq'[p]
      BY <1>5, <2>2
    <3>2. PICK m \in Seen : m.seq = lastSeq'[p]
      BY <1>1, <1>5, <1>6, <1>8, <3>1
    <3>3. seqCounter \in Nat
      BY DEF PlaceInv, TypeInv, TypeOK
    <3> QED
      BY <1>2, <1>10, <3>2, <3>3
  <2> QED
    BY <2>1, <2>2
<1>12. \A n \in Nat : Reached(p, n) => Reached(p, n)'
  <2> SUFFICES ASSUME NEW n \in Nat, n <= lastSeq[p]
               PROVE  n <= lastSeq'[p] \/ n \in DOMAIN buffer'[p]
    BY <1>5 DEF Reached
  <2> QED
    BY <1>5
<1>13. \A n \in 1..(seqCounter' - 1) : Reached(p, n)' \/ n \in InFlightTo(p)'
  BY <1>10, <1>12 DEF Lossless, InFlightTo
<1>14. \A e \in Seen' : e.seq <= lastSeq'[p] => e.content \in Finished(p)'
  BY <1>9 DEF SameRequest
<1>15. \A a \in answers' : Reached(p, outstanding[a.rid].seq)'
  <2> TAKE a \in answers'
  <2>1. CASE a \in answers
    <3>1. outstanding[a.rid].seq \in Nat
      BY <2>1 DEF NetworkOK, PlaceInv, TypeInv, TypeOK, PendingRow
    <3> QED
      BY <1>10, <1>12, <2>1, <3>1 DEF Lossless
  <2>2. CASE a \notin answers
    <3>1. w.rid \in DOMAIN outstanding /\ a.rid = w.rid
      BY <2>2 DEF Deliver
    <3> QED
      BY <1>2, <1>5, <1>10, <3>1
  <2> QED
    BY <2>1, <2>2
<1>16. ASSUME NEW c \in acked'
       PROVE  c \in Finished(p)' \/ \E s \in DOMAIN buffer'[p] : buffer'[p][s].content = c
  <2>1. CASE c \in Finished(p)
    BY <1>7, <2>1
  <2>2. ASSUME NEW s \in DOMAIN buffer[p], buffer[p][s].content = c
        PROVE  c \in Finished(p)' \/ \E t \in DOMAIN buffer'[p] : buffer'[p][t].content = c
    <3>1. CASE s <= lastSeq'[p]
      BY <1>6, <1>8, <1>9, <2>2, <3>1
    <3>2. CASE ~(s <= lastSeq'[p])
      <4>1. s \in DOMAIN buffer'[p]
        BY <1>5, <3>2 DEF Reached
      <4>2. buffer'[p][s].seq = s
        BY <4>1, ParametersOK DEF T!IInv, T!BufferBehindGap
      <4>3. buffer'[p][s] = w.row \/ buffer'[p][s] = buffer[p][s]
        BY <1>3, <4>1, DeliverIs DEF Undisturbed
      <4> QED
        BY <1>1, <1>2, <1>6, <1>8, <2>2, <4>1, <4>2, <4>3
    <3> QED
      BY <3>1, <3>2
  <2> QED
    BY <1>10, <2>1, <2>2 DEF Lossless
<1> QED
  BY <1>4, <1>10, <1>11, <1>13, <1>14, <1>15, <1>16 DEF Lossless

\* What the sender, while it works by itself, does to the requests in flight.
LEMMA WorkInFlight ==
  ASSUME TypeInv, TrackedIsOutstanding, Work
  PROVE  /\ \A p : InFlightTo(p) \subseteq InFlightTo(p)'
         /\ FlushEntry => seqCounter \in InFlightTo(task.peer)'
         /\ acked' = acked
<1>1. \A r \in DOMAIN tracker : tracker[r] \in PendingRow /\ r # nextRid
  BY TypeInvIs DEF MemoryOK, TrackedIsOutstanding
<1>2. acked' = acked
  BY DEF Work, Step, history, Start, StartBlind, ClearRow, ResendRow, SkipExpired, FlushEntry,
         MarkEntry, Settle, Swap, Persist, GiveUp, Requeue, Prune, Purge, CleanUp, Enqueue,
         DiagClean, Tick
<1>3. CASE FlushEntry
  <2>1. PICK row : /\ Track(nextRid, row) /\ [row EXCEPT !.retries = 0] = row
                   /\ row.peer = task'.peer /\ row.seq = seqCounter
    BY <1>3 DEF FlushEntry
  <2>2. /\ DOMAIN tracker' = DOMAIN tracker \cup {nextRid} /\ tracker'[nextRid] = row
        /\ \A r \in DOMAIN tracker : tracker'[r] = tracker[r]
    BY <1>1, <2>1 DEF Track, Put
  <2>3. \A p : InFlightTo(p) \subseteq InFlightTo(p)'
    BY <2>2 DEF InFlightTo
  <2>4. seqCounter \in InFlightTo(task.peer)'
    BY <2>1, <2>2 DEF InFlightTo
  <2> QED
    BY <1>2, <2>3, <2>4
<1>4. CASE ResendRow
  <2>1. \/ UNCHANGED tracker
        \/ \E row : Track(nextRid, row)
    BY <1>4 DEF ResendRow
  <2>2. \A r \in DOMAIN tracker : r \in DOMAIN tracker' /\ tracker'[r] = tracker[r]
    BY <1>1, <2>1 DEF Track, Put
  <2>3. task.at = "resend"
    BY <1>4 DEF ResendRow
  <2> QED
    BY <1>2, <2>2, <2>3 DEF InFlightTo, FlushEntry
<1>5. CASE ~FlushEntry /\ ~ResendRow
  <2>1. UNCHANGED tracker
    BY <1>5 DEF Work, Step, volatile, Start, StartBlind, ClearRow, SkipExpired, MarkEntry,
       Settle, Swap, Persist, GiveUp, Requeue, Prune, Purge, CleanUp, Enqueue, DiagClean, Tick
  <2> QED
    BY <1>2, <1>5, <2>1 DEF InFlightTo
<1> QED
  BY <1>3, <1>4, <1>5

\* Every step leaves the first connection lossless.
LEMMA LosslessStep ==
  ASSUME PlaceInv, NetworkOK, T!IInv, T!IInv', FiltersOK, NamesOK, NumbersOK, FirstOK,
         [DeliveryNext]_deliveryVars
  PROVE  FirstOK'
<1>1. /\ [Next]_vars /\ TypeInv /\ TypeInv' /\ TrackedIsOutstanding
      /\ accepted \subseteq accepted' /\ reissued \subseteq reissued'
  BY SenderStep, HistoriesGrow, StepTypeInv DEF PlaceInv
<1>2. connections' = connections \/ connections' = connections + 1
  BY DEF DeliveryNext, deliveryVars, Work, Establish, HandleConnection, RecipientRestart,
         Deliver, HandleAnswer, HandleFailure, SenderCrash
<1>3. connections \in Nat /\ connections' \in Nat
  BY <1>2 DEF FirstOK
<1> SUFFICES ASSUME Undisturbed', NEW p \in Peers, Sole(p)' PROVE Lossless(p)'
  BY <1>3 DEF FirstOK
<1>4. /\ crashes = 0 /\ crashes' = 0 /\ restarts = 0 /\ restarts' = 0
      /\ reissued = {} /\ reissued' = {} /\ connections' <= 1
  BY <1>1, FirstLife, HistoriesGrow DEF Undisturbed
<1>5. Undisturbed /\ Sole(p) /\ Lossless(p)
  BY <1>1, <1>2, <1>3, <1>4 DEF Undisturbed, Sole, FirstOK
<1>6. /\ nextRid \in Nat
      /\ \A r \in DOMAIN outstanding' :
           r < nextRid => r \in DOMAIN outstanding /\ outstanding'[r] = outstanding[r]
      /\ seqCounter \in Nat
      /\ IF FlushEntry THEN seqCounter' = seqCounter + 1 /\ nextMsgId' = nextMsgId + 1
                       ELSE seqCounter' = seqCounter /\ nextMsgId' = nextMsgId
  BY <1>1, <1>4, OutstandingKept
<1>7. /\ \A a \in answers :
           /\ a = [life |-> 0, rid |-> a.rid]
           /\ a.rid \in DOMAIN outstanding /\ a.rid < nextRid
           /\ outstanding[a.rid] \in Seen
      /\ \A r \in DOMAIN tracker : r \in DOMAIN outstanding /\ r < nextRid
      /\ lastSeq[p] \in Nat
  <2>1. DOMAIN outstanding \subseteq 1..(nextRid - 1)
    BY <1>1 DEF TypeInv, TypeOK
  <2>2. \A r \in DOMAIN outstanding : r < nextRid /\ outstanding[r] \in Seen
    BY <1>6, <2>1 DEF Seen, Mentions
  <2>3. lastSeq[p] \in Nat
    BY ParametersOK DEF T!IInv, T!TrackerTypeOK
  <2> QED
    BY <1>1, <1>4, <2>2, <2>3 DEF NetworkOK, TrackedIsOutstanding
<1>8. \A e \in Seen' : Flushed(e) \/ \E f \in Seen : SameRequest(e, f)
  BY <1>1, <1>4, SeenStep
<1>9. ASSUME lastSeq'[p] = lastSeq[p], processed'[p] = processed[p]
      PROVE  \A e \in Seen' : e.seq <= lastSeq'[p] => e.content \in Finished(p)'
  <2> TAKE e \in Seen'
  <2>1. Finished(p)' = Finished(p)
    BY <1>9 DEF Finished
  <2>2. CASE Flushed(e)
    BY <1>5, <1>6, <1>7, <1>9, <2>2 DEF Flushed, Lossless
  <2>3. ASSUME NEW f \in Seen, SameRequest(e, f)
        PROVE  e.seq <= lastSeq'[p] => e.content \in Finished(p)'
    BY <1>5, <1>9, <2>1, <2>3 DEF SameRequest, Lossless
  <2> QED
    BY <1>8, <2>2, <2>3
<1>10. ASSUME lastSeq'[p] = lastSeq[p], buffer'[p] = buffer[p], processed'[p] = processed[p],
              connections' = connections, linked' = linked, ~FlushEntry,
              InFlightTo(p) \subseteq InFlightTo(p)', acked' = acked,
              answers' \subseteq answers,
              \A a \in answers' : a.rid \in DOMAIN outstanding'
       PROVE  Lossless(p)'
  <2>1. Finished(p)' = Finished(p) /\ seqCounter' = seqCounter
    BY <1>6, <1>10 DEF Finished
  <2>2. \A n : Reached(p, n)' <=> Reached(p, n)
    BY <1>10 DEF Reached
  <2>3. \A a \in answers' : Reached(p, outstanding[a.rid].seq)'
    BY <1>5, <1>6, <1>7, <1>10, <2>2 DEF Lossless
  <2>4. \A n \in 1..(seqCounter' - 1) : Reached(p, n)' \/ n \in InFlightTo(p)'
    BY <1>5, <1>10, <2>1, <2>2 DEF Lossless
  <2> QED
    BY <1>5, <1>9, <1>10, <2>1, <2>3, <2>4 DEF Lossless
<1>11. CASE Work /\ ~FlushEntry
  <2>1. /\ InFlightTo(p) \subseteq InFlightTo(p)' /\ acked' = acked
        /\ DOMAIN outstanding \subseteq DOMAIN outstanding'
        /\ UNCHANGED <<recipients, linked, answers, connections>>
    BY <1>1, <1>11, WorkInFlight, WorkIs
  <2> QED
    BY <1>7, <1>10, <1>11, <2>1 DEF recipients
<1>12. CASE Work /\ FlushEntry
  <2>1. /\ InFlightTo(p) \subseteq InFlightTo(p)' /\ acked' = acked
        /\ DOMAIN outstanding \subseteq DOMAIN outstanding'
        /\ UNCHANGED <<recipients, linked, answers, connections>>
    BY <1>1, <1>12, WorkInFlight, WorkIs
  <2>2. task'.peer = p
    <3>1. task'.at = "mark"
      BY <1>12 DEF FlushEntry
    <3> QED
      BY <1>1, <3>1 DEF TypeInv, Traced, HandlerTraced, FromQueue, Sole
  <2>3. seqCounter \in InFlightTo(p)'
    <3>1. seqCounter \in InFlightTo(task.peer)'
      BY <1>1, <1>12, WorkInFlight
    <3> QED
      BY <2>2, <3>1 DEF InFlightTo
  <2>4. Finished(p)' = Finished(p) /\ seqCounter' = seqCounter + 1
    BY <1>6, <1>12, <2>1 DEF Finished, recipients
  <2>5. \A n : Reached(p, n)' <=> Reached(p, n)
    BY <2>1 DEF Reached, recipients
  <2>6. \A a \in answers' : Reached(p, outstanding[a.rid].seq)'
    BY <1>5, <1>6, <1>7, <2>1, <2>5 DEF Lossless
  <2>7. \A n \in 1..(seqCounter' - 1) : Reached(p, n)' \/ n \in InFlightTo(p)'
    <3> TAKE n \in 1..(seqCounter' - 1)
    <3>1. n = seqCounter \/ n \in 1..(seqCounter - 1)
      BY <1>6, <2>4
    <3> QED
      BY <1>5, <2>1, <2>3, <2>5, <3>1 DEF Lossless
  <2>8. lastSeq'[p] < seqCounter'
    BY <1>5, <1>6, <1>7, <2>1, <2>4 DEF Lossless, recipients
  <2> QED
    BY <1>5, <1>9, <2>1, <2>4, <2>6, <2>7, <2>8 DEF Lossless, recipients
<1>13. ASSUME NEW q \in Peers, Establish(q) PROVE Lossless(p)'
  <2>1. connections' = 1 /\ connections = 0
    BY <1>3, <1>4, <1>13 DEF Establish
  <2>2. lastSeq[p] = 0 /\ DOMAIN buffer[p] = {}
    BY <1>5, <2>1 DEF Lossless
  <2>3. lastSeq'[p] = 0 /\ DOMAIN buffer'[p] = {}
    <3>1. lastSeq' = [lastSeq EXCEPT ![q] = 0] /\ buffer' = [buffer EXCEPT ![q] = << >>]
      BY <1>13 DEF Establish, Tracker!ResetPeer
    <3> QED
      BY <2>2, <3>1 DEF T!IInv, T!TrackerTypeOK
  <2>4. UNCHANGED <<processed, seqCounter, tracker, outstanding, acked, answers>>
    BY <1>13 DEF Establish, vars, volatile, history
  <2>5. Finished(p)' = Finished(p) /\ InFlightTo(p)' = InFlightTo(p)
    BY <2>4 DEF Finished, InFlightTo
  <2>6. \A n : Reached(p, n)' <=> Reached(p, n)
    BY <2>2, <2>3 DEF Reached
  <2>7. \A a \in answers' : Reached(p, outstanding[a.rid].seq)'
    BY <1>5, <2>4, <2>6 DEF Lossless
  <2>8. \A n \in 1..(seqCounter' - 1) : Reached(p, n)' \/ n \in InFlightTo(p)'
    BY <1>5, <2>4, <2>5, <2>6 DEF Lossless
  <2>9. \A c \in acked' : c \in Finished(p)'
    BY <1>5, <2>2, <2>4, <2>5 DEF Lossless
  <2> QED
    BY <1>5, <1>9, <2>1, <2>2, <2>3, <2>4, <2>7, <2>8, <2>9 DEF Lossless
<1>14. ASSUME NEW q \in Peers, HandleConnection(q) PROVE Lossless(p)'
  <2>1. UNCHANGED <<recipients, linked, answers, connections>>
    BY <1>14 DEF HandleConnection
  <2>2. UNCHANGED <<tracker, outstanding, acked, seqCounter>>
    BY <1>14 DEF HandleConnection, Connect, vars, volatile, history
  <2>3. ~FlushEntry
    BY <1>6, <2>2
  <2> QED
    BY <1>7, <1>10, <2>1, <2>2, <2>3 DEF recipients, InFlightTo
<1>15. ASSUME NEW q \in Peers, RecipientRestart(q) PROVE FALSE
  BY <1>4, <1>15 DEF RecipientRestart
<1>16. ASSUME NEW w \in wire, Deliver(w) PROVE Lossless(p)'
  <2>1. \A e \in Seen' : ~Flushed(e)
    <3>1. UNCHANGED seqCounter
      BY <1>16 DEF Deliver, vars, volatile
    <3> QED
      BY <1>6, <3>1 DEF Flushed
  <2> QED
    BY <1>5, <1>8, <1>16, <2>1, DeliverLossless
<1>17. ASSUME NEW a \in answers, HandleAnswer(a) PROVE Lossless(p)'
  <2>1. /\ outstanding' = Answered(a.rid) /\ answers' = answers \ {a}
        /\ UNCHANGED <<recipients, linked, connections, seqCounter>>
    BY <1>17 DEF HandleAnswer, Response, Untracked
  <2>2. ~FlushEntry
    BY <1>6, <2>1
  <2>3. \A b \in answers' : b \in answers /\ b.rid # a.rid /\ b.rid \in DOMAIN outstanding'
    BY <1>7, <2>1 DEF Answered, Restrict
  <2>4. CASE Untracked(a.rid)
    <3>1. UNCHANGED <<tracker, acked>>
      BY <2>4 DEF Untracked, history
    <3> QED
      BY <1>10, <2>1, <2>2, <2>3, <3>1 DEF recipients, InFlightTo
  <2>5. CASE Response(a.rid)
    <3> DEFINE e == tracker[a.rid]
    <3>1. /\ a.rid \in DOMAIN tracker /\ SameRequest(e, outstanding[a.rid])
          /\ acked' = acked \cup {e.content} /\ tracker' = Without(a.rid)
      BY <1>1, <2>5 DEF Response, Ack, TrackedIsOutstanding
    <3>2. /\ DOMAIN tracker' = DOMAIN tracker \ {a.rid}
          /\ \A r \in DOMAIN tracker' : tracker'[r] = tracker[r]
      BY <3>1 DEF Without, Restrict
    <3>3. Reached(p, e.seq) /\ outstanding[a.rid] \in Seen
      BY <1>5, <1>7, <3>1 DEF Lossless, SameRequest
    <3> HIDE DEF e
    <3>4. /\ Finished(p)' = Finished(p) /\ seqCounter' = seqCounter
          /\ \A n : Reached(p, n)' <=> Reached(p, n)
      BY <2>1 DEF Finished, Reached, recipients
    <3>5. \A b \in answers' : Reached(p, outstanding[b.rid].seq)'
      BY <1>5, <1>6, <1>7, <2>3, <3>4 DEF Lossless
    <3>6. \A n \in InFlightTo(p) : n = e.seq \/ n \in InFlightTo(p)'
      BY <3>2 DEF InFlightTo, e
    <3>7. \A n \in 1..(seqCounter' - 1) : Reached(p, n)' \/ n \in InFlightTo(p)'
      BY <1>5, <3>3, <3>4, <3>6 DEF Lossless
    <3>8. e.content \in Finished(p) \/ \E s \in DOMAIN buffer[p] : buffer[p][s].content = e.content
      <4>1. CASE e.seq <= lastSeq[p]
        BY <1>5, <3>1, <3>3, <4>1 DEF Lossless, SameRequest
      <4>2. CASE e.seq \in DOMAIN buffer[p]
        <5>1. /\ buffer[p][e.seq] \in Seen
              /\ buffer[p][e.seq].seq = outstanding[a.rid].seq
          BY <3>1, <4>2, ParametersOK
          DEF Seen, Held, T!IInv, T!BufferBehindGap, SameRequest
        <5>2. buffer[p][e.seq].content = e.content
          BY <1>4, <3>1, <3>3, <5>1 DEF NumbersOK, SameRequest
        <5> QED
          BY <4>2, <5>2
      <4> QED
        BY <3>3, <4>1, <4>2 DEF Reached
    <3>9. \A c \in acked' : \/ c \in Finished(p)'
                           \/ \E s \in DOMAIN buffer'[p] : buffer'[p][s].content = c
      BY <1>5, <2>1, <3>1, <3>4, <3>8 DEF Lossless, recipients
    <3> QED
      BY <1>5, <1>9, <2>1, <3>4, <3>5, <3>7, <3>9 DEF Lossless, recipients
  <2> QED
    BY <1>17, <2>4, <2>5 DEF HandleAnswer
<1>18. ASSUME NEW rid \in DOMAIN outstanding, HandleFailure(rid) PROVE Lossless(p)'
  <2>1. ~Exhaust(rid) \/ Retry(rid) \/ Untracked(rid)
    BY <1>4, <1>18 DEF HandleFailure
  <2>2. /\ Retry(rid) \/ Untracked(rid)
        /\ answers' = AnswersWithout(rid)
        /\ UNCHANGED <<recipients, linked, connections>>
    BY <1>18, <2>1 DEF HandleFailure
  <2>3. /\ UNCHANGED <<acked, seqCounter>>
        /\ DOMAIN outstanding \ {rid} \subseteq DOMAIN outstanding'
    BY <2>2 DEF Retry, Untracked, history, Answered, Restrict
  <2>4. ~FlushEntry
    BY <1>6, <2>3
  <2>5. \A b \in answers' : b \in answers /\ b.rid # rid /\ b.rid \in DOMAIN outstanding'
    BY <1>4, <1>7, <2>2, <2>3 DEF AnswersWithout
  <2>6. InFlightTo(p) \subseteq InFlightTo(p)'
    <3>1. CASE Untracked(rid)
      BY <3>1 DEF Untracked, InFlightTo
    <3>2. CASE Retry(rid)
      <4>1. /\ tracker[rid] \in PendingRow /\ rid \in DOMAIN tracker
            /\ tracker' = [r \in (DOMAIN tracker \ {rid}) \cup {nextRid} |->
                             IF r = nextRid THEN Failed(rid) ELSE tracker[r]]
        BY <1>1, <3>2, TypeInvIs DEF Retry, FailAndRetrack, MemoryOK
      <4>2. Failed(rid).seq = tracker[rid].seq /\ Failed(rid).peer = tracker[rid].peer
        BY <4>1 DEF Failed, PendingRow
      <4>3. nextRid \notin DOMAIN tracker
        BY <1>6, <1>7
      <4> QED
        BY <4>1, <4>2, <4>3 DEF InFlightTo
    <3> QED
      BY <2>2, <3>1, <3>2
  <2> QED
    BY <1>10, <2>2, <2>3, <2>4, <2>5, <2>6 DEF recipients
<1>19. CASE SenderCrash
  BY <1>4, <1>19 DEF SenderCrash, Crash
<1>20. CASE UNCHANGED deliveryVars
  <2>1. UNCHANGED <<recipients, linked, answers, connections, tracker, outstanding, acked,
                    seqCounter>>
    BY <1>20 DEF deliveryVars, network, vars, volatile, history
  <2>2. ~FlushEntry
    BY <1>6, <2>1
  <2> QED
    BY <1>7, <1>10, <2>1, <2>2 DEF recipients, InFlightTo
<1> QED
  BY <1>11, <1>12, <1>13, <1>14, <1>15, <1>16, <1>17, <1>18, <1>19, <1>20 DEF DeliveryNext

----------------------------------------------------------------------------
(* The system.                                                             *)

DeliveryInv ==
  PlaceInv /\ NetworkOK /\ T!IInv /\ FiltersOK /\ NamesOK

\* Whatever the sender, the network and the recipients do, the parts of the
\* inductive invariant hold.
THEOREM DeliveryInvariance == DeliverySpec => []DeliveryInv
<1>1. DeliveryInit => NetworkOK /\ T!IInv /\ FiltersOK /\ NamesOK
  <2> SUFFICES ASSUME DeliveryInit PROVE NetworkOK /\ T!IInv /\ FiltersOK /\ NamesOK
    OBVIOUS
  <2>1. T!TrackerInit
    BY DEF DeliveryInit, Tracker!TrackerInit, T!TrackerInit
  <2>2. T!IInv
    BY <2>1, ParametersOK, T!InitIInv
  <2>3. Mentions = {} /\ seqCounter = 1 /\ crashes = 0 /\ restarts = 0 /\ wire = {}
        /\ answers = {} /\ linked = {} /\ notified = {} /\ reissued = {}
        /\ task = Down
    BY DEF DeliveryInit, Init, EmptyTables, Mentions, Records, Down
  <2>4. NetworkOK
    BY <2>3, DeliveryAssumption DEF NetworkOK
  <2>5. FiltersOK
    <3>1. \A p \in Peers : filter[p] = D!NoneSeen /\ processed[p] = << >>
      BY DEF DeliveryInit, Dedup!NoneSeen, D!NoneSeen
    <3>2. D!Ids(<< >>) = << >>
      BY DEF D!Ids
    <3>3. D!Sound(D!NoneSeen, << >>)
      BY ParametersOK, D!EmptyIsSound
    <3>4. filter = [p \in Peers |-> filter[p]] /\ processed = [p \in Peers |-> processed[p]]
      BY DEF DeliveryInit
    <3>5. \A p \in Peers : processed[p] \in Seq(Requests)
      <4>1. << >> \in Seq(Requests)
        BY EmptySeq
      <4>2. \A p \in Peers : processed[p] = << >>
        BY <3>1
      <4> HIDE DEF Requests
      <4> QED
        BY <4>1, <4>2, Zenon
    <3>6. ASSUME NEW p \in Peers PROVE D!Sound(filter[p], D!Ids(processed[p]))
      BY <3>1, <3>2, <3>3
    <3> QED
      BY <3>4, <3>5, <3>6 DEF FiltersOK
  <2>6. \A p \in Peers : Held(p) = {} /\ Done(p) = {}
    BY DEF DeliveryInit, Tracker!TrackerInit, Held, Done
  <2>7. NamesOK
    BY <2>3, <2>6 DEF NamesOK, Seen, Down
  <2> QED
    BY <2>2, <2>4, <2>5, <2>7
<1>2. ASSUME PlaceInv, NetworkOK, T!IInv, FiltersOK, NamesOK, [DeliveryNext]_deliveryVars
      PROVE  (NetworkOK /\ T!IInv /\ FiltersOK /\ NamesOK)'
  <2>1. NetworkOK'
    BY <1>2, NetworkStep DEF PlaceInv
  <2>2. T!IInv'
    BY <1>2, ParametersOK, TrackersStep, T!StepIInv
  <2>3. FiltersOK'
    BY <1>2, FiltersStep
  <2>4. NamesOK'
    BY <1>2, NamesStep
  <2> QED
    BY <2>1, <2>2, <2>3, <2>4
<1> QED
  BY <1>1, <1>2, SendsAsSpecified, PlaceInvariant, PTL DEF DeliverySpec, DeliveryInv

\* Numbers stay in range on both sides of a connection, and every acknowledgement
\* under way belongs to a request that this life of the sender still waits for.
THEOREM NetworkTypeCorrect == DeliverySpec => []DeliveryTypeOK
<1>1. DeliveryInv => DeliveryTypeOK
  BY TypeIs, TypeInvIs
  DEF DeliveryInv, PlaceInv, TypeInv, NetworkOK, T!IInv, T!TrackerTypeOK, DeliveryTypeOK
<1> QED
  BY <1>1, DeliveryInvariance, PTL

\* Whatever the sender repeats, and however often it connects: a recipient that
\* keeps its memory processes an identity once within a window of MaxTracked
\* others.
THEOREM IdentityProcessedOnce == DeliverySpec => []OncePerIdentity
<1>1. FiltersOK => OncePerIdentity
  <2> SUFFICES ASSUME FiltersOK, restarts = 0, NEW p \in Peers,
                      NEW i \in 1..Len(processed[p]), NEW j \in 1..Len(processed[p]),
                      i < j, processed[p][i].msg_id = processed[p][j].msg_id
               PROVE  j - i > MaxTracked
    BY DEF OncePerIdentity
  <2>1. processed[p] \in Seq(Requests) /\ D!Sound(filter[p], D!Ids(processed[p]))
    BY DEF FiltersOK
  <2>2. D!Spaced(D!Ids(processed[p]))
    BY <2>1 DEF D!Sound
  <2>3. /\ Len(D!Ids(processed[p])) = Len(processed[p])
        /\ D!Ids(processed[p])[i] = processed[p][i].msg_id
        /\ D!Ids(processed[p])[j] = processed[p][j].msg_id
    BY <2>1 DEF D!Ids
  <2> QED
    BY <2>2, <2>3 DEF D!Spaced
<1> QED
  BY <1>1, DeliveryInvariance, PTL DEF DeliveryInv

\* A message is processed twice only if it was handed back to the queue, its
\* handler was cut short, the recipient lost its memory, or the filter had to
\* forget it: nothing else gives a message a second identity.
THEOREM SecondTimeExplained == DeliverySpec => []TwiceOnlyIfReissued
<1>1. DeliveryInv /\ OncePerIdentity => TwiceOnlyIfReissued
  <2> SUFFICES ASSUME DeliveryInv, OncePerIdentity, NEW p \in Peers,
                      NEW i \in 1..Len(processed[p]), NEW j \in 1..Len(processed[p]),
                      i < j, processed[p][i].content = processed[p][j].content,
                      processed[p][i].content \notin reissued \cup torn, ~(restarts > 0)
               PROVE  j - i > MaxTracked
    BY DEF TwiceOnlyIfReissued
  <2>1. restarts = 0
    BY DEF DeliveryInv, NetworkOK
  <2>2. processed[p][i] \in Seen /\ processed[p][j] \in Seen
    BY DEF Seen, Done
  <2>3. processed[p][i].msg_id = processed[p][j].msg_id
    BY <2>1, <2>2 DEF DeliveryInv, NamesOK
  <2> QED
    BY <2>1, <2>3 DEF OncePerIdentity
<1> QED
  BY <1>1, DeliveryInvariance, IdentityProcessedOnce, PTL

FirstInv == NumbersOK /\ FirstOK

\* The numbers and the first connection keep what the two invariants say.
THEOREM FirstInvariance == DeliverySpec => []FirstInv
<1>1. DeliveryInit => FirstInv
  <2> SUFFICES ASSUME DeliveryInit PROVE FirstInv
    OBVIOUS
  <2>1. /\ Mentions = {} /\ wire = {} /\ seqCounter = 1 /\ connections = 0 /\ linked = {}
        /\ answers = {} /\ acked = {}
    BY DEF DeliveryInit, Init, EmptyTables, Mentions, Records, Down
  <2>2. \A p \in Peers : /\ Held(p) = {} /\ Done(p) = {}
                         /\ lastSeq[p] = 0 /\ DOMAIN buffer[p] = {}
    BY DEF DeliveryInit, Tracker!TrackerInit, Held, Done
  <2>3. Seen = {}
    BY <2>1, <2>2 DEF Seen
  <2> QED
    BY <2>1, <2>2, <2>3 DEF FirstInv, NumbersOK, FirstOK, Lossless
<1>2. ASSUME DeliveryInv, DeliveryInv', FirstInv, [DeliveryNext]_deliveryVars
      PROVE  FirstInv'
  <2>1. NumbersOK'
    BY <1>2, NumbersStep DEF DeliveryInv, PlaceInv, FirstInv
  <2>2. FirstOK'
    BY <1>2, LosslessStep DEF DeliveryInv, FirstInv
  <2> QED
    BY <2>1, <2>2 DEF FirstInv
<1> QED
  BY <1>1, <1>2, DeliveryInvariance, PTL DEF DeliverySpec

\* As long as a sender with a single recipient has made one connection, nobody has
\* lost its memory and nothing was handed back: an acknowledged message was
\* processed, or waits behind numbers that are all in flight or buffered.
THEOREM FirstConnectionKeepsAll == DeliverySpec => []FirstConnectionLosesNothing
<1>1. ASSUME DeliveryInv, FirstInv PROVE FirstConnectionLosesNothing
  <2> SUFFICES ASSUME Undisturbed, NEW p \in Peers, Sole(p), NEW c \in acked,
                      c \notin Finished(p)
               PROVE  \E s \in DOMAIN buffer[p] :
                        /\ buffer[p][s].content = c
                        /\ \A n \in (lastSeq[p] + 1)..(s - 1) :
                             n \in InFlightTo(p) \/ n \in DOMAIN buffer[p]
    BY DEF FirstConnectionLosesNothing, Undisturbed, Sole
  <2>1. Lossless(p)
    BY <1>1 DEF FirstInv, FirstOK
  <2>2. PICK s \in DOMAIN buffer[p] : buffer[p][s].content = c
    BY <2>1 DEF Lossless
  <2>3. buffer[p][s] \in Seen /\ buffer[p][s].seq = s
    BY <1>1, ParametersOK DEF DeliveryInv, T!IInv, T!BufferBehindGap, Seen, Held
  <2>4. s \in 1..(seqCounter - 1) /\ seqCounter \in Nat /\ lastSeq[p] \in Nat
    BY <1>1, <2>3, ParametersOK
    DEF DeliveryInv, PlaceInv, TypeInv, TypeOK, FirstInv, NumbersOK, Undisturbed,
        T!IInv, T!TrackerTypeOK
  <2>5. ASSUME NEW n \in (lastSeq[p] + 1)..(s - 1)
        PROVE  n \in InFlightTo(p) \/ n \in DOMAIN buffer[p]
    <3>1. n \in 1..(seqCounter - 1) /\ ~(n <= lastSeq[p])
      BY <2>4
    <3> QED
      BY <2>1, <3>1 DEF Lossless, Reached
  <2> QED
    BY <2>2, <2>5
<1> QED
  BY <1>1, DeliveryInvariance, FirstInvariance, PTL

=============================================================================
