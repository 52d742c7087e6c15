-------------------------- MODULE SequenceTracker --------------------------
(***************************************************************************)
(* The per-sender reordering buffer of src/sequence.rs.  A message with    *)
(* the next number is handed to the caller together with the buffered      *)
(* messages that it makes contiguous; a message behind a gap is buffered;  *)
(* a message at or below the last number is dropped.  A new connection     *)
(* forgets everything about the peer.                                      *)
(*                                                                         *)
(* The HashMaps of the program are total functions here: a peer without an *)
(* entry has last number 0 and an empty buffer, the values that            *)
(* `unwrap_or(0)` and `or_default()` give it.                              *)
(***************************************************************************)
EXTENDS ReceiverParameters, Sequences, Functions

VARIABLES
  lastSeq,  \* lastSeq[p]: highest consecutive number handed over
  buffer,   \* buffer[p]: messages behind a gap, by sequence number
  released  \* history: what `ingest` returned for p since the last reset

trackerVars == <<lastSeq, buffer, released>>

\* BTreeMap<u64, ChatRequest>.
Buffers == UNION {[S -> Messages] : S \in SUBSET (0..MaxSeq)}

----------------------------------------------------------------------------

\* The last number of the run that starts with `last + 1` and continues
\* through the buffered numbers of buf: where the flush loop stops.
RunEnd(last, buf) ==
  CHOOSE n \in (last + 1)..(MaxSeq + 1) :
    /\ (last + 2)..n \subseteq DOMAIN buf
    /\ n + 1 \notin DOMAIN buf

\* Mutant: a message ahead of a gap is handed over at once.
OrderedEager(last, buf, m) ==
  IF m.seq = last + 1
    THEN [i \in 1..(RunEnd(last, buf) - last) |->
            IF i = 1 THEN m ELSE buf[last + i]]
    ELSE IF m.seq > last THEN <<m>> ELSE << >>

\* What `ingest` returns for the message m in a state (last, buf).
Ordered(last, buf, m) ==
  IF m.seq = last + 1
    THEN [i \in 1..(RunEnd(last, buf) - last) |->
            IF i = 1 THEN m ELSE buf[last + i]]
    ELSE << >>

\* Mutant: the flush reads the buffer without removing.
WithoutRunKept(last, buf) == buf

\* Mutant: the flush drops the whole buffer, not only the run.
WithoutRunAll(last, buf) == << >>

\* A buffer without the run that the flush loop removed.
WithoutRun(last, buf) ==
  Restrict(buf, DOMAIN buf \ ((last + 2)..RunEnd(last, buf)))

\* Mutant: the message is buffered under the number that follows its own.
InsertNext(buf, m) ==
  [s \in DOMAIN buf \cup {m.seq + 1} |-> IF s = m.seq + 1 THEN m ELSE buf[s]]

\* BTreeMap::insert: a message already buffered under this number is replaced.
Insert(buf, m) ==
  [s \in DOMAIN buf \cup {m.seq} |-> IF s = m.seq THEN m ELSE buf[s]]

\* seq <= last: already handed over in this epoch, or ad-hoc (seq 0).
Stale(p, m) ==
  /\ m.seq <= lastSeq[p]
  /\ UNCHANGED <<lastSeq, buffer>>

\* seq = last + 1: hand it over, and flush what became contiguous.
Advance(p, m) ==
  /\ m.seq = lastSeq[p] + 1
  /\ lastSeq' = [lastSeq EXCEPT ![p] = RunEnd(@, buffer[p])]
  /\ buffer' = [buffer EXCEPT ![p] = WithoutRun(lastSeq[p], @)]

\* A gap: keep the message until the gap is filled.
Hold(p, m) ==
  /\ m.seq > lastSeq[p] + 1
  /\ buffer' = [buffer EXCEPT ![p] = Insert(@, m)]
  /\ UNCHANGED lastSeq

Ingest(p, m) ==
  /\ Stale(p, m) \/ Advance(p, m) \/ Hold(p, m)
  /\ released' = [released EXCEPT ![p] = @ \o Ordered(lastSeq[p], buffer[p], m)]

\* Mutant: a new connection drops the buffer and keeps the last number.
ResetPeerBufferOnly(p) ==
  /\ buffer' = [buffer EXCEPT ![p] = << >>]
  /\ UNCHANGED <<lastSeq, released>>

ResetPeer(p) ==
  /\ lastSeq' = [lastSeq EXCEPT ![p] = 0]
  /\ buffer' = [buffer EXCEPT ![p] = << >>]
  /\ released' = [released EXCEPT ![p] = << >>]

TrackerInit ==
  /\ lastSeq = [p \in Peers |-> 0]
  /\ buffer = [p \in Peers |-> << >>]
  /\ released = [p \in Peers |-> << >>]

TrackerNext ==
  \E p \in Peers :
    \/ \E m \in Messages : Ingest(p, m)
    \/ ResetPeer(p)

TrackerSpec == TrackerInit /\ [][TrackerNext]_trackerVars

----------------------------------------------------------------------------

\* The two maps of the tracker hold numbers in range and buffers of requests.
TrackerTypeOK ==
  /\ lastSeq \in [Peers -> 0..MaxSeq]
  /\ buffer \in [Peers -> Buffers]
  /\ released \in [Peers -> Seq(Messages)]

\* Within an epoch the caller receives the numbers 1, 2, 3, ... without a gap,
\* a repetition or an inversion, whatever order the messages arrived in.
ReleasedInOrder ==
  \A p \in Peers :
    /\ Len(released[p]) = lastSeq[p]
    /\ \A i \in 1..Len(released[p]) : released[p][i].seq = i

\* The buffer never keeps a message that could be handed over: the flush loop
\* runs until the next number is missing, and nothing stale is ever buffered.
\* Each entry stands under its own number.
BufferBehindGap ==
  \A p \in Peers : \A s \in DOMAIN buffer[p] :
    /\ s > lastSeq[p] + 1
    /\ buffer[p][s].seq = s

\* A message kept behind a gap leaves the buffer only for the caller, at a
\* reset of its peer, or when a message with the same number replaces it.
HeldUntilReleased ==
  [][\A p \in Peers : \A s \in DOMAIN buffer[p] :
       \/ s \in DOMAIN buffer'[p]
       \/ released'[p] = << >> /\ buffer'[p] = << >>
       \/ s <= Len(released'[p]) /\ released'[p][s] = buffer[p][s]]_trackerVars

\* Refinement mapping: the numbers that arrived in this epoch, as the tracker
\* remembers them.
Arrived == [p \in Peers |-> (1..lastSeq[p]) \cup DOMAIN buffer[p]]

Order == INSTANCE InOrderDelivery WITH arrived <- Arrived, handed <- lastSeq

\* The tracker hands over the longest gap-free prefix of what arrived.
Ordering == Order!Spec

=============================================================================
