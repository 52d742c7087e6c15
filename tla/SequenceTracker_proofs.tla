----------------------- MODULE SequenceTracker_proofs -----------------------
(***************************************************************************)
(* Proofs about SequenceTracker, for every set of peers and messages and   *)
(* every bound on the numbers.  The inductive invariant is the conjunction *)
(* of the three invariants that the runs check: the flush hands over       *)
(* 1, 2, 3, ... only because each buffered message stands under its own    *)
(* number, and nothing that could be handed over is left behind only       *)
(* because the run ends at a number that is missing.                       *)
(***************************************************************************)
EXTENDS SequenceTracker, SequenceTheorems, WellFoundedInduction, TLAPS

\* The three facts that every `ingest` and every `reset_peer` preserves.
IInv == TrackerTypeOK /\ ReleasedInOrder /\ BufferBehindGap

----------------------------------------------------------------------------
(* Facts about the operators.                                              *)

\* A non-empty set of numbers has a least element.
LEMMA LeastElement ==
  ASSUME NEW T, T \subseteq Nat, T # {}
  PROVE  \E n \in T : \A k \in T : n <= k
<1>1. PICK n \in T : \A k \in T : ~(<<k, n>> \in OpToRel(<, Nat))
  BY WFMin, NatLessThanWellFounded
<1>2. \A k \in T : ~(k < n)
  BY <1>1 DEF OpToRel
<1> QED
  BY <1>2

\* A buffer is a function from numbers to messages.
LEMMA BufferIs ==
  ASSUME NEW b
  PROVE  b \in Buffers <=> /\ b \in [DOMAIN b -> Messages]
                           /\ DOMAIN b \subseteq 0..MaxSeq
BY DEF Buffers

\* The empty buffer is one.
LEMMA EmptyBuffer == << >> \in Buffers
<1>1. << >> \in [{} -> Messages]
  OBVIOUS
<1> QED
  BY <1>1 DEF Buffers

\* The flush loop of `ingest` ends, inside the numbers, at the first number
\* that is not buffered.
LEMMA RunEndIs ==
  ASSUME NEW last \in Nat, last + 1 <= MaxSeq, NEW buf \in Buffers
  PROVE  /\ RunEnd(last, buf) \in (last + 1)..MaxSeq
         /\ (last + 2)..RunEnd(last, buf) \subseteq DOMAIN buf
         /\ RunEnd(last, buf) + 1 \notin DOMAIN buf
<1> USE SeqAssumption
<1> DEFINE T == {n \in Nat : n >= last + 1 /\ n + 1 \notin DOMAIN buf}
<1> DEFINE Ends(n) == /\ (last + 2)..n \subseteq DOMAIN buf
                      /\ n + 1 \notin DOMAIN buf
<1>1. MaxSeq \in T
  BY BufferIs
<1>2. PICK n \in T : \A k \in T : n <= k
  BY <1>1, LeastElement
<1>3. n \in (last + 1)..MaxSeq
  BY <1>1, <1>2
<1>4. \A k \in (last + 2)..n : k \in DOMAIN buf
  <2> TAKE k \in (last + 2)..n
  <2>1. k - 1 \in Nat /\ k - 1 >= last + 1 /\ k - 1 < n
    BY <1>3
  <2>2. k - 1 \notin T
    BY <1>2, <2>1, <1>3
  <2> QED
    BY <2>1, <2>2
<1>5. Ends(n)
  BY <1>2, <1>4
<1>6. RunEnd(last, buf) \in (last + 1)..(MaxSeq + 1) /\ Ends(RunEnd(last, buf))
  <2>1. \E k \in (last + 1)..(MaxSeq + 1) : Ends(k)
    BY <1>3, <1>5
  <2>2. RunEnd(last, buf) = CHOOSE k \in (last + 1)..(MaxSeq + 1) : Ends(k)
    BY DEF RunEnd
  <2> HIDE DEF Ends
  <2> QED
    BY <2>1, <2>2, Zenon
<1>7. RunEnd(last, buf) # MaxSeq + 1
  BY <1>6, BufferIs
<1> QED
  BY <1>6, <1>7

\* The messages handed over by one call carry last + 1, last + 2, ... up to
\* the end of the run; a buffered message is handed over as it is.
LEMMA OrderedIs ==
  ASSUME NEW last \in Nat, NEW buf \in Buffers, NEW m \in Messages,
         m.seq = last + 1
  PROVE  /\ Ordered(last, buf, m) \in Seq(Messages)
         /\ Len(Ordered(last, buf, m)) = RunEnd(last, buf) - last
         /\ Ordered(last, buf, m)[1] = m
         /\ \A i \in 2..(RunEnd(last, buf) - last) :
              Ordered(last, buf, m)[i] = buf[last + i]
<1> DEFINE e == RunEnd(last, buf)
<1> DEFINE f == [i \in 1..(e - last) |-> IF i = 1 THEN m ELSE buf[last + i]]
<1>1. /\ e \in (last + 1)..MaxSeq
      /\ (last + 2)..e \subseteq DOMAIN buf
  BY RunEndIs, SeqAssumption
<1>2. e - last \in Nat /\ e - last >= 1
  BY <1>1, SeqAssumption
<1>3. \A i \in 1..(e - last) : f[i] \in Messages
  <2> TAKE i \in 1..(e - last)
  <2>1. CASE i = 1
    BY <2>1
  <2>2. CASE i # 1
    <3>1. last + i \in DOMAIN buf
      BY <1>1, <2>2, SeqAssumption
    <3> QED
      BY <3>1, <2>2, BufferIs
  <2> QED
    BY <2>1, <2>2
<1>4. f \in Seq(Messages) /\ Len(f) = e - last
  BY <1>2, <1>3, IsASeq
<1>5. Ordered(last, buf, m) = f
  BY DEF Ordered
<1> HIDE DEF e
<1>6. f[1] = m /\ \A i \in 2..(e - last) : f[i] = buf[last + i]
  BY <1>2
<1> QED
  BY <1>4, <1>5, <1>6 DEF e

----------------------------------------------------------------------------
(* The invariant.                                                          *)

\* The tracker starts with no entry for any peer.
LEMMA InitIInv == TrackerInit => IInv
<1> SUFFICES ASSUME TrackerInit PROVE IInv
  OBVIOUS
<1>1. TrackerTypeOK
  BY EmptyBuffer, SeqAssumption DEF TrackerInit, TrackerTypeOK
<1> QED
  BY <1>1 DEF TrackerInit, IInv, ReleasedInOrder, BufferBehindGap

\* A message at or below the last number changes nothing.
LEMMA StaleIInv ==
  ASSUME IInv, NEW p \in Peers, NEW m \in Messages, Ingest(p, m), Stale(p, m)
  PROVE  UNCHANGED trackerVars
<1>1. lastSeq[p] \in Nat /\ released[p] \in Seq(Messages)
  BY SeqAssumption DEF IInv, TrackerTypeOK
<1>2. Ordered(lastSeq[p], buffer[p], m) = << >>
  BY <1>1, SeqAssumption DEF Stale, Ordered
<1>3. released' = [released EXCEPT ![p] = @ \o << >>]
  BY <1>2 DEF Ingest
<1>4. released' = released
  BY <1>1, <1>3, ConcatEmptySeq DEF IInv, TrackerTypeOK
<1> QED
  BY <1>4 DEF Stale, trackerVars

\* The next number: its run is handed over and leaves the buffer.
LEMMA AdvanceIs ==
  ASSUME IInv, NEW p \in Peers, NEW m \in Messages, Ingest(p, m), Advance(p, m)
  PROVE  /\ lastSeq'[p] \in (lastSeq[p] + 1)..MaxSeq
         /\ (lastSeq[p] + 2)..lastSeq'[p] \subseteq DOMAIN buffer[p]
         /\ lastSeq'[p] + 1 \notin DOMAIN buffer[p]
         /\ buffer'[p] \in Buffers
         /\ DOMAIN buffer'[p] = DOMAIN buffer[p] \ ((lastSeq[p] + 2)..lastSeq'[p])
         /\ \A s \in DOMAIN buffer'[p] : buffer'[p][s] = buffer[p][s]
         /\ released'[p] \in Seq(Messages)
         /\ Len(released'[p]) = lastSeq'[p]
         /\ \A i \in 1..lastSeq[p] : released'[p][i] = released[p][i]
         /\ released'[p][lastSeq[p] + 1] = m
         /\ \A i \in (lastSeq[p] + 2)..lastSeq'[p] : released'[p][i] = buffer[p][i]
<1> DEFINE last == lastSeq[p]
<1> DEFINE buf == buffer[p]
<1> DEFINE e == RunEnd(last, buf)
<1> DEFINE ord == Ordered(last, buf, m)
<1>1. /\ last \in Nat /\ last + 1 <= MaxSeq /\ m.seq = last + 1
      /\ buf \in Buffers
      /\ released[p] \in Seq(Messages) /\ Len(released[p]) = last
  BY SeqAssumption DEF Advance, IInv, TrackerTypeOK, ReleasedInOrder
<1>2. lastSeq'[p] = e
  BY DEF Advance, IInv, TrackerTypeOK
<1>3. /\ e \in (last + 1)..MaxSeq
      /\ (last + 2)..e \subseteq DOMAIN buf
      /\ e + 1 \notin DOMAIN buf
  BY <1>1, RunEndIs
<1>4. buffer'[p] = [s \in DOMAIN buf \ ((last + 2)..e) |-> buf[s]]
  BY DEF Advance, IInv, TrackerTypeOK, WithoutRun, Restrict
<1>5. buffer'[p] \in Buffers
  BY <1>1, <1>4, BufferIs
<1>6. /\ ord \in Seq(Messages) /\ Len(ord) = e - last /\ ord[1] = m
      /\ \A i \in 2..(e - last) : ord[i] = buf[last + i]
  BY <1>1, OrderedIs
<1>7. released'[p] = released[p] \o ord
  BY DEF Ingest, IInv, TrackerTypeOK
<1> HIDE DEF last, buf, e, ord
<1>8. /\ released'[p] \in Seq(Messages)
      /\ Len(released'[p]) = last + (e - last)
      /\ \A i \in 1..(last + (e - last)) :
           released'[p][i] = IF i <= last THEN released[p][i] ELSE ord[i - last]
  <2> DEFINE old == released[p]
  <2>1. /\ old \o ord \in Seq(Messages)
        /\ Len(old \o ord) = Len(old) + Len(ord)
        /\ \A i \in 1..(Len(old) + Len(ord)) :
             (old \o ord)[i] = IF i <= Len(old) THEN old[i] ELSE ord[i - Len(old)]
    <3> HIDE DEF old
    <3>1. old \in Seq(Messages)
      BY <1>1 DEF old
    <3> QED
      BY <1>6, <3>1, ConcatProperties
  <2> QED
    BY <1>1, <1>6, <1>7, <2>1
<1>9. /\ Len(released'[p]) = e
      /\ \A i \in 1..last : released'[p][i] = released[p][i]
      /\ released'[p][last + 1] = m
  <2>1. /\ last \in Nat /\ e \in Int /\ last + (e - last) = e
        /\ last + 1 \in 1..(last + (e - last)) /\ ~(last + 1 <= last)
        /\ (last + 1) - last = 1
    BY <1>1, <1>3, SeqAssumption
  <2>2. \A i \in 1..last : i \in 1..(last + (e - last)) /\ i <= last
    BY <2>1
  <2>3. Len(released'[p]) = e
    BY <1>8, <2>1
  <2>4. \A i \in 1..last : released'[p][i] = released[p][i]
    BY <1>8, <2>2
  <2>5. released'[p][last + 1] = ord[1]
    BY <1>8, <2>1
  <2> QED
    BY <1>6, <2>3, <2>4, <2>5
<1>10. \A i \in (last + 2)..e : released'[p][i] = buf[i]
  <2> TAKE i \in (last + 2)..e
  <2>1. i - last \in 2..(e - last) /\ last + (i - last) = i /\ ~(i <= last)
        /\ i \in 1..(last + (e - last))
    BY <1>1, <1>3, SeqAssumption
  <2> QED
    BY <1>6, <1>8, <2>1
<1> QED
  BY <1>2, <1>3, <1>4, <1>5, <1>8, <1>9, <1>10 DEF last, buf

\* A message behind a gap: it enters the buffer under its own number.
LEMMA HoldIs ==
  ASSUME IInv, NEW p \in Peers, NEW m \in Messages, Ingest(p, m), Hold(p, m)
  PROVE  /\ lastSeq' = lastSeq
         /\ released' = released
         /\ buffer'[p] \in Buffers
         /\ DOMAIN buffer'[p] = DOMAIN buffer[p] \cup {m.seq}
         /\ buffer'[p][m.seq] = m
         /\ \A s \in DOMAIN buffer[p] \ {m.seq} : buffer'[p][s] = buffer[p][s]
<1>1. lastSeq[p] \in Nat /\ released[p] \in Seq(Messages) /\ buffer[p] \in Buffers
  BY SeqAssumption DEF IInv, TrackerTypeOK
<1>2. Ordered(lastSeq[p], buffer[p], m) = << >>
  BY <1>1, SeqAssumption DEF Hold, Ordered
<1>3. released' = [released EXCEPT ![p] = @ \o << >>]
  BY <1>2 DEF Ingest
<1>4. released' = released
  BY <1>1, <1>3, ConcatEmptySeq DEF IInv, TrackerTypeOK
<1>5. buffer'[p] = [s \in DOMAIN buffer[p] \cup {m.seq} |->
                      IF s = m.seq THEN m ELSE buffer[p][s]]
  BY DEF Hold, Insert, IInv, TrackerTypeOK
<1>6. buffer'[p] \in Buffers
  BY <1>1, <1>5, BufferIs, SeqAssumption
<1> QED
  BY <1>4, <1>5, <1>6 DEF Hold

\* What an action does to the entry of p it does not do to the others.
LEMMA OthersUnchanged ==
  ASSUME IInv, NEW p \in Peers,
         (\E m \in Messages : Ingest(p, m)) \/ ResetPeer(p),
         NEW q \in Peers, q # p
  PROVE  /\ lastSeq'[q] = lastSeq[q]
         /\ buffer'[q] = buffer[q]
         /\ released'[q] = released[q]
BY DEF IInv, TrackerTypeOK, Ingest, Stale, Advance, Hold, ResetPeer

\* Whatever `ingest` returns is a sequence of requests, and what was released
\* is extended by it.
LEMMA ReleasesAre ==
  ASSUME IInv, NEW p \in Peers, NEW m \in Messages, Ingest(p, m)
  PROVE  LET ordered == Ordered(lastSeq[p], buffer[p], m)
         IN /\ ordered \in Seq(Messages)
            /\ \A i \in 1..Len(released'[p]) :
                 \/ i \in 1..Len(released[p]) /\ released'[p][i] = released[p][i]
                 \/ \E j \in 1..Len(ordered) : released'[p][i] = ordered[j]
            /\ \A q \in Peers \ {p} : released'[q] = released[q]
<1> DEFINE ordered == Ordered(lastSeq[p], buffer[p], m)
<1> DEFINE old == released[p]
<1>1. /\ lastSeq[p] \in Nat /\ buffer[p] \in Buffers
      /\ old \in Seq(Messages) /\ Len(old) \in Nat
  BY SeqAssumption DEF IInv, TrackerTypeOK
<1>2. ordered \in Seq(Messages) /\ Len(ordered) \in Nat
  <2>1. CASE m.seq = lastSeq[p] + 1
    BY <1>1, <2>1, OrderedIs
  <2>2. CASE m.seq # lastSeq[p] + 1
    BY <2>2 DEF Ordered
  <2> QED
    BY <2>1, <2>2
<1>3. /\ released'[p] = old \o ordered
      /\ \A q \in Peers \ {p} : released'[q] = released[q]
  BY DEF Ingest, IInv, TrackerTypeOK
<1> HIDE DEF ordered, old
<1>4. /\ Len(old \o ordered) = Len(old) + Len(ordered)
      /\ \A i \in 1..(Len(old) + Len(ordered)) :
           (old \o ordered)[i] =
             IF i <= Len(old) THEN old[i] ELSE ordered[i - Len(old)]
  BY <1>1, <1>2, ConcatProperties
<1>5. ASSUME NEW i \in 1..Len(released'[p])
      PROVE  \/ i \in 1..Len(old) /\ released'[p][i] = old[i]
             \/ \E j \in 1..Len(ordered) : released'[p][i] = ordered[j]
  <2>1. i \in 1..(Len(old) + Len(ordered))
    BY <1>3, <1>4, <1>5
  <2>2. CASE i <= Len(old)
    BY <1>1, <1>3, <1>4, <2>1, <2>2
  <2>3. CASE ~(i <= Len(old))
    <3>1. i - Len(old) \in 1..Len(ordered)
      BY <1>1, <1>2, <2>1, <2>3
    <3> QED
      BY <1>3, <1>4, <2>1, <2>3, <3>1
  <2> QED
    BY <2>2, <2>3
<1> QED
  BY <1>2, <1>3, <1>5 DEF ordered, old

\* Nothing is made up: what `ingest` returns, and what it leaves in the buffer, is
\* the message it was given or was in the buffer before.
LEMMA IngestMoves ==
  ASSUME IInv, NEW p \in Peers, NEW m \in Messages, Ingest(p, m)
  PROVE  LET ordered == Ordered(lastSeq[p], buffer[p], m)
         IN /\ \A i \in 1..Len(ordered) :
                 ordered[i] = m \/ \E s \in DOMAIN buffer[p] : ordered[i] = buffer[p][s]
            /\ \A s \in DOMAIN buffer'[p] :
                 \/ buffer'[p][s] = m
                 \/ s \in DOMAIN buffer[p] /\ buffer'[p][s] = buffer[p][s]
            /\ \A q \in Peers \ {p} : buffer'[q] = buffer[q]
<1> DEFINE ordered == Ordered(lastSeq[p], buffer[p], m)
<1>1. lastSeq[p] \in Nat /\ buffer[p] \in Buffers
  BY SeqAssumption DEF IInv, TrackerTypeOK
<1>2. \A q \in Peers \ {p} : buffer'[q] = buffer[q]
  BY OthersUnchanged
<1>3. CASE Stale(p, m)
  <2>1. ordered = << >>
    BY <1>1, <1>3, SeqAssumption DEF Stale, Ordered
  <2>2. buffer' = buffer /\ Len(<< >>) = 0
    BY <1>3 DEF Stale
  <2> HIDE DEF ordered
  <2> QED
    BY <1>2, <2>1, <2>2 DEF ordered
<1>4. CASE Hold(p, m)
  <2>1. ordered = << >>
    BY <1>1, <1>4, SeqAssumption DEF Hold, Ordered
  <2>2. /\ DOMAIN buffer'[p] = DOMAIN buffer[p] \cup {m.seq}
        /\ buffer'[p][m.seq] = m
        /\ \A s \in DOMAIN buffer[p] : s # m.seq => buffer'[p][s] = buffer[p][s]
    BY <1>4, HoldIs
  <2> HIDE DEF ordered
  <2> QED
    BY <1>2, <2>1, <2>2 DEF ordered
<1>5. CASE Advance(p, m)
  <2>1. /\ m.seq = lastSeq[p] + 1 /\ lastSeq[p] + 1 <= MaxSeq
    BY <1>1, <1>5, SeqAssumption DEF Advance
  <2> DEFINE e == RunEnd(lastSeq[p], buffer[p])
  <2>2. /\ e \in (lastSeq[p] + 1)..MaxSeq
        /\ (lastSeq[p] + 2)..e \subseteq DOMAIN buffer[p]
    BY <1>1, <2>1, RunEndIs
  <2>3. /\ Len(ordered) = e - lastSeq[p] /\ ordered[1] = m
        /\ \A i \in 2..(e - lastSeq[p]) : ordered[i] = buffer[p][lastSeq[p] + i]
    BY <1>1, <2>1, OrderedIs
  <2> HIDE DEF ordered, e
  <2>4. \A i \in 1..Len(ordered) :
          ordered[i] = m \/ \E s \in DOMAIN buffer[p] : ordered[i] = buffer[p][s]
    <3> TAKE i \in 1..Len(ordered)
    <3>1. CASE i = 1
      BY <2>3, <3>1
    <3>2. CASE i # 1
      <4>1. /\ i \in 2..(e - lastSeq[p])
            /\ lastSeq[p] + i \in (lastSeq[p] + 2)..e
        BY <1>1, <2>2, <2>3, <3>2, SeqAssumption
      <4> QED
        BY <2>2, <2>3, <4>1
    <3> QED
      BY <3>1, <3>2
  <2>5. /\ DOMAIN buffer'[p] = DOMAIN buffer[p] \ ((lastSeq[p] + 2)..lastSeq'[p])
        /\ \A s \in DOMAIN buffer'[p] : buffer'[p][s] = buffer[p][s]
    BY <1>5, AdvanceIs
  <2> QED
    BY <1>2, <2>4, <2>5 DEF ordered
<1> QED
  BY <1>3, <1>4, <1>5 DEF Ingest

\* The claims of the invariant about one peer.
Good(p) ==
  /\ lastSeq[p] \in 0..MaxSeq
  /\ buffer[p] \in Buffers
  /\ released[p] \in Seq(Messages)
  /\ Len(released[p]) = lastSeq[p]
  /\ \A i \in 1..Len(released[p]) : released[p][i].seq = i
  /\ \A s \in DOMAIN buffer[p] : s > lastSeq[p] + 1 /\ buffer[p][s].seq = s

\* `ingest` preserves the claims about its peer.
LEMMA IngestGood ==
  ASSUME IInv, NEW p \in Peers, NEW m \in Messages, Ingest(p, m)
  PROVE  Good(p)'
<1>1. Good(p)
  BY DEF IInv, TrackerTypeOK, ReleasedInOrder, BufferBehindGap, Good
<1>2. CASE Stale(p, m)
  BY <1>1, <1>2, StaleIInv DEF trackerVars, Good
<1>3. CASE Advance(p, m)
  <2>1. /\ lastSeq'[p] \in 0..MaxSeq
        /\ lastSeq[p] \in Nat /\ lastSeq[p] < lastSeq'[p]
    BY <1>1, <1>3, AdvanceIs, SeqAssumption DEF Good
  <2>2. \A i \in 1..Len(released'[p]) : released'[p][i].seq = i
    <3> TAKE i \in 1..Len(released'[p])
    <3>1. CASE i <= lastSeq[p]
      <4>1. i \in 1..lastSeq[p] /\ lastSeq[p] = Len(released[p])
        BY <1>1, <1>3, <2>1, <3>1, AdvanceIs DEF Good
      <4>2. released'[p][i] = released[p][i]
        BY <1>3, <4>1, AdvanceIs
      <4> QED
        BY <1>1, <4>1, <4>2 DEF Good
    <3>2. CASE i = lastSeq[p] + 1
      BY <1>3, <3>2, AdvanceIs DEF Advance
    <3>3. CASE i > lastSeq[p] + 1
      <4>1. i \in (lastSeq[p] + 2)..lastSeq'[p]
        BY <1>3, <2>1, <3>3, AdvanceIs
      <4> QED
        BY <1>1, <1>3, <4>1, AdvanceIs DEF Good
    <3> QED
      BY <2>1, <3>1, <3>2, <3>3
  <2>3. \A s \in DOMAIN buffer'[p] : s > lastSeq'[p] + 1 /\ buffer'[p][s].seq = s
    <3> TAKE s \in DOMAIN buffer'[p]
    <3>1. /\ s \in DOMAIN buffer[p] /\ s \notin (lastSeq[p] + 2)..lastSeq'[p]
          /\ s # lastSeq'[p] + 1 /\ buffer'[p][s] = buffer[p][s]
      BY <1>3, AdvanceIs
    <3>2. s \in Nat /\ s > lastSeq[p] + 1 /\ buffer[p][s].seq = s
      BY <1>1, <3>1, BufferIs DEF Good
    <3> QED
      BY <2>1, <3>1, <3>2
  <2> QED
    BY <1>3, <2>1, <2>2, <2>3, AdvanceIs DEF Good
<1>4. CASE Hold(p, m)
  <2>1. \A s \in DOMAIN buffer'[p] : s > lastSeq'[p] + 1 /\ buffer'[p][s].seq = s
    <3> TAKE s \in DOMAIN buffer'[p]
    <3>1. lastSeq' = lastSeq
      BY <1>4, HoldIs
    <3>2. CASE s = m.seq
      <4>1. buffer'[p][m.seq] = m
        BY <1>4, HoldIs
      <4>2. m.seq > lastSeq[p] + 1
        BY <1>4 DEF Hold
      <4> QED
        BY <3>1, <3>2, <4>1, <4>2
    <3>3. CASE s # m.seq
      <4>1. s \in DOMAIN buffer[p] /\ buffer'[p][s] = buffer[p][s]
        BY <1>4, <3>3, HoldIs
      <4> QED
        BY <1>1, <3>1, <4>1 DEF Good
    <3> QED
      BY <3>2, <3>3
  <2> QED
    BY <1>1, <1>4, <2>1, HoldIs DEF Good
<1> QED
  BY <1>2, <1>3, <1>4 DEF Ingest

\* `reset_peer` brings its peer back to the initial state.
LEMMA ResetGood ==
  ASSUME IInv, NEW p \in Peers, ResetPeer(p)
  PROVE  Good(p)'
<1>1. lastSeq'[p] = 0 /\ buffer'[p] = << >> /\ released'[p] = << >>
  BY DEF ResetPeer, IInv, TrackerTypeOK
<1> QED
  BY <1>1, EmptyBuffer, SeqAssumption DEF Good

\* Every action touches one entry, and keeps the claims about it.
LEMMA StepIInv == IInv /\ [TrackerNext]_trackerVars => IInv'
<1> SUFFICES ASSUME IInv, [TrackerNext]_trackerVars PROVE IInv'
  OBVIOUS
<1>1. CASE UNCHANGED trackerVars
  BY <1>1 DEF IInv, TrackerTypeOK, ReleasedInOrder, BufferBehindGap, trackerVars
<1>2. ASSUME NEW p \in Peers, (\E m \in Messages : Ingest(p, m)) \/ ResetPeer(p)
      PROVE  IInv'
  <2>1. /\ lastSeq' = [lastSeq EXCEPT ![p] = lastSeq'[p]]
        /\ buffer' = [buffer EXCEPT ![p] = buffer'[p]]
        /\ released' = [released EXCEPT ![p] = released'[p]]
    BY <1>2 DEF IInv, TrackerTypeOK, Ingest, Stale, Advance, Hold, ResetPeer
  <2>2. \A q \in Peers : Good(q)'
    <3> TAKE q \in Peers
    <3>1. CASE q = p
      BY <1>2, <3>1, IngestGood, ResetGood
    <3>2. CASE q # p
      BY <1>2, <3>2, OthersUnchanged
      DEF Good, IInv, TrackerTypeOK, ReleasedInOrder, BufferBehindGap
    <3> QED
      BY <3>1, <3>2
  <2> QED
    BY <2>1, <2>2 DEF Good, IInv, TrackerTypeOK, ReleasedInOrder, BufferBehindGap
<1> QED
  BY <1>1, <1>2 DEF TrackerNext

\* All three invariants hold in every state.
THEOREM Invariance == TrackerSpec => []IInv
BY InitIInv, StepIInv, PTL DEF TrackerSpec

\* The maps of the tracker hold what their types say.
THEOREM TypeCorrect == TrackerSpec => []TrackerTypeOK
BY Invariance, PTL DEF IInv

\* In an epoch the application receives the numbers 1, 2, 3, ... in order,
\* whatever order the requests of a peer arrive in.
THEOREM InOrder == TrackerSpec => []ReleasedInOrder
BY Invariance, PTL DEF IInv

\* What stays in the buffer waits for a number that has not come.
THEOREM NothingReadyIsKept == TrackerSpec => []BufferBehindGap
BY Invariance, PTL DEF IInv

----------------------------------------------------------------------------
(* What leaves the buffer, and the abstract specification.                 *)

\* A message kept behind a gap is handed over, unless its peer is reset or a
\* message with its number takes its place.
THEOREM NothingHeldIsLost == TrackerSpec => HeldUntilReleased
<1> DEFINE Kept(p) ==
      \A s \in DOMAIN buffer[p] :
        \/ s \in DOMAIN buffer'[p]
        \/ released'[p] = << >> /\ buffer'[p] = << >>
        \/ s <= Len(released'[p]) /\ released'[p][s] = buffer[p][s]
<1>1. ASSUME IInv, [TrackerNext]_trackerVars PROVE [\A p \in Peers : Kept(p)]_trackerVars
  <2>1. CASE UNCHANGED trackerVars
    BY <2>1
  <2>2. ASSUME NEW p \in Peers, ResetPeer(p), NEW q \in Peers PROVE Kept(q)
    <3>1. CASE q = p
      BY <1>1, <2>2, <3>1 DEF ResetPeer, IInv, TrackerTypeOK
    <3>2. CASE q # p
      BY <1>1, <2>2, <3>2, OthersUnchanged
    <3> QED
      BY <3>1, <3>2
  <2>3. ASSUME NEW p \in Peers, NEW m \in Messages, Ingest(p, m), NEW q \in Peers
        PROVE  Kept(q)
    <3>1. CASE q # p
      BY <1>1, <2>3, <3>1, OthersUnchanged
    <3>2. CASE q = p /\ Stale(p, m)
      BY <3>2 DEF Stale
    <3>3. CASE q = p /\ Hold(p, m)
      <4>1. DOMAIN buffer'[p] = DOMAIN buffer[p] \cup {m.seq}
        BY <1>1, <2>3, <3>3, HoldIs
      <4> QED
        BY <3>3, <4>1
    <3>4. CASE q = p /\ Advance(p, m)
      <4> SUFFICES ASSUME NEW s \in DOMAIN buffer[p], s \notin DOMAIN buffer'[p]
                   PROVE  /\ s <= Len(released'[p])
                          /\ released'[p][s] = buffer[p][s]
        BY <3>4
      <4>1. DOMAIN buffer'[p] = DOMAIN buffer[p] \ ((lastSeq[p] + 2)..lastSeq'[p])
        BY <1>1, <2>3, <3>4, AdvanceIs
      <4>2. s \in (lastSeq[p] + 2)..lastSeq'[p]
        BY <4>1
      <4>3. /\ lastSeq'[p] \in (lastSeq[p] + 1)..MaxSeq
            /\ Len(released'[p]) = lastSeq'[p]
        BY <1>1, <2>3, <3>4, AdvanceIs
      <4>4. released'[p][s] = buffer[p][s]
        BY <1>1, <2>3, <3>4, <4>2, AdvanceIs
      <4> QED
        BY <4>2, <4>3, <4>4
    <3> QED
      BY <2>3, <3>1, <3>2, <3>3, <3>4 DEF Ingest
  <2> QED
    BY <1>1, <2>1, <2>2, <2>3 DEF TrackerNext
<1> QED
  BY <1>1, Invariance, PTL DEF TrackerSpec, HeldUntilReleased

\* The number of what was handed over is the end of the gap-free prefix.
LEMMA PrefixEndIs ==
  ASSUME NEW S, NEW n \in 0..MaxSeq, 1..n \subseteq S, n + 1 \notin S
  PROVE  Order!PrefixEnd(S) = n
<1> DEFINE Ends(k) == 1..k \subseteq S /\ k + 1 \notin S
<1> DEFINE e == CHOOSE k \in 0..MaxSeq : Ends(k)
<1>1. e \in 0..MaxSeq /\ Ends(e)
  <2>1. \E k \in 0..MaxSeq : Ends(k)
    OBVIOUS
  <2> HIDE DEF Ends
  <2> QED
    BY <2>1, Zenon
<1>2. Order!PrefixEnd(S) = e
  BY DEF Order!PrefixEnd
<1> HIDE DEF e
<1>3. ~(e < n)
  <2> SUFFICES ASSUME e < n PROVE FALSE
    OBVIOUS
  <2>1. e + 1 \in 1..n
    BY <1>1, SeqAssumption
  <2> QED
    BY <1>1, <2>1
<1>4. ~(n < e)
  <2> SUFFICES ASSUME n < e PROVE FALSE
    OBVIOUS
  <2>1. n + 1 \in 1..e
    BY <1>1, SeqAssumption
  <2> QED
    BY <1>1, <2>1
<1> QED
  BY <1>1, <1>2, <1>3, <1>4, SeqAssumption

\* A message that is not stale arrives, in the terms of the abstract
\* specification, and the hand-over follows.
LEMMA ArrivalImplements ==
  ASSUME IInv, NEW p \in Peers, NEW m \in Messages, Ingest(p, m), ~Stale(p, m)
  PROVE  Order!Arrive(p, m.seq)
<1>1. Good(p) /\ Good(p)'
  BY IngestGood DEF IInv, TrackerTypeOK, ReleasedInOrder, BufferBehindGap, Good
<1>2. /\ Arrived \in [Peers -> SUBSET Nat]
      /\ \A q \in Peers : Arrived[q] = (1..lastSeq[q]) \cup DOMAIN buffer[q]
      /\ \A q \in Peers : Arrived'[q] = (1..lastSeq'[q]) \cup DOMAIN buffer'[q]
  BY BufferIs, SeqAssumption DEF Arrived, IInv, TrackerTypeOK
<1>3. Arrived'[p] = Arrived[p] \cup {m.seq}
  <2>1. CASE Advance(p, m)
    <3>1. /\ lastSeq[p] \in Nat /\ m.seq = lastSeq[p] + 1
          /\ lastSeq'[p] \in (lastSeq[p] + 1)..MaxSeq
          /\ (lastSeq[p] + 2)..lastSeq'[p] \subseteq DOMAIN buffer[p]
          /\ DOMAIN buffer'[p] = DOMAIN buffer[p] \ ((lastSeq[p] + 2)..lastSeq'[p])
      <4>1. lastSeq[p] \in Nat
        BY <1>1, SeqAssumption DEF Good
      <4>2. m.seq = lastSeq[p] + 1
        BY <2>1 DEF Advance
      <4> QED
        BY <2>1, <4>1, <4>2, AdvanceIs
    <3>2. 1..lastSeq'[p] = (1..lastSeq[p]) \cup {m.seq}
                             \cup ((lastSeq[p] + 2)..lastSeq'[p])
      BY <3>1, SeqAssumption
    <3> QED
      BY <1>2, <3>1, <3>2
  <2>2. CASE Hold(p, m)
    BY <1>2, <2>2, HoldIs
  <2> QED
    BY <2>1, <2>2 DEF Ingest
<1>4. \A q \in Peers \ {p} : Arrived'[q] = Arrived[q]
  <2> TAKE q \in Peers \ {p}
  <2>1. lastSeq'[q] = lastSeq[q] /\ buffer'[q] = buffer[q]
    BY OthersUnchanged
  <2> QED
    BY <1>2, <2>1
<1>5. Arrived' = [Arrived EXCEPT ![p] = @ \cup {m.seq}]
  <2>1. Arrived' = [q \in Peers |-> Arrived'[q]]
    BY DEF Arrived
  <2> QED
    BY <1>2, <1>3, <1>4, <2>1
<1>6. Order!PrefixEnd(Arrived'[p]) = lastSeq'[p]
  <2>1. lastSeq'[p] \in 0..MaxSeq /\ lastSeq'[p] + 1 \notin DOMAIN buffer'[p]
    BY <1>1, BufferIs, SeqAssumption DEF Good
  <2>2. 1..lastSeq'[p] \subseteq Arrived'[p] /\ lastSeq'[p] + 1 \notin Arrived'[p]
    BY <1>2, <2>1, SeqAssumption
  <2> QED
    BY <2>1, <2>2, PrefixEndIs
<1>7. lastSeq' = [lastSeq EXCEPT ![p] = lastSeq'[p]]
  BY DEF IInv, TrackerTypeOK, Ingest, Stale, Advance, Hold
<1> QED
  BY <1>5, <1>6, <1>7 DEF Order!Arrive

\* A reset is a new epoch.
LEMMA ResetImplements ==
  ASSUME IInv, NEW p \in Peers, ResetPeer(p)
  PROVE  Order!NewEpoch(p)
<1>1. lastSeq' = [lastSeq EXCEPT ![p] = 0] /\ buffer' = [buffer EXCEPT ![p] = << >>]
  BY DEF ResetPeer
<1>2. lastSeq \in [Peers -> Nat] /\ buffer \in [Peers -> Buffers]
  BY SeqAssumption DEF IInv, TrackerTypeOK
<1>3. Arrived' = [q \in Peers |-> (1..lastSeq'[q]) \cup DOMAIN buffer'[q]]
  BY DEF Arrived
<1>4. /\ lastSeq'[p] = 0 /\ buffer'[p] = << >>
      /\ \A q \in Peers \ {p} : lastSeq'[q] = lastSeq[q] /\ buffer'[q] = buffer[q]
  BY <1>1, <1>2
<1>5. 1..0 = {} /\ DOMAIN << >> = {}
  OBVIOUS
<1>6. Arrived'[p] = {}
  BY <1>3, <1>4, <1>5
<1>7. \A q \in Peers \ {p} : Arrived'[q] = Arrived[q]
  BY <1>3, <1>4 DEF Arrived
<1>8. Arrived' = [q \in Peers |-> IF q = p THEN {} ELSE Arrived[q]]
  BY <1>3, <1>6, <1>7
<1>9. Arrived' = [Arrived EXCEPT ![p] = {}]
  BY <1>8 DEF Arrived
<1> QED
  BY <1>1, <1>9 DEF Order!NewEpoch

\* The tracker, whatever it keeps in its buffer, hands over the longest
\* gap-free prefix of what arrived.
THEOREM Implements == TrackerSpec => Ordering
<1>1. TrackerInit => Order!Init
  BY DEF TrackerInit, Arrived, Order!Init
<1>2. IInv /\ [TrackerNext]_trackerVars => [Order!Next]_(Order!vars)
  <2> SUFFICES ASSUME IInv, [TrackerNext]_trackerVars PROVE [Order!Next]_(Order!vars)
    OBVIOUS
  <2>1. CASE UNCHANGED trackerVars
    BY <2>1 DEF trackerVars, Order!vars, Arrived
  <2>2. ASSUME NEW p \in Peers, NEW m \in Messages, Ingest(p, m)
        PROVE  [Order!Next]_(Order!vars)
    <3>1. CASE Stale(p, m)
      BY <2>2, <3>1, StaleIInv DEF trackerVars, Order!vars, Arrived
    <3>2. CASE ~Stale(p, m)
      <4>1. m.seq \in 1..MaxSeq
        BY <2>2, <3>2, SeqAssumption DEF Ingest, Advance, Hold, IInv, TrackerTypeOK
      <4> QED
        BY <2>2, <3>2, <4>1, ArrivalImplements DEF Order!Next
    <3> QED
      BY <3>1, <3>2
  <2>3. ASSUME NEW p \in Peers, ResetPeer(p) PROVE [Order!Next]_(Order!vars)
    BY <2>3, ResetImplements DEF Order!Next
  <2> QED
    BY <2>1, <2>2, <2>3 DEF TrackerNext
<1> QED
  BY <1>1, <1>2, Invariance, PTL DEF TrackerSpec, Ordering, Order!Spec

=============================================================================
