------------------------ MODULE ChatReceiver_proofs ------------------------
(***************************************************************************)
(* Proofs about ChatReceiver, for every set of senders, requests and       *)
(* identities.  Whatever the filter does with the messages, the receiver   *)
(* moves the tracker only as SequenceTracker allows, so what is proved of  *)
(* the tracker holds in the daemon.  The filter is moved by a whole batch  *)
(* of released messages at once; that each batch leaves it sound, and all  *)
(* of the batch known to it, is the lemma ProcessAllIsSound.               *)
(***************************************************************************)
EXTENDS ChatReceiver, SequenceTracker_proofs, DedupFilter_proofs

\* A step of the receiver is a step of the tracker, or leaves it alone.
LEMMA ReceiverStep == [Next]_vars => [TrackerNext]_trackerVars
<1> SUFFICES ASSUME [Next]_vars PROVE [TrackerNext]_trackerVars
  OBVIOUS
<1>1. CASE UNCHANGED vars
  BY <1>1 DEF vars
<1>2. ASSUME NEW p \in Peers, NEW m \in Messages, Receive(p, m)
      PROVE  TrackerNext
  BY <1>2 DEF Receive, TrackerNext
<1>3. ASSUME NEW p \in Peers, Established(p) PROVE TrackerNext
  BY <1>3 DEF Established, TrackerNext
<1> QED
  BY <1>1, <1>2, <1>3 DEF Next

\* The receiver drives its tracker as the tracker's specification says.
THEOREM DrivesTracker == Spec => TrackerSpec
<1>1. Init => TrackerInit
  BY DEF Init
<1> QED
  BY <1>1, ReceiverStep, PTL DEF Spec, TrackerSpec

\* What the daemon's handler releases within a connection are the numbers
\* 1, 2, 3, ... without a gap, a repetition or an inversion.
THEOREM ReceiverInOrder == Spec => []ReleasedInOrder
BY DrivesTracker, InOrder, PTL

\* After every handler, nothing that could be handed over is still buffered.
THEOREM ReceiverKeepsNothingReady == Spec => []BufferBehindGap
BY DrivesTracker, NothingReadyIsKept, PTL

\* A message buffered by the daemon leaves the buffer only to be processed, at a
\* new connection of its sender, or replaced under its number.
THEOREM ReceiverLosesNothingHeld == Spec => HeldUntilReleased
BY DrivesTracker, NothingHeldIsLost, PTL

\* The daemon hands over the longest gap-free prefix of what arrived.
THEOREM ReceiverImplements == Spec => Ordering
BY DrivesTracker, Implements, PTL

----------------------------------------------------------------------------
(* The tracker and the filter together.                                    *)

\* The tracker and the filter are sound, and everything released in the epoch
\* is known to the history of the filter.
ReceiverIInv ==
  /\ IInv
  /\ Sound(filter, admitted)
  /\ ReleasedIsProcessed

\* The receiver starts with nothing released and nothing admitted.
LEMMA InitReceiverIInv == Init => ReceiverIInv
<1> SUFFICES ASSUME Init PROVE ReceiverIInv
  OBVIOUS
<1>1. IInv
  BY InitIInv DEF Init
<1>2. Sound(filter, admitted)
  BY EmptyIsSound DEF Init, FilterInit
<1>3. ReleasedIsProcessed
  BY DEF Init, TrackerInit, ReleasedIsProcessed
<1> QED
  BY <1>1, <1>2, <1>3 DEF ReceiverIInv

\* The handler of a request: the batch is released and processed together.
LEMMA ReceiveIInv ==
  ASSUME ReceiverIInv, NEW p \in Peers, NEW m \in Messages, Receive(p, m)
  PROVE  Sound(filter, admitted)' /\ ReleasedIsProcessed'
<1> DEFINE ordered == Ordered(lastSeq[p], buffer[p], m)
<1> DEFINE result == ProcessAll(filter, ordered)
<1>1. IInv /\ Sound(filter, admitted) /\ ReleasedIsProcessed /\ Ingest(p, m)
  BY DEF ReceiverIInv, Receive
<1>2. /\ ordered \in Seq(Messages)
      /\ \A i \in 1..Len(released'[p]) :
           \/ i \in 1..Len(released[p]) /\ released'[p][i] = released[p][i]
           \/ \E j \in 1..Len(ordered) : released'[p][i] = ordered[j]
      /\ \A q \in Peers \ {p} : released'[q] = released[q]
  BY <1>1, ReleasesAre
<1>3. filter' = result.filter /\ admitted' = With(admitted, result.processed)
  BY DEF Receive, With, Ids
<1> HIDE DEF ordered
<1>4. /\ Sound(result.filter, With(admitted, result.processed))
      /\ \A i \in 1..Len(ordered) :
           Knows(With(admitted, result.processed), ordered[i].msg_id)
      /\ \A id : Knows(admitted, id) => Knows(With(admitted, result.processed), id)
  BY <1>1, <1>2, ProcessAllIsSound
<1> HIDE DEF result
<1>5. Sound(filter, admitted)'
  BY <1>3, <1>4
<1>6. ASSUME NEW q \in Peers, NEW i \in 1..Len(released'[q])
      PROVE  Knows(admitted', released'[q][i].msg_id)
  <2>1. ASSUME NEW k \in 1..Len(released[q])
        PROVE  Knows(admitted', released[q][k].msg_id)
    <3>1. Knows(admitted, released[q][k].msg_id)
      BY <1>1 DEF ReleasedIsProcessed, Knows
    <3> QED
      BY <1>3, <1>4, <3>1
  <2>2. CASE q # p
    BY <1>2, <1>6, <2>1, <2>2
  <2>3. CASE q = p
    <3>1. CASE i \in 1..Len(released[p]) /\ released'[p][i] = released[p][i]
      BY <2>1, <2>3, <3>1
    <3>2. CASE \E j \in 1..Len(ordered) : released'[p][i] = ordered[j]
      BY <1>3, <1>4, <2>3, <3>2
    <3> QED
      BY <1>2, <1>6, <2>3, <3>1, <3>2
  <2> QED
    BY <2>2, <2>3
<1>7. ReleasedIsProcessed'
  BY <1>6 DEF ReleasedIsProcessed, Knows
<1> QED
  BY <1>5, <1>7

\* A new connection forgets what was released and leaves the filter alone.
LEMMA EstablishedIInv ==
  ASSUME ReceiverIInv, NEW p \in Peers, Established(p)
  PROVE  Sound(filter, admitted)' /\ ReleasedIsProcessed'
<1>1. /\ IInv /\ Sound(filter, admitted) /\ ReleasedIsProcessed
      /\ filter' = filter /\ admitted' = admitted
      /\ released' = [released EXCEPT ![p] = << >>]
  BY DEF ReceiverIInv, Established, ResetPeer, filterVars
<1>2. \A q \in Peers : released'[q] = IF q = p THEN << >> ELSE released[q]
  BY <1>1 DEF IInv, TrackerTypeOK
<1>3. ReleasedIsProcessed'
  BY <1>1, <1>2 DEF ReleasedIsProcessed
<1> QED
  BY <1>1, <1>3

\* Every step of the receiver keeps the invariant.
LEMMA StepReceiverIInv == ReceiverIInv /\ [Next]_vars => ReceiverIInv'
<1> SUFFICES ASSUME ReceiverIInv, [Next]_vars PROVE ReceiverIInv'
  OBVIOUS
<1>1. IInv'
  BY ReceiverStep, StepIInv DEF ReceiverIInv
<1>2. CASE UNCHANGED vars
  BY <1>1, <1>2 DEF ReceiverIInv, ReleasedIsProcessed, vars, trackerVars, filterVars
<1>3. ASSUME NEW p \in Peers, NEW m \in Messages, Receive(p, m)
      PROVE  ReceiverIInv'
  BY <1>1, <1>3, ReceiveIInv DEF ReceiverIInv
<1>4. ASSUME NEW p \in Peers, Established(p) PROVE ReceiverIInv'
  BY <1>1, <1>4, EstablishedIInv DEF ReceiverIInv
<1> QED
  BY <1>2, <1>3, <1>4 DEF Next

\* The invariant says what is claimed of every state.
LEMMA ReceiverIInvSays ==
  ReceiverIInv => TypeOK /\ SetMatchesQueue /\ OncePerWindow /\ ReleasedIsProcessed
BY FilterIInvSays DEF ReceiverIInv, FilterIInv, IInv, TypeOK

\* The invariant holds in every state.
THEOREM ReceiverInvariance == Spec => []ReceiverIInv
BY InitReceiverIInv, StepReceiverIInv, PTL DEF Spec

\* The tracker and the filter hold what their types say after every handler.
THEOREM ReceiverTypeCorrect == Spec => []TypeOK
BY ReceiverInvariance, ReceiverIInvSays, PTL

\* Also when one handler runs several messages through the filter, its set and
\* its queue list the same identities and stay within the capacity.
THEOREM ReceiverFilterConsistent == Spec => []SetMatchesQueue
BY ReceiverInvariance, ReceiverIInvSays, PTL

\* The daemon processes an identity again only after MaxTracked others, whatever
\* the senders repeat and however often connections are set up.
THEOREM ReceiverOnceInAWindow == Spec => []OncePerWindow
BY ReceiverInvariance, ReceiverIInvSays, PTL

\* What the tracker released in this epoch the application has had: the filter
\* drops a released message only as a repetition.
THEOREM ReceiverProcessesReleased == Spec => []ReleasedIsProcessed
BY ReceiverInvariance, ReceiverIInvSays, PTL

=============================================================================
