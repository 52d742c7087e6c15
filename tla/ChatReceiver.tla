---------------------------- MODULE ChatReceiver ----------------------------
(***************************************************************************)
(* The receiving half of the daemon's event loop (run_daemon in            *)
(* src/network.rs): an incoming chat request runs through the sequence     *)
(* tracker, what the tracker releases runs through the duplicate filter,   *)
(* and what the filter admits is processed.  The request is acknowledged   *)
(* in every case.  An established connection resets the tracker's entry.   *)
(*                                                                         *)
(* The loop is a single task, so a handler runs without interleaving.  The *)
(* tracker is one entry per sender, the filter is shared by all of them.   *)
(***************************************************************************)
EXTENDS SequenceTracker, DedupFilter

CONSTANTS
  MaxProcessed   \* bound of the model: messages processed in one behaviour

vars == <<trackerVars, filterVars>>

----------------------------------------------------------------------------

\* The handler of an incoming request: order, deduplicate, process.
Receive(p, m) ==
  LET ordered == Ordered(lastSeq[p], buffer[p], m)
      result  == ProcessAll(filter, ordered)
      new     == result.processed
  IN /\ Len(admitted) + Len(ordered) <= MaxProcessed
     /\ Ingest(p, m)
     /\ filter' = result.filter
     /\ admitted' = admitted \o [i \in 1..Len(new) |-> new[i].msg_id]

\* ConnectionEstablished: the peer's numbers may start again.
Established(p) ==
  /\ ResetPeer(p)
  /\ UNCHANGED filterVars

Init == TrackerInit /\ FilterInit

Next ==
  \E p \in Peers :
    \/ \E m \in Messages : Receive(p, m)
    \/ Established(p)

Spec == Init /\ [][Next]_vars

----------------------------------------------------------------------------
(* The tracker keeps ReleasedInOrder, BufferBehindGap, HeldUntilReleased   *)
(* and Ordering, the filter SetMatchesQueue and OncePerWindow, also when   *)
(* one handler runs several messages through the filter.                   *)

\* The tracker and the filter keep their types through every handler.
TypeOK == TrackerTypeOK /\ FilterTypeOK

\* The filter drops a released message only when the application has had it:
\* everything released in this epoch has been processed.
ReleasedIsProcessed ==
  \A p \in Peers : \A i \in 1..Len(released[p]) :
    \E j \in 1..Len(admitted) : admitted[j] = released[p][i].msg_id

=============================================================================
