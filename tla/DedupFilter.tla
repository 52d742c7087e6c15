---------------------------- MODULE DedupFilter ----------------------------
(***************************************************************************)
(* The duplicate filter of src/dedup.rs: a bounded set of the message      *)
(* identities seen last, with the order in which they came.  When the set  *)
(* is full the oldest identity is forgotten.                               *)
(***************************************************************************)
EXTENDS ReceiverParameters, FiniteSets, Sequences

VARIABLES
  filter,      \* the fields of the DedupFilter
  admitted     \* history: the identities reported as new, oldest first

filterVars == <<filter, admitted>>

Filters == [seen : SUBSET MsgIds, order : Seq(MsgIds)]

NoneSeen == [seen |-> {}, order |-> << >>]

----------------------------------------------------------------------------

IsDup(f, id) == id \in f.seen

\* Mutant: the oldest identity leaves the queue and stays in the set.
EvictQueueOnly(f) ==
  IF Cardinality(f.seen) >= MaxTracked /\ f.order # << >>
    THEN [f EXCEPT !.order = Tail(@)]
    ELSE f

\* Mutant: one identity is forgotten too early.
EvictEarly(f) ==
  IF Cardinality(f.seen) + 1 >= MaxTracked /\ f.order # << >>
    THEN [seen |-> f.seen \ {Head(f.order)}, order |-> Tail(f.order)]
    ELSE f

\* At capacity the oldest identity makes room.
Evict(f) ==
  IF Cardinality(f.seen) >= MaxTracked /\ f.order # << >>
    THEN [seen |-> f.seen \ {Head(f.order)}, order |-> Tail(f.order)]
    ELSE f

Remember(f, id) ==
  [seen |-> f.seen \cup {id}, order |-> Append(f.order, id)]

\* Mutant: a new identity is reported and not recorded.
AfterIsDupForgets(f, id) == f

\* The filter after `is_dup(id)`.
AfterIsDup(f, id) ==
  IF IsDup(f, id) THEN f ELSE Remember(Evict(f), id)

\* Mutant: a full filter turns messages away instead of making room.
ProcessUntilFull(acc, m) ==
  IF m.msg_id \in acc.filter.seen \/ Len(acc.filter.order) = MaxTracked
    THEN acc
    ELSE [filter |-> AfterIsDup(acc.filter, m.msg_id),
          processed |-> Append(acc.processed, m)]

\* One pass of the loop over the released messages: a duplicate is skipped
\* (counted and logged by the program), a new message is processed.
Process(acc, m) ==
  IF IsDup(acc.filter, m.msg_id)
    THEN acc
    ELSE [filter |-> AfterIsDup(acc.filter, m.msg_id),
          processed |-> Append(acc.processed, m)]

\* The whole loop: the filter after it, and the messages it processed.
ProcessAll(f, ordered) ==
  LET after[i \in 0..Len(ordered)] ==   \* ... i messages
        IF i = 0 THEN [filter |-> f, processed |-> << >>]
                 ELSE Process(after[i - 1], ordered[i])
  IN after[Len(ordered)]

FilterInit ==
  /\ filter = NoneSeen
  /\ admitted = << >>

Check(id) ==
  /\ filter' = AfterIsDup(filter, id)
  /\ admitted' = IF IsDup(filter, id) THEN admitted ELSE Append(admitted, id)

FilterNext == \E id \in MsgIds : Check(id)

FilterSpec == FilterInit /\ [][FilterNext]_filterVars

----------------------------------------------------------------------------

\* The filter and the history hold message identities.
FilterTypeOK ==
  /\ filter \in Filters
  /\ admitted \in Seq(MsgIds)

\* The set and the queue never drift apart: the queue lists every identity of
\* the set exactly once, and neither outgrows the capacity.
SetMatchesQueue ==
  /\ filter.seen = {filter.order[i] : i \in 1..Len(filter.order)}
  /\ Cardinality(filter.seen) = Len(filter.order)
  /\ Len(filter.order) <= MaxTracked

\* An identity is admitted again only after MaxTracked others were admitted.
OncePerWindow ==
  \A i, j \in 1..Len(admitted) :
    i < j /\ admitted[i] = admitted[j] => j - i > MaxTracked

=============================================================================
