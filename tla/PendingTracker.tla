--------------------------- MODULE PendingTracker ---------------------------
(***************************************************************************)
(* The in-memory tracker of src/reliability.rs: requests that wait for the *)
(* recipient's acknowledgement, by outbound request id.                    *)
(***************************************************************************)
EXTENDS Integers, Functions

VARIABLES
  tracker   \* request id |-> entry

Put(rid, entry) ==
  [r \in DOMAIN tracker \cup {rid} |-> IF r = rid THEN entry ELSE tracker[r]]

Without(rid) == Restrict(tracker, DOMAIN tracker \ {rid})

\* A new request starts with an unused retry budget.
Track(rid, entry) == tracker' = Put(rid, [entry EXCEPT !.retries = 0])

Ack(rid) == tracker' = Without(rid)

\* Mutant: a failure does not count.
FailedUncounted(rid) == tracker[rid]

\* Mutant: a retry takes the next number.
FailedRenumbered(rid) == [tracker[rid] EXCEPT !.retries = @ + 1, !.seq = @ + 1]

\* Mutant: a retry takes a fresh identity.
FailedReidentified(rid) ==
  [tracker[rid] EXCEPT !.retries = @ + 1, !.msg_id = @ + 100]

\* The entry that `fail` returns.
Failed(rid) == [tracker[rid] EXCEPT !.retries = @ + 1]

\* Mutant: the retried request is registered under its old id.
FailAndRetrackOld(rid, new) ==
  tracker' = [tracker EXCEPT ![rid] = Failed(rid)]

\* `fail` followed by `retrack` under the new request id.
FailAndRetrack(rid, new) ==
  tracker' = [r \in (DOMAIN tracker \ {rid}) \cup {new} |->
                IF r = new THEN Failed(rid) ELSE tracker[r]]

=============================================================================
