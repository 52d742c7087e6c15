----------------------------- MODULE Fragments -----------------------------
(* fragment.rs: a message longer than FragmentSize is cut into fragments, and
   the recipient puts them together again.  The library has no caller in the
   program; the fragments are those of mail, split at the times of Times, and
   arrive in any order and any number of times, as requests and their retries
   do.  A byte is "one" (a character by itself), "lead" or "tail" (the two bytes
   of a longer one); a decoded text has "?" where bytes were no character. *)
EXTENDS Integers, Sequences, FiniteSets, SequencesExt

CONSTANTS
    Mailbags,      \* sets of messages: [from, id, bytes]
    Times,         \* timestamps of the messages, and clock readings
    FragmentSize,  \* 64 KB
    FragmentTtl    \* 60 s

Whole(bytes, i) ==
    CASE bytes[i] = "one" -> TRUE
      [] bytes[i] = "lead" -> i < Len(bytes) /\ bytes[i + 1] = "tail"
      [] bytes[i] = "tail" -> i > 1 /\ bytes[i - 1] = "lead"

\* The text of a message is a String, which is UTF-8.
Utf8(bytes) == bytes \in Seq({"one", "lead", "tail"}) /\ \A i \in DOMAIN bytes : Whole(bytes, i)

ASSUME FragmentsAssumption ==
    /\ \A bag \in Mailbags : IsFiniteSet(bag) /\ \A m \in bag : Utf8(m.bytes)
    /\ FragmentSize \in Nat \ {0}

VARIABLES
    mail,      \* the messages that are split; never changes
    sessions,  \* reassembly sessions, by sender and identity
    handed     \* ghost: what ingest returned

fragments == <<mail, sessions, handed>>

\* String::from_utf8_lossy.
Decoded(bytes) == [i \in DOMAIN bytes |-> IF Whole(bytes, i) THEN bytes[i] ELSE "?"]

Total(bytes) == (Len(bytes) + FragmentSize - 1) \div FragmentSize

\* Mutant: the cuts drift by one byte.
ChunkDrifting(bytes, i) ==
    LET start == i * (FragmentSize + 1)
        end == IF start + FragmentSize < Len(bytes) THEN start + FragmentSize ELSE Len(bytes)
    IN Decoded(SubSeq(bytes, start + 1, end))

\* Fragments are cut at byte positions and decoded one by one.
Chunk(bytes, i) ==
    LET start == i * FragmentSize
        end == IF start + FragmentSize < Len(bytes) THEN start + FragmentSize ELSE Len(bytes)
    IN Decoded(SubSeq(bytes, start + 1, end))

Plain(m, ts) == [key |-> <<m.from, m.id>>, ts |-> ts, total |-> 0, index |-> 0, text |-> m.bytes]

\* total = 0 stands for a request without fragment information.
SplitLargeMessage(m, ts) ==
    IF Len(m.bytes) <= FragmentSize THEN {Plain(m, ts)}
    ELSE {[key |-> <<m.from, m.id>>, ts |-> ts, total |-> Total(m.bytes),
           index |-> i, text |-> Chunk(m.bytes, i)] : i \in 0..Total(m.bytes)-1}

Wire == UNION {SplitLargeMessage(m, ts) : m \in mail, ts \in Times}

NewSession(f) == [parts |-> <<>>, total |-> f.total, received |-> 0, started |-> f.ts]

\* The session of a fragment: its own, or a new one for the first fragment and
\* for one that comes when the session is stale by the senders' timestamps.
Session(f) ==
    IF f.key \in DOMAIN sessions /\ f.ts - sessions[f.key].started <= FragmentTtl
    THEN sessions[f.key]
    ELSE NewSession(f)

With(g, x, v) == [y \in DOMAIN g \union {x} |-> IF y = x THEN v ELSE g[y]]

\* Mutant: a repeated fragment is counted.
InsertCounting(s, f) ==
    [s EXCEPT !.parts = With(@, f.index, f.text), !.received = @ + 1]

\* A repeated fragment replaces the earlier one.
Insert(s, f) ==
    [s EXCEPT !.parts = With(@, f.index, f.text),
              !.received = IF f.index \in DOMAIN s.parts THEN @ ELSE @ + 1]

Joined(s) == FlattenSeq([i \in 1..s.total |-> s.parts[i - 1]])

Keep(key, s) == sessions' = With(sessions, key, s)
Forget(keys) == sessions' = [k \in DOMAIN sessions \ keys |-> sessions[k]]
HandOver(f, text) == handed' = handed \union {[key |-> f.key, text |-> text]}

\* The count decides whether to join; an index that is missing all the same
\* leaves the session as it is.
Ingest(f) ==
    IF f.total = 0 THEN HandOver(f, f.text) /\ UNCHANGED sessions
    ELSE LET s == Insert(Session(f), f)
         IN IF s.received >= s.total /\ 0..s.total-1 \subseteq DOMAIN s.parts
            THEN HandOver(f, Joined(s)) /\ Forget({f.key})
            ELSE Keep(f.key, s) /\ UNCHANGED handed

PurgeStale(now) ==
    /\ Forget({k \in DOMAIN sessions : now - sessions[k].started > FragmentTtl})
    /\ UNCHANGED handed

FragmentsInit == mail \in Mailbags /\ sessions = <<>> /\ handed = {}
FragmentsNext ==
    /\ \/ \E f \in Wire : Ingest(f)
       \/ \E now \in Times : PurgeStale(now)
    /\ UNCHANGED mail

FragmentsSpec == FragmentsInit /\ [][FragmentsNext]_fragments

------------------------------------------------------------------------------
Under(key) == {m \in mail : <<m.from, m.id>> = key}
OneMessage(key) == Cardinality(Under(key)) = 1

\* The reference for a message on arrival: a character is lost when one of the
\* cuts, at the multiples of FragmentSize, falls inside it.
CutInside(bytes, i) ==
    \/ bytes[i] = "lead" /\ i % FragmentSize = 0
    \/ bytes[i] = "tail" /\ (i - 1) % FragmentSize = 0
Arrived(bytes) == [i \in DOMAIN bytes |-> IF CutInside(bytes, i) THEN "?" ELSE bytes[i]]

\* What the reassembler hands over is the message its sender split, complete and
\* in order, whatever order and however often the fragments arrive and whatever
\* sessions are restarted or purged; only the characters a cut falls inside are
\* lost (split_large_message and ingest in fragment.rs).  Stated for identities
\* given to one message.
WholeMessage ==
    \A h \in handed : OneMessage(h.key) =>
        \A m \in Under(h.key) : h.text = Arrived(m.bytes)

\* A session that is kept counts its fragments rightly; it has all it counts on
\* only when its sender gave one identity to messages of different sizes, the
\* first fragment having fixed the total: then it is stuck until it is purged
\* (ingest in fragment.rs).
LeftIsIncomplete ==
    \A k \in DOMAIN sessions :
        LET s == sessions[k]
        IN /\ s.received = Cardinality(DOMAIN s.parts)
           /\ s.received >= s.total =>
                 \E m, n \in Under(k) : Total(m.bytes) # Total(n.bytes)
=============================================================================
