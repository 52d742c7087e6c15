# Formal models of Agent Circle

TLA+ modules for the core of Agent Circle (a peer-to-peer social network for
agents, written in Rust): reliable one-to-one messages, the files its commands
and its daemon share, the commands that talk to peers themselves, and its
interactive programs. TLC checks the modules on small instances, TLAPS proves the
theorems named below for every value of the constants. Paths are relative to the repository; `network.rs` without a
directory is `src/network.rs`.

## Inventory

The program is one binary. `agent-circle daemon start` runs an event loop
(`run_daemon`, network.rs) over a libp2p swarm; all other commands are processes
of their own that read and write the same data directory.

| component | state | operations | made correct by |
|---|---|---|---|
| sequence ordering (sequence.rs) | last number and buffer per sender, in memory | `ingest`, `reset_peer` | numbers 1, 2, 3, ... without a gap; nothing lost from the buffer |
| duplicate filter (dedup.rs) | a set and a queue of identities, in memory | `is_dup` | set and queue agree; one admission per window |
| offline queue (message_queue.rs) | SQLite tables `messages` and `pending` | push, mark, expire, prune; push, remove, load, expire pending | a message stands in one place |
| pending tracker (reliability.rs) | entries by request id, in memory | `track`, `ack`, `fail`, `retrack` | agrees with libp2p and with `pending` |
| event loop, receiving (network.rs 539-546, 622-648) | the two receiver structures | incoming request, connection | released means processed |
| event loop, sending (network.rs 405-740, 864-889) | queue, tracker, number counter | recovery, flush, ACK, failure, clean-up | nothing lost, nothing twice, settled in the end |
| fragments (fragment.rs) | sessions by sender and message | split, ingest, purge | what is handed over is what was split |
| data directory (storage.rs, timeline.rs, service_discovery.rs, publication.rs in the core crate) | one JSON file per kind, or per service | each command loads files whole and rewrites them whole; `save_identity` renames | no change lost, nothing torn, chains and versions without gaps |
| service discovery (service_discovery.rs) | registry in memory and in a file | ingest, prune, publish | an online peer was heard recently |
| subscriptions, notifications (service_discovery.rs, storage.rs) | two files, the daemon's copy | subscribe, unsubscribe, push, read | no lost update, no missed notification |
| commands with a swarm (main.rs: chat send, track, pressure test, group join and send, `doctor --remote`) | requests, counts | discover, dial, send, await | the report is true; the command ends |
| full-screen interface (tui.rs), `service browse` (main.rs) | selections, scrolling; the terminal's mode | keys | what is selected exists; the terminal is given back |
| control socket (control.rs) | none | ping, log level, quit | quit ends the process anywhere |
| plugins (plugin_registry.rs) | a list, read anew by `plugin list` | | |
| diagnostics, metrics, health, crash reports, disk | reports | | |

How they interact: a handler of the event loop calls the tracker, the filter and
the queue directly; libp2p turns `send_request` into exactly one later event, a
response or an `OutboundFailure`. `ConnectionEstablished` is raised at both ends
of a connection: the receiving half resets its entry for the peer and the sending
half flushes its queue. Other processes share the SQLite file and the JSON files,
and nothing locks the latter. A command with a swarm of its own is a peer like any
other, and its swarm moves only while the command polls it.

What is hard: requests travel on streams of their own and overtake each other;
a request that failed may have arrived; the process may end between any two
SQL statements (no statement is grouped into a transaction, errors are mostly
discarded, and `quit` calls `exit` from a task of its own); the recipient's memory
ends with its process while the sender's rows survive; numbers restart with the
sender's process and with the recipient's connection, at different times. Of
the files, each is truncated and then written, from a copy that may be old; a
command may be killed in between. The daemon works on copies in its memory.
`PROJECT.json` lists these hazards one by one, with their lines.

## Modules

| module | models | notes |
|---|---|---|
| `ReceiverParameters` | constants of the receiving side | with the two assumptions the proofs use |
| `InOrderDelivery` | what the tracker promises | abstract: a set of numbers that arrived, and the end of its gap-free prefix |
| `SequenceTracker` | sequence.rs | HashMaps as total functions; `released` is history; implements `InOrderDelivery` (`Ordering`) |
| `DedupFilter` | dedup.rs, and the loop of network.rs 634-642 over it | `admitted` is history |
| `ChatReceiver` | receiving half of the loop | extends tracker and filter; one action per handler, as the loop is one task |
| `MessageQueue` | message_queue.rs | one operator per SQL statement |
| `PendingTracker` | reliability.rs | |
| `SenderDaemon` | sending half of the loop | `task` is the rest of the running handler; one action per SQL statement |
| `Delivery` | a sender, its recipients, the connections | composes `SenderDaemon` with tracker and filter |
| `CommandPrograms` | the commands on files, as programs of loads and saves | one operator per command, and one per change of a content |
| `DataDirectory` | the files, the commands that run on them, the daemon | one action per read, truncation and write; `expected`, `disturbed`, `missed`, `heard` are history |
| `ClientCommands` | the commands with a swarm of their own | libp2p as in `Delivery`: any event may come, answers are late or never |
| `Tui`, `Browser` | the two interactive programs, as operators on their state | lists by their lengths, texts by whether a cut falls inside a character |
| `Terminal` | one terminal, the program that holds it, its mode, and the files under it | composes `Tui` and `Browser` |
| `Fragments` | fragment.rs | texts as sequences of bytes, so that the cut inside a character is seen |
| `SequenceTracker_proofs`, `DedupFilter_proofs`, `ChatReceiver_proofs` | theorems about the receiving side | the last extends the first two |
| `SenderDaemon_proofs`, `SenderCopies_proofs` | theorems about the sender | the second builds on the first: where a message is |
| `Delivery_proofs` | theorems about both sides and the network | takes what is proved of each half over by `INSTANCE` |
| `DataDirectory_proofs` | theorems about the files and the commands on them | |
| `Parts_proofs` | theorems about the terminal, the client commands and the fragments | |
| `MCChatReceiver`, `MCSenderDaemon`, `MCDelivery`, `MCDataDirectory`, `MCParts` | instances for TLC | `MCParts` checks three parts without common state in one run |

Correspondence of `SenderDaemon`: `Start`, `StartBlind`, `ClearRow`, `ResendRow`,
`SkipExpired` are the recovery block (network.rs 462-529); `Connect`, `FlushEntry`,
`MarkEntry` the flush (539-595); `Response`, `Settle`, `Untracked` the answer
(650-670, 736); `Retry`, `Swap`, `Persist` and `Exhaust`, `GiveUp`, `Requeue` the
failure (672-735); `CleanUp`, `Prune`, `Purge` the timer (864-889). A handler's
first action takes the event and does what needs no database; each later action is
one statement, which runs or fails (`Runs`), and is followed by what the handler
does with that outcome. What a handler asks libp2p to send leaves with the next poll
of the swarm (`Poll` in `Delivery`): a process that ends in mid-handler has not
sent it.

Correspondence of `DataDirectory`: a command of main.rs is its sequence of steps in
`CommandPrograms`; `Read`, `Truncate`, `Write`, `EraseFile`, `Create`, `Fill`,
`Rename` take one step each, of any process. A load of a torn file ends the program,
except where the code goes on with an empty content (`Forgives`); `Announcement`,
`Publication` and `PruneTick` are the daemon's handlers, which change its memory and
then run a program on the files. `Kill` ends any program between two steps. Service
ids that differ in `/` or `\` share their files, as `safe_id` makes them.

Correspondence of `ClientCommands`: `Find`, `Dial`, `Say` are the common beginning;
`LoopHead`, `Answer`, `Failure`, `Other`, `Expires` one turn of an awaiting loop,
`select!` being the choice among the last four; `Mesh`, `Publish`, `Spread` the group
commands. Time is `due`: the deadline of the current wait has passed. `Terminal` has
one action per key of the full-screen interface and, for `service browse`, one per
read of up to four bytes, of which the code uses the first. Each program may be killed
(`TuiDies`, `BrowserDies`; a `println!` with a closed output ends `service browse` the same
way), the set-up of the full-screen interface may fail half-way, crossterm may fail to
restore the mode, and each stty may fail unnoticed.

Abstractions. Message identities, 64 random bits, are fresh numbers in the sender and
model values in the receiver; a collision of random identities is not modelled.
Sender name, timestamp and service call of a request are copied and never looked
at here. A NULL expiry and `i64::MAX` are the value `Forever`. One clock serves
the sender's process and `diag clean`, which run on one machine. The outbound request
id is a counter that starts again with the process, as the id that
`request_id_to_u64` extracts does. `mark_failed` and `remove_pending_by_msg` have no
caller in the program and are left out. An entry whose peer does not parse cannot
be in the table, since the daemon writes it from a `PeerId`.

## Runs

| run | instance | shows |
|---|---|---|
| `receiver` | two senders; numbers 0, 1, 2, 2, 3 under five identities, filter of two | order and single processing under any arrival order, with resets and evictions; `Ordering` is the refinement |
| `sender` | two messages (one expires at time 1), one end of the process, two failures, one retry | the eight invariants of the sender |
| `sender_disrupted` | two messages, two ends of the process, one failing statement | where faults and crashes meet, damage stays with the message that was cut short |
| `sender_live` | one message, one end, one failing statement, fairness | `EventuallySettled` |
| `delivery` | two messages for one recipient, two connections, restarts on both sides | what is processed twice and when an ACK can be trusted |
| `directory` | three sessions on one directory, two terminals and the daemon: bookkeeping commands with a kill and a publication, keys and identity files from an empty directory with a kill, discovery with clocks | what a file loses and keeps |
| `parts` | terminal, client commands, fragments, each alone | their properties, and that every command ends |
| `ttl`, `crash_loss`, `ack_not_processed`, `daemon_notifies`, `chat_unsent` | | violated, see below |

The properties, by hazard:

- *Order.* `ReleasedInOrder`, `BufferBehindGap`, `HeldUntilReleased`: within a
  connection numbers 1, 2, 3, ... are released, nothing ready stays buffered, and
  nothing buffered disappears except by a reset or a replacement.
- *Once.* `OncePerWindow` and `SetMatchesQueue` for the filter, `OncePerIdentity`
  across retries, recoveries and reconnections, `TwiceOnlyIfReissued` for the message
  behind the identity, with the complete list of exceptions. `ReleasedIsProcessed`
  says the filter drops only what the application has had.
- *Agreement.* Between handlers `RecoverySeesInFlight` ties `pending` to the tracker,
  `TrackedIsOutstanding` ties the tracker to libp2p, and `OneCopy` says that a message
  stands in exactly one place until it is acknowledged.
- *Identity.* `StableIdentity` and `Provenance` follow a message through the queue,
  the tracker, the table and back; `RetryBudget` counts its sends.
- *Expiry.* `ExpiredIsLate`. *Progress.* `EventuallySettled`.
- *Trust.* `FirstConnectionLosesNothing` is the strongest statement found to hold
  about an acknowledged message: one recipient, one connection, no restart.

- *Files.* `KeptUnlessDisturbed`: a file holds what the finished commands asked for,
  unless someone wrote that very file from a superseded copy or was killed in the
  write; a race over one file never harms another. `LogsCoherent`: a lost post leaves
  no gap in the chain or the versions. `IdentityWhole`: the key file is never seen half
  written. `TornForever`: the files that are parsed before they are written are never
  repaired once torn, and a temporary key left behind blocks every later save.
- *Freshness.* `OnlineIsRecent`: an online peer was heard within the window and the
  error of its clock, though the daemon's memory and the file differ.
- *Reports.* `DeliveredIsHandled`: late answers are not taken for the one awaited.
  `EveryMessageCounted`: the totals of the pressure test exceed what was sent by the
  time-outs noticed at the head of the loop, counted twice, and by nothing else.
  `CommandEnds`: unrelated events do not keep a command waiting.
- *Terminal.* `SelectionExists`, `WindowShowsCursor`: no index points outside its list,
  although lists are loaded anew and keys arrive in pieces. `RawMeansAbandoned`: a raw
  terminal at the shell was left by a program that was killed, panicked, failed after it
  had turned raw mode on (`StartTuiFails`), or failed to restore it; an orderly end, an
  error inside the loop (`TuiFails`) or a terminal found raw lead to no other case.
- *Fragments.* `WholeMessage`: what is handed over is the message split, up to the
  characters a cut falls inside. `LeftIsIncomplete`: a session is stuck with all it
  counts on only when one identity was given to messages of different sizes.

`torn` (of `SenderDaemon`) collects the messages whose handler a crash or a fault cut short. The sender
properties except them exactly where the code gives no guarantee, and only them:
damage does not spread to other messages. `sender_disrupted` is the run that has such an
other message: its mutants let one failing statement of recovery harm the second message.

### Bounds

`MaxRetries` is 1 instead of 3: with two failures a message is retried, exhausted and
handed back, and recovery resets the budget; the third retry repeats the second. Two
failures, two messages and one expiry make every handler meet every other one. The
filter holds two identities, so that five of them force evictions in the middle of a
flush. `MaxClock` 2 has a time before, at and after the only deadline. `sender_disrupted`
has a second end of the process, which can come during recovery, and a failing statement
instead of expiry and the second failure; its two messages are alike, so that it uses
their symmetry. In `delivery`
the clock stands still (expiry is the sender runs' question) and at most four
disturbances happen in one behaviour (`FewDisturbances`), so that any two kinds meet;
`MaxSeq` 4 covers two messages that are sent again under new numbers. `MaxProcessed`
ends the receiver's history.

`directory` bounds a behaviour by a session: which commands the menu has and how many
are run (three, in two terminals: two that race and one that sees the result), how
many daemon events, kills and seconds there are. The menus have every command that
writes; one that only loads adds its early end, which `identity show` and `service
discover` stand for. The two services share a file name, so that the aliasing of
`safe_id` is met by every per-service command. `Freshness` 1 and `MaxSkew` 1 with two
seconds give entries before, at and after their end, stamped early and late.

In `parts` three messages of a pressure test meet late answers of the first while the
second and third are awaited or dropped; discovery has one or two rounds, connected or
not at the end of each. A page of two lines over four services scrolls both ways and
turns pages across both ends; four bytes are the longest key, and one read. Lists of
up to two contacts and posts shrink, grow and empty; one row of the timeline hides a post
until it is scrolled to. Fragments of two bytes cut characters of two bytes inside and
between; messages have one to three fragments; timestamps are equal or further apart
than the time-to-live. Deadlock checking is off where a bound or the end of a command
stops the system.

### Fairness

`FairSpec` assumes: the daemon is started again after it ended (a supervisor); a
handler that started runs on (weak fairness of `Start` and `Step`); every request
is answered in the end, since libp2p reports a response or a time-out, recipients
connect again and again, and the timer keeps coming (strong fairness, because the
event loop is busy in between and `select!` chooses at random among ready branches).
Failures, crashes and faults are bounded, so progress is claimed for a network that
works in the end. No fairness is assumed of commands or of the clock.

`ClientFairness` assumes that a command's own steps are taken and its timers fire (weak
fairness: the runtime polls a ready task). Of the network and the peer nothing is
assumed: `CommandEnds` holds when no answer and endlessly many other events come.

### Where the texts and the code disagree

- `NoRetryAfterTtl`: chat.rs of the core crate says that an expired message "should
  not be retried or stored"; the failure handler never looks at the time-to-live.
- `CrashLosesNothing`: README.md promises crash recovery without loss of data; three
  handlers remove a row before they write its successor.
- `AcknowledgedIsProcessed`: one counter numbers the messages of all recipients while
  each recipient waits for its own number 1, 2, 3, ...; the second recipient acknowledges
  messages that it never processes, and the sender logs them as delivered.
- `DaemonNotifies`: `service subscribe` promises notifications by the daemon; a daemon
  that runs already does not see the subscription.
- `SaidSentHasLeft`: `chat send` sleeps where its comment lets the swarm work; nothing
  it reports as sent leaves the process.

Seen while modelling, without a run of its own: the dial of the chat commands fails when
the peer connected first, because a connected peer may not be dialled by the default
condition (`Dial`); `doctor --remote` neither discovers nor dials, so that its request
fails at the first poll for want of an address (`Stranded`); the arrow keys of `service
browse` are lost when their three bytes come in one read, as they mostly do (`ReadByte`),
although its last line offers them; `permit` resets the list of allowed peers; `j` and
`k` cannot be typed in the full-screen interface's chat; its messages are not sent.

## Proofs

Every safety property of the passing runs is a theorem:
for any number of senders, messages, services, terminals and commands, any size of the
filter, of a page, a fragment or a text, and any number of crashes, failures and kills.
The theorems rest on the named assumptions of the modules (`SeqAssumption`,
`DedupAssumption`, `SenderAssumption`, `DeliveryAssumption`, `DirectoryAssumption`,
`TuiAssumption`, `BrowserAssumption`, `TerminalAssumption`, `ClientAssumption`,
`FragmentsAssumption`), which say what kind of value each constant is, and which TLC
evaluates for the instances. The inductive invariants below that are not
properties themselves were checked by TLC on the same instances before they were proved.

### The receiving side

`SequenceTracker_proofs`: `TypeCorrect`, `InOrder`, `NothingReadyIsKept`,
`NothingHeldIsLost`, and `Implements`,
the refinement of `InOrderDelivery`. The inductive invariant joins the type
invariant, `ReleasedInOrder` and `BufferBehindGap`. The last is needed because the
flush loop ends at the first missing number: only if nothing at or below the last
number is buffered, and every entry stands under its own number, does what is released
continue the sequence. The end of the run is a CHOOSE; `LeastElement` and `RunEndIs`
show that it exists, from a least missing number. For the refinement, `PrefixEndIs`
identifies the end of the run with the end of the gap-free prefix.

`DedupFilter_proofs`: `FilterTypeCorrect`,
`QueueFollowsSet` and `OnceInAWindow`. Neither the set nor the queue says what was
admitted before, so the invariant is strengthened by `QueueIsRecent` (the queue is the
last part of the history, all of it or as long as the capacity) and `QueueIsInjective`.
An identity that is new is not in the queue, hence not among the last admissions.
`ProcessAll`, the loop of the handler over what the tracker released, is a recursive
function; that the invariant survives it is an induction over the released messages.

`ChatReceiver_proofs` shows that the daemon's handlers drive the tracker as its own
specification says (`DrivesTracker`), so the tracker's theorems hold in the daemon too:
`ReceiverInOrder`, `ReceiverKeepsNothingReady`, `ReceiverLosesNothingHeld`,
`ReceiverImplements`. What the composition adds is `ReceiverTypeCorrect`,
`ReceiverFilterConsistent`, `ReceiverOnceInAWindow` and `ReceiverProcessesReleased`.

### The sender

None of the sender's invariants is inductive, because each is about states between
handlers and a handler takes several steps, any of which can fail or be the last.

- `TypeInv` = `TypeOK`, `StableIdentity` and `Traced` is. `Traced` says of every record of
  a request, in the tracker, the table, libp2p, or the hands of a handler, that its message
  was accepted and its recipient and deadline are the message's own. With it `TypeCorrect`,
  `IdentityIsStable`, `OriginFollows`, `NoneWaitsForNothing` and `NoneExpiresEarly` follow.
- `PlaceInv` says where a message may be at each stage of each handler (`Placed`): waiting
  in the queue, in `pending`, tracked, reloaded by recovery, in the snapshot of a flush, in
  the hands of a handler; which places exclude each other, and that there is one. It
  speaks of messages whose handler was not cut short (`torn` has the others). `OneDurableCopy`
  is `PlaceInv` between handlers.
- `AgreeInv` adds that rows and entries of one request agree in all fields
  (`RecoveryIsExact`); `Budget` counts the sends of a request by life (`RetriesAreBounded`).

### Both sides and the network

A step of `Delivery` is a step of `SenderDaemon` or leaves it alone (`SendsAsSpecified`),
and one of the recipients' trackers or leaves them alone; `DeliveryInv` joins what is
proved of each half with `NetworkOK` (numbers, lives, answers only to outstanding
requests), `FiltersOK` (a filter is of what its recipient processed) and `NamesOK`: all
records of one message that are anywhere, also under way, buffered or processed, have
one identity, unless the message was handed back or torn, and different messages have different
ones; what waits in the queue and was neither handed back nor torn has no record yet. Hence `NetworkTypeCorrect`, `IdentityProcessedOnce`,
and `SecondTimeExplained`: the list of reasons for processing a message twice is complete.

`FirstConnectionKeepsAll` needs two more invariants (`FirstInvariance`). `NumbersOK` says
that, while nobody lost its memory, a sequence number and an identity are of one message,
wherever its copies are (`Seen`), given out by the sender and bound for that message's
recipient; and that what is under way for a request libp2p waits for is that request.
`Lossless` says, of a single recipient and while it is `Undisturbed` (at most one
connection, no crash, no restart, nothing handed back): every number given out was
released, is in the buffer, or is in flight; what has a released number was processed;
what is answered has arrived; and what is acknowledged was processed or is buffered. A
retry keeps number and identity, so a failure leaves its number in flight.

### The files

- `TypeInv` (`DirectoryTypeCorrect`, `LogsStayCoherent`) needs more than types. A program is
  a list of steps, so the invariant says of the rest of each program that a step which
  rewrites a file is of a command that may (`Saves`), and has its copy from a load of the
  same file with no other load or save in between (`Covered`, `Quiet`): otherwise
  a command would edit a content of another kind. `ContentOK` says what a content is, and that
  timelines are chained and versions count down. `Retain`, the model of `Vec::retain`,
  is a recursive function; `RetainIs` proves what it keeps.
- `KeyInv` (`IdentityStaysWhole`): at most one program is past the creation of the temporary
  key, and finds it as it left it. The exclusive creation is what makes this inductive.
- `HeardInv` (`OnlineWasHeard`): every copy of the registry, in the file, in the daemon's memory,
  or with a command that will write it back, is no newer than what was heard, up to the skew.
- `KeptInv` (`KeptUnlessInterfered`): of an undisturbed file, whoever is about to rewrite it
  from a copy that is not superseded holds what is expected of it (`CopyIsExpected`), and so does
  the daemon's memory while it is not behind (`DaemonIsUpToDate`). The file may be torn
  only while someone has it open.
- `TornStaysTorn` is an action property and follows from `TypeInv` alone.

### The terminal, the commands, the fragments

`TerminalInv` says which selections each view of the full-screen interface may hold
(an index is 0 or below the length of its list, because lists may be empty) and where the
window of `service browse` is; `SelectedExists`, `CursorIsShown`, `RawIsExplained` and
`TerminalTypeCorrect` follow. A terminal that the full-screen interface finds raw has been
abandoned earlier, which is why restoring it adds no new way to a raw shell. `CommandInv` ties the counts of a command to its stage:
what is resolved is everything before the current message while one is awaited.
`DeliveredWasHandled` says that a pressure test that passes had 99 in a hundred of its
messages handled, which is all of them below a hundred: with the default count of 100 and
simulated loss, one of a hundred that were sent may be missing from a pass.
`FragmentsInv` is about sessions: each is of its key, counts its fragments, and is
incomplete or of an identity used twice (`StuckOnlyIfReused`); and every part it holds is the
fragment of its index of a message of its identity. `WholeMessageArrives` then is about cutting and joining:
`CutsAre` (the cuts divide the message, the last fragment ends with it), `ChunkIs` (a
fragment, decoded by itself, is that part of what arrives: a character is lost exactly where
a cut falls inside it) and `JoinedIs`, an induction over the fragments (`FlattenIs`). It
rests on the text being UTF-8, which the type `&str` of `split_large_message` guarantees.
`PartsTypeCorrect` is about the behaviours of the run itself, each of one of the three parts.

### What stays with TLC

- Liveness (`EventuallySettled`, `CommandEnds`): liveness and ENABLED are beyond the prover.
- The five violated properties.

## Plan

Next: the abstract specification of the sender as a mailbox that a message leaves once,
and a proof that `SenderDaemon` implements it between handlers. No module that a theorem
reaches declares a recursive operator.

## Not modelled

- *Cryptography and encodings* (identity.rs, keys.rs, signatures, hashes, hence the
  verdicts of `timeline verify`): one seed, and functions outside a model checker's reach.
- *libp2p's own behaviour* (DHT, mDNS, relay, bootstrap, gossip): external; modelled as
  far as handlers and commands see it.
- *Reports* (diagnostics, metrics, health, crash reports, disk, the doctor's answers):
  they read and print; no decision depends on them.
- *Plugins*: the only caller is `plugin list`, which loads the directory and prints; the
  transitions of the registry are reached from tests only.
- *Drawing*, except for the cut that panics; argument parsing; protocol names and errors.
- Of modelled parts: `mark_failed` and `remove_pending_by_msg` (no caller), the access
  check on publications (no caller enforces it), `group create` and `group list` (they
  print), ping and log level of the control socket, rating averages.
