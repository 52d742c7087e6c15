--------------------------- MODULE DataDirectory ---------------------------
(* One data directory, the commands a user runs on it from several terminals
   at once, and the daemon.  Nothing locks a file: each program reads a file
   whole, works on its copy and rewrites the file whole, and the rewrite first
   truncates.  Any of them can be killed between two steps.  The daemon reads
   the subscriptions once, when it starts, keeps its service registry in memory,
   and rewrites both files when an announcement arrives. *)
EXTENDS CommandPrograms, FiniteSets

CONSTANTS
    Terminals,      \* places where the user runs commands
    Daemon,         \* the daemon process
    Services, Peers,
    Announcements,  \* the sets of services a peer announces
    Freshness,      \* seconds an entry counts as online, and is kept: 600
    MaxSkew,        \* how far a peer's clock is from the local one
    Sessions        \* bounds: what happens to one directory, each a record of the
                    \* identity it starts with, the menu of commands the user runs,
                    \* and how many commands, events, kills and seconds there are

UserCommands ==
    [op : {"identity_create", "identity_restore", "identity_show", "identity_export",
           "daemon_status", "daemon_log_level", "contact_list", "timeline_post",
           "timeline_show", "timeline_verify", "service_list", "service_search",
           "service_negotiate", "service_discover", "cache_stats", "cache_flush",
           "subscriptions", "notifications", "doctor"}]
    \cup [op : {"service_publish", "service_post", "service_history", "read",
                "whitelist_list"}, svc : Services]
    \cup [op : {"service_view"}, svc : Services, version : Nat]
    \cup [op : {"contact_add"}, peer : Peers]
    \cup [op : {"subscribe", "unsubscribe"}, svc : Services, peer : Peers \cup {Everyone}]
    \cup [op : {"rate"}, svc : Services, score : Nat]
    \cup [op : {"permit"}, svc : Services, mode : {"public", "approval", "whitelist"}]
    \cup [op : {"whitelist_add", "whitelist_remove"}, svc : Services, peer : Peers]

ASSUME DirectoryAssumption ==
    /\ Daemon \notin Terminals /\ Local \notin Peers /\ IsFiniteSet(Peers)
    /\ Announcements \subseteq SUBSET Services
    /\ Freshness \in Nat /\ MaxSkew \in Nat
    /\ \A s \in Sessions : s.menu \subseteq UserCommands /\ s.seconds \in Nat

VARIABLES
    files,      \* file -> [state, content]
    run,        \* process -> the program it runs and its copy of a file
    daemon,     \* [up, subs, registry]: the daemon's memory
    clock,      \* seconds, of the local clock
    session, used,  \* bounds: the session, and the commands, events, kills so far
    (* history *)
    expected,   \* file -> what the finished commands asked it to hold
    disturbed,  \* files written from a superseded copy, or cut by a kill
    behind,     \* the daemon's subscriptions are not those of the file
    missed,     \* publications handled without the notification asked for
    heard       \* peer -> when it was last heard
vars == <<files, run, daemon, clock, session, used, expected, disturbed, behind, missed, heard>>

Processes == Terminals \cup {Daemon}
PerService == {<<kind, SafeId[svc]>> : kind \in {"publications", "ratings", "permissions"},
                                       svc \in Services}
Kept == {Contacts, Timeline, Subscriptions, Notifications} \cup PerService
Files == Kept \cup {IdentityKey, IdentityTmp, Card, Registry, Port}

Missing(f) == [state |-> "missing", content |-> Empty(f)]
Torn(f) == [state |-> "torn", content |-> Empty(f)]
Whole(content) == [state |-> "whole", content |-> content]

Idle == [cmd |-> [op |-> "none"], todo |-> <<>>, held |-> Nobody, of |-> <<>>, id |-> 0,
         author |-> Nobody, stale |-> FALSE, open |-> FALSE, mixed |-> FALSE]
Down == [up |-> FALSE, subs |-> <<>>, registry |-> {}]

Begun(c, steps) ==
    [Idle EXCEPT !.cmd = c, !.todo = steps, !.id = used.commands + used.events + 1]
Busy(p) == run[p].todo # <<>>
Current(p) == Head(run[p].todo)
Doing(p, what) == Busy(p) /\ Current(p).do = what
Settled(r) == IF r.todo = <<>> THEN Idle ELSE r
Becomes(p, r) == run' = [run EXCEPT ![p] = Settled(r)]
Past(p) == [run[p] EXCEPT !.todo = Tail(@)]
Stop(p) == Becomes(p, Idle)

-----------------------------------------------------------------------------
(* What the user may rely on: the elements of a file, and what each command
   that ends well adds to them or takes away. *)

Items(f, content) ==
    CASE f \in {Contacts, Subscriptions, Notifications} -> Range(content)
      [] f = Timeline \/ f[1] = "publications" -> {content[i].id : i \in DOMAIN content}
      [] f[1] = "ratings" -> Range(content)
      [] f[1] = "permissions" -> {content}

Asked(c, f, items, id, author) ==
    CASE c.op = "contact_add" -> items \cup {c.peer}
      [] c.op = "timeline_post" -> items \cup {id}
      [] c.op = "subscribe" -> items \cup {<<c.svc, c.peer>>}
      [] c.op = "unsubscribe" -> items \ {<<c.svc, c.peer>>}
      [] c.op = "service_post" /\ f = History(c.svc) -> items \cup {id}
      [] c.op = "service_post" /\ f = Notifications -> items \cup {<<c.svc, id>>}
      [] c.op = "publication" -> items \cup {<<c.svc, c.id>>}
      [] c.op = "read" -> {n \in items : n[1] # c.svc}
      [] c.op = "rate" -> {r \in items : r.reviewer # author}
                             \cup {[reviewer |-> author, score |-> c.score]}
      [] c.op = "permit" -> {[mode |-> c.mode, list |-> {}]}
      [] c.op = "whitelist_add" ->
             {[mode |-> "whitelist", list |-> e.list \cup {c.peer}] : e \in items}
      [] c.op = "whitelist_remove" ->
             {[mode |-> "whitelist", list |-> e.list \ {c.peer}] : e \in items}
      [] OTHER -> items

-----------------------------------------------------------------------------
(* Steps of a program. *)

\* Mutant: every file is read with unwrap_or_default.
ForgivesAll(p, f) == TRUE

\* contacts.json, and the subscriptions when the daemon starts, are read with
\* unwrap_or_default: a file that does not parse is an empty one.
Forgives(p, f) == f = Contacts \/ (p = Daemon /\ f = Subscriptions)

\* What a process has after it read content: an author, or its copy of the file.
AfterLoad(p, content) ==
    LET s == Current(p)
        todo == Continuation(run[p].cmd, s, content, Tail(run[p].todo))
    IN IF s.do = "need"
       THEN [run[p] EXCEPT !.todo = todo, !.author = content]
       ELSE [run[p] EXCEPT !.todo = todo, !.held = content, !.of = s.file,
                           !.stale = files[s.file].state = "torn"]

Unchanged == UNCHANGED <<files, daemon, clock, session, used, expected, disturbed, behind, missed, heard>>

Read(p) ==
    /\ Doing(p, "load") \/ Doing(p, "need")
    /\ LET f == Current(p).file
       IN IF files[f].state = "torn" /\ ~Forgives(p, f) THEN Stop(p)
          ELSE Becomes(p, AfterLoad(p, files[f].content))
    /\ IF run[p].cmd.op = "daemon_start" /\ Current(p).file = Subscriptions
       THEN /\ daemon' = [Down EXCEPT !.up = TRUE, !.subs = files[Subscriptions].content]
            /\ behind' = (files[Subscriptions].state = "torn")
            /\ UNCHANGED <<files, clock, used, expected, disturbed, missed, heard, session>>
       ELSE Unchanged

\* Errors of a peek are dropped, its content is only shown.
Glance(p) ==
    /\ Doing(p, "peek")
    /\ Becomes(p, Past(p))
    /\ Unchanged

\* fs::write opens the file with truncation ...
Truncate(p) ==
    /\ Doing(p, "save") /\ ~run[p].open
    /\ files' = [files EXCEPT ![Current(p).file] = Torn(Current(p).file)]
    /\ run' = [run EXCEPT ![p].open = TRUE, ![p].mixed = FALSE]
    /\ UNCHANGED <<daemon, clock, used, expected, disturbed, behind, missed, heard, session>>

\* The content a process writes: the daemon its memory, a command its edit.
Content(p, f) ==
    IF run[p].cmd.op = "announce"
    THEN IF f = Registry THEN daemon.registry ELSE daemon.subs
    ELSE Edit(run[p].cmd, f, run[p].held, run[p].id, run[p].author, clock)

FromOldCopy(p, f) ==
    IF run[p].cmd.op = "announce" THEN behind ELSE run[p].of = f /\ run[p].stale

\* ... and writes.  Two that truncated before either wrote both write from the
\* start of the file: the second leaves the end of a longer first one behind.
Write(p) ==
    /\ Doing(p, "save") /\ run[p].open
    /\ LET f == Current(p).file
           c == run[p].cmd
           Bystander(q) == q # p /\ run[q].of = f
           Sharing(q) == q # p /\ run[q].open /\ Current(q).file = f
       IN /\ \/ files' = [files EXCEPT ![f] = Whole(Content(p, f))]
             \/ run[p].mixed /\ files' = [files EXCEPT ![f] = Torn(f)]
          /\ run' = [q \in Processes |->
                      IF q = p
                      THEN Settled([Past(p) EXCEPT !.open = FALSE])
                      ELSE [run[q] EXCEPT !.stale = @ \/ Bystander(q),
                                          !.mixed = @ \/ Sharing(q)]]
          /\ IF f \in Kept
             THEN /\ expected' = [expected EXCEPT ![f] =
                                    Asked(c, f, @, run[p].id, run[p].author)]
                  /\ disturbed' = IF FromOldCopy(p, f) \/ run[p].mixed
                                  THEN disturbed \cup {f} ELSE disturbed
             ELSE UNCHANGED <<expected, disturbed>>
          /\ behind' = (behind \/ (f = Subscriptions /\ p # Daemon))
          /\ heard' = IF c.op = "service_publish" THEN [heard EXCEPT ![Local] = clock]
                      ELSE heard
    /\ UNCHANGED <<daemon, clock, used, missed, session>>

EraseFile(p) ==
    /\ Doing(p, "erase")
    /\ files' = [files EXCEPT ![Current(p).file] = Missing(Current(p).file)]
    /\ Becomes(p, Past(p))
    /\ UNCHANGED <<daemon, clock, used, expected, disturbed, behind, missed, heard, session>>

\* save_identity: the temporary file is created exclusively, filled, renamed.
Create(p) ==
    /\ Doing(p, "create")
    /\ IF files[IdentityTmp].state = "missing"
       THEN /\ files' = [files EXCEPT ![IdentityTmp] = Torn(IdentityTmp)]
            /\ Becomes(p, [Past(p) EXCEPT !.open = TRUE])
       ELSE Stop(p) /\ UNCHANGED files
    /\ UNCHANGED <<daemon, clock, used, expected, disturbed, behind, missed, heard, session>>

Fill(p) ==
    /\ Doing(p, "fill")
    /\ files' = [files EXCEPT ![IdentityTmp] = Whole(run[p].id)]
    /\ Becomes(p, Past(p))
    /\ UNCHANGED <<daemon, clock, used, expected, disturbed, behind, missed, heard, session>>

Rename(p) ==
    /\ Doing(p, "rename")
    /\ files' = [files EXCEPT ![IdentityKey] = files[IdentityTmp],
                              ![IdentityTmp] = Missing(IdentityTmp)]
    /\ Becomes(p, [Past(p) EXCEPT !.open = FALSE])
    /\ UNCHANGED <<daemon, clock, used, expected, disturbed, behind, missed, heard, session>>

Step(p) ==
    Read(p) \/ Glance(p) \/ Truncate(p) \/ Write(p) \/ EraseFile(p)
        \/ Create(p) \/ Fill(p) \/ Rename(p)

-----------------------------------------------------------------------------
(* The user and the daemon's events. *)

Command(p) ==
    /\ ~Busy(p) /\ used.commands < session.commands
    /\ used' = [used EXCEPT !.commands = @ + 1]
    /\ \E c \in session.menu :
         run' = [run EXCEPT ![p] = Begun(c, Program(c))]
    /\ UNCHANGED <<files, daemon, clock, expected, disturbed, behind, missed, heard, session>>

StartDaemon ==
    /\ ~daemon.up /\ ~Busy(Daemon) /\ used.commands < session.commands
    /\ used' = [used EXCEPT !.commands = @ + 1]
    /\ run' = [run EXCEPT ![Daemon] =
                 Begun([op |-> "daemon_start"], Program([op |-> "daemon_start"]))]
    /\ UNCHANGED <<files, daemon, clock, expected, disturbed, behind, missed, heard, session>>

Listening == daemon.up /\ ~Busy(Daemon)
Watched(peer, svc) ==
    IsListed(daemon.subs, svc, peer) \/ IsListed(daemon.subs, svc, Everyone)

\* A peer announces its services, stamped by its own clock: the registry is
\* saved, then the subscriptions once for each watched service.
Announcement ==
    /\ Listening /\ used.events < session.events
    /\ used' = [used EXCEPT !.events = @ + 1]
    /\ \E peer \in Peers, services \in Announcements, skew \in (0 - MaxSkew)..MaxSkew :
         LET matched == {svc \in services : Watched(peer, svc)}
         IN /\ daemon' = [daemon EXCEPT !.registry =
                            Ingest(@, peer, services, clock + skew)]
            /\ run' = [run EXCEPT ![Daemon] =
                         Begun([op |-> "announce"],
                               <<Save(Registry)>>
                                 \o [i \in 1..Cardinality(matched) |-> Save(Subscriptions)])]
            /\ heard' = [heard EXCEPT ![peer] = clock]
    /\ UNCHANGED <<files, clock, expected, disturbed, behind, missed, session>>

\* A publication arrives: only a subscription that names no peer counts.
Publication ==
    /\ Listening /\ used.events < session.events
    /\ used' = [used EXCEPT !.events = @ + 1]
    /\ \E svc \in Services :
         LET id == used.commands + used.events + 1
             watched == IsListed(daemon.subs, svc, Everyone)
         IN /\ Becomes(Daemon, Begun([op |-> "publication", svc |-> svc, id |-> id],
                                     IF watched THEN NotifySubscriber ELSE <<>>))
            /\ missed' = IF ~watched /\ <<svc, Everyone>> \in expected[Subscriptions]
                         THEN missed \cup {<<svc, id>>} ELSE missed
    /\ UNCHANGED <<files, daemon, clock, expected, disturbed, behind, heard, session>>

\* The prune timer: memory only, the file keeps the pruned peers.
PruneTick ==
    /\ Listening
    /\ \E e \in daemon.registry : clock - e.seen > Freshness
    /\ daemon' = [daemon EXCEPT !.registry = {e \in @ : clock - e.seen <= Freshness}]
    /\ UNCHANGED <<files, run, clock, used, expected, disturbed, behind, missed, heard, session>>

\* The clock counts from the first stamp: before it nothing is compared with it.
Tick ==
    /\ clock < session.seconds
    /\ daemon.registry # {} \/ files[Registry].state # "missing"
    /\ clock' = clock + 1
    /\ UNCHANGED <<files, run, daemon, used, expected, disturbed, behind, missed, heard, session>>

\* A process ends at once: a signal, the control socket's quit, a power cut.
Kill(p) ==
    /\ used.kills < session.kills
    /\ Busy(p) \/ (p = Daemon /\ daemon.up)
    /\ used' = [used EXCEPT !.kills = @ + 1]
    /\ Stop(p)
    /\ daemon' = IF p = Daemon THEN Down ELSE daemon
    /\ disturbed' = IF Busy(p) /\ run[p].open THEN disturbed \cup {Current(p).file}
                    ELSE disturbed
    /\ UNCHANGED <<files, clock, expected, behind, missed, heard, session>>

\* A new directory, or one in which an identity was created before.
Init ==
    /\ session \in Sessions
    /\ files = [f \in Files |-> IF f \in {IdentityKey, Card} /\ session.identity
                                THEN Whole(0) ELSE Missing(f)]
    /\ run = [p \in Processes |-> Idle]
    /\ daemon = Down
    /\ clock = 0
    /\ used = [commands |-> 0, events |-> 0, kills |-> 0]
    /\ expected = [f \in Kept |-> Items(f, Empty(f))]
    /\ disturbed = {}
    /\ behind = FALSE
    /\ missed = {}
    /\ heard = [peer \in Peers \cup {Local} |-> 0]

Next ==
    \/ \E p \in Processes : Step(p) \/ Kill(p)
    \/ \E p \in Terminals : Command(p)
    \/ StartDaemon \/ Announcement \/ Publication \/ PruneTick \/ Tick

Spec == Init /\ [][Next]_vars

-----------------------------------------------------------------------------
(* Properties. *)

\* Type invariant: file contents are of their file, the programs in progress are
\* sequences of steps on known files.
DirectoryTypeOK ==
    /\ \A f \in Files :
         /\ files[f].state \in {"missing", "torn", "whole"}
         /\ files[f].state # "whole" => files[f].content = Empty(f)
         /\ f \in Kept => IsFiniteSet(Items(f, files[f].content))
    /\ \A p \in Processes : \A i \in DOMAIN run[p].todo : run[p].todo[i].file \in Files
    /\ daemon.up \in BOOLEAN /\ behind \in BOOLEAN
    /\ Cardinality(daemon.registry) <= Cardinality(Peers)
    /\ clock \in 0..session.seconds
    /\ disturbed \subseteq Files

Writing(f) == \E p \in Processes : run[p].open /\ Current(p).file = f

\* storage.rs, service_discovery.rs: what finished commands asked a file to hold
\* is what it holds, whatever other commands, kills and daemon events there were,
\* unless someone rewrote that very file from a copy read before another's
\* rewrite, or was killed inside the rewrite.
KeptUnlessDisturbed ==
    \A f \in Kept \ disturbed :
        ~Writing(f) => /\ files[f].state # "torn"
                       /\ Items(f, files[f].content) = expected[f]

\* timeline.rs, publication.rs: however commands race, a readable timeline is one
\* chain from its genesis, and the versions of a history count down to 1 from the
\* newest: a lost post never leaves a gap.
LogsCoherent ==
    /\ \A i \in DOMAIN files[Timeline].content :
         files[Timeline].content[i].parent =
             IF i = 1 THEN Nobody ELSE files[Timeline].content[i - 1].id
    /\ \A svc \in Services :
         LET history == files[History(svc)].content
         IN \A i \in DOMAIN history : history[i].version = Len(history) - i + 1

\* storage.rs save_identity: identity.key is never seen half written, whenever the
\* process ends, and it never disappears once it exists.
IdentityWhole ==
    [][/\ files'[IdentityKey].state # "torn"
       /\ files[IdentityKey].state = "whole" => files'[IdentityKey].state = "whole"]_vars

\* Files every program parses before it rewrites them, and the temporary key.
Unrecoverable ==
    {IdentityTmp, Timeline, Notifications}
        \cup {f \in PerService : f[1] # "permissions"}

\* A process has a copy of the file, or has created it.
InHand(f) ==
    \E p \in Processes :
        Busy(p) /\ (run[p].of = f \/ (run[p].open /\ Current(p).file = f))

\* storage.rs: such a file, left half written by a killed program after every
\* earlier reader ended, is never repaired: no later program gets past it.
TornForever ==
    [][\A f \in Unrecoverable :
          files[f].state = "torn" /\ ~InHand(f) =>
              files'[f].state = "torn" /\ ~InHand(f)']_vars

\* main.rs cmd_service_discover --online.
Online(e) == clock - e.seen < Freshness

\* service_discovery.rs: a peer shown as online was heard within the freshness
\* and the error of its clock, also after the daemon pruned it from memory only
\* and after a command wrote an old copy of the registry back.
OnlineIsRecent ==
    \A e \in files[Registry].content :
        Online(e) => clock - heard[e.peer] < Freshness + MaxSkew

\* main.rs:2364 says of a finished subscribe: when the service has an update the
\* daemon will notify you.
DaemonNotifies == missed = {}

=============================================================================
