-------------------------- MODULE MCDataDirectory --------------------------
(* One data directory, two terminals and the daemon.  The two services have ids
   that differ in '/' only, so that their files are the same. *)
EXTENDS DataDirectory, TLC

CONSTANTS t1, t2, s1, s2, p1

MCTerminals == {t1, t2}
MCServices == {s1, s2}
MCSafeId == [svc \in Services |-> "s"]
MCPeers == {p1}
MCAnnouncements == {{s1, s2}}

On(op) == [op |-> op]
For(op, svc) == [op |-> op, svc |-> svc]

\* A command that loads one file and ends adds nothing but its early end: one
\* stands for all of them.
Bookkeeping ==
    {On("timeline_post"), For("read", s2), For("service_post", s2), On("notifications"),
     [op |-> "contact_add", peer |-> p1],
     [op |-> "subscribe", svc |-> s2, peer |-> Everyone],
     [op |-> "subscribe", svc |-> s2, peer |-> p1],
     [op |-> "unsubscribe", svc |-> s2, peer |-> Everyone],
     [op |-> "rate", svc |-> s1, score |-> 1], [op |-> "rate", svc |-> s2, score |-> 2],
     [op |-> "permit", svc |-> s1, mode |-> "whitelist"],
     [op |-> "whitelist_add", svc |-> s1, peer |-> p1],
     [op |-> "whitelist_remove", svc |-> s2, peer |-> p1]}

Keys ==
    {On("identity_create"), On("identity_restore"), On("identity_show"), On("timeline_post")}

Discovery == {For("service_publish", s1), On("cache_flush"), On("service_discover")}

Others ==
    {On("identity_export"), On("daemon_start"), On("service_list"), On("daemon_status"),
     On("daemon_log_level"), On("contact_list"), On("timeline_show"),
     On("timeline_verify"), On("service_search"), On("service_negotiate"),
     For("service_history", s1), [op |-> "service_view", svc |-> s2, version |-> 1],
     On("cache_stats"), On("subscriptions"), For("whitelist_list", s1), On("doctor")}

Session(identity, menu, commands, events, kills, seconds) ==
    [identity |-> identity, menu |-> menu, commands |-> commands, events |-> events,
     kills |-> kills, seconds |-> seconds]

MCSessions ==
    {Session(TRUE, Bookkeeping, 3, 1, 1, 0), Session(FALSE, Keys, 3, 0, 1, 0),
     Session(TRUE, Discovery, 3, 2, 0, 2)}

Subscribing ==
    {Session(FALSE,
             {On("identity_create"), [op |-> "subscribe", svc |-> s2, peer |-> Everyone]},
             3, 1, 0, 0)}

\* Every command has a program, on known files.
ASSUME ProgramsKnown ==
    \A c \in Bookkeeping \cup Keys \cup Discovery \cup Others :
        \A i \in DOMAIN Program(c) : Program(c)[i].file \in Files

Interchangeable == Permutations(Terminals)

=============================================================================
