-------------------------- MODULE CommandPrograms --------------------------
(* The commands of main.rs that work on files of the data directory.  Each is
   a program: the sequence of reads and rewrites it makes, in order.  A file is
   always read whole and rewritten whole, so a command is described by what it
   loads, when it stops early, and what it makes of the content it loaded.  A
   Vec of the code is a sequence, a HashMap or the set of allowed peers a set. *)
EXTENDS Naturals, Sequences, FiniteSets, Functions

CONSTANTS
    SafeId,     \* service id -> the name its files carry: '/' and '\' become '_'
    Everyone,   \* the peer of a subscription that names no peer
    Local,      \* the peer id "local" of services published by this user
    Nobody      \* no identity, no card, no parent, no port

-----------------------------------------------------------------------------
(* Files and the steps of a program. *)

IdentityKey == <<"identity.key">>
IdentityTmp == <<".identity.key.tmp">>
Card == <<"card.json">>
Contacts == <<"contacts.json">>
Timeline == <<"timeline.json">>
Subscriptions == <<"subscriptions.json">>
Notifications == <<"notifications.json">>
Registry == <<"services.json">>
Port == <<"control.port">>
History(svc) == <<"publications", SafeId[svc]>>
Ratings(svc) == <<"ratings", SafeId[svc]>>
Permission(svc) == <<"permissions", SafeId[svc]>>

Public == [mode |-> "public", list |-> {}]

\* What a missing file is read as.
Empty(f) ==
    CASE f \in {IdentityKey, IdentityTmp, Card, Port} -> Nobody
      [] f = Registry -> {}
      [] f[1] = "permissions" -> Public
      [] OTHER -> <<>>

\* A load that fails ends the command; a peek that fails is passed over.
Load(f) == [do |-> "load", file |-> f]
Peek(f) == [do |-> "peek", file |-> f]
Need == [do |-> "need", file |-> IdentityKey]
Save(f) == [do |-> "save", file |-> f]
Erase(f) == [do |-> "erase", file |-> f]
CreateTmp == [do |-> "create", file |-> IdentityTmp]
FillTmp == [do |-> "fill", file |-> IdentityTmp]
RenameTmp == [do |-> "rename", file |-> IdentityTmp]

-----------------------------------------------------------------------------
(* Programs. *)

\* Mutant: the key is written in place, like every other file.
SaveIdentityInPlace == <<Save(IdentityKey)>>

SaveIdentity == <<CreateTmp, FillTmp, RenameTmp>>
IdentityCreate == <<Load(IdentityKey)>> \o SaveIdentity \o <<Save(Card)>>
IdentityRestore == SaveIdentity
IdentityShow == <<Load(IdentityKey), Load(Card)>>
IdentityExport == <<Load(IdentityKey)>>
DaemonStart == <<Need, Save(Port), Load(Subscriptions)>>
DaemonStatus == <<Peek(Port)>>
DaemonLogLevel == <<Load(Port)>>
ContactAdd == <<Load(Contacts), Save(Contacts)>>
ContactList == <<Load(Contacts)>>
TimelinePost == <<Need, Load(Timeline), Save(Timeline)>>
TimelineShow == <<Need, Load(Timeline)>>
TimelineVerify == <<Load(Timeline)>>
ServiceList == <<Load(Registry)>>
ServiceSearch == <<Load(Registry)>>
ServiceNegotiate == <<Load(Registry)>>
ServiceDiscover == <<Load(Registry), Peek(Port)>>
CacheStats == <<Load(Registry)>>
CacheFlush == <<Load(Registry), Erase(Registry)>>
ServicePublish == <<Load(Registry), Save(Registry)>>
ServicePost(svc) ==
    <<Load(History(svc)), Need, Save(History(svc)), Load(Subscriptions)>>
NotifySubscriber == <<Load(Notifications), Save(Notifications)>>
ServiceHistory(svc) ==
    <<Load(History(svc)), Peek(Ratings(svc)), Peek(Permission(svc))>>
ServiceView(svc) ==
    <<Load(History(svc)), Peek(Ratings(svc)), Peek(Permission(svc))>>
ServiceSubscribe == <<Load(Subscriptions), Save(Subscriptions)>>
ServiceUnsubscribe == <<Load(Subscriptions), Save(Subscriptions)>>
ServiceSubscriptions == <<Load(Subscriptions)>>
ServiceNotifications == <<Load(Notifications)>>
ServiceRead == <<Load(Notifications), Load(Notifications), Save(Notifications)>>
ServiceRate(svc) == <<Need, Load(Ratings(svc)), Save(Ratings(svc)), Load(Ratings(svc))>>
ServicePermit(svc) == <<Save(Permission(svc))>>
ServiceWhitelist(svc) == <<Load(Permission(svc)), Save(Permission(svc))>>
WhitelistList(svc) == <<Load(Permission(svc))>>
Doctor ==
    <<Peek(IdentityKey), Peek(Card), Peek(Contacts), Peek(Timeline),
      Peek(Registry), Peek(Port), Peek(Registry), Peek(Contacts)>>

Program(c) ==
    CASE c.op = "identity_create" -> IdentityCreate
      [] c.op = "identity_restore" -> IdentityRestore
      [] c.op = "identity_show" -> IdentityShow
      [] c.op = "identity_export" -> IdentityExport
      [] c.op = "daemon_start" -> DaemonStart
      [] c.op = "daemon_status" -> DaemonStatus
      [] c.op = "daemon_log_level" -> DaemonLogLevel
      [] c.op = "contact_add" -> ContactAdd
      [] c.op = "contact_list" -> ContactList
      [] c.op = "timeline_post" -> TimelinePost
      [] c.op = "timeline_show" -> TimelineShow
      [] c.op = "timeline_verify" -> TimelineVerify
      [] c.op = "service_list" -> ServiceList
      [] c.op = "service_search" -> ServiceSearch
      [] c.op = "service_negotiate" -> ServiceNegotiate
      [] c.op = "service_discover" -> ServiceDiscover
      [] c.op = "cache_stats" -> CacheStats
      [] c.op = "cache_flush" -> CacheFlush
      [] c.op = "service_publish" -> ServicePublish
      [] c.op = "service_post" -> ServicePost(c.svc)
      [] c.op = "service_history" -> ServiceHistory(c.svc)
      [] c.op = "service_view" -> ServiceView(c.svc)
      [] c.op = "subscribe" -> ServiceSubscribe
      [] c.op = "unsubscribe" -> ServiceUnsubscribe
      [] c.op = "subscriptions" -> ServiceSubscriptions
      [] c.op = "notifications" -> ServiceNotifications
      [] c.op = "read" -> ServiceRead
      [] c.op = "rate" -> ServiceRate(c.svc)
      [] c.op = "permit" -> ServicePermit(c.svc)
      [] c.op \in {"whitelist_add", "whitelist_remove"} -> ServiceWhitelist(c.svc)
      [] c.op = "whitelist_list" -> WhitelistList(c.svc)
      [] c.op = "doctor" -> Doctor

-----------------------------------------------------------------------------
(* Early returns and the steps a content adds. *)

IsListed(subs, svc, peer) == \E i \in DOMAIN subs : subs[i] = <<svc, peer>>
Of(list, svc) == {i \in DOMAIN list : list[i][1] = svc}

\* The command ends after it loaded this content, with or without an error.
StopsAt(c, s, content, rest) ==
    \/ s.do = "need" /\ content = Nobody
    \/ c.op = "identity_create" /\ s.file = IdentityKey /\ content # Nobody
    \/ c.op = "identity_show" /\ s.file = IdentityKey /\ content = Nobody
    \/ c.op = "contact_add" /\ \E i \in DOMAIN content : content[i] = c.peer
    \/ c.op = "read" /\ Len(rest) = 2 /\ Of(content, c.svc) = {}
    \/ c.op = "service_history" /\ s.file = History(c.svc) /\ content = <<>>
    \/ /\ c.op = "service_view" /\ s.file = History(c.svc)
       /\ \A i \in DOMAIN content : content[i].version # c.version
    \/ /\ c.op = "whitelist_add"
       /\ content.mode # "whitelist" \/ c.peer \in content.list
    \/ /\ c.op = "whitelist_remove"
       /\ content.mode # "whitelist" \/ c.peer \notin content.list

\* post notifies once for every subscription to the service, each time by a
\* load and a save of its own; notifications looks into the history of every
\* service it lists.
Continuation(c, s, content, rest) ==
    IF StopsAt(c, s, content, rest) THEN <<>>
    ELSE IF c.op = "service_post" /\ s.file = Subscriptions
         THEN [i \in 1..2 * Cardinality(Of(content, c.svc)) |-> NotifySubscriber[2 - (i % 2)]]
    ELSE IF c.op = "notifications" /\ s.file = Notifications
         THEN [i \in DOMAIN content |-> Peek(History(content[i][1]))]
    ELSE rest

-----------------------------------------------------------------------------
(* What a command makes of a content.  id names what the run creates (a key, a
   post, a publication), author is the identity it loaded. *)

\* Vec::retain.
Retain(list, kept) ==
    LET firstOnes[i \in 0..Len(list)] ==
          IF i = 0 THEN <<>>
          ELSE IF list[i] \in kept THEN Append(firstOnes[i - 1], list[i])
          ELSE firstOnes[i - 1]
    IN firstOnes[Len(list)]

Subscribe(subs, svc, peer) ==
    IF IsListed(subs, svc, peer) THEN subs ELSE Append(subs, <<svc, peer>>)
Unsubscribe(subs, svc, peer) == Retain(subs, Range(subs) \ {<<svc, peer>>})
Notify(manifest, svc, id) == Append(manifest, <<svc, id>>)
ClearNotifications(manifest, svc) == Retain(manifest, {n \in Range(manifest) : n[1] # svc})

\* The first post of a timeline is its genesis, each later one names the last.
Post(timeline, id) ==
    Append(timeline,
           [id |-> id,
            parent |-> IF timeline = <<>> THEN Nobody ELSE timeline[Len(timeline)].id])

\* Mutant: the newest publication stands at the end, read from the front.
PushLast(history, id) ==
    Append(history,
           [id |-> id, version |-> IF history = <<>> THEN 1 ELSE history[1].version + 1])

\* Newest first; the version follows the newest one.
Push(history, id) ==
    <<[id |-> id, version |-> IF history = <<>> THEN 1 ELSE history[1].version + 1]>>
    \o history

\* Mutant: a second rating of a reviewer is added to the first.
AddRatingAgain(ratings, reviewer, score) ==
    Append(ratings, [reviewer |-> reviewer, score |-> score])

AddRating(ratings, reviewer, score) ==
    Append(Retain(ratings, {r \in Range(ratings) : r.reviewer # reviewer}),
           [reviewer |-> reviewer, score |-> score])

Permit(mode) == [mode |-> mode, list |-> {}]
Allow(permission, peer) == [permission EXCEPT !.list = @ \cup {peer}]
Disallow(permission, peer) == [permission EXCEPT !.list = @ \ {peer}]

\* Mutant: an announcement is added to the earlier ones of its peer.
IngestMore(registry, peer, services, stamp) ==
    registry \cup {[peer |-> peer, services |-> services, seen |-> stamp]}

\* Mutant: whoever rewrites the registry stamps all of it.
IngestRestamped(registry, peer, services, stamp) ==
    {[e EXCEPT !.seen = stamp] : e \in {d \in registry : d.peer # peer}}
        \cup {[peer |-> peer, services |-> services, seen |-> stamp]}

\* One entry per announcing peer, replaced by its latest announcement.
Ingest(registry, peer, services, stamp) ==
    {e \in registry : e.peer # peer}
        \cup {[peer |-> peer, services |-> services, seen |-> stamp]}

Edit(c, f, content, id, author, now) ==
    CASE c.op = "subscribe" -> Subscribe(content, c.svc, c.peer)
      [] c.op = "unsubscribe" -> Unsubscribe(content, c.svc, c.peer)
      [] c.op = "read" -> ClearNotifications(content, c.svc)
      [] c.op = "contact_add" -> Append(content, c.peer)
      [] c.op = "timeline_post" -> Post(content, id)
      [] c.op = "service_post" /\ f = History(c.svc) -> Push(content, id)
      [] c.op = "service_post" /\ f = Notifications -> Notify(content, c.svc, id)
      [] c.op = "publication" -> Notify(content, c.svc, c.id)
      [] c.op = "rate" -> AddRating(content, author, c.score)
      [] c.op = "permit" -> Permit(c.mode)
      [] c.op = "whitelist_add" -> Allow(content, c.peer)
      [] c.op = "whitelist_remove" -> Disallow(content, c.peer)
      [] c.op = "service_publish" -> Ingest(content, Local, {c.svc}, now)
      [] f \in {Card, Port} -> id

=============================================================================
