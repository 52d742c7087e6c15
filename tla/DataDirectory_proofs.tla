------------------------ MODULE DataDirectory_proofs ------------------------
EXTENDS DataDirectory, Integers, FiniteSetTheorems, SequenceTheorems,
        WellFoundedInduction, TLAPS

----------------------------------------------------------------------------
(* Vec::retain.                                                            *)

\* The natural numbers have no proper subset that is closed under successor.
LEMMA Induction ==
  ASSUME NEW T, 0 \in T, \A n \in Nat : n \in T => n + 1 \in T
  PROVE  Nat \subseteq T
<1> DEFINE R == {ss \in Nat \X Nat : ss[1] < ss[2]}
           Rest == Nat \ T
<1>1. IsWellFoundedOn(R, Nat)
  BY NatLessThanWellFounded DEF OpToRel
<1>2. \A m \in Nat, n \in Nat : m < n => <<m, n>> \in R
  OBVIOUS
<1> HIDE DEF R
<1>3. SUFFICES ASSUME Rest # {} PROVE FALSE
  OBVIOUS
<1>4. PICK n \in Rest : \A m \in Rest : <<m, n>> \notin R
  <2>1. Rest \subseteq Nat
    OBVIOUS
  <2> HIDE DEF Rest
  <2> QED
    BY <1>1, <1>3, <2>1, WFMin
<1>5. n - 1 \in Nat /\ n - 1 < n
  <2>1. n \in Nat /\ n # 0
    OBVIOUS
  <2> QED
    BY <2>1
<1>6. n - 1 \notin Rest
  BY <1>2, <1>4, <1>5
<1> QED
  BY <1>5, <1>6

\* What retain keeps of the first elements.
NextPrefix(list, kept, g, i) ==
  IF i = 0 THEN << >>
  ELSE IF list[i] \in kept THEN Append(g[i - 1], list[i]) ELSE g[i - 1]
Prefixes(list, kept, g, n) == g = [i \in 0..n |-> NextPrefix(list, kept, g, i)]

\* The recursion of retain defines a function.
LEMMA PrefixesExist ==
  ASSUME NEW list, NEW kept
  PROVE  \A n \in Nat : \E g : Prefixes(list, kept, g, n)
<1> DEFINE T == {n \in Nat : \E g : Prefixes(list, kept, g, n)}
<1>1. 0 \in T
  <2> DEFINE g == [i \in 0..0 |-> << >>]
  <2>1. g = [i \in 0..0 |-> NextPrefix(list, kept, g, i)]
    BY DEF NextPrefix
  <2> QED
    BY <2>1 DEF Prefixes
<1>2. ASSUME NEW n \in Nat, n \in T PROVE n + 1 \in T
  <2>1. PICK g : Prefixes(list, kept, g, n)
    BY <1>2
  <2> DEFINE h == [i \in 0..n + 1 |-> IF i = n + 1 THEN NextPrefix(list, kept, g, i) ELSE g[i]]
  <2>2. ASSUME NEW i \in 0..n + 1 PROVE h[i] = NextPrefix(list, kept, h, i)
    <3>1. CASE i = n + 1
      <4>1. h[i - 1] = g[i - 1]
        BY <3>1
      <4>2. h[i] = NextPrefix(list, kept, g, i)
        BY <3>1
      <4> QED
        BY <4>1, <4>2 DEF NextPrefix
    <3>2. CASE i # n + 1
      <4>1. i \in 0..n /\ h[i] = g[i]
        BY <3>2
      <4>2. g[i] = NextPrefix(list, kept, g, i)
        BY <2>1, <4>1 DEF Prefixes
      <4>3. i # 0 => h[i - 1] = g[i - 1]
        BY <4>1
      <4> QED
        BY <4>1, <4>2, <4>3 DEF NextPrefix
    <3> QED
      BY <3>1, <3>2
  <2>3. h = [i \in 0..n + 1 |-> NextPrefix(list, kept, h, i)]
    <3>1. h = [i \in 0..n + 1 |-> h[i]]
      OBVIOUS
    <3> HIDE DEF h
    <3> QED
      BY <2>2, <3>1
  <2> HIDE DEF h
  <2>4. Prefixes(list, kept, h, n + 1)
    BY <2>3 DEF Prefixes
  <2> QED
    BY <2>4
<1> HIDE DEF T
<1>3. Nat \subseteq T
  BY <1>1, <1>2, Induction
<1> QED
  BY <1>3 DEF T

\* retain keeps exactly the elements it is asked to keep.
LEMMA RetainIs ==
  ASSUME NEW S, NEW list \in Seq(S), NEW kept
  PROVE  /\ Retain(list, kept) \in Seq(S)
         /\ Range(Retain(list, kept)) = Range(list) \cap kept
<1> DEFINE n == Len(list)
           F == CHOOSE g : Prefixes(list, kept, g, n)
<1>1. n \in Nat /\ Prefixes(list, kept, F, n)
  <2>1. n \in Nat
    OBVIOUS
  <2> HIDE DEF n
  <2>2. \E g : Prefixes(list, kept, g, n)
    BY <2>1, PrefixesExist
  <2> QED
    BY <2>1, <2>2, Zenon
<1>2. Retain(list, kept) = F[n]
  BY DEF Retain, Prefixes, NextPrefix
<1> HIDE DEF F
<1> DEFINE T == {i \in Nat : i <= n =>
                   F[i] \in Seq(S) /\ Range(F[i]) = {list[j] : j \in 1..i} \cap kept}
<1>3. 0 \in T
  <2>1. F[0] = << >>
    BY <1>1 DEF Prefixes, NextPrefix
  <2>2. << >> \in Seq(S) /\ Range(<< >>) = {}
    BY EmptySeq DEF Range
  <2>3. {list[j] : j \in 1..0} = {}
    OBVIOUS
  <2> QED
    BY <2>1, <2>2, <2>3
<1>4. ASSUME NEW i \in Nat, i \in T PROVE i + 1 \in T
  <2>1. SUFFICES ASSUME i + 1 <= n
                 PROVE  F[i + 1] \in Seq(S)
                        /\ Range(F[i + 1]) = {list[j] : j \in 1..i + 1} \cap kept
    OBVIOUS
  <2>2. F[i] \in Seq(S) /\ Range(F[i]) = {list[j] : j \in 1..i} \cap kept
    BY <1>1, <1>4, <2>1
  <2>3. F[i + 1] = IF list[i + 1] \in kept THEN Append(F[i], list[i + 1]) ELSE F[i]
    <3>1. i + 1 \in 0..n /\ i + 1 # 0 /\ (i + 1) - 1 = i
      BY <1>1, <2>1
    <3>2. F[i + 1] = NextPrefix(list, kept, F, i + 1)
      BY <1>1, <3>1 DEF Prefixes
    <3> QED
      BY <3>1, <3>2 DEF NextPrefix
  <2>4. list[i + 1] \in S /\ {list[j] : j \in 1..i + 1} = {list[j] : j \in 1..i} \cup {list[i + 1]}
    BY <1>1, <2>1
  <2>5. CASE list[i + 1] \in kept
    <3>1. Append(F[i], list[i + 1]) \in Seq(S)
          /\ Range(Append(F[i], list[i + 1])) = Range(F[i]) \cup {list[i + 1]}
      BY <2>2, <2>4, AppendProperties DEF Range
    <3> QED
      BY <2>2, <2>3, <2>4, <2>5, <3>1
  <2>6. CASE list[i + 1] \notin kept
    BY <2>2, <2>3, <2>4, <2>6
  <2> QED
    BY <2>5, <2>6
<1> HIDE DEF T
<1>5. n \in T
  BY <1>1, <1>3, <1>4, Induction
<1>6. {list[j] : j \in 1..n} = Range(list)
  BY DEF Range
<1> QED
  BY <1>1, <1>2, <1>5, <1>6 DEF T
----------------------------------------------------------------------------
(* What is invariant.                                                      *)

StepRecords ==
  [do : {"load", "peek", "need", "save", "erase", "create", "fill", "rename"}, file : Files]

\* What the user asks for, and what the daemon does by itself.
Orders ==
  UserCommands \cup [op : {"none", "daemon_start", "announce"}]
    \cup [op : {"publication"}, svc : Services, id : Nat]

Entries(speakers) == [peer : speakers, services : SUBSET Services, seen : Int]
Posts == [id : Nat, parent : Nat \cup {Nobody}]
Versions == [id : Nat, version : Nat]
Subscribed == Services \X (Peers \cup {Everyone})
Noted == Services \X Nat
Rated == [reviewer : Nat \cup {Nobody}, score : Nat]
Modes == {"public", "approval", "whitelist"}

Chained(posts) ==
  \A i \in DOMAIN posts :
    posts[i].parent = IF i = 1 THEN Nobody ELSE posts[i - 1].id
CountsDown(history) ==
  \A i \in DOMAIN history : history[i].version = Len(history) - i + 1

\* A content is of its file, and coherent.
ContentOK(f, content) ==
  /\ f \in {IdentityKey, IdentityTmp} => content \in Nat \cup {Nobody}
  /\ f = Contacts => content \in Seq(Peers)
  /\ f = Timeline => content \in Seq(Posts) /\ Chained(content)
  /\ f = Subscriptions => content \in Seq(Subscribed)
  /\ f = Notifications => content \in Seq(Noted)
  /\ f = Registry => content \subseteq Entries(Peers \cup {Local})
  /\ f[1] = "publications" => content \in Seq(Versions) /\ CountsDown(content)
  /\ f[1] = "ratings" => content \in Seq(Rated)
  /\ f[1] = "permissions" => content \in [mode : Modes, list : SUBSET Peers]

\* Which command rewrites which file, and which of them load it first.
Saves(c, f) ==
  /\ f \notin {IdentityKey, IdentityTmp}
  /\ f = Contacts => c.op = "contact_add"
  /\ f = Timeline => c.op = "timeline_post"
  /\ f = Subscriptions => c.op \in {"subscribe", "unsubscribe", "announce"}
  /\ f = Notifications => c.op \in {"service_post", "read", "publication"}
  /\ f = Registry => c.op \in {"service_publish", "announce"}
  /\ f[1] = "publications" => c.op = "service_post" /\ f = History(c.svc)
  /\ f[1] = "ratings" => c.op = "rate"
  /\ f[1] = "permissions" => c.op \in {"permit", "whitelist_add", "whitelist_remove"}
  /\ c.op = "announce" => f \in {Registry, Subscriptions}
LoadsFirst(c, f) == c.op \notin {"announce", "permit"} /\ f \notin {Card, Port}

\* A rewrite is of the file loaded last, and loaded anew after each rewrite.
Quiet(todo, from, to) == \A k \in from..to - 1 : todo[k].do \notin {"load", "save"}
Covered(of, todo, i) ==
  \/ of = todo[i].file /\ Quiet(todo, 1, i)
  \/ \E j \in 1..i - 1 : /\ todo[j].do = "load" /\ todo[j].file = todo[i].file
                         /\ Quiet(todo, j + 1, i)

StepOK(c, of, todo, i) ==
  /\ todo[i].do = "save" =>
       Saves(c, todo[i].file) /\ (LoadsFirst(c, todo[i].file) => Covered(of, todo, i))
  /\ todo[i].do = "load" => todo[i].file # IdentityTmp
  /\ todo[i].do = "need" => todo[i].file = IdentityKey
  /\ todo[i].do = "erase" => todo[i].file = Registry
  /\ todo[i].do \in {"create", "fill", "rename"} => todo[i].file = IdentityTmp
  /\ todo[i].do = "create" => i + 1 \in DOMAIN todo /\ todo[i + 1].do = "fill"
  /\ todo[i].do = "fill" =>
       i + 1 \in DOMAIN todo /\ todo[i + 1].do = "rename" /\ (i > 1 => todo[i - 1].do = "create")
  /\ todo[i].do = "rename" /\ i > 1 => todo[i - 1].do = "fill"
TodoOK(c, of, todo) ==
  todo \in Seq(StepRecords) /\ \A i \in DOMAIN todo : StepOK(c, of, todo, i)

Making == {"fill", "rename"}

RunFields == {"cmd", "todo", "held", "of", "id", "author", "stale", "open", "mixed"}
RunOK(r) ==
  /\ DOMAIN r = RunFields
  /\ r.cmd \in Orders /\ r.id \in Nat /\ r.author \in Nat \cup {Nobody}
  /\ r.stale \in BOOLEAN /\ r.open \in BOOLEAN /\ r.mixed \in BOOLEAN
  /\ r.of # << >> => r.of \in Files /\ ContentOK(r.of, r.held)
  /\ TodoOK(r.cmd, r.of, r.todo)
  /\ r.open => r.todo # << >> /\ r.todo[1].do \in {"save", "fill", "rename"}
  /\ r.todo # << >> /\ r.todo[1].do \in Making => r.open
  /\ r.cmd.op \in {"whitelist_add", "whitelist_remove"} /\ r.of # << >> /\ r.todo # << >> =>
       r.held.mode = "whitelist"

FilesInv ==
  /\ DOMAIN files = Files
  /\ \A f \in Files :
       /\ DOMAIN files[f] = {"state", "content"}
       /\ files[f].state \in {"missing", "torn", "whole"}
       /\ files[f].state # "whole" => files[f].content = Empty(f)
       /\ ContentOK(f, files[f].content)

RunsInv ==
  /\ DOMAIN run = Processes
  /\ \A p \in Processes :
       /\ RunOK(run[p])
       /\ run[p].cmd.op = "announce" => p = Daemon /\ daemon.up

DaemonInv ==
  /\ DOMAIN daemon = {"up", "subs", "registry"}
  /\ daemon.up \in BOOLEAN /\ daemon.subs \in Seq(Subscribed)
  /\ daemon.registry \subseteq Entries(Peers)
  /\ \A d, e \in daemon.registry : d.peer = e.peer => d = e

CountersInv ==
  /\ session \in Sessions /\ clock \in 0..session.seconds
  /\ DOMAIN used = {"commands", "events", "kills"}
  /\ used.commands \in Nat /\ used.events \in Nat /\ used.kills \in Nat
  /\ DOMAIN expected = Kept /\ disturbed \subseteq Files /\ behind \in BOOLEAN

TypeInv == FilesInv /\ RunsInv /\ DaemonInv /\ CountersInv

\* No entry of the registry, wherever a copy of it is, is newer than its peer's
\* last announcement by more than the skew.
Recent(registry, h) == \A e \in registry : e.seen <= h[e.peer] + MaxSkew
HeardInv ==
  /\ heard \in [Peers \cup {Local} -> Nat] /\ \A peer \in Peers \cup {Local} : heard[peer] <= clock
  /\ Recent(files[Registry].content, heard) /\ Recent(daemon.registry, heard)
  /\ \A p \in Processes : run[p].of = Registry => Recent(run[p].held, heard)

\* Who is at the temporary key is alone, and finds it as it left it.
At(p, what) == run[p].todo # << >> /\ run[p].todo[1].do \in what
KeyInv ==
  /\ files[IdentityKey].state # "torn"
  /\ \A p \in Processes :
       /\ At(p, {"fill"}) => files[IdentityTmp].state = "torn"
       /\ At(p, {"rename"}) => files[IdentityTmp].state = "whole"
       /\ \A q \in Processes : At(p, Making) /\ At(q, Making) => p = q

\* Whoever is about to rewrite a file from a copy that is not superseded holds
\* what is expected of it, and so does the daemon that is not behind.
Due(p, f) ==
  /\ LoadsFirst(run[p].cmd, f)
  /\ \E i \in DOMAIN run[p].todo :
       run[p].todo[i].do = "save" /\ run[p].todo[i].file = f /\ Quiet(run[p].todo, 1, i)
CopyIsExpected(p, f) ==
  run[p].of = f /\ ~run[p].stale /\ Due(p, f) => Items(f, run[p].held) = expected[f]
FileIsExpected(f) ==
  /\ files[f].state = "torn" => Writing(f)
  /\ files[f].state # "torn" => Items(f, files[f].content) = expected[f]
DaemonIsUpToDate ==
  daemon.up /\ ~behind /\ Subscriptions \notin disturbed =>
    Range(daemon.subs) = expected[Subscriptions]
KeptInv ==
  /\ \A f \in Kept \ disturbed :
       FileIsExpected(f) /\ \A p \in Processes : CopyIsExpected(p, f)
  /\ DaemonIsUpToDate
  /\ run[Daemon].cmd.op \in {"none", "daemon_start", "announce", "publication"}

----------------------------------------------------------------------------
(* Files and their contents.                                               *)

\* The names of the files.
LEMMA Names ==
  /\ IdentityKey[1] = "identity.key" /\ IdentityTmp[1] = ".identity.key.tmp"
  /\ Card[1] = "card.json" /\ Contacts[1] = "contacts.json" /\ Timeline[1] = "timeline.json"
  /\ Subscriptions[1] = "subscriptions.json" /\ Notifications[1] = "notifications.json"
  /\ Registry[1] = "services.json" /\ Port[1] = "control.port"
  /\ \A svc : /\ History(svc)[1] = "publications" /\ Ratings(svc)[1] = "ratings"
              /\ Permission(svc)[1] = "permissions"
BY DEF IdentityKey, IdentityTmp, Card, Contacts, Timeline, Subscriptions, Notifications,
       Registry, Port, History, Ratings, Permission

\* Every file is one of those with a name of their own, or of a service.
LEMMA FilesAre ==
  /\ \A f \in Files :
       \/ f \in {IdentityKey, IdentityTmp, Card, Contacts, Timeline, Subscriptions,
                 Notifications, Registry, Port}
       \/ f[1] \in {"publications", "ratings", "permissions"}
  /\ {IdentityKey, IdentityTmp, Card, Contacts, Timeline, Subscriptions,
      Notifications, Registry, Port} \subseteq Files
  /\ \A svc \in Services : {History(svc), Ratings(svc), Permission(svc)} \subseteq Files
  /\ Kept \subseteq Files
  /\ << >> \notin Files
BY DEF Files, Kept, PerService, IdentityKey, IdentityTmp, Card, Contacts, Timeline,
       Subscriptions, Notifications, Registry, Port, History, Ratings, Permission

\* What a content must be, file by file.
LEMMA ContentIs ==
  ASSUME NEW x
  PROVE  /\ ContentOK(IdentityKey, x) <=> x \in Nat \cup {Nobody}
         /\ ContentOK(IdentityTmp, x) <=> x \in Nat \cup {Nobody}
         /\ ContentOK(Card, x) /\ ContentOK(Port, x)
         /\ ContentOK(Contacts, x) <=> x \in Seq(Peers)
         /\ ContentOK(Timeline, x) <=> x \in Seq(Posts) /\ Chained(x)
         /\ ContentOK(Subscriptions, x) <=> x \in Seq(Subscribed)
         /\ ContentOK(Notifications, x) <=> x \in Seq(Noted)
         /\ ContentOK(Registry, x) <=> x \subseteq Entries(Peers \cup {Local})
         /\ \A f \in Files :
              /\ f[1] = "publications" =>
                   (ContentOK(f, x) <=> x \in Seq(Versions) /\ CountsDown(x))
              /\ f[1] = "ratings" => (ContentOK(f, x) <=> x \in Seq(Rated))
              /\ f[1] = "permissions" =>
                   (ContentOK(f, x) <=> x \in [mode : Modes, list : SUBSET Peers])
BY Names DEF ContentOK

\* An empty file is a good one.
LEMMA EmptyIs == \A f \in Files : ContentOK(f, Empty(f))
<1> SUFFICES ASSUME NEW f \in Files PROVE ContentOK(f, Empty(f))
  OBVIOUS
<1>1. CASE f \in {IdentityKey, IdentityTmp, Card, Port}
  <2>1. Empty(f) = Nobody
    BY <1>1, Names DEF Empty
  <2> QED
    BY <1>1, <2>1, ContentIs
<1>2. CASE f = Registry
  <2>1. Empty(f) = {}
    BY <1>2, Names DEF Empty
  <2> QED
    BY <1>2, <2>1, ContentIs
<1>3. CASE f[1] = "permissions"
  <2>1. Empty(f) = Public
    BY <1>3, Names DEF Empty
  <2>2. Public \in [mode : Modes, list : SUBSET Peers]
    BY DEF Public, Modes
  <2> QED
    BY <1>3, <2>1, <2>2, ContentIs
<1>4. CASE \/ f \in {Contacts, Timeline, Subscriptions, Notifications}
           \/ f[1] \in {"publications", "ratings"}
  <2>1. Empty(f) = << >>
    BY <1>4, Names DEF Empty
  <2>2. Chained(<< >>) /\ CountsDown(<< >>)
    BY DEF Chained, CountsDown
  <2>3. \A S : << >> \in Seq(S)
    BY EmptySeq
  <2> QED
    BY <1>4, <2>1, <2>2, <2>3, ContentIs
<1> QED
  BY <1>1, <1>2, <1>3, <1>4, FilesAre

----------------------------------------------------------------------------
(* What a command makes of a content.                                      *)

Ids(posts) == {posts[i].id : i \in DOMAIN posts}

\* A post follows the last one.
LEMMA PostIs ==
  ASSUME NEW t \in Seq(Posts), Chained(t), NEW id \in Nat
  PROVE  /\ Post(t, id) \in Seq(Posts) /\ Chained(Post(t, id))
         /\ Ids(Post(t, id)) = Ids(t) \cup {id}
<1> DEFINE parent == IF t = << >> THEN Nobody ELSE t[Len(t)].id
           post == [id |-> id, parent |-> parent]
           n == Len(t)
<1>1. parent \in Nat \cup {Nobody}
  <2>1. ASSUME t # << >> PROVE t[Len(t)].id \in Nat
    <3>1. Len(t) \in 1..Len(t) /\ DOMAIN t = 1..Len(t)
      BY <2>1
    <3>2. t[Len(t)] \in Posts
      BY <3>1
    <3> QED
      BY <3>2 DEF Posts
  <2> QED
    BY <2>1
<1> HIDE DEF parent
<1>2. post \in Posts /\ post.id = id /\ post.parent = parent
  BY <1>1 DEF Posts
<1>3. Post(t, id) = Append(t, post)
  BY DEF Post, parent
<1> HIDE DEF post
<1>4. /\ Append(t, post) \in Seq(Posts) /\ DOMAIN Append(t, post) = 1..n + 1
      /\ Append(t, post)[n + 1] = post
      /\ \A i \in 1..n : Append(t, post)[i] = t[i]
      /\ n \in Nat /\ DOMAIN t = 1..n
  BY <1>2, AppendProperties
<1> DEFINE u == Append(t, post)
<1> HIDE DEF u
<1>5. Chained(u)
  <2>1. ASSUME NEW i \in 1..n + 1
        PROVE  u[i].parent = IF i = 1 THEN Nobody ELSE u[i - 1].id
    <3>1. CASE i = n + 1 /\ n = 0
      BY <1>2, <1>4, <3>1 DEF parent, u
    <3>2. CASE i = n + 1 /\ n > 0
      <4>1. n \in 1..n /\ i - 1 = n /\ i # 1
        BY <1>4, <3>2
      <4>2. t # << >>
        BY <4>1
      <4>3. u[i - 1] = t[n] /\ u[i] = post
        BY <1>4, <3>2, <4>1 DEF u
      <4> QED
        BY <1>2, <4>1, <4>2, <4>3 DEF parent
    <3>3. CASE i # n + 1
      <4>1. i \in 1..n /\ u[i] = t[i] /\ (i # 1 => u[i - 1] = t[i - 1])
        BY <1>4, <3>3 DEF u
      <4> QED
        BY <1>4, <4>1 DEF Chained
    <3> QED
      BY <1>4, <2>1, <3>1, <3>2, <3>3
  <2> QED
    BY <1>4, <2>1 DEF Chained, u
<1>6. {u[i].id : i \in 1..n + 1} = {t[i].id : i \in 1..n} \cup {id}
  BY <1>2, <1>4 DEF u
<1> QED
  BY <1>3, <1>4, <1>5, <1>6 DEF u, Ids

\* A publication is the newest version.
LEMMA PushIs ==
  ASSUME NEW h \in Seq(Versions), CountsDown(h), NEW id \in Nat
  PROVE  /\ Push(h, id) \in Seq(Versions) /\ CountsDown(Push(h, id))
         /\ Ids(Push(h, id)) = Ids(h) \cup {id}
<1> DEFINE n == Len(h)
           version == IF h = << >> THEN 1 ELSE h[1].version + 1
           newest == [id |-> id, version |-> version]
<1>1. version = n + 1 /\ n \in Nat /\ DOMAIN h = 1..n
  <2>1. h # << >> => 1 \in DOMAIN h
    OBVIOUS
  <2> QED
    BY <2>1 DEF CountsDown
<1> HIDE DEF version
<1>2. newest \in Versions /\ newest.id = id /\ newest.version = n + 1
  BY <1>1 DEF Versions
<1>3. Push(h, id) = <<newest>> \o h
  BY DEF Push, version
<1> HIDE DEF newest
<1> DEFINE u == <<newest>> \o h
<1>4. /\ u \in Seq(Versions) /\ Len(u) = n + 1 /\ DOMAIN u = 1..n + 1
      /\ u[1] = newest /\ \A i \in 2..n + 1 : u[i] = h[i - 1]
  BY <1>1, <1>2
<1> HIDE DEF u
<1>5. CountsDown(u)
  <2>1. ASSUME NEW i \in 1..n + 1 PROVE u[i].version = (n + 1) - i + 1
    <3>1. CASE i = 1
      BY <1>1, <1>2, <1>4, <3>1
    <3>2. CASE i # 1
      <4>1. u[i] = h[i - 1] /\ i - 1 \in 1..n
        BY <1>1, <1>4, <3>2
      <4>2. h[i - 1].version = n - (i - 1) + 1
        BY <1>1, <4>1 DEF CountsDown
      <4> QED
        BY <1>1, <4>1, <4>2
    <3> QED
      BY <3>1, <3>2
  <2> QED
    BY <1>4, <2>1 DEF CountsDown
<1>6. {u[i].id : i \in 1..n + 1} = {h[i].id : i \in 1..n} \cup {id}
  <2>1. ASSUME NEW i \in 1..n + 1 PROVE u[i].id \in {h[j].id : j \in 1..n} \cup {id}
    <3>1. CASE i = 1
      BY <1>2, <1>4, <3>1
    <3>2. CASE i # 1
      <4>1. u[i] = h[i - 1] /\ i - 1 \in 1..n
        BY <1>1, <1>4, <3>2
      <4> QED
        BY <4>1
    <3> QED
      BY <3>1, <3>2
  <2>2. ASSUME NEW j \in 1..n PROVE h[j].id \in {u[i].id : i \in 1..n + 1}
    <3>1. j + 1 \in 2..n + 1 /\ u[j + 1] = h[(j + 1) - 1] /\ (j + 1) - 1 = j
      BY <1>1, <1>4
    <3> QED
      BY <1>1, <3>1
  <2>3. id \in {u[i].id : i \in 1..n + 1}
    BY <1>1, <1>2, <1>4
  <2> QED
    BY <2>1, <2>2, <2>3
<1>7. Push(h, id) = u
  BY <1>3 DEF u
<1> QED
  BY <1>1, <1>4, <1>5, <1>6, <1>7 DEF Ids

\* What each command carries with it.
LEMMA OrderIs ==
  ASSUME NEW c \in Orders
  PROVE  /\ c.op = "contact_add" => c.peer \in Peers
         /\ c.op \in {"subscribe", "unsubscribe"} =>
              c.svc \in Services /\ c.peer \in Peers \cup {Everyone}
         /\ c.op \in {"service_publish", "service_post", "service_history", "read",
                      "whitelist_list", "service_view"} => c.svc \in Services
         /\ c.op = "publication" => c.svc \in Services /\ c.id \in Nat
         /\ c.op = "rate" => c.svc \in Services /\ c.score \in Nat
         /\ c.op = "permit" => c.svc \in Services /\ c.mode \in Modes
         /\ c.op \in {"whitelist_add", "whitelist_remove"} =>
              c.svc \in Services /\ c.peer \in Peers
BY DEF Orders, UserCommands, Modes

\* The elements of a content, file by file.
LEMMA ItemsAre ==
  ASSUME NEW x
  PROVE  /\ \A f \in {Contacts, Subscriptions, Notifications} : Items(f, x) = Range(x)
         /\ Items(Timeline, x) = Ids(x)
         /\ \A f \in Files :
              /\ f[1] = "publications" => Items(f, x) = Ids(x)
              /\ f[1] = "ratings" => Items(f, x) = Range(x)
              /\ f[1] = "permissions" => Items(f, x) = {x}
BY Names DEF Items, Ids

\* An element is added at the end.
LEMMA AppendIs ==
  ASSUME NEW S, NEW s \in Seq(S), NEW e \in S
  PROVE  Append(s, e) \in Seq(S) /\ Range(Append(s, e)) = Range(s) \cup {e}
BY AppendProperties DEF Range

\* The range of a sequence.
LEMMA RangeIs ==
  ASSUME NEW S, NEW s \in Seq(S)
  PROVE  Range(s) \subseteq S /\ IsFiniteSet(Range(s)) /\ IsFiniteSet(DOMAIN s)
<1>1. DOMAIN s = 1..Len(s) /\ Len(s) \in Nat /\ IsFiniteSet(1..Len(s))
  BY FS_Interval
<1>2. Range(s) = {s[i] : i \in DOMAIN s}
  BY DEF Range
<1>3. Range(s) \subseteq S
  BY <1>1, <1>2
<1>4. s \in Surjection(DOMAIN s, Range(s))
  BY <1>1, <1>2 DEF Surjection
<1>5. IsFiniteSet(Range(s))
  BY <1>1, <1>4, FS_Surjection
<1> QED
  BY <1>1, <1>3, <1>5
\* Subscribing adds the subscription, once.
LEMMA SubscribeIs ==
  ASSUME NEW s \in Seq(Subscribed), NEW svc \in Services, NEW peer \in Peers \cup {Everyone}
  PROVE  /\ Subscribe(s, svc, peer) \in Seq(Subscribed)
         /\ Range(Subscribe(s, svc, peer)) = Range(s) \cup {<<svc, peer>>}
<1>1. <<svc, peer>> \in Subscribed
  BY DEF Subscribed
<1>2. CASE IsListed(s, svc, peer)
  BY <1>2 DEF Subscribe, IsListed, Range
<1>3. CASE ~IsListed(s, svc, peer)
  BY <1>1, <1>3, AppendIs DEF Subscribe
<1> QED
  BY <1>2, <1>3

\* Unsubscribing and reading take away, and nothing else.
LEMMA RemovalsAre ==
  /\ \A s \in Seq(Subscribed) : \A svc, peer :
       /\ Unsubscribe(s, svc, peer) \in Seq(Subscribed)
       /\ Range(Unsubscribe(s, svc, peer)) = Range(s) \ {<<svc, peer>>}
  /\ \A s \in Seq(Noted) : \A svc :
       /\ ClearNotifications(s, svc) \in Seq(Noted)
       /\ Range(ClearNotifications(s, svc)) = {n \in Range(s) : n[1] # svc}
<1>1. ASSUME NEW s \in Seq(Subscribed), NEW svc, NEW peer
      PROVE  /\ Unsubscribe(s, svc, peer) \in Seq(Subscribed)
             /\ Range(Unsubscribe(s, svc, peer)) = Range(s) \ {<<svc, peer>>}
  <2> DEFINE kept == Range(s) \ {<<svc, peer>>}
  <2>1. Retain(s, kept) \in Seq(Subscribed) /\ Range(Retain(s, kept)) = Range(s) \cap kept
    BY RetainIs
  <2> QED
    BY <2>1 DEF Unsubscribe
<1>2. ASSUME NEW s \in Seq(Noted), NEW svc
      PROVE  /\ ClearNotifications(s, svc) \in Seq(Noted)
             /\ Range(ClearNotifications(s, svc)) = {n \in Range(s) : n[1] # svc}
  <2> DEFINE kept == {n \in Range(s) : n[1] # svc}
  <2>1. Retain(s, kept) \in Seq(Noted) /\ Range(Retain(s, kept)) = Range(s) \cap kept
    BY RetainIs
  <2> QED
    BY <2>1 DEF ClearNotifications
<1> QED
  BY <1>1, <1>2

\* A rating takes the place of the reviewer's earlier ones.
LEMMA RatingIs ==
  ASSUME NEW s \in Seq(Rated), NEW reviewer \in Nat \cup {Nobody}, NEW score \in Nat
  PROVE  /\ AddRating(s, reviewer, score) \in Seq(Rated)
         /\ Range(AddRating(s, reviewer, score)) =
              {r \in Range(s) : r.reviewer # reviewer}
                \cup {[reviewer |-> reviewer, score |-> score]}
<1> DEFINE kept == {r \in Range(s) : r.reviewer # reviewer}
           rating == [reviewer |-> reviewer, score |-> score]
<1>1. rating \in Rated
  BY DEF Rated
<1>2. Retain(s, kept) \in Seq(Rated) /\ Range(Retain(s, kept)) = Range(s) \cap kept
  BY RetainIs
<1>3. AddRating(s, reviewer, score) = Append(Retain(s, kept), rating)
  BY DEF AddRating
<1>4. Range(s) \cap kept = kept
  OBVIOUS
<1> HIDE DEF kept, rating
<1>5. /\ Append(Retain(s, kept), rating) \in Seq(Rated)
      /\ Range(Append(Retain(s, kept), rating)) = Range(Retain(s, kept)) \cup {rating}
  BY <1>1, <1>2, AppendIs
<1> QED
  BY <1>2, <1>3, <1>4, <1>5 DEF kept, rating

\* The list of a permission is changed, its mode is not.
LEMMA ListsAre ==
  ASSUME NEW x \in [mode : Modes, list : SUBSET Peers], x.mode = "whitelist",
         NEW peer \in Peers
  PROVE  /\ Allow(x, peer) = [mode |-> "whitelist", list |-> x.list \cup {peer}]
         /\ Disallow(x, peer) = [mode |-> "whitelist", list |-> x.list \ {peer}]
         /\ [mode |-> "whitelist", list |-> x.list \cup {peer}] \in [mode : Modes, list : SUBSET Peers]
         /\ [mode |-> "whitelist", list |-> x.list \ {peer}] \in [mode : Modes, list : SUBSET Peers]
<1>1. "whitelist" \in Modes
  BY DEF Modes
<1>2. x = [mode |-> x.mode, list |-> x.list] /\ x.list \subseteq Peers
  OBVIOUS
<1> QED
  BY <1>1, <1>2 DEF Allow, Disallow

\* The registry gains the entry of the peer that announced, and of no other.
LEMMA IngestIs ==
  ASSUME NEW speakers, NEW reg \in SUBSET Entries(speakers), NEW peer \in speakers,
         NEW services \in SUBSET Services, NEW stamp \in Int
  PROVE  /\ Ingest(reg, peer, services, stamp) \subseteq Entries(speakers)
         /\ \A e \in Ingest(reg, peer, services, stamp) :
              \/ e \in reg /\ e.peer # peer
              \/ e = [peer |-> peer, services |-> services, seen |-> stamp]
BY DEF Ingest, Entries

\* A command rewrites the content x of a file as y.
Rewrites(c, f, x, id, author, now, y) ==
  /\ c \in Orders /\ c.op # "announce"
  /\ f \in Files /\ f \notin {Card, Port} /\ Saves(c, f)
  /\ c.op = "permit" \/ ContentOK(f, x)
  /\ c.op \in {"whitelist_add", "whitelist_remove"} => x.mode = "whitelist"
  /\ id \in Nat /\ author \in Nat \cup {Nobody} /\ now \in Int
  /\ y = Edit(c, f, x, id, author, now)

\* What a rewrite makes of a good content is a good content, and its elements are
\* what the command was asked to make of the elements.
LEMMA EditIs ==
  ASSUME NEW c, NEW f, NEW x, NEW id, NEW author, NEW now, NEW y,
         Rewrites(c, f, x, id, author, now, y)
  PROVE  /\ ContentOK(f, y)
         /\ f # Registry => Items(f, y) = Asked(c, f, Items(f, x), id, author)
<1>0. /\ c \in Orders /\ c.op # "announce"
      /\ f \in Files /\ f \notin {Card, Port} /\ Saves(c, f)
      /\ c.op = "permit" \/ ContentOK(f, x)
      /\ c.op \in {"whitelist_add", "whitelist_remove"} => x.mode = "whitelist"
      /\ id \in Nat /\ author \in Nat \cup {Nobody} /\ now \in Int
      /\ y = Edit(c, f, x, id, author, now)
  BY DEF Rewrites
<1> USE <1>0
<1>c. /\ c.op = "contact_add" => c.peer \in Peers
      /\ c.op \in {"subscribe", "unsubscribe"} =>
           c.svc \in Services /\ c.peer \in Peers \cup {Everyone}
      /\ c.op \in {"service_publish", "service_post", "read"} => c.svc \in Services
      /\ c.op = "publication" => c.svc \in Services /\ c.id \in Nat
      /\ c.op = "rate" => c.svc \in Services /\ c.score \in Nat
      /\ c.op = "permit" => c.mode \in Modes
      /\ c.op \in {"whitelist_add", "whitelist_remove"} => c.peer \in Peers
  BY OrderIs
<1> USE <1>c, Names
<1>1. CASE f = Contacts
  <2>1. c.op = "contact_add" /\ x \in Seq(Peers) /\ y = Append(x, c.peer)
    BY <1>1, ContentIs DEF Saves, Edit
  <2>2. y \in Seq(Peers) /\ Range(y) = Range(x) \cup {c.peer}
    BY <2>1, AppendIs
  <2>3. Asked(c, f, Range(x), id, author) = Range(x) \cup {c.peer}
    BY <2>1 DEF Asked
  <2> QED
    BY <1>1, <2>2, <2>3, ContentIs, ItemsAre
<1>2. CASE f = Timeline
  <2>1. c.op = "timeline_post" /\ x \in Seq(Posts) /\ Chained(x) /\ y = Post(x, id)
    BY <1>2, ContentIs DEF Saves, Edit
  <2>2. y \in Seq(Posts) /\ Chained(y)
        /\ Ids(y) = Ids(x) \cup {id}
    BY <2>1, PostIs
  <2>3. Asked(c, f, Ids(x), id, author) = Ids(x) \cup {id}
    BY <2>1 DEF Asked
  <2> QED
    BY <1>2, <2>2, <2>3, ContentIs, ItemsAre
<1>3. CASE f = Subscriptions
  <2>1. c.op \in {"subscribe", "unsubscribe"} /\ x \in Seq(Subscribed)
    BY <1>3, ContentIs DEF Saves
  <2>2. CASE c.op = "subscribe"
    <3>1. y = Subscribe(x, c.svc, c.peer)
      BY <2>2 DEF Edit
    <3>2. Asked(c, f, Range(x), id, author) = Range(x) \cup {<<c.svc, c.peer>>}
      BY <2>2 DEF Asked
    <3>3. y \in Seq(Subscribed) /\ Range(y) = Range(x) \cup {<<c.svc, c.peer>>}
      BY <2>1, <2>2, <3>1, SubscribeIs
    <3> QED
      BY <1>3, <3>2, <3>3, ContentIs, ItemsAre
  <2>3. CASE c.op = "unsubscribe"
    <3>1. y = Unsubscribe(x, c.svc, c.peer)
      BY <2>3 DEF Edit
    <3>2. Asked(c, f, Range(x), id, author) = Range(x) \ {<<c.svc, c.peer>>}
      BY <2>3 DEF Asked
    <3>3. y \in Seq(Subscribed) /\ Range(y) = Range(x) \ {<<c.svc, c.peer>>}
      BY <2>1, <3>1, RemovalsAre
    <3> QED
      BY <1>3, <3>2, <3>3, ContentIs, ItemsAre
  <2> QED
    BY <2>1, <2>2, <2>3
<1>4. CASE f = Notifications
  <2>1. c.op \in {"service_post", "read", "publication"} /\ x \in Seq(Noted) /\ f # History(c.svc)
    BY <1>4, ContentIs DEF Saves
  <2>2. CASE c.op = "read"
    <3>1. y = ClearNotifications(x, c.svc)
      BY <2>2 DEF Edit
    <3>2. Asked(c, f, Range(x), id, author) = {n \in Range(x) : n[1] # c.svc}
      BY <2>2 DEF Asked
    <3>3. y \in Seq(Noted) /\ Range(y) = {n \in Range(x) : n[1] # c.svc}
      BY <2>1, <3>1, RemovalsAre
    <3> QED
      BY <1>4, <3>2, <3>3, ContentIs, ItemsAre
  <2>3. CASE c.op \in {"service_post", "publication"}
    <3> DEFINE n == <<c.svc, IF c.op = "publication" THEN c.id ELSE id>>
    <3>1. y = Append(x, n)
      BY <1>4, <2>1, <2>3 DEF Edit, Notify
    <3>2. Asked(c, f, Range(x), id, author) = Range(x) \cup {n}
      BY <1>4, <2>1, <2>3 DEF Asked
    <3>3. n \in Noted
      BY <2>3 DEF Noted
    <3> HIDE DEF n
    <3>4. y \in Seq(Noted) /\ Range(y) = Range(x) \cup {n}
      BY <2>1, <3>1, <3>3, AppendIs
    <3> QED
      BY <1>4, <3>2, <3>4, ContentIs, ItemsAre
  <2> QED
    BY <2>1, <2>2, <2>3
<1>5. CASE f = Registry
  <2>1. c.op = "service_publish" /\ x \in SUBSET Entries(Peers \cup {Local})
    BY <1>5, ContentIs DEF Saves
  <2>2. y = Ingest(x, Local, {c.svc}, now)
    BY <1>5, <2>1 DEF Edit
  <2>3. {c.svc} \in SUBSET Services
    BY <2>1
  <2>4. y \subseteq Entries(Peers \cup {Local})
    BY <2>1, <2>2, <2>3, IngestIs, Local \in Peers \cup {Local}
  <2> QED
    BY <1>5, <2>4, ContentIs
<1>6. CASE f[1] = "publications"
  <2>1. c.op = "service_post" /\ f = History(c.svc) /\ x \in Seq(Versions) /\ CountsDown(x)
    BY <1>6, ContentIs DEF Saves
  <2>2. y = Push(x, id)
    BY <2>1 DEF Edit
  <2>3. y \in Seq(Versions) /\ CountsDown(y)
        /\ Ids(y) = Ids(x) \cup {id}
    BY <2>1, <2>2, PushIs
  <2>4. Asked(c, f, Ids(x), id, author) = Ids(x) \cup {id}
    BY <2>1 DEF Asked
  <2> QED
    BY <1>6, <2>3, <2>4, ContentIs, ItemsAre
<1>7. CASE f[1] = "ratings"
  <2>1. c.op = "rate" /\ x \in Seq(Rated) /\ c.score \in Nat
    BY <1>7, ContentIs DEF Saves
  <2>2. y = AddRating(x, author, c.score)
    BY <2>1 DEF Edit
  <2>3. Asked(c, f, Range(x), id, author) =
                 {r \in Range(x) : r.reviewer # author} \cup {[reviewer |-> author, score |-> c.score]}
    BY <2>1 DEF Asked
  <2>4. y \in Seq(Rated)
        /\ Range(y) = {r \in Range(x) : r.reviewer # author}
                        \cup {[reviewer |-> author, score |-> c.score]}
    BY <2>1, <2>2, RatingIs
  <2>5. ContentOK(f, y)
    BY <1>7, <2>4, ContentIs
  <2>6. Items(f, x) = Range(x) /\ Items(f, y) = Range(y)
    BY <1>7, ItemsAre
  <2> QED
    BY <2>3, <2>4, <2>5, <2>6
<1>p. f[1] = "permissions" =>
        /\ y \in [mode : Modes, list : SUBSET Peers] => ContentOK(f, y)
        /\ Items(f, x) = {x} /\ Items(f, y) = {y}
  BY ContentIs, ItemsAre
<1>8. CASE f[1] = "permissions"
  <2> USE <1>8
  <2>1. c.op \in {"permit", "whitelist_add", "whitelist_remove"}
    BY <1>8 DEF Saves
  <2>2. CASE c.op = "permit"
    <3>1. y = [mode |-> c.mode, list |-> {}] /\ y \in [mode : Modes, list : SUBSET Peers]
      BY <2>2 DEF Edit, Permit
    <3>2. Asked(c, f, {x}, id, author) = {[mode |-> c.mode, list |-> {}]}
      BY <2>2 DEF Asked
    <3> QED
      BY <1>p, <3>1, <3>2
  <2>3. CASE c.op = "whitelist_add"
    <3>0. x.mode = "whitelist" /\ c.peer \in Peers
      BY <2>3
    <3>1. x \in [mode : Modes, list : SUBSET Peers] /\ y = Allow(x, c.peer)
      BY <1>8, <2>3, ContentIs DEF Edit
    <3>2. Asked(c, f, {x}, id, author) =
                   {[mode |-> "whitelist", list |-> e.list \cup {c.peer}] : e \in {x}}
      BY <2>3 DEF Asked
    <3>3. y = [mode |-> "whitelist", list |-> x.list \cup {c.peer}]
          /\ y \in [mode : Modes, list : SUBSET Peers]
      BY <3>0, <3>1, ListsAre, ZenonT(40)
    <3>4. Asked(c, f, {x}, id, author) = {y}
      BY <3>2, <3>3
    <3> QED
      BY <1>p, <3>3, <3>4
  <2>4. CASE c.op = "whitelist_remove"
    <3>0. x.mode = "whitelist" /\ c.peer \in Peers
      BY <2>4
    <3>1. x \in [mode : Modes, list : SUBSET Peers] /\ y = Disallow(x, c.peer)
      BY <1>8, <2>4, ContentIs DEF Edit
    <3>2. Asked(c, f, {x}, id, author) =
                   {[mode |-> "whitelist", list |-> e.list \ {c.peer}] : e \in {x}}
      BY <2>4 DEF Asked
    <3>3. y = [mode |-> "whitelist", list |-> x.list \ {c.peer}]
          /\ y \in [mode : Modes, list : SUBSET Peers]
      BY <3>0, <3>1, ListsAre, ZenonT(40)
    <3>4. Asked(c, f, {x}, id, author) = {y}
      BY <3>2, <3>3
    <3> QED
      BY <1>p, <3>3, <3>4
  <2> QED
    BY <2>1, <2>2, <2>3, <2>4
<1>9. f \notin {IdentityKey, IdentityTmp}
  BY DEF Saves
<1> QED
  BY <1>1, <1>2, <1>3, <1>4, <1>5, <1>6, <1>7, <1>8, <1>9, FilesAre

----------------------------------------------------------------------------
(* Programs, and what is left of one.                                      *)

\* A step that rewrites nothing.
Harmless ==
  {s \in StepRecords : \/ s.do = "load" /\ s.file # IdentityTmp
                       \/ s.do = "peek"
                       \/ s.do = "need" /\ s.file = IdentityKey
                       \/ s.do = "erase" /\ s.file = Registry}

\* A rewrite of what was loaded one step before, or two with the author between.
Prompt(todo, i) ==
  \/ i > 1 /\ todo[i - 1] = Load(todo[i].file)
  \/ i > 2 /\ todo[i - 1] = Need /\ todo[i - 2] = Load(todo[i].file)

Plain(c, todo) ==
  /\ todo \in Seq(StepRecords)
  /\ \A i \in DOMAIN todo :
       \/ todo[i] \in Harmless
       \/ /\ todo[i].do = "save" /\ Saves(c, todo[i].file)
          /\ LoadsFirst(c, todo[i].file) => Prompt(todo, i)

\* A plain program is a good one, whatever its process loaded before.
LEMMA PlainIsOK ==
  ASSUME NEW c, NEW of, NEW todo, Plain(c, todo)
  PROVE  TodoOK(c, of, todo)
<1>1. todo \in Seq(StepRecords)
  BY DEF Plain
<1>2. DOMAIN todo = 1..Len(todo) /\ Len(todo) \in Nat
  BY <1>1
<1>3. ASSUME NEW i \in DOMAIN todo PROVE StepOK(c, of, todo, i)
  <2>1. CASE todo[i] \in Harmless
    BY <2>1 DEF StepOK, Harmless
  <2>2. CASE /\ todo[i].do = "save" /\ Saves(c, todo[i].file)
             /\ LoadsFirst(c, todo[i].file) => Prompt(todo, i)
    <3>1. ASSUME Prompt(todo, i) PROVE Covered(of, todo, i)
      <4>1. CASE i > 1 /\ todo[i - 1] = Load(todo[i].file)
        <5>1. i - 1 \in 1..i - 1 /\ Quiet(todo, (i - 1) + 1, i)
          BY <1>2, <4>1 DEF Quiet
        <5> QED
          BY <4>1, <5>1 DEF Covered, Load
      <4>2. CASE i > 2 /\ todo[i - 1] = Need /\ todo[i - 2] = Load(todo[i].file)
        <5>1. i - 2 \in 1..i - 1 /\ Quiet(todo, (i - 2) + 1, i)
          BY <1>2, <4>2 DEF Quiet, Need
        <5> QED
          BY <4>2, <5>1 DEF Covered, Load
      <4> QED
        BY <3>1, <4>1, <4>2 DEF Prompt
    <3> QED
      BY <2>2, <3>1 DEF StepOK
  <2> QED
    BY <2>1, <2>2 DEF Plain
<1> QED
  BY <1>1, <1>3 DEF TodoOK

\* What is left of a good program after its first step is good.
LEMMA RestIsOK ==
  ASSUME NEW c, NEW of, NEW todo, TodoOK(c, of, todo), todo # << >>,
         NEW of2, of2 = IF todo[1].do = "load" THEN todo[1].file ELSE of
  PROVE  TodoOK(c, of2, Tail(todo))
<1> DEFINE n == Len(todo)
           rest == Tail(todo)
<1>1. todo \in Seq(StepRecords) /\ \A i \in DOMAIN todo : StepOK(c, of, todo, i)
  BY DEF TodoOK
<1>2. /\ n \in Nat /\ n > 0 /\ DOMAIN todo = 1..n
      /\ rest \in Seq(StepRecords) /\ DOMAIN rest = 1..n - 1
      /\ \A i \in 1..n - 1 : rest[i] = todo[i + 1]
  BY <1>1
<1> HIDE DEF n, rest
<1>3. ASSUME NEW i \in 1..n - 1 PROVE StepOK(c, of2, rest, i)
  <2>1. i + 1 \in 1..n /\ i + 1 > 1 /\ (i + 1) - 1 = i /\ rest[i] = todo[i + 1]
    BY <1>2
  <2>2. StepOK(c, of, todo, i + 1)
    BY <1>1, <1>2, <2>1
  <2>3. ASSUME Covered(of, todo, i + 1) PROVE Covered(of2, rest, i)
    <3>1. ASSUME NEW a \in 1..n, Quiet(todo, a + 1, i + 1) PROVE Quiet(rest, a, i)
      BY <1>2, <2>1, <3>1 DEF Quiet
    <3>2. CASE of = todo[i + 1].file /\ Quiet(todo, 1, i + 1)
      <4>1. todo[1].do \notin {"load", "save"} /\ Quiet(rest, 1, i)
        BY <1>2, <2>1, <3>1, <3>2 DEF Quiet
      <4> QED
        BY <2>1, <3>2, <4>1 DEF Covered
    <3>3. ASSUME NEW j \in 1..i, todo[j].do = "load", todo[j].file = todo[i + 1].file,
                 Quiet(todo, j + 1, i + 1)
          PROVE  Covered(of2, rest, i)
      <4>1. Quiet(rest, j, i)
        BY <1>2, <2>1, <3>1, <3>3
      <4>2. CASE j = 1
        BY <2>1, <3>3, <4>1, <4>2 DEF Covered
      <4>3. CASE j # 1
        <5>1. j - 1 \in 1..i - 1 /\ (j - 1) + 1 = j /\ rest[j - 1] = todo[j]
          BY <1>2, <2>1, <4>3
        <5> QED
          BY <2>1, <3>3, <4>1, <5>1 DEF Covered
      <4> QED
        BY <4>2, <4>3
    <3> QED
      BY <2>1, <2>3, <3>2, <3>3 DEF Covered
  <2>4. i > 1 => i - 1 \in 1..n - 1 /\ rest[i - 1] = todo[i]
    BY <1>2
  <2>5. (i + 1) + 1 \in 1..n => i + 1 \in 1..n - 1 /\ rest[i + 1] = todo[(i + 1) + 1]
    BY <1>2
  <2> QED
    BY <1>2, <2>1, <2>2, <2>3, <2>4, <2>5 DEF StepOK
<1>4. TodoOK(c, of2, rest)
  BY <1>2, <1>3 DEF TodoOK
<1> QED
  BY <1>4 DEF rest

\* The key is filled after it is created, and renamed after it is filled.
LEMMA NextIs ==
  ASSUME NEW c, NEW of, NEW todo, TodoOK(c, of, todo), todo # << >>, Tail(todo) # << >>
  PROVE  /\ Tail(todo)[1] = todo[2]
         /\ todo[2].do = "fill" => todo[1].do = "create"
         /\ todo[2].do = "rename" => todo[1].do = "fill"
<1>1. todo \in Seq(StepRecords) /\ \A i \in DOMAIN todo : StepOK(c, of, todo, i)
  BY DEF TodoOK
<1>2. 2 \in DOMAIN todo /\ Tail(todo)[1] = todo[2]
  BY <1>1
<1>3. StepOK(c, of, todo, 2)
  BY <1>1, <1>2
<1> QED
  BY <1>2, <1>3 DEF StepOK

\* The steps are records.
LEMMA Steps ==
  /\ \A f \in Files : /\ Peek(f) \in Harmless
                      /\ f # IdentityTmp => Load(f) \in Harmless
                      /\ Save(f) \in StepRecords /\ Save(f).do = "save" /\ Save(f).file = f
  /\ Need \in Harmless /\ Erase(Registry) \in Harmless
  /\ Harmless \subseteq StepRecords
BY Names, FilesAre DEF Harmless, StepRecords, Peek, Load, Save, Need, Erase

\* A program that rewrites nothing is good.
LEMMA HarmlessIsOK ==
  ASSUME NEW c, NEW of, NEW todo \in Seq(Harmless)
  PROVE  TodoOK(c, of, todo)
<1>1. todo \in Seq(StepRecords)
  BY Steps
<1>2. \A i \in DOMAIN todo : todo[i] \in Harmless
  OBVIOUS
<1> QED
  BY <1>1, <1>2, PlainIsOK DEF Plain

\* A file is loaded and rewritten.
LEMMA LoadSaveIsOK ==
  ASSUME NEW c, NEW of, NEW f \in Files, f # IdentityTmp, Saves(c, f)
  PROVE  TodoOK(c, of, <<Load(f), Save(f)>>)
<1> DEFINE t == <<Load(f), Save(f)>>
<1>1. /\ t \in Seq(StepRecords) /\ DOMAIN t = {1, 2}
      /\ t[1] = Load(f) /\ t[2] = Save(f)
  BY Steps
<1> HIDE DEF t
<1>2. Load(f) \in Harmless /\ Save(f).do = "save" /\ Save(f).file = f
  BY Steps
<1>3. Prompt(t, 2)
  BY <1>1, <1>2 DEF Prompt
<1>4. Plain(c, t)
  BY <1>1, <1>2, <1>3 DEF Plain
<1> QED
  BY <1>4, PlainIsOK DEF t

\* Every command is a good program.
LEMMA ProgramIsOK ==
  ASSUME NEW c \in Orders, c \in UserCommands \/ c.op = "daemon_start"
  PROVE  TodoOK(c, << >>, Program(c)) /\ Program(c) # << >> /\ Program(c)[1].do \notin Making
<1> DEFINE Good(t) == TodoOK(c, << >>, t) /\ t # << >> /\ t[1].do \notin Making
<1>c. /\ c.op \in {"service_post", "service_history", "service_view", "rate", "permit",
                   "whitelist_add", "whitelist_remove", "whitelist_list"} =>
           /\ c.svc \in Services
           /\ {History(c.svc), Ratings(c.svc), Permission(c.svc)} \subseteq Files
  BY OrderIs, FilesAre DEF Orders, UserCommands
<1>n. /\ IdentityKey # IdentityTmp /\ Card # IdentityTmp /\ Contacts # IdentityTmp
      /\ Timeline # IdentityTmp /\ Registry # IdentityTmp /\ Port # IdentityTmp
      /\ Subscriptions # IdentityTmp /\ Notifications # IdentityTmp
      /\ \A svc : /\ History(svc) # IdentityTmp /\ Ratings(svc) # IdentityTmp
                  /\ Permission(svc) # IdentityTmp
  BY Names
<1>h. /\ Need \in Harmless /\ Erase(Registry) \in Harmless
      /\ \A f \in {IdentityKey, Card, Contacts, Timeline, Subscriptions, Notifications,
                   Registry, Port} : Load(f) \in Harmless /\ Peek(f) \in Harmless
      /\ \A f \in Files : Peek(f) \in Harmless
      /\ \A f \in Files : f # IdentityTmp => Load(f) \in Harmless
  BY <1>n, Steps, FilesAre
<1>s. \A s \in Harmless : s.do \notin Making
  BY DEF Harmless, Making
<1>r. ASSUME NEW t \in Seq(Harmless), t # << >> PROVE Good(t)
  <2>1. t[1] \in Harmless
    BY <1>r
  <2> QED
    BY <1>r, <1>s, <2>1, HarmlessIsOK
<1>l. ASSUME NEW f \in Files, f # IdentityTmp, Saves(c, f) PROVE Good(<<Load(f), Save(f)>>)
  BY <1>l, LoadSaveIsOK DEF Load, Making
<1>p. ASSUME NEW t \in Seq(StepRecords), t # << >>, Plain(c, t), t[1].do \notin Making
      PROVE  Good(t)
  BY <1>p, PlainIsOK
<1> HIDE DEF Good
<1>t. /\ \A a \in Harmless : <<a>> \in Seq(Harmless) /\ <<a>> # << >>
      /\ \A a, b \in Harmless : <<a, b>> \in Seq(Harmless) /\ <<a, b>> # << >>
      /\ \A a, b, d \in Harmless : <<a, b, d>> \in Seq(Harmless) /\ <<a, b, d>> # << >>
  OBVIOUS
<1>1. CASE c.op \in {"identity_export", "daemon_status", "daemon_log_level", "contact_list",
                     "timeline_verify", "service_list", "service_search",
                     "service_negotiate", "cache_stats", "subscriptions", "notifications",
                     "whitelist_list"}
  <2>1. \/ Program(c) \in {<<Load(IdentityKey)>>, <<Peek(Port)>>, <<Load(Port)>>,
                           <<Load(Contacts)>>, <<Load(Timeline)>>, <<Load(Registry)>>,
                           <<Load(Subscriptions)>>, <<Load(Notifications)>>}
        \/ c.op = "whitelist_list" /\ Program(c) = <<Load(Permission(c.svc))>>
    BY <1>1 DEF Program, IdentityExport, DaemonStatus, DaemonLogLevel, ContactList,
       TimelineVerify, ServiceList, ServiceSearch, ServiceNegotiate, CacheStats,
       ServiceSubscriptions, ServiceNotifications, WhitelistList
  <2>2. Program(c) \in Seq(Harmless) /\ Program(c) # << >>
    BY <1>c, <1>n, <1>h, <1>t, <2>1
  <2> QED
    BY <1>r, <2>2 DEF Good
<1>2. CASE c.op \in {"identity_show", "timeline_show", "service_discover", "cache_flush",
                     "service_history", "service_view", "doctor"}
  <2>1. CASE c.op \in {"identity_show", "timeline_show", "service_discover", "cache_flush"}
    <3>1. Program(c) \in {<<Load(IdentityKey), Load(Card)>>, <<Need, Load(Timeline)>>,
                          <<Load(Registry), Peek(Port)>>, <<Load(Registry), Erase(Registry)>>}
      BY <2>1 DEF Program, IdentityShow, TimelineShow, ServiceDiscover, CacheFlush
    <3>2. Program(c) \in Seq(Harmless) /\ Program(c) # << >>
      BY <1>h, <1>t, <3>1
    <3> QED
      BY <1>r, <3>2 DEF Good
  <2>2. CASE c.op \in {"service_history", "service_view"}
    <3>1. Program(c) = <<Load(History(c.svc)), Peek(Ratings(c.svc)), Peek(Permission(c.svc))>>
      BY <2>2 DEF Program, ServiceHistory, ServiceView
    <3>2. /\ Load(History(c.svc)) \in Harmless /\ Peek(Ratings(c.svc)) \in Harmless
          /\ Peek(Permission(c.svc)) \in Harmless
      BY <1>c, <1>n, <1>h, <2>2
    <3>3. Program(c) \in Seq(Harmless) /\ Program(c) # << >>
      BY <1>t, <3>1, <3>2
    <3> QED
      BY <1>r, <3>3 DEF Good
  <2>3. CASE c.op = "doctor"
    <3>1. \A a, b, d, e, f, g \in Harmless :
            LET t == <<a, b, d, e, f, g, f, d>>
            IN t \in Seq(Harmless) /\ t # << >>
      OBVIOUS
    <3>2. Program(c) = <<Peek(IdentityKey), Peek(Card), Peek(Contacts), Peek(Timeline),
                         Peek(Registry), Peek(Port), Peek(Registry), Peek(Contacts)>>
      BY <2>3 DEF Program, Doctor
    <3>3. Program(c) \in Seq(Harmless) /\ Program(c) # << >>
      BY <1>h, <3>1, <3>2
    <3> QED
      BY <1>r, <3>3 DEF Good
  <2> QED
    BY <1>2, <2>1, <2>2, <2>3
<1>3. CASE c.op = "contact_add"
  BY <1>3, <1>l, <1>n, Names, FilesAre DEF Program, ContactAdd, Saves, Good
<1>4. CASE c.op = "service_publish"
  BY <1>4, <1>l, <1>n, Names, FilesAre DEF Program, ServicePublish, Saves, Good
<1>5. CASE c.op = "subscribe"
  BY <1>5, <1>l, <1>n, Names, FilesAre DEF Program, ServiceSubscribe, Saves, Good
<1>6. CASE c.op = "unsubscribe"
  BY <1>6, <1>l, <1>n, Names, FilesAre DEF Program, ServiceUnsubscribe, Saves, Good
<1>7. CASE c.op \in {"whitelist_add", "whitelist_remove"}
  <2>1. Saves(c, Permission(c.svc))
    BY <1>7, Names DEF Saves
  <2> QED
    BY <1>7, <1>c, <1>l, <1>n, <2>1 DEF Program, ServiceWhitelist, Good
<1>8. CASE c.op = "timeline_post"
  <2>1. Program(c) = <<Need, Load(Timeline), Save(Timeline)>>
    BY <1>8 DEF Program, TimelinePost
  <2> DEFINE t == <<Need, Load(Timeline), Save(Timeline)>>
  <2>2. /\ t \in Seq(StepRecords) /\ t # << >> /\ DOMAIN t = {1, 2, 3}
        /\ t[1] = Need /\ t[2] = Load(Timeline) /\ t[3] = Save(Timeline)
    BY <1>h, Steps, FilesAre
  <2> HIDE DEF t
  <2>3. Saves(c, Timeline) /\ Save(Timeline).do = "save" /\ Save(Timeline).file = Timeline
    BY <1>8, Names, Steps, FilesAre DEF Saves
  <2>4. Prompt(t, 3)
    BY <2>2, <2>3 DEF Prompt
  <2>5. Plain(c, t)
    BY <1>h, <2>2, <2>3, <2>4 DEF Plain
  <2> QED
    BY <1>h, <1>p, <1>s, <2>1, <2>2, <2>5 DEF t, Good
<1>9. CASE c.op = "service_post"
  <2> DEFINE f == History(c.svc)
             t == <<Load(f), Need, Save(f), Load(Subscriptions)>>
  <2>1. Program(c) = t
    BY <1>9 DEF Program, ServicePost
  <2>2. /\ t \in Seq(StepRecords) /\ t # << >> /\ DOMAIN t = {1, 2, 3, 4}
        /\ t[1] = Load(f) /\ t[2] = Need /\ t[3] = Save(f) /\ t[4] = Load(Subscriptions)
    BY <1>9, <1>c, <1>h, <1>n, Steps
  <2>3. Saves(c, f) /\ Save(f).do = "save" /\ Save(f).file = f /\ Load(f) \in Harmless
    BY <1>9, <1>c, <1>h, <1>n, Names, Steps DEF Saves
  <2> HIDE DEF t, f
  <2>4. Prompt(t, 3)
    BY <2>2, <2>3 DEF Prompt
  <2>5. Plain(c, t)
    BY <1>h, <2>2, <2>3, <2>4 DEF Plain
  <2> QED
    BY <1>h, <1>p, <1>s, <2>1, <2>2, <2>3, <2>5 DEF Good
<1>10. CASE c.op = "read"
  <2> DEFINE t == <<Load(Notifications), Load(Notifications), Save(Notifications)>>
  <2>1. Program(c) = t
    BY <1>10 DEF Program, ServiceRead
  <2>2. /\ t \in Seq(StepRecords) /\ t # << >> /\ DOMAIN t = {1, 2, 3}
        /\ t[1] = Load(Notifications) /\ t[2] = Load(Notifications) /\ t[3] = Save(Notifications)
    BY <1>h, Steps, FilesAre
  <2>3. /\ Saves(c, Notifications) /\ Save(Notifications).do = "save"
        /\ Save(Notifications).file = Notifications
    BY <1>10, Names, Steps, FilesAre DEF Saves
  <2> HIDE DEF t
  <2>4. Prompt(t, 3)
    BY <2>2, <2>3 DEF Prompt
  <2>5. Plain(c, t)
    BY <1>h, <2>2, <2>3, <2>4 DEF Plain
  <2> QED
    BY <1>h, <1>p, <1>s, <2>1, <2>2, <2>5 DEF Good
<1>11. CASE c.op = "rate"
  <2> DEFINE f == Ratings(c.svc)
             t == <<Need, Load(f), Save(f), Load(f)>>
  <2>1. Program(c) = t
    BY <1>11 DEF Program, ServiceRate
  <2>2. /\ t \in Seq(StepRecords) /\ t # << >> /\ DOMAIN t = {1, 2, 3, 4}
        /\ t[1] = Need /\ t[2] = Load(f) /\ t[3] = Save(f) /\ t[4] = Load(f)
    BY <1>11, <1>c, <1>h, <1>n, Steps
  <2>3. Saves(c, f) /\ Save(f).do = "save" /\ Save(f).file = f /\ Load(f) \in Harmless
    BY <1>11, <1>c, <1>h, <1>n, Names, Steps DEF Saves
  <2> HIDE DEF t, f
  <2>4. Prompt(t, 3)
    BY <2>2, <2>3 DEF Prompt
  <2>5. Plain(c, t)
    BY <1>h, <2>2, <2>3, <2>4 DEF Plain
  <2> QED
    BY <1>h, <1>p, <1>s, <2>1, <2>2, <2>3, <2>5 DEF Good
<1>12. CASE c.op = "permit"
  <2> DEFINE f == Permission(c.svc)
             t == <<Save(f)>>
  <2>1. Program(c) = t
    BY <1>12 DEF Program, ServicePermit
  <2>2. t \in Seq(StepRecords) /\ t # << >> /\ DOMAIN t = {1} /\ t[1] = Save(f)
    BY <1>12, <1>c, Steps
  <2>3. Saves(c, f) /\ Save(f).do = "save" /\ Save(f).file = f
    BY <1>12, <1>c, Names, Steps DEF Saves
  <2> HIDE DEF t, f
  <2>4. Plain(c, t)
    BY <1>12, <2>2, <2>3 DEF Plain, LoadsFirst
  <2> QED
    BY <1>p, <2>1, <2>2, <2>3, <2>4 DEF Good, Making
<1>13. CASE c.op = "daemon_start"
  <2> DEFINE t == <<Need, Save(Port), Load(Subscriptions)>>
  <2>1. Program(c) = t
    BY <1>13 DEF Program, DaemonStart
  <2>2. /\ t \in Seq(StepRecords) /\ t # << >> /\ DOMAIN t = {1, 2, 3}
        /\ t[1] = Need /\ t[2] = Save(Port) /\ t[3] = Load(Subscriptions)
    BY <1>h, Steps, FilesAre
  <2>3. Saves(c, Port) /\ Save(Port).do = "save" /\ Save(Port).file = Port
    BY <1>13, Names, Steps, FilesAre DEF Saves
  <2> HIDE DEF t
  <2>4. Plain(c, t)
    BY <1>h, <2>2, <2>3 DEF Plain, LoadsFirst
  <2> QED
    BY <1>h, <1>p, <1>s, <2>1, <2>2, <2>4 DEF Good
<1>14. CASE c.op = "identity_restore"
  <2> DEFINE t == <<CreateTmp, FillTmp, RenameTmp>>
  <2>1. Program(c) = t
    BY <1>14 DEF Program, IdentityRestore, SaveIdentity
  <2>2. t \in Seq(StepRecords) /\ t # << >>
    BY FilesAre DEF StepRecords, CreateTmp, FillTmp, RenameTmp
  <2>3. DOMAIN t = {1, 2, 3} /\ t[1] = CreateTmp /\ t[2] = FillTmp /\ t[3] = RenameTmp
    OBVIOUS
  <2> HIDE DEF t
  <2>4. \A i \in DOMAIN t : StepOK(c, << >>, t, i)
    BY <2>3 DEF StepOK, CreateTmp, FillTmp, RenameTmp
  <2> QED
    BY <2>1, <2>2, <2>3, <2>4 DEF TodoOK, CreateTmp, Making
<1>15. CASE c.op = "identity_create"
  <2> DEFINE first == <<Load(IdentityKey)>>
             make == <<CreateTmp, FillTmp, RenameTmp>>
             last == <<Save(Card)>>
             four == first \o make
             t == four \o last
  <2>1. Program(c) = t
    BY <1>15 DEF Program, IdentityCreate, SaveIdentity
  <2>2. first \in Seq(StepRecords) /\ make \in Seq(StepRecords) /\ last \in Seq(StepRecords)
    BY FilesAre DEF StepRecords, CreateTmp, FillTmp, RenameTmp, Load, Save
  <2>3. /\ Len(first) = 1 /\ first[1] = Load(IdentityKey)
        /\ Len(make) = 3 /\ make[1] = CreateTmp /\ make[2] = FillTmp /\ make[3] = RenameTmp
        /\ Len(last) = 1 /\ last[1] = Save(Card)
    OBVIOUS
  <2> HIDE DEF make, first, last
  <2>6. /\ four \in Seq(StepRecords) /\ Len(four) = 4
        /\ four[1] = Load(IdentityKey) /\ four[2] = CreateTmp /\ four[3] = FillTmp
        /\ four[4] = RenameTmp
    <3>1. /\ four \in Seq(StepRecords) /\ Len(four) = Len(first) + Len(make)
          /\ \A i \in 1..Len(first) + Len(make) :
               four[i] = IF i <= Len(first) THEN first[i] ELSE make[i - Len(first)]
      BY <2>2, ConcatProperties
    <3> HIDE DEF four
    <3>2. four[1] = first[1] /\ four[2] = make[1] /\ four[3] = make[2] /\ four[4] = make[3]
      BY <2>3, <3>1
    <3> QED
      BY <2>3, <3>1, <3>2
  <2> HIDE DEF four
  <2>7. /\ t \in Seq(StepRecords) /\ t # << >> /\ DOMAIN t = {1, 2, 3, 4, 5}
        /\ t[1] = Load(IdentityKey) /\ t[2] = CreateTmp
        /\ t[3] = FillTmp /\ t[4] = RenameTmp /\ t[5] = Save(Card)
    <3>1. /\ t \in Seq(StepRecords) /\ Len(t) = Len(four) + Len(last)
          /\ \A i \in 1..Len(four) + Len(last) :
               t[i] = IF i <= Len(four) THEN four[i] ELSE last[i - Len(four)]
      BY <2>2, <2>6, ConcatProperties
    <3> HIDE DEF t
    <3>2. t[1] = four[1] /\ t[2] = four[2] /\ t[3] = four[3] /\ t[4] = four[4] /\ t[5] = last[1]
      BY <2>3, <2>6, <3>1
    <3>3. DOMAIN t = 1..Len(t) /\ Len(t) = 5 /\ 1..5 = {1, 2, 3, 4, 5} /\ t # << >>
      BY <2>3, <2>6, <3>1
    <3> QED
      BY <2>3, <2>6, <3>1, <3>2, <3>3
  <2> HIDE DEF t
  <2>4. Saves(c, Card) /\ ~LoadsFirst(c, Card)
    BY <1>15, Names DEF Saves, LoadsFirst
  <2>5. \A i \in DOMAIN t : StepOK(c, << >>, t, i)
    BY <1>n, <2>7, <2>4 DEF StepOK, CreateTmp, FillTmp, RenameTmp, Load, Save
  <2> QED
    BY <2>1, <2>7, <2>5 DEF TodoOK, Load, Making
<1> QED
  BY <1>1, <1>2, <1>3, <1>4, <1>5, <1>6, <1>7, <1>8, <1>9, <1>10, <1>11, <1>12, <1>13, <1>14,
     <1>15 DEF UserCommands, Good

\* A notification for each subscription: a load and a rewrite each time.
LEMMA NotifyingIsOK ==
  ASSUME NEW c \in Orders, c.op = "service_post", NEW of, NEW n \in Nat
  PROVE  TodoOK(c, of, [i \in 1..2 * n |-> NotifySubscriber[2 - (i % 2)]])
<1> DEFINE t == [i \in 1..2 * n |-> NotifySubscriber[2 - (i % 2)]]
<1>1. /\ NotifySubscriber[1] = Load(Notifications) /\ NotifySubscriber[2] = Save(Notifications)
      /\ Load(Notifications) \in Harmless
      /\ Save(Notifications) \in StepRecords /\ Save(Notifications).do = "save"
      /\ Save(Notifications).file = Notifications
  BY Names, Steps, FilesAre DEF NotifySubscriber
<1>2. \A i \in 1..2 * n : i % 2 \in {0, 1} /\ (i % 2 = 0 => i > 1 /\ (i - 1) % 2 = 1)
  OBVIOUS
<1>3. \A i \in 1..2 * n : /\ i % 2 = 1 => t[i] = Load(Notifications)
                          /\ i % 2 = 0 => t[i] = Save(Notifications)
  BY <1>1, <1>2
<1>4. t \in Seq(StepRecords) /\ DOMAIN t = 1..2 * n
  <2>1. \A i \in 1..2 * n : t[i] \in StepRecords
    BY <1>1, <1>2, <1>3, Steps
  <2>2. 2 * n \in Nat /\ t \in [1..2 * n -> StepRecords]
    BY <2>1
  <2> HIDE DEF t
  <2> QED
    BY <2>2
<1> HIDE DEF t
<1>5. Saves(c, Notifications)
  BY Names DEF Saves
<1>6. ASSUME NEW i \in 1..2 * n, i % 2 = 0 PROVE Prompt(t, i)
  <2>1. i - 1 \in 1..2 * n /\ i > 1 /\ (i - 1) % 2 = 1
    BY <1>2, <1>6
  <2> QED
    BY <1>1, <1>3, <1>6, <2>1 DEF Prompt
<1>7. Plain(c, t)
  BY <1>1, <1>2, <1>3, <1>4, <1>5, <1>6 DEF Plain
<1> QED
  BY <1>7, PlainIsOK DEF t

\* A command that has todo left reads x, and has next left.
Reads(c, of, todo, x, of2, next) ==
  /\ c \in Orders /\ TodoOK(c, of, todo) /\ todo # << >>
  /\ todo[1].do \in {"load", "need"} /\ ContentOK(todo[1].file, x)
  /\ of2 = IF todo[1].do = "load" THEN todo[1].file ELSE of
  /\ next = Continuation(c, todo[1], x, Tail(todo))

\* After a load, or the author, a process stops or goes on with a good program.
LEMMA ContinuationIsOK ==
  ASSUME NEW c, NEW of, NEW todo, NEW x, NEW of2, NEW next, Reads(c, of, todo, x, of2, next)
  PROVE  /\ TodoOK(c, of2, next)
         /\ next # << >> => next[1].do \notin Making
         /\ todo[1].do = "need" => next \in {<< >>, Tail(todo)}
         /\ /\ next # << >> /\ todo[1].do = "load"
            /\ c.op \in {"whitelist_add", "whitelist_remove"}
            => x.mode = "whitelist"
<1> USE DEF Reads
<1> DEFINE s == todo[1]
<1>1. s \in StepRecords /\ (s.do = "need" => s.file = IdentityKey) /\ s.file \in Files
  <2>1. todo \in Seq(StepRecords) /\ \A i \in DOMAIN todo : StepOK(c, of, todo, i)
    BY DEF TodoOK
  <2>2. 1 \in DOMAIN todo
    BY <2>1
  <2>3. todo[1] \in StepRecords /\ StepOK(c, of, todo, 1)
    BY <2>1, <2>2
  <2> QED
    BY <2>3 DEF StepOK, StepRecords
<1>2. CASE StopsAt(c, s, x, Tail(todo))
  <2>1. next = << >>
    BY <1>2 DEF Continuation
  <2>2. next \in Seq(Harmless)
    BY <2>1, EmptySeq
  <2> QED
    BY <2>1, <2>2, HarmlessIsOK
<1>3. CASE ~StopsAt(c, s, x, Tail(todo))
  <2>1. s.do = "load" /\ c.op \in {"whitelist_add", "whitelist_remove"} => x.mode = "whitelist"
    BY <1>3 DEF StopsAt
  <2>2. CASE c.op = "service_post" /\ s.file = Subscriptions
    <3> DEFINE n == Cardinality(Of(x, c.svc))
    <3>1. next = [i \in 1..2 * n |-> NotifySubscriber[2 - (i % 2)]]
      BY <1>3, <2>2 DEF Continuation
    <3>2. n \in Nat
      <4>1. x \in Seq(Subscribed)
        BY <2>2, ContentIs
      <4>2. IsFiniteSet(DOMAIN x) /\ Of(x, c.svc) \subseteq DOMAIN x
        BY <4>1, RangeIs DEF Of
      <4> QED
        BY <4>2, FS_Subset, FS_CardinalityType
    <3> HIDE DEF n
    <3>3. TodoOK(c, of2, next)
      BY <2>2, <3>1, <3>2, NotifyingIsOK
    <3>4. next # << >> => next[1].do = "load"
      <4>1. ASSUME n # 0 PROVE next[1] = NotifySubscriber[1]
        <5>1. 1 \in 1..2 * n /\ 2 - (1 % 2) = 1
          BY <3>2, <4>1
        <5>2. \A i \in 1..2 * n : next[i] = NotifySubscriber[2 - (i % 2)]
          BY <3>1
        <5> QED
          BY <5>1, <5>2
      <4>2. NotifySubscriber[1].do = "load"
        BY DEF NotifySubscriber, Load
      <4>3. n = 0 => next = << >>
        BY <3>1
      <4> QED
        BY <4>1, <4>2, <4>3
    <3>5. s.do # "need"
      BY <1>1, <2>2, Names
    <3> QED
      BY <2>1, <3>3, <3>4, <3>5 DEF Making
  <2>3. CASE c.op = "notifications" /\ s.file = Notifications
    <3>1. next = [i \in DOMAIN x |-> Peek(History(x[i][1]))]
      BY <1>3, <2>3 DEF Continuation
    <3>2. x \in Seq(Noted)
      BY <2>3, ContentIs
    <3>3. \A i \in DOMAIN x : x[i][1] \in Services
      BY <3>2 DEF Noted
    <3>4. \A i \in DOMAIN x : Peek(History(x[i][1])) \in Harmless
      BY <3>3, Steps, FilesAre
    <3>5. DOMAIN x = 1..Len(x) /\ Len(x) \in Nat
      BY <3>2
    <3>6. next \in Seq(Harmless)
      BY <3>1, <3>4, <3>5
    <3>7. next # << >> => next[1] \in Harmless
      BY <3>6
    <3>8. s.do # "need"
      BY <1>1, <2>3, Names
    <3> QED
      BY <2>1, <3>6, <3>7, <3>8, HarmlessIsOK DEF Making, Harmless
  <2>4. CASE ~(c.op = "service_post" /\ s.file = Subscriptions)
             /\ ~(c.op = "notifications" /\ s.file = Notifications)
    <3>1. next = Tail(todo)
      BY <1>3, <2>4 DEF Continuation
    <3>2. TodoOK(c, of2, next)
      BY <3>1, RestIsOK
    <3>3. next # << >> => next[1] = todo[2] /\ todo[2].do \notin Making
      BY <3>1, NextIs DEF Making
    <3> QED
      BY <2>1, <3>1, <3>2, <3>3
  <2> QED
    BY <2>2, <2>3, <2>4
<1> QED
  BY <1>2, <1>3

----------------------------------------------------------------------------
(* Processes.                                                              *)

\* The first step.
LEMMA CurrentIs ==
  ASSUME NEW p, RunOK(run[p]), Busy(p)
  PROVE  /\ Current(p) = run[p].todo[1] /\ run[p].todo # << >>
         /\ Current(p) \in StepRecords /\ Current(p).file \in Files
         /\ StepOK(run[p].cmd, run[p].of, run[p].todo, 1)
<1> DEFINE t == run[p].todo
<1>1. t # << >> /\ TodoOK(run[p].cmd, run[p].of, t)
  BY DEF Busy, RunOK
<1> HIDE DEF t
<1>2. t \in Seq(StepRecords) /\ \A i \in DOMAIN t : StepOK(run[p].cmd, run[p].of, t, i)
  BY <1>1 DEF TodoOK
<1>3. 1 \in DOMAIN t /\ Head(t) = t[1]
  BY <1>1, <1>2
<1>4. t[1] \in StepRecords
  BY <1>2, <1>3
<1> QED
  BY <1>1, <1>2, <1>3, <1>4 DEF Current, StepRecords, t

\* A process that does nothing.
LEMMA IdleIs ==
  /\ RunOK(Idle) /\ Idle.todo = << >> /\ Idle.of = << >> /\ ~Idle.open /\ Idle.cmd.op = "none"
<1>1. TodoOK(Idle.cmd, Idle.of, << >>)
  <2>1. << >> \in Seq(Harmless)
    BY EmptySeq
  <2> QED
    BY <2>1, HarmlessIsOK
<1>2. [op |-> "none"] \in Orders
  BY DEF Orders
<1> QED
  BY <1>1, <1>2 DEF RunOK, Idle, RunFields

\* A process that has ended its program does nothing.
LEMMA SettledIs ==
  ASSUME NEW r, RunOK(r)
  PROVE  /\ RunOK(Settled(r))
         /\ r.todo # << >> => Settled(r) = r
         /\ Settled(r) \in {r, Idle}
         /\ Settled(r).cmd \in {r.cmd, Idle.cmd}
BY IdleIs DEF Settled

\* A program that begins.
LEMMA BegunIs ==
  ASSUME NEW c \in Orders, NEW steps, TodoOK(c, << >>, steps),
         steps # << >> => steps[1].do \notin Making,
         used.commands \in Nat, used.events \in Nat
  PROVE  /\ RunOK(Begun(c, steps))
         /\ Begun(c, steps).cmd = c /\ Begun(c, steps).todo = steps
         /\ Begun(c, steps).of = << >> /\ Begun(c, steps).open = FALSE
<1> DEFINE r == Begun(c, steps)
           n == used.commands + used.events + 1
<1>1. /\ DOMAIN r = RunFields /\ r.cmd = c /\ r.todo = steps /\ r.held = Nobody /\ r.of = << >>
      /\ r.id = n /\ r.author = Nobody /\ r.stale = FALSE /\ r.open = FALSE /\ r.mixed = FALSE
  BY DEF Begun, Idle, RunFields
<1>2. n \in Nat
  OBVIOUS
<1> HIDE DEF r, n
<1>3. RunOK(r)
  BY <1>1, <1>2 DEF RunOK
<1> QED
  BY <1>1, <1>3 DEF r

\* A process that is past a step which is no load.
LEMMA PastIs ==
  ASSUME NEW p, RunOK(run[p]), Busy(p), Current(p).do # "load",
         NEW r, DOMAIN r = RunFields, r.todo = Tail(run[p].todo),
         r.cmd = run[p].cmd, r.held = run[p].held, r.of = run[p].of, r.id = run[p].id,
         r.author = run[p].author, r.stale = run[p].stale, r.mixed = run[p].mixed,
         r.open = (Current(p).do \in {"create", "fill"})
  PROVE  RunOK(r) /\ (r.todo # << >> => r.todo[1] = run[p].todo[2])
<1> DEFINE t == run[p].todo
<1>1. /\ t # << >> /\ TodoOK(r.cmd, r.of, t) /\ Current(p) = t[1]
      /\ StepOK(r.cmd, r.of, t, 1)
  BY CurrentIs DEF RunOK
<1>2. /\ TodoOK(r.cmd, r.of, r.todo)
      /\ r.todo # << >> => /\ r.todo[1] = t[2]
                           /\ t[2].do = "fill" => t[1].do = "create"
                           /\ t[2].do = "rename" => t[1].do = "fill"
  <2>1. r.of = IF t[1].do = "load" THEN t[1].file ELSE r.of
    BY <1>1
  <2>2. TodoOK(r.cmd, r.of, Tail(t))
    BY <1>1, <2>1, RestIsOK
  <2> QED
    BY <1>1, <2>2, NextIs
<1>3. r.open => 2 \in DOMAIN t /\ t[2].do \in {"fill", "rename"}
  <2>1. 1 + 1 = 2
    OBVIOUS
  <2> QED
    BY <1>1, <2>1 DEF StepOK
<1>4. 2 \in DOMAIN t => r.todo # << >>
  <2>1. t \in Seq(StepRecords)
    BY <1>1 DEF TodoOK
  <2>2. ASSUME 2 \in DOMAIN t PROVE Tail(t) # << >>
    <3>1. 2 \in 1..Len(t) /\ Len(t) \in Nat
      BY <2>1, <2>2
    <3>2. Tail(t) \in Seq(StepRecords) /\ Len(Tail(t)) = Len(t) - 1
      BY <1>1, <2>1, HeadTailProperties
    <3> DEFINE u == Tail(t)
    <3>3. Len(u) >= 1 /\ u \in Seq(StepRecords)
      BY <3>1, <3>2
    <3> HIDE DEF u
    <3>4. u # << >>
      BY <3>3
    <3> QED
      BY <3>4 DEF u
  <2> QED
    BY <2>2
<1>5. r.open \in BOOLEAN
  OBVIOUS
<1> HIDE DEF t
<1>6. r.open => r.todo # << >> /\ r.todo[1].do \in {"save", "fill", "rename"}
  BY <1>2, <1>3, <1>4
<1>7. r.todo # << >> /\ r.todo[1].do \in Making => r.open
  BY <1>1, <1>2 DEF Making
<1>8. r.todo # << >> => run[p].todo # << >>
  BY <1>1 DEF t
<1> QED
  BY <1>2, <1>5, <1>6, <1>7, <1>8 DEF RunOK, t

\* A process that has read a file.
LEMMA AfterLoadIs ==
  ASSUME NEW p, RunOK(run[p]), Busy(p), Current(p).do \in {"load", "need"}, FilesInv,
         NEW r, r = AfterLoad(p, files[Current(p).file].content)
  PROVE  /\ RunOK(r) /\ r.cmd = run[p].cmd /\ r.open = run[p].open
         /\ r.todo = Continuation(run[p].cmd, Current(p), files[Current(p).file].content,
                                  Tail(run[p].todo))
         /\ Current(p).do = "need" => /\ r.todo \in {<< >>, Tail(run[p].todo)}
                                      /\ r.of = run[p].of /\ r.held = run[p].held
                                      /\ r.stale = run[p].stale
         /\ Current(p).do = "load" => /\ r.of = Current(p).file
                                      /\ r.held = files[Current(p).file].content
                                      /\ r.stale = (files[Current(p).file].state = "torn")
         /\ ~run[p].open
<1> DEFINE t == run[p].todo
           s == Current(p)
           x == files[Current(p).file].content
           next == Continuation(run[p].cmd, Current(p), files[Current(p).file].content,
                                  Tail(run[p].todo))
<1>1. /\ t # << >> /\ TodoOK(run[p].cmd, run[p].of, t) /\ s = t[1]
      /\ StepOK(run[p].cmd, run[p].of, t, 1) /\ s.file \in Files /\ ContentOK(s.file, x)
      /\ run[p].cmd \in Orders /\ DOMAIN run[p] = RunFields
  BY CurrentIs DEF RunOK, FilesInv
<1>2. ~run[p].open /\ run[p].open \in BOOLEAN
  BY <1>1 DEF RunOK
<1>3. s.do = "need" => x \in Nat \cup {Nobody}
  BY <1>1, ContentIs DEF StepOK
<1>4. /\ DOMAIN r = RunFields /\ r.cmd = run[p].cmd /\ r.todo = next /\ r.id = run[p].id
      /\ r.open = run[p].open /\ r.mixed = run[p].mixed
      /\ s.do = "need" => /\ r.author = x /\ r.held = run[p].held /\ r.of = run[p].of
                          /\ r.stale = run[p].stale
      /\ s.do = "load" => /\ r.author = run[p].author /\ r.held = x /\ r.of = s.file
                          /\ r.stale = (files[s.file].state = "torn")
  <2>1. CASE s.do = "need"
    BY <1>1, <2>1 DEF AfterLoad, RunFields
  <2>2. CASE s.do = "load"
    BY <1>1, <2>2 DEF AfterLoad, RunFields
  <2> QED
    BY <2>1, <2>2
<1>5. /\ TodoOK(r.cmd, r.of, r.todo)
      /\ r.todo # << >> => r.todo[1].do \notin Making
      /\ s.do = "need" => r.todo \in {<< >>, Tail(t)}
      /\ /\ r.todo # << >> /\ s.do = "load"
         /\ r.cmd.op \in {"whitelist_add", "whitelist_remove"}
         => r.held.mode = "whitelist"
  <2>1. /\ r.of = IF t[1].do = "load" THEN t[1].file ELSE run[p].of
        /\ r.todo = Continuation(run[p].cmd, t[1], x, Tail(t))
    BY <1>1, <1>4
  <2> DEFINE c == run[p].cmd
             of == run[p].of
             of2 == r.of
             rest == r.todo
  <2>2. Reads(c, of, t, x, of2, rest)
    BY <1>1, <2>1 DEF Reads
  <2> HIDE DEF t, x, c, of, of2, rest
  <2>3. /\ TodoOK(c, of2, rest)
        /\ rest # << >> => rest[1].do \notin Making
        /\ t[1].do = "need" => rest \in {<< >>, Tail(t)}
        /\ /\ rest # << >> /\ t[1].do = "load"
           /\ c.op \in {"whitelist_add", "whitelist_remove"}
           => x.mode = "whitelist"
    BY <2>2, ContinuationIsOK
  <2> QED
    BY <1>1, <1>4, <2>3 DEF c, of2, rest, t
<1>6. s.file # << >>
  BY <1>1, FilesAre
<1> HIDE DEF t, s, x, next
<1>7. RunOK(r)
  <2>1. CASE s.do = "need"
    BY <1>1, <1>2, <1>3, <1>4, <1>5, <2>1 DEF RunOK, t
  <2>2. CASE s.do = "load"
    BY <1>1, <1>2, <1>3, <1>4, <1>5, <1>6, <2>2 DEF RunOK, t
  <2> QED
    BY <2>1, <2>2 DEF s
<1> QED
  BY <1>2, <1>4, <1>5, <1>7 DEF t, s, x, next

----------------------------------------------------------------------------
(* Type correctness.                                                       *)

\* A rewritten, emptied or erased file is in order.
LEMMA FilesStep ==
  ASSUME FilesInv, NEW f \in Files, NEW new, files' = [files EXCEPT ![f] = new],
         \/ new \in {Missing(f), Torn(f)}
         \/ \E x : ContentOK(f, x) /\ new = Whole(x)
  PROVE  FilesInv'
<1>1. /\ DOMAIN new = {"state", "content"} /\ new.state \in {"missing", "torn", "whole"}
      /\ new.state # "whole" => new.content = Empty(f)
      /\ ContentOK(f, new.content)
  BY EmptyIs DEF Missing, Torn, Whole
<1>2. \A g \in Files : files'[g] = IF g = f THEN new ELSE files[g]
  BY DEF FilesInv
<1> QED
  BY <1>1, <1>2 DEF FilesInv

\* One process goes on, the others are as they were.
LEMMA RunsStep ==
  ASSUME RunsInv, NEW p \in Processes, NEW r, RunOK(r), run' = [run EXCEPT ![p] = r],
         r.cmd.op = "announce" => p = Daemon /\ daemon'.up,
         p = Daemon \/ (daemon.up => daemon'.up)
  PROVE  RunsInv'
BY DEF RunsInv

\* What a rewriting process writes.
LEMMA ContentsAre ==
  ASSUME TypeInv, NEW p \in Processes, Doing(p, "save")
  PROVE  LET f == Current(p).file
             c == run[p].cmd
             r == run[p]
         IN /\ f \in Files /\ Saves(c, f) /\ c \in Orders
            /\ ContentOK(f, Content(p, f))
            /\ LoadsFirst(c, f) => r.of = f
            /\ c.op # "announce" /\ f \in Kept =>
                 Items(f, Content(p, f)) = Asked(c, f, Items(f, r.held), r.id, r.author)
            /\ c.op = "announce" => p = Daemon /\ daemon.up /\ f \in {Registry, Subscriptions}
<1> DEFINE f == Current(p).file
           c == run[p].cmd
           r == run[p]
<1>1. RunOK(r) /\ Busy(p) /\ (c.op = "announce" => p = Daemon /\ daemon.up)
  BY DEF TypeInv, RunsInv, Doing
<1>2. /\ f \in Files /\ r.todo # << >> /\ Current(p) = r.todo[1] /\ Current(p).do = "save"
      /\ StepOK(c, r.of, r.todo, 1)
  BY <1>1, CurrentIs DEF Doing
<1>3. Saves(c, f) /\ (LoadsFirst(c, f) => r.of = f)
  BY <1>2 DEF StepOK, Covered
<1>4. /\ c \in Orders /\ r.id \in Nat /\ r.author \in Nat \cup {Nobody}
      /\ r.of # << >> => ContentOK(r.of, r.held)
      /\ c.op \in {"whitelist_add", "whitelist_remove"} /\ r.of # << >> =>
           r.held.mode = "whitelist"
  BY <1>1, <1>2 DEF RunOK
<1>5. clock \in Int
  BY DirectoryAssumption DEF TypeInv, CountersInv
<1>6. f # << >> /\ Card \notin Kept /\ Port \notin Kept /\ Registry \notin Kept
  BY <1>2, FilesAre, Names DEF Kept, PerService
<1>7. CASE c.op = "announce"
  <2>1. f \in {Registry, Subscriptions}
    BY <1>3, <1>7 DEF Saves
  <2>2. Content(p, f) = IF f = Registry THEN daemon.registry ELSE daemon.subs
    BY <1>7 DEF Content
  <2>3. daemon.registry \subseteq Entries(Peers \cup {Local}) /\ daemon.subs \in Seq(Subscribed)
    BY DEF TypeInv, DaemonInv, Entries
  <2>4. ContentOK(f, Content(p, f))
    <3>1. CASE f = Registry
      BY <2>2, <2>3, <3>1, ContentIs
    <3>2. CASE f = Subscriptions
      BY <2>2, <2>3, <3>2, ContentIs, Names
    <3> QED
      BY <2>1, <3>1, <3>2
  <2> QED
    BY <1>1, <1>2, <1>3, <1>4, <1>7, <2>1, <2>4
<1>8. CASE c.op # "announce"
  <2> DEFINE x == r.held
             y == Content(p, f)
  <2>1. y = Edit(c, f, x, r.id, r.author, clock)
    BY <1>8 DEF Content
  <2>2. CASE f \in {Card, Port}
    BY <1>1, <1>2, <1>3, <1>4, <1>6, <1>8, <2>2, ContentIs
  <2>3. CASE f \notin {Card, Port}
    <3>1. c.op = "permit" \/ ContentOK(f, x)
      BY <1>3, <1>4, <1>6, <1>8, <2>3 DEF LoadsFirst
    <3>2. c.op \in {"whitelist_add", "whitelist_remove"} => x.mode = "whitelist"
      BY <1>3, <1>4, <1>6, <1>8, <2>3 DEF LoadsFirst
    <3>4. Rewrites(c, f, x, r.id, r.author, clock, y)
      BY <1>2, <1>3, <1>4, <1>5, <1>8, <2>1, <2>3, <3>1, <3>2 DEF Rewrites
    <3> HIDE DEF x, y, f
    <3>3. ContentOK(f, y) /\ (f # Registry => Items(f, y) = Asked(c, f, Items(f, x), r.id, r.author))
      BY <3>4, EditIs
    <3> QED
      BY <1>1, <1>2, <1>3, <1>4, <1>6, <1>8, <3>3 DEF x, y, f
  <2> QED
    BY <2>2, <2>3
<1> QED
  BY <1>7, <1>8

\* The programs of the daemon's own events.
LEMMA EventsAre ==
  /\ \A svc \in Services, id \in Nat :
       /\ [op |-> "publication", svc |-> svc, id |-> id] \in Orders
       /\ TodoOK([op |-> "publication", svc |-> svc, id |-> id], << >>, NotifySubscriber)
       /\ NotifySubscriber # << >> /\ NotifySubscriber[1].do \notin Making
  /\ \A c : TodoOK(c, << >>, << >>)
  /\ [op |-> "announce"] \in Orders
  /\ \A n \in Nat :
       LET t == <<Save(Registry)>> \o [i \in 1..n |-> Save(Subscriptions)]
       IN /\ TodoOK([op |-> "announce"], << >>, t) /\ t # << >>
          /\ \A i \in DOMAIN t : t[i] = IF i = 1 THEN Save(Registry) ELSE Save(Subscriptions)
<1>1. ASSUME NEW svc \in Services, NEW id \in Nat
      PROVE  /\ [op |-> "publication", svc |-> svc, id |-> id] \in Orders
             /\ TodoOK([op |-> "publication", svc |-> svc, id |-> id], << >>, NotifySubscriber)
             /\ NotifySubscriber # << >> /\ NotifySubscriber[1].do \notin Making
  <2> DEFINE c == [op |-> "publication", svc |-> svc, id |-> id]
  <2>1. c \in Orders
    BY DEF Orders
  <2>2. Saves(c, Notifications)
    BY Names DEF Saves
  <2>3. NotifySubscriber = <<Load(Notifications), Save(Notifications)>>
    BY DEF NotifySubscriber
  <2> HIDE DEF c
  <2>4. TodoOK(c, << >>, NotifySubscriber)
    BY <2>2, <2>3, LoadSaveIsOK, FilesAre, Names
  <2> QED
    BY <2>1, <2>3, <2>4 DEF c, Load, Making
<1>2. ASSUME NEW c PROVE TodoOK(c, << >>, << >>)
  <2>1. << >> \in Seq(Harmless)
    BY EmptySeq
  <2> QED
    BY <2>1, HarmlessIsOK
<1>3. [op |-> "announce"] \in Orders
  BY DEF Orders
<1>4. ASSUME NEW n \in Nat
      PROVE  LET t == <<Save(Registry)>> \o [i \in 1..n |-> Save(Subscriptions)]
             IN /\ TodoOK([op |-> "announce"], << >>, t) /\ t # << >>
                /\ \A i \in DOMAIN t :
                     t[i] = IF i = 1 THEN Save(Registry) ELSE Save(Subscriptions)
  <2> DEFINE c == [op |-> "announce"]
             first == <<Save(Registry)>>
             more == [i \in 1..n |-> Save(Subscriptions)]
             t == first \o more
  <2>1. Saves(c, Registry) /\ Saves(c, Subscriptions) /\ \A f : ~LoadsFirst(c, f)
    BY Names DEF Saves, LoadsFirst
  <2>2. /\ Save(Registry) \in StepRecords /\ Save(Subscriptions) \in StepRecords
        /\ Save(Registry).do = "save" /\ Save(Registry).file = Registry
        /\ Save(Subscriptions).do = "save" /\ Save(Subscriptions).file = Subscriptions
    BY Steps, FilesAre
  <2>3. first \in Seq(StepRecords) /\ Len(first) = 1 /\ first[1] = Save(Registry)
    BY <2>2
  <2>4. more \in Seq(StepRecords) /\ Len(more) = n /\ \A i \in 1..n : more[i] = Save(Subscriptions)
    BY <2>2
  <2> HIDE DEF first, more, c
  <2>5. /\ t \in Seq(StepRecords) /\ Len(t) = Len(first) + Len(more)
        /\ \A i \in 1..Len(first) + Len(more) :
             t[i] = IF i <= Len(first) THEN first[i] ELSE more[i - Len(first)]
    BY <2>3, <2>4, ConcatProperties
  <2> HIDE DEF t
  <2>6. DOMAIN t = 1..n + 1 /\ t # << >>
    BY <2>3, <2>4, <2>5
  <2>7. \A i \in DOMAIN t : t[i] = IF i = 1 THEN Save(Registry) ELSE Save(Subscriptions)
    BY <2>3, <2>4, <2>5, <2>6
  <2>8. Plain(c, t)
    BY <2>1, <2>2, <2>5, <2>6, <2>7 DEF Plain
  <2>9. TodoOK(c, << >>, t)
    BY <2>8, PlainIsOK
  <2> QED
    BY <2>6, <2>7, <2>9 DEF c, t, first, more
<1> QED
  BY <1>1, <1>2, <1>3, <1>4

\* The initial state.
LEMMA TypeInit == Init => TypeInv
<1> SUFFICES ASSUME Init PROVE TypeInv
  OBVIOUS
<1> USE DEF Init
<1>1. FilesInv
  <2>1. ASSUME NEW f \in Files
        PROVE  /\ DOMAIN files[f] = {"state", "content"}
               /\ files[f].state \in {"missing", "torn", "whole"}
               /\ files[f].state # "whole" => files[f].content = Empty(f)
               /\ ContentOK(f, files[f].content)
    <3>1. CASE f \in {IdentityKey, Card} /\ session.identity
      <4>1. files[f] = Whole(0)
        BY <3>1
      <4>2. ContentOK(f, 0)
        BY <3>1, ContentIs
      <4> QED
        BY <4>1, <4>2 DEF Whole
    <3>2. CASE ~(f \in {IdentityKey, Card} /\ session.identity)
      <4>1. files[f] = Missing(f)
        BY <3>2
      <4> QED
        BY <4>1, EmptyIs DEF Missing
    <3> QED
      BY <3>1, <3>2
  <2> QED
    BY <2>1 DEF FilesInv
<1>2. RunsInv
  BY IdleIs DEF RunsInv
<1>3. DaemonInv
  BY EmptySeq DEF DaemonInv, Down
<1>4. CountersInv
  <2>1. session.seconds \in Nat
    BY DirectoryAssumption
  <2>2. DOMAIN used = {"commands", "events", "kills"} /\ 0 \in 0..session.seconds
    BY <2>1
  <2> QED
    BY <2>2 DEF CountersInv
<1> QED
  BY <1>1, <1>2, <1>3, <1>4 DEF TypeInv

\* A program step keeps the types.
LEMMA TypeOfStep ==
  ASSUME TypeInv, NEW p \in Processes, Step(p)
  PROVE  TypeInv'
<1> DEFINE f == Current(p).file
           s == Current(p)
           r == run[p]
<1>1. /\ FilesInv /\ RunsInv /\ DaemonInv /\ CountersInv
      /\ RunOK(r) /\ DOMAIN r = RunFields /\ r.mixed \in BOOLEAN /\ r.stale \in BOOLEAN
      /\ r.open \in BOOLEAN /\ (r.cmd.op = "announce" => p = Daemon /\ daemon.up)
  BY DEF TypeInv, RunsInv, RunOK
<1>2. Busy(p)
  BY DEF Step, Read, Glance, Truncate, Write, EraseFile, Create, Fill, Rename, Doing
<1>3. /\ f \in Files /\ s = r.todo[1] /\ r.todo # << >> /\ s \in StepRecords
      /\ StepOK(r.cmd, r.of, r.todo, 1)
  BY <1>1, <1>2, CurrentIs
<1>4. Past(p) = [r EXCEPT !.todo = Tail(@)]
  BY DEF Past
<1>5. IdentityTmp \in Files /\ IdentityKey \in Files
  BY FilesAre
<1>6. \A x : /\ RunOK(x) => RunOK(Settled(x))
             /\ RunOK(x) /\ x.cmd = r.cmd /\ Settled(x).cmd.op = "announce" =>
                  p = Daemon /\ daemon.up
  BY <1>1, SettledIs, IdleIs
<1>7. RunOK(Settled(Idle)) /\ Settled(Idle).cmd.op = "none"
  BY IdleIs, SettledIs
<1>u. ASSUME UNCHANGED <<clock, session, used>>, DOMAIN expected' = Kept,
             disturbed' \subseteq Files, behind' \in BOOLEAN
      PROVE  CountersInv'
  BY <1>1, <1>u DEF CountersInv
<1>v. ASSUME UNCHANGED daemon PROVE DaemonInv'
  BY <1>1, <1>v DEF DaemonInv
<1>w. ASSUME UNCHANGED <<daemon, clock, session, used, expected, disturbed, behind>>
      PROVE  DaemonInv' /\ CountersInv'
  BY <1>1, <1>w DEF DaemonInv, CountersInv
<1>x. ASSUME UNCHANGED daemon, NEW x, RunOK(x), x.cmd = r.cmd, Becomes(p, x) PROVE RunsInv'
  <2>1. run' = [run EXCEPT ![p] = Settled(x)]
    BY <1>x DEF Becomes
  <2>2. RunOK(Settled(x)) /\ (Settled(x).cmd.op = "announce" => p = Daemon /\ daemon'.up)
    BY <1>6, <1>x
  <2> QED
    BY <1>1, <1>x, <2>1, <2>2, RunsStep
<1>y. ASSUME UNCHANGED daemon, Stop(p) PROVE RunsInv'
  <2>1. run' = [run EXCEPT ![p] = Settled(Idle)]
    BY <1>y DEF Stop, Becomes
  <2> QED
    BY <1>1, <1>7, <1>y, <2>1, RunsStep
<1> HIDE DEF f, s, r
<1>8. CASE Read(p)
  <2>1. s.do \in {"load", "need"}
    BY <1>8 DEF Read, Doing, s
  <2>2. UNCHANGED files /\ FilesInv'
    BY <1>1, <1>8 DEF Read, Unchanged, FilesInv
  <2> DEFINE x == AfterLoad(p, files[f].content)
             y == IF files[f].state = "torn" /\ ~Forgives(p, f) THEN Idle ELSE x
  <2>3. RunOK(x) /\ x.cmd = r.cmd
    BY <1>1, <1>2, <2>1, AfterLoadIs DEF s, r, f
  <2>4. run' = [run EXCEPT ![p] = Settled(y)]
    BY <1>8 DEF Read, Stop, Becomes, f
  <2> HIDE DEF x
  <2>5. RunOK(Settled(y)) /\ Settled(y).cmd \in {r.cmd, Idle.cmd}
    BY <2>3, IdleIs, SettledIs
  <2> HIDE DEF y
  <2>6. CASE r.cmd.op = "daemon_start" /\ f = Subscriptions
    <3>1. /\ daemon' = [Down EXCEPT !.up = TRUE, !.subs = files[Subscriptions].content]
          /\ behind' = (files[Subscriptions].state = "torn")
          /\ UNCHANGED <<clock, used, session, expected, disturbed>>
      BY <1>8, <2>6 DEF Read, r, f
    <3>2. files[Subscriptions].content \in Seq(Subscribed)
      BY <1>1, ContentIs, FilesAre DEF FilesInv
    <3>3. /\ DOMAIN daemon' = {"up", "subs", "registry"} /\ daemon'.up = TRUE
          /\ daemon'.subs = files[Subscriptions].content /\ daemon'.registry = {}
      BY <3>1 DEF Down
    <3>4. DaemonInv'
      BY <3>2, <3>3 DEF DaemonInv
    <3>5. CountersInv'
      BY <1>1, <1>u, <3>1 DEF CountersInv
    <3>6. RunsInv'
      <4>1. Settled(y).cmd.op # "announce"
        BY <2>5, <2>6, IdleIs
      <4> QED
        BY <1>1, <2>4, <2>5, <3>3, <4>1, RunsStep
    <3> QED
      BY <2>2, <3>4, <3>5, <3>6 DEF TypeInv
  <2>7. CASE ~(r.cmd.op = "daemon_start" /\ f = Subscriptions)
    <3>1. UNCHANGED <<daemon, clock, session, used, expected, disturbed, behind>>
      BY <1>8, <2>7 DEF Read, Unchanged, r, f
    <3>2. RunsInv'
      <4>1. Settled(y).cmd.op = "announce" => p = Daemon /\ daemon'.up
        BY <1>1, <2>5, <3>1, IdleIs
      <4> QED
        BY <1>1, <2>4, <2>5, <3>1, <4>1, RunsStep
    <3> QED
      BY <1>w, <2>2, <3>1, <3>2 DEF TypeInv
  <2> QED
    BY <2>6, <2>7
<1>p. ASSUME s.do \in {"peek", "erase", "rename", "create", "fill"},
             UNCHANGED daemon,
             Becomes(p, [[r EXCEPT !.todo = Tail(@)] EXCEPT !.open = (s.do \in {"create", "fill"})])
      PROVE  RunsInv'
  <2> DEFINE o == s.do \in {"create", "fill"}
             x == [[r EXCEPT !.todo = Tail(@)] EXCEPT !.open = o]
  <2>1. /\ DOMAIN x = RunFields /\ x.todo = Tail(r.todo) /\ x.cmd = r.cmd /\ x.held = r.held
        /\ x.of = r.of /\ x.id = r.id /\ x.author = r.author /\ x.stale = r.stale
        /\ x.mixed = r.mixed /\ x.open = o
    BY <1>1 DEF RunFields
  <2>2. Becomes(p, x) /\ s.do # "load"
    BY <1>p
  <2> HIDE DEF x
  <2>3. RunOK(x)
    BY <1>1, <1>2, <1>p, <2>1, <2>2, PastIs DEF r, s
  <2> QED
    BY <1>p, <1>x, <2>1, <2>2, <2>3
<1>q. ASSUME s.do \in {"peek", "erase", "fill"}
      PROVE  Past(p) = [[r EXCEPT !.todo = Tail(@)] EXCEPT !.open = (s.do \in {"create", "fill"})]
  <2>1. r.open = (s.do \in {"create", "fill"})
    BY <1>1, <1>3, <1>q DEF RunOK, Making
  <2> QED
    BY <1>1, <1>4, <2>1 DEF RunFields, RunOK
<1>9. CASE Glance(p)
  <2>1. s.do = "peek" /\ Becomes(p, Past(p)) /\ Unchanged
    BY <1>9 DEF Glance, Doing, s
  <2>2. RunsInv'
    BY <1>p, <1>q, <2>1 DEF Unchanged
  <2>3. FilesInv'
    BY <1>1, <2>1 DEF Unchanged, FilesInv
  <2> QED
    BY <1>w, <2>1, <2>2, <2>3 DEF Unchanged, TypeInv
<1>10. CASE Truncate(p)
  <2>1. /\ s.do = "save" /\ files' = [files EXCEPT ![f] = Torn(f)]
        /\ run' = [run EXCEPT ![p].open = TRUE, ![p].mixed = FALSE]
        /\ UNCHANGED <<daemon, clock, session, used, expected, disturbed, behind>>
    BY <1>10 DEF Truncate, Doing, s, f
  <2>2. FilesInv'
    BY <1>1, <1>3, <2>1, FilesStep
  <2> DEFINE x == [r EXCEPT !.open = TRUE, !.mixed = FALSE]
  <2>3. run' = [run EXCEPT ![p] = x]
    BY <1>1, <2>1 DEF r, RunsInv
  <2>4. /\ DOMAIN x = RunFields /\ x.todo = r.todo /\ x.cmd = r.cmd /\ x.held = r.held
        /\ x.of = r.of /\ x.id = r.id /\ x.author = r.author /\ x.stale = r.stale
        /\ x.mixed = FALSE /\ x.open = TRUE
    BY <1>1 DEF RunFields
  <2> HIDE DEF x
  <2>5. RunOK(x)
    BY <1>1, <1>3, <2>1, <2>4 DEF RunOK
  <2>6. RunsInv'
    BY <1>1, <2>1, <2>3, <2>4, <2>5, RunsStep
  <2> QED
    BY <1>w, <2>1, <2>2, <2>6 DEF TypeInv
<1>11. CASE Write(p)
  <2>1. /\ s.do = "save" /\ Doing(p, "save") /\ UNCHANGED <<daemon, clock, session, used>>
        /\ \/ files' = [files EXCEPT ![f] = Whole(Content(p, f))]
           \/ files' = [files EXCEPT ![f] = Torn(f)]
    BY <1>11 DEF Write, Doing, s, f
  <2>2. FilesInv'
    <3>1. ContentOK(f, Content(p, f))
      BY <2>1, ContentsAre DEF f
    <3> QED
      BY <1>1, <1>3, <2>1, <3>1, FilesStep
  <2> DEFINE x == [Past(p) EXCEPT !.open = FALSE]
             Bystander(q) == q # p /\ run[q].of = f
             Sharing(q) == q # p /\ run[q].open /\ Current(q).file = f
             z(q) == [run[q] EXCEPT !.stale = @ \/ Bystander(q), !.mixed = @ \/ Sharing(q)]
  <2>3. run' = [q \in Processes |-> IF q = p THEN Settled(x) ELSE z(q)]
    BY <1>11 DEF Write, f
  <2>4. RunOK(x) /\ x.cmd = r.cmd
    <3>1. /\ DOMAIN x = RunFields /\ x.todo = Tail(r.todo) /\ x.cmd = r.cmd /\ x.held = r.held
          /\ x.of = r.of /\ x.id = r.id /\ x.author = r.author /\ x.stale = r.stale
          /\ x.mixed = r.mixed /\ x.open = FALSE
      BY <1>1, <1>4 DEF RunFields
    <3> HIDE DEF x
    <3>2. (s.do \in {"create", "fill"}) = FALSE
      BY <2>1
    <3>3. x.open = (s.do \in {"create", "fill"})
      BY <3>1, <3>2, Zenon
    <3>4. s.do # "load"
      BY <2>1
    <3> QED
      BY <3>3, <3>4, <1>1, <1>2, <2>1, <3>1, <3>2, PastIs DEF r, s
  <2>5. ASSUME NEW q \in Processes PROVE RunOK(z(q)) /\ z(q).cmd = run[q].cmd
    <3>1. RunOK(run[q])
      BY <1>1 DEF RunsInv
    <3> DEFINE u == run[q]
               v == z(q)
    <3>2. u.stale \in BOOLEAN /\ u.mixed \in BOOLEAN /\ DOMAIN u = RunFields
      BY <3>1 DEF RunOK
    <3>3. /\ DOMAIN v = RunFields /\ v.todo = u.todo /\ v.cmd = u.cmd /\ v.held = u.held
          /\ v.of = u.of /\ v.id = u.id /\ v.author = u.author /\ v.open = u.open
      BY <3>2 DEF RunFields
    <3>4. v.stale \in BOOLEAN /\ v.mixed \in BOOLEAN
      BY <3>2 DEF RunFields
    <3> HIDE DEF v
    <3>5. RunOK(v)
      BY <3>1, <3>3, <3>4 DEF RunOK
    <3> QED
      BY <3>3, <3>5 DEF v
  <2> HIDE DEF x, z
  <2>6. RunsInv'
    <3>1. DOMAIN run' = Processes
      BY <2>3
    <3>2. ASSUME NEW q \in Processes
          PROVE  RunOK(run'[q]) /\ (run'[q].cmd.op = "announce" => q = Daemon /\ daemon'.up)
      <4>1. CASE q = p
        <5>1. run'[q] = Settled(x)
          BY <2>3, <4>1
        <5> QED
          BY <1>6, <2>1, <2>4, <4>1, <5>1
      <4>2. CASE q # p
        <5>1. run'[q] = z(q)
          BY <2>3, <4>2
        <5>2. run[q].cmd.op = "announce" => q = Daemon /\ daemon.up
          BY <1>1 DEF RunsInv
        <5> QED
          BY <2>1, <2>5, <5>1, <5>2
      <4> QED
        BY <4>1, <4>2
    <3> QED
      BY <3>1, <3>2 DEF RunsInv
  <2>7. DOMAIN expected' = Kept /\ disturbed' \subseteq Files /\ behind' \in BOOLEAN
    <3>1. DOMAIN expected = Kept /\ disturbed \subseteq Files
      BY <1>1 DEF CountersInv
    <3>2. DOMAIN expected' = Kept /\ disturbed' \subseteq Files
      <4>1. CASE f \in Kept
        <5>1. /\ expected' = [expected EXCEPT ![f] = Asked(run[p].cmd, f, @, run[p].id, run[p].author)]
              /\ disturbed' \in {disturbed, disturbed \cup {f}}
          BY <1>11, <4>1 DEF Write, f
        <5> QED
          BY <1>3, <3>1, <5>1
      <4>2. CASE f \notin Kept
        BY <1>11, <3>1, <4>2 DEF Write, f
      <4> QED
        BY <4>1, <4>2
    <3>3. behind' \in BOOLEAN
      BY <1>11 DEF Write
    <3> QED
      BY <3>2, <3>3
  <2> QED
    BY <1>u, <1>v, <2>1, <2>2, <2>6, <2>7 DEF TypeInv
<1>12. CASE EraseFile(p)
  <2>1. /\ s.do = "erase" /\ Becomes(p, Past(p)) /\ files' = [files EXCEPT ![f] = Missing(f)]
        /\ UNCHANGED <<daemon, clock, session, used, expected, disturbed, behind>>
    BY <1>12 DEF EraseFile, Doing, s, f
  <2>2. RunsInv'
    BY <1>p, <1>q, <2>1
  <2>3. FilesInv'
    BY <1>1, <1>3, <2>1, FilesStep
  <2> QED
    BY <1>w, <2>1, <2>2, <2>3 DEF TypeInv
<1>13. CASE Create(p)
  <2>1. s.do = "create" /\ UNCHANGED <<daemon, clock, session, used, expected, disturbed, behind>>
    BY <1>13 DEF Create, Doing, s
  <2>2. CASE files[IdentityTmp].state = "missing"
    <3>1. /\ files' = [files EXCEPT ![IdentityTmp] = Torn(IdentityTmp)]
          /\ Becomes(p, [Past(p) EXCEPT !.open = TRUE])
      BY <1>13, <2>2 DEF Create
    <3>2. RunsInv'
      <4>1. (s.do \in {"create", "fill"}) = TRUE
        BY <2>1
      <4> QED
        BY <1>4, <1>p, <2>1, <3>1, <4>1
    <3>3. FilesInv'
      BY <1>1, <1>5, <3>1, FilesStep
    <3> QED
      BY <1>w, <2>1, <3>2, <3>3 DEF TypeInv
  <2>3. CASE files[IdentityTmp].state # "missing"
    <3>1. Stop(p) /\ UNCHANGED files
      BY <1>13, <2>3 DEF Create
    <3>2. RunsInv'
      BY <1>y, <2>1, <3>1
    <3>3. FilesInv'
      BY <1>1, <3>1 DEF FilesInv
    <3> QED
      BY <1>w, <2>1, <3>2, <3>3 DEF TypeInv
  <2> QED
    BY <2>2, <2>3
<1>14. CASE Fill(p)
  <2>1. /\ s.do = "fill" /\ Becomes(p, Past(p))
        /\ files' = [files EXCEPT ![IdentityTmp] = Whole(r.id)]
        /\ UNCHANGED <<daemon, clock, session, used, expected, disturbed, behind>>
    BY <1>14 DEF Fill, Doing, s, r
  <2>2. RunsInv'
    BY <1>p, <1>q, <2>1
  <2>3. FilesInv'
    BY <1>1, <1>5, <2>1, FilesStep, ContentIs DEF RunOK
  <2> QED
    BY <1>w, <2>1, <2>2, <2>3 DEF TypeInv
<1>15. CASE Rename(p)
  <2>1. /\ s.do = "rename" /\ Becomes(p, [Past(p) EXCEPT !.open = FALSE])
        /\ files' = [files EXCEPT ![IdentityKey] = files[IdentityTmp],
                                  ![IdentityTmp] = Missing(IdentityTmp)]
        /\ UNCHANGED <<daemon, clock, session, used, expected, disturbed, behind>>
    BY <1>15 DEF Rename, Doing, s
  <2>2. RunsInv'
    <3>1. (s.do \in {"create", "fill"}) = FALSE
      BY <2>1
    <3> QED
      BY <1>4, <1>p, <2>1, <3>1
  <2>3. FilesInv'
    <3>1. \A g \in Files :
            files'[g] = IF g = IdentityTmp THEN Missing(IdentityTmp)
                        ELSE IF g = IdentityKey THEN files[IdentityTmp] ELSE files[g]
      BY <1>1, <1>5, <2>1 DEF FilesInv
    <3>2. DOMAIN files' = Files
      BY <1>1, <2>1 DEF FilesInv
    <3>3. Empty(IdentityTmp) = Empty(IdentityKey)
      BY Names DEF Empty
    <3>4. ContentOK(IdentityKey, files[IdentityTmp].content)
      BY <1>1, <1>5, ContentIs DEF FilesInv
    <3>5. /\ DOMAIN Missing(IdentityTmp) = {"state", "content"}
          /\ Missing(IdentityTmp).state = "missing"
          /\ Missing(IdentityTmp).content = Empty(IdentityTmp)
          /\ ContentOK(IdentityTmp, Empty(IdentityTmp))
      BY <1>5, EmptyIs DEF Missing
    <3> QED
      BY <1>1, <1>5, <3>1, <3>2, <3>3, <3>4, <3>5 DEF FilesInv
  <2> QED
    BY <1>w, <2>1, <2>2, <2>3 DEF TypeInv
<1> QED
  BY <1>8, <1>9, <1>10, <1>11, <1>12, <1>13, <1>14, <1>15 DEF Step

\* The user, the daemon's events, the clock and the end of a process keep the types.
LEMMA TypeOfEvents ==
  ASSUME TypeInv,
         \/ \E p \in Processes : Kill(p)
         \/ \E p \in Terminals : Command(p)
         \/ StartDaemon \/ Announcement \/ Publication \/ PruneTick \/ Tick
  PROVE  TypeInv'
<1>1. FilesInv /\ RunsInv /\ DaemonInv /\ CountersInv
  BY DEF TypeInv
<1>2. used.commands \in Nat /\ used.events \in Nat /\ Daemon \in Processes
  BY <1>1 DEF CountersInv, Processes
<1>f. ASSUME UNCHANGED files PROVE FilesInv'
  BY <1>1, <1>f DEF FilesInv
<1>d. ASSUME UNCHANGED daemon PROVE DaemonInv'
  BY <1>1, <1>d DEF DaemonInv
<1>u. ASSUME UNCHANGED <<clock, expected, disturbed, behind, session>>,
             NEW k \in {"commands", "events", "kills"}, used' = [used EXCEPT ![k] = @ + 1]
      PROVE  CountersInv'
  BY <1>1, <1>u DEF CountersInv
<1>r. ASSUME UNCHANGED daemon, NEW p \in Processes, NEW c \in Orders, NEW steps,
             TodoOK(c, << >>, steps), steps # << >> => steps[1].do \notin Making,
             c.op # "announce", NEW r, r \in {Begun(c, steps), Settled(Begun(c, steps))},
             run' = [run EXCEPT ![p] = r]
      PROVE  RunsInv'
  <2>1. RunOK(Begun(c, steps)) /\ Begun(c, steps).cmd = c
    BY <1>2, <1>r, BegunIs
  <2>2. RunOK(r) /\ r.cmd \in {c, Idle.cmd}
    BY <1>r, <2>1, SettledIs
  <2>3. r.cmd.op # "announce"
    BY <1>r, <2>2, IdleIs
  <2> QED
    BY <1>1, <1>r, <2>2, <2>3, RunsStep
<1>3. ASSUME NEW p \in Terminals, Command(p) PROVE TypeInv'
  <2>1. /\ UNCHANGED <<files, daemon, clock, expected, disturbed, behind, session>>
        /\ used' = [used EXCEPT !["commands"] = @ + 1]
    BY <1>3 DEF Command
  <2>2. PICK c \in session.menu : run' = [run EXCEPT ![p] = Begun(c, Program(c))]
    BY <1>3 DEF Command
  <2>3. c \in UserCommands /\ c \in Orders /\ c.op # "announce"
    BY <1>1, DirectoryAssumption DEF CountersInv, Orders, UserCommands
  <2>4. RunsInv'
    BY <1>r, <2>1, <2>2, <2>3, ProgramIsOK DEF Processes
  <2> QED
    BY <1>f, <1>d, <1>u, <2>1, <2>4 DEF TypeInv
<1>4. CASE StartDaemon
  <2> DEFINE c == [op |-> "daemon_start"]
  <2>1. /\ UNCHANGED <<files, daemon, clock, expected, disturbed, behind, session>>
        /\ used' = [used EXCEPT !["commands"] = @ + 1]
        /\ run' = [run EXCEPT ![Daemon] = Begun(c, Program(c))]
    BY <1>4 DEF StartDaemon
  <2>2. c \in Orders /\ c.op = "daemon_start"
    BY DEF Orders
  <2> HIDE DEF c
  <2>3. RunsInv'
    BY <1>2, <1>r, <2>1, <2>2, ProgramIsOK
  <2> QED
    BY <1>f, <1>d, <1>u, <2>1, <2>3 DEF TypeInv
<1>5. CASE Announcement
  <2>1. /\ UNCHANGED <<files, clock, expected, disturbed, behind, session>>
        /\ used' = [used EXCEPT !["events"] = @ + 1] /\ daemon.up
    BY <1>5 DEF Announcement, Listening
  <2>2. PICK peer \in Peers, services \in Announcements, skew \in (0 - MaxSkew)..MaxSkew :
          /\ daemon' = [daemon EXCEPT !.registry = Ingest(@, peer, services, clock + skew)]
          /\ run' = [run EXCEPT ![Daemon] =
               Begun([op |-> "announce"],
                 <<Save(Registry)>>
                   \o [i \in 1..Cardinality({svc \in services : Watched(peer, svc)})
                         |-> Save(Subscriptions)])]
    BY <1>5 DEF Announcement
  <2>3. services \in SUBSET Services /\ skew \in Int /\ clock + skew \in Int
    BY <1>1, DirectoryAssumption DEF CountersInv
  <2> DEFINE n == Cardinality({svc \in services : Watched(peer, svc)})
             steps == <<Save(Registry)>> \o [i \in 1..n |-> Save(Subscriptions)]
             c == [op |-> "announce"]
  <2>4. n \in Nat
    <3>1. {svc \in services : Watched(peer, svc)} \subseteq {daemon.subs[i][1] : i \in DOMAIN daemon.subs}
      BY DEF Watched, IsListed
    <3>2. IsFiniteSet({daemon.subs[i][1] : i \in DOMAIN daemon.subs})
      <4> DEFINE g == [i \in DOMAIN daemon.subs |-> daemon.subs[i][1]]
                 T == {daemon.subs[i][1] : i \in DOMAIN daemon.subs}
      <4>1. g \in Surjection(DOMAIN daemon.subs, T)
        BY DEF Surjection
      <4>2. IsFiniteSet(DOMAIN daemon.subs)
        BY <1>1, RangeIs DEF DaemonInv
      <4> HIDE DEF g, T
      <4>3. IsFiniteSet(T)
        BY <4>1, <4>2, FS_Surjection
      <4> QED
        BY <4>3 DEF T
    <3> QED
      BY <3>1, <3>2, FS_Subset, FS_CardinalityType
  <2> HIDE DEF n
  <2>5. /\ TodoOK(c, << >>, steps) /\ steps # << >> /\ c \in Orders
        /\ \A i \in DOMAIN steps : steps[i] = IF i = 1 THEN Save(Registry) ELSE Save(Subscriptions)
    BY <2>4, EventsAre
  <2>6. run' = [run EXCEPT ![Daemon] = Begun(c, steps)]
    BY <2>2 DEF n
  <2> HIDE DEF steps, c
  <2>7. steps[1].do \notin Making
    <3>1. steps \in Seq(StepRecords)
      BY <2>5 DEF TodoOK
    <3>2. 1 \in DOMAIN steps
      BY <2>5, <3>1
    <3> QED
      BY <2>5, <3>2 DEF Save, Making
  <2>8. /\ DOMAIN daemon' = {"up", "subs", "registry"} /\ daemon'.up = daemon.up
        /\ daemon'.subs = daemon.subs
        /\ daemon'.registry = Ingest(daemon.registry, peer, services, clock + skew)
    BY <1>1, <2>2 DEF DaemonInv
  <2>9. RunsInv'
    <3>1. RunOK(Begun(c, steps))
      BY <1>2, <2>5, <2>7, BegunIs
    <3> QED
      BY <1>1, <1>2, <2>1, <2>6, <2>8, <3>1, RunsStep
  <2>10. DaemonInv'
    <3> DEFINE old == daemon.registry
               new == Ingest(old, peer, services, clock + skew)
               e0 == [peer |-> peer, services |-> services, seen |-> clock + skew]
    <3>1. /\ old \in SUBSET Entries(Peers) /\ \A d, e \in old : d.peer = e.peer => d = e
          /\ daemon.subs \in Seq(Subscribed) /\ daemon.up \in BOOLEAN
      BY <1>1 DEF DaemonInv
    <3>2. /\ new \subseteq Entries(Peers)
          /\ \A e \in new : (e \in old /\ e.peer # peer) \/ e = e0
      BY <2>3, <3>1, IngestIs
    <3>3. e0.peer = peer
      OBVIOUS
    <3> HIDE DEF old, new, e0
    <3>4. \A d, e \in new : d.peer = e.peer => d = e
      BY <3>1, <3>2, <3>3
    <3> QED
      BY <2>8, <3>1, <3>2, <3>4 DEF DaemonInv, old, new
  <2> QED
    BY <1>f, <1>u, <2>1, <2>9, <2>10 DEF TypeInv
<1>6. CASE Publication
  <2>1. /\ UNCHANGED <<files, daemon, clock, expected, disturbed, behind, session>>
        /\ used' = [used EXCEPT !["events"] = @ + 1]
    BY <1>6 DEF Publication
  <2> DEFINE id == used.commands + used.events + 1
  <2>2. PICK svc \in Services :
          Becomes(Daemon, Begun([op |-> "publication", svc |-> svc, id |-> id],
                                IF IsListed(daemon.subs, svc, Everyone)
                                THEN NotifySubscriber ELSE << >>))
    BY <1>6 DEF Publication
  <2>3. id \in Nat
    BY <1>2
  <2> HIDE DEF id
  <2> DEFINE c == [op |-> "publication", svc |-> svc, id |-> id]
             steps == IF IsListed(daemon.subs, svc, Everyone) THEN NotifySubscriber ELSE << >>
  <2>4. /\ c \in Orders /\ TodoOK(c, << >>, steps) /\ c.op # "announce"
        /\ steps # << >> => steps[1].do \notin Making
    BY <2>3, EventsAre
  <2>5. run' = [run EXCEPT ![Daemon] = Settled(Begun(c, steps))]
    BY <2>2 DEF Becomes
  <2> HIDE DEF c, steps
  <2>6. RunsInv'
    BY <1>2, <1>r, <2>1, <2>4, <2>5
  <2> QED
    BY <1>f, <1>d, <1>u, <2>1, <2>6 DEF TypeInv
<1>7. CASE PruneTick
  <2>1. /\ UNCHANGED <<files, run, clock, used, session, expected, disturbed, behind>>
        /\ daemon' = [daemon EXCEPT !.registry = {e \in @ : clock - e.seen <= Freshness}]
    BY <1>7 DEF PruneTick
  <2>2. /\ DOMAIN daemon' = {"up", "subs", "registry"} /\ daemon'.up = daemon.up
        /\ daemon'.subs = daemon.subs /\ daemon'.registry \subseteq daemon.registry
    BY <1>1, <2>1 DEF DaemonInv
  <2>3. DaemonInv' /\ RunsInv'
    BY <1>1, <2>1, <2>2 DEF DaemonInv, RunsInv
  <2> QED
    BY <1>1, <1>f, <2>1, <2>3 DEF TypeInv, CountersInv
<1>8. CASE Tick
  <2>1. /\ UNCHANGED <<files, run, daemon, used, session, expected, disturbed, behind>>
        /\ clock' = clock + 1 /\ clock < session.seconds
    BY <1>8 DEF Tick
  <2>2. CountersInv'
    <3>1. session.seconds \in Nat /\ clock \in 0..session.seconds
      BY <1>1, DirectoryAssumption DEF CountersInv
    <3>2. clock' \in 0..session.seconds
      BY <2>1, <3>1
    <3> QED
      BY <1>1, <2>1, <3>2 DEF CountersInv
  <2>3. RunsInv'
    BY <1>1, <2>1 DEF RunsInv
  <2> QED
    BY <1>f, <1>d, <2>1, <2>2, <2>3 DEF TypeInv
<1>9. ASSUME NEW p \in Processes, Kill(p) PROVE TypeInv'
  <2>1. /\ UNCHANGED <<files, clock, expected, behind, session>>
        /\ used' = [used EXCEPT !.kills = @ + 1]
        /\ daemon' = IF p = Daemon THEN Down ELSE daemon
        /\ run' = [run EXCEPT ![p] = Settled(Idle)]
        /\ disturbed' = IF Busy(p) /\ run[p].open THEN disturbed \cup {Current(p).file}
                        ELSE disturbed
    BY <1>9 DEF Kill, Stop, Becomes
  <2>2. RunsInv'
    BY <1>1, <2>1, IdleIs, SettledIs, RunsStep
  <2>3. DaemonInv'
    <3>1. CASE p = Daemon
      BY <2>1, <3>1, EmptySeq DEF DaemonInv, Down
    <3>2. CASE p # Daemon
      BY <1>1, <2>1, <3>2 DEF DaemonInv
    <3> QED
      BY <3>1, <3>2
  <2>4. CountersInv'
    <3>1. Busy(p) => Current(p).file \in Files
      BY <1>1, CurrentIs DEF RunsInv
    <3> QED
      BY <1>1, <2>1, <3>1 DEF CountersInv
  <2> QED
    BY <1>f, <2>1, <2>2, <2>3, <2>4 DEF TypeInv
<1> QED
  BY <1>3, <1>4, <1>5, <1>6, <1>7, <1>8, <1>9

\* The types hold in every reachable state.
LEMMA TypeNext == TypeInv /\ [Next]_vars => TypeInv'
<1>1. ASSUME TypeInv, Next PROVE TypeInv'
  BY <1>1, TypeOfStep, TypeOfEvents DEF Next
<1>2. ASSUME TypeInv, UNCHANGED vars PROVE TypeInv'
  BY <1>2 DEF vars, TypeInv, FilesInv, RunsInv, DaemonInv, CountersInv
<1> QED
  BY <1>1, <1>2

\* main.rs, network.rs: whatever the programs and the daemon do to the directory, each
\* file holds a content of its own kind, each program rewrites what it loaded before,
\* and the daemon's registry has one entry of a peer.
THEOREM DirectoryInvariance == Spec => []TypeInv
<1> QED
  BY TypeInit, TypeNext, PTL DEF Spec

\* A finite number of entries, one of each peer at most.
LEMMA OneEach ==
  ASSUME NEW reg, IsFiniteSet(Peers), \A e \in reg : e.peer \in Peers,
         \A d, e \in reg : d.peer = e.peer => d = e
  PROVE  IsFiniteSet(reg) /\ Cardinality(reg) <= Cardinality(Peers)
<1> DEFINE g == [e \in reg |-> e.peer]
<1>1. g \in Injection(reg, Peers)
  BY DEF Injection, IsInjective
<1> QED
  BY <1>1, FS_Injection

\* DataDirectory!DirectoryTypeOK: file contents are of their file, the programs in progress
\* are sequences of steps on known files, and the registry has an entry a peer at most.
THEOREM DirectoryTypeCorrect == Spec => []DirectoryTypeOK
<1>1. ASSUME TypeInv PROVE DirectoryTypeOK
  <2>1. FilesInv /\ RunsInv /\ DaemonInv /\ CountersInv
    BY <1>1 DEF TypeInv
  <2>2. ASSUME NEW f \in Kept PROVE IsFiniteSet(Items(f, files[f].content))
    <3> DEFINE x == files[f].content
    <3>1. f \in Files /\ ContentOK(f, x)
      BY <2>1, FilesAre DEF FilesInv
    <3>2. \/ f \in {Contacts, Timeline, Subscriptions, Notifications}
          \/ f[1] \in {"publications", "ratings", "permissions"}
      BY DEF Kept, PerService
    <3> SUFFICES IsFiniteSet(Items(f, x))
      OBVIOUS
    <3> HIDE DEF x
    <3>3. ASSUME NEW S, x \in Seq(S) PROVE IsFiniteSet(Range(x)) /\ IsFiniteSet(Ids(x))
      <4>1. IsFiniteSet(Range(x)) /\ IsFiniteSet(DOMAIN x)
        BY <3>3, RangeIs
      <4> DEFINE g == [i \in DOMAIN x |-> x[i].id]
      <4>2. g \in Surjection(DOMAIN x, Ids(x))
        BY DEF Surjection, Ids
      <4> HIDE DEF g
      <4> QED
        BY <4>1, <4>2, FS_Surjection
    <3>4. CASE f \in {Contacts, Subscriptions, Notifications}
      BY <3>1, <3>3, <3>4, ContentIs, ItemsAre
    <3>5. CASE f = Timeline
      BY <3>1, <3>3, <3>5, ContentIs, ItemsAre
    <3>6. CASE f[1] = "publications"
      BY <3>1, <3>3, <3>6, ContentIs, ItemsAre
    <3>7. CASE f[1] = "ratings"
      BY <3>1, <3>3, <3>7, ContentIs, ItemsAre
    <3>8. CASE f[1] = "permissions"
      <4>1. Items(f, x) = {x}
        BY <3>1, <3>8, ItemsAre
      <4> QED
        BY <4>1, FS_Singleton
    <3> QED
      BY <3>2, <3>4, <3>5, <3>6, <3>7, <3>8
  <2>3. ASSUME NEW p \in Processes, NEW i \in DOMAIN run[p].todo
        PROVE  run[p].todo[i].file \in Files
    <3>1. run[p].todo \in Seq(StepRecords)
      BY <2>1 DEF RunsInv, RunOK, TodoOK
    <3>2. run[p].todo[i] \in StepRecords
      BY <2>3, <3>1
    <3> QED
      BY <3>2 DEF StepRecords
  <2>4. Cardinality(daemon.registry) <= Cardinality(Peers)
    <3>1. \A e \in daemon.registry : e.peer \in Peers
      BY <2>1 DEF DaemonInv, Entries
    <3> QED
      BY <2>1, <3>1, OneEach, DirectoryAssumption DEF DaemonInv
  <2> QED
    BY <2>1, <2>2, <2>3, <2>4 DEF DirectoryTypeOK, FilesInv, DaemonInv, CountersInv
<1> QED
  BY <1>1, DirectoryInvariance, PTL

\* DataDirectory!LogsCoherent: however commands race and are killed, a readable timeline is
\* one chain from its genesis, and the versions of a history count down to 1.
THEOREM LogsStayCoherent == Spec => []LogsCoherent
<1>1. ASSUME TypeInv PROVE LogsCoherent
  <2>1. \A f \in Files : ContentOK(f, files[f].content)
    BY <1>1 DEF TypeInv, FilesInv
  <2>2. Chained(files[Timeline].content)
    BY <2>1, ContentIs, FilesAre
  <2>3. ASSUME NEW svc \in Services PROVE CountsDown(files[History(svc)].content)
    BY <2>1, ContentIs, FilesAre, Names
  <2> QED
    BY <2>2, <2>3 DEF LogsCoherent, Chained, CountsDown
<1> QED
  BY <1>1, DirectoryInvariance, PTL

----------------------------------------------------------------------------
(* What a step of a program does.                                          *)

\* A process that is past its first step, and one that has read.
WentOn(p) ==
  LET r == run[p]
      s == Current(p)
  IN /\ run'[p].todo = Tail(r.todo) /\ run'[p].cmd = r.cmd /\ run'[p].of = r.of
     /\ run'[p].held = r.held /\ run'[p].stale = r.stale
     /\ run'[p].open = (s.do \in {"create", "fill"})
HasRead(p) ==
  LET f == Current(p).file
      s == Current(p)
  IN /\ run'[p].cmd = run[p].cmd /\ run'[p].open = FALSE
     /\ s.do = "load" =>
          /\ run'[p].of = f /\ run'[p].held = files[f].content
          /\ run'[p].stale = (files[f].state = "torn")
          /\ files[f].state = "torn" => Forgives(p, f)
     /\ s.do = "need" =>
          /\ run'[p].of = run[p].of /\ run'[p].held = run[p].held
          /\ run'[p].stale = run[p].stale /\ run'[p].todo = Tail(run[p].todo)
HasOpened(p) ==
  /\ run'[p].todo = run[p].todo /\ run'[p].cmd = run[p].cmd /\ run'[p].of = run[p].of
  /\ run'[p].held = run[p].held /\ run'[p].stale = run[p].stale /\ run'[p].open = TRUE

\* What becomes of the process: it ends, reads, opens the file, or goes on.
LEMMA Moves ==
  ASSUME TypeInv, NEW p \in Processes, Step(p)
  PROVE  /\ Busy(p) /\ Current(p).file \in Files /\ Current(p) = run[p].todo[1]
         /\ StepOK(run[p].cmd, run[p].of, run[p].todo, 1)
         /\ \/ run'[p] = Idle
            \/ Read(p) /\ Current(p).do \in {"load", "need"} /\ HasRead(p)
            \/ Truncate(p) /\ Current(p).do = "save" /\ ~run[p].open /\ HasOpened(p)
            \/ ~Read(p) /\ ~Truncate(p) /\ Current(p).do \notin {"load", "need"} /\ WentOn(p)
         /\ \A q \in Processes \ {p} :
              /\ run'[q].todo = run[q].todo /\ run'[q].cmd = run[q].cmd
              /\ run'[q].of = run[q].of /\ run'[q].held = run[q].held
              /\ run'[q].open = run[q].open
              /\ run'[q].stale = (run[q].stale \/ (Write(p) /\ run[q].of = Current(p).file))
<1> DEFINE r == run[p]
           s == Current(p)
           f == Current(p).file
<1>1. /\ FilesInv /\ DOMAIN run = Processes /\ \A q \in Processes : RunOK(run[q])
      /\ RunOK(r) /\ DOMAIN r = RunFields
  BY DEF TypeInv, RunsInv, RunOK
<1>2. Busy(p)
  BY DEF Step, Read, Glance, Truncate, Write, EraseFile, Create, Fill, Rename, Doing
<1>3. f \in Files /\ s = r.todo[1] /\ StepOK(r.cmd, r.of, r.todo, 1) /\ r.todo # << >>
  BY <1>1, <1>2, CurrentIs
<1>4. Past(p) = [r EXCEPT !.todo = Tail(@)]
  BY DEF Past
<1>5. \A q \in Processes : DOMAIN run[q] = RunFields /\ run[q].stale \in BOOLEAN
  BY <1>1 DEF RunOK
<1>o. ASSUME NEW x, Becomes(p, x), ~Write(p)
      PROVE  \A q \in Processes \ {p} :
               /\ run'[q].todo = run[q].todo /\ run'[q].cmd = run[q].cmd
               /\ run'[q].of = run[q].of /\ run'[q].held = run[q].held
               /\ run'[q].open = run[q].open
               /\ run'[q].stale = (run[q].stale \/ (Write(p) /\ run[q].of = Current(p).file))
  <2>1. \A q \in Processes \ {p} : run'[q] = run[q]
    BY <1>1, <1>o DEF Becomes
  <2>2. \A q \in Processes \ {p} :
          run[q].stale = (run[q].stale \/ (Write(p) /\ run[q].of = Current(p).file))
    BY <1>5, <1>o
  <2> HIDE <1>o
  <2> QED
    BY <2>1, <2>2
<1>i. ASSUME NEW x, Becomes(p, x)
      PROVE  run'[p] = Idle \/ run'[p] = x
  BY <1>1, <1>i DEF Becomes, Settled
<1>w. ASSUME ~Read(p), ~Truncate(p), s.do \notin {"load", "need"},
             Becomes(p, [[r EXCEPT !.todo = Tail(@)] EXCEPT !.open = (s.do \in {"create", "fill"})])
      PROVE  \/ run'[p] = Idle
             \/ ~Read(p) /\ ~Truncate(p) /\ s.do \notin {"load", "need"} /\ WentOn(p)
  <2> DEFINE o == s.do \in {"create", "fill"}
             x == [[r EXCEPT !.todo = Tail(@)] EXCEPT !.open = o]
  <2>1. run'[p] = Idle \/ run'[p] = x
    BY <1>i, <1>w
  <2>2. /\ x.todo = Tail(r.todo) /\ x.cmd = r.cmd /\ x.of = r.of
        /\ x.held = r.held /\ x.stale = r.stale /\ x.open = o
    BY <1>1 DEF RunFields
  <2> HIDE DEF x
  <2>3. run'[p] = x => WentOn(p)
    BY <2>2 DEF WentOn
  <2> QED
    BY <1>w, <2>1, <2>3
<1>q. ASSUME s.do \in {"peek", "erase", "fill"}
      PROVE  Past(p) = [[r EXCEPT !.todo = Tail(@)] EXCEPT !.open = (s.do \in {"create", "fill"})]
  <2>1. r.open = (s.do \in {"create", "fill"})
    BY <1>1, <1>3, <1>q DEF RunOK, Making
  <2> QED
    BY <1>1, <1>4, <2>1 DEF RunFields, RunOK
<1> HIDE DEF r, s, f
<1>6. CASE Read(p)
  <2>1. s.do \in {"load", "need"} /\ ~Write(p)
    BY <1>6 DEF Read, Write, Doing, s
  <2> DEFINE x == AfterLoad(p, files[f].content)
             y == IF files[f].state = "torn" /\ ~Forgives(p, f) THEN Idle ELSE x
  <2>2. Becomes(p, y)
    BY <1>6 DEF Read, Stop, f
  <2>3. /\ x.cmd = r.cmd /\ x.open = r.open /\ ~r.open /\ r.open \in BOOLEAN
        /\ s.do = "need" => /\ x.todo \in {<< >>, Tail(r.todo)}
                            /\ x.of = r.of /\ x.held = r.held /\ x.stale = r.stale
        /\ s.do = "load" => /\ x.of = f /\ x.held = files[f].content
                            /\ x.stale = (files[f].state = "torn")
    <3>1. r.open \in BOOLEAN
      BY <1>1 DEF RunOK
    <3> QED
      BY <1>1, <1>2, <2>1, <3>1, AfterLoadIs DEF s, r, f
  <2> HIDE DEF x
  <2>4. run'[p] = Idle \/ HasRead(p)
    <3>1. run'[p] = Settled(y)
      BY <1>1, <2>2 DEF Becomes
    <3>2. CASE Settled(y) = Idle
      BY <3>1, <3>2
    <3>3. CASE Settled(y) # Idle
      <4>1. y.todo # << >> /\ run'[p] = y
        BY <3>1, <3>3 DEF Settled
      <4>2. y # Idle
        BY <4>1, IdleIs
      <4>3. y = x /\ (files[f].state = "torn" => Forgives(p, f))
        BY <4>2
      <4> HIDE DEF y
      <4> QED
        BY <2>3, <4>1, <4>3 DEF HasRead, s, f, r
    <3> QED
      BY <3>2, <3>3
  <2> HIDE DEF y
  <2> QED
    BY <1>2, <1>3, <1>6, <1>o, <2>1, <2>2, <2>4 DEF s, f, r
<1>7. CASE Truncate(p)
  <2>1. s.do = "save" /\ ~r.open /\ run' = [run EXCEPT ![p].open = TRUE, ![p].mixed = FALSE]
    BY <1>7 DEF Truncate, Doing, s, r
  <2>2. ~Write(p)
    BY <2>1 DEF Write, r
  <2> DEFINE x == [r EXCEPT !.open = TRUE, !.mixed = FALSE]
  <2>3. run'[p] = x /\ \A q \in Processes \ {p} : run'[q] = run[q]
    BY <1>1, <2>1 DEF r
  <2>4. /\ x.todo = r.todo /\ x.cmd = r.cmd /\ x.held = r.held /\ x.of = r.of
        /\ x.stale = r.stale /\ x.open = TRUE
    BY <1>1 DEF RunFields
  <2> HIDE DEF x
  <2>5. HasOpened(p)
    BY <2>3, <2>4 DEF HasOpened, r
  <2>6. \A q \in Processes \ {p} :
          run[q].stale = (run[q].stale \/ (Write(p) /\ run[q].of = Current(p).file))
    BY <1>5, <2>2
  <2> QED
    BY <1>2, <1>3, <1>7, <2>1, <2>3, <2>5, <2>6 DEF s, f, r
<1>8. CASE Write(p)
  <2>1. s.do = "save" /\ r.open /\ ~Read(p) /\ ~Truncate(p)
    BY <1>8 DEF Write, Read, Truncate, Doing, s, r
  <2> DEFINE x == [Past(p) EXCEPT !.open = FALSE]
             Bystander(q) == q # p /\ run[q].of = f
             Sharing(q) == q # p /\ run[q].open /\ Current(q).file = f
             z(q) == [run[q] EXCEPT !.stale = @ \/ Bystander(q), !.mixed = @ \/ Sharing(q)]
  <2>2. run' = [q \in Processes |-> IF q = p THEN Settled(x) ELSE z(q)]
    BY <1>8 DEF Write, f
  <2>3. /\ x.todo = Tail(r.todo) /\ x.cmd = r.cmd /\ x.of = r.of
        /\ x.held = r.held /\ x.stale = r.stale /\ x.open = FALSE
    BY <1>1, <1>4 DEF RunFields
  <2>4. ASSUME NEW q \in Processes \ {p}
        PROVE  /\ z(q).todo = run[q].todo /\ z(q).cmd = run[q].cmd
               /\ z(q).of = run[q].of /\ z(q).held = run[q].held /\ z(q).open = run[q].open
               /\ z(q).stale = (run[q].stale \/ (Write(p) /\ run[q].of = f))
    <3>1. DOMAIN run[q] = RunFields /\ run[q].stale \in BOOLEAN /\ q # p
      BY <1>5
    <3>2. Write(p)
      BY <1>8
    <3>3. /\ z(q).todo = run[q].todo /\ z(q).cmd = run[q].cmd
          /\ z(q).of = run[q].of /\ z(q).held = run[q].held /\ z(q).open = run[q].open
          /\ z(q).stale = (run[q].stale \/ Bystander(q))
      BY <3>1 DEF RunFields
    <3> HIDE DEF z
    <3> QED
      BY <3>1, <3>2, <3>3
  <2> HIDE DEF x, z
  <2>5. run'[p] = Settled(x) /\ \A q \in Processes \ {p} : run'[q] = z(q)
    BY <2>2
  <2>6. run'[p] = Idle \/ WentOn(p)
    <3>1. run'[p] = Idle \/ run'[p] = x
      BY <2>5 DEF Settled
    <3>2. (s.do \in {"create", "fill"}) = FALSE
      BY <2>1
    <3> QED
      BY <2>3, <3>1, <3>2, Zenon DEF WentOn, s, r
  <2> QED
    BY <1>2, <1>3, <2>1, <2>4, <2>5, <2>6 DEF s, f, r
<1>t. ~Read(p) /\ ~Truncate(p) /\ ~Write(p) =>
        s.do \in {"peek", "erase", "create", "fill", "rename"}
  BY DEF Step, Glance, EraseFile, Create, Fill, Rename, Doing, s
<1>9. ASSUME ~Read(p), ~Truncate(p), ~Write(p)
      PROVE  \/ Stop(p)
             \/ Becomes(p, [[r EXCEPT !.todo = Tail(@)] EXCEPT !.open = (s.do \in {"create", "fill"})])
  <2>1. CASE Glance(p) \/ EraseFile(p) \/ Fill(p)
    <3>1. Becomes(p, Past(p)) /\ s.do \in {"peek", "erase", "fill"}
      BY <2>1 DEF Glance, EraseFile, Fill, Doing, s
    <3> QED
      BY <1>q, <3>1
  <2>2. CASE Create(p)
    <3>1. (s.do \in {"create", "fill"}) = TRUE
      BY <2>2 DEF Create, Doing, s
    <3>2. Stop(p) \/ Becomes(p, [Past(p) EXCEPT !.open = TRUE])
      BY <2>2 DEF Create
    <3> QED
      BY <1>4, <3>1, <3>2
  <2>3. CASE Rename(p)
    <3>1. (s.do \in {"create", "fill"}) = FALSE
      BY <2>3 DEF Rename, Doing, s
    <3>2. Becomes(p, [Past(p) EXCEPT !.open = FALSE])
      BY <2>3 DEF Rename
    <3> QED
      BY <1>4, <3>1, <3>2
  <2> QED
    BY <1>9, <2>1, <2>2, <2>3 DEF Step
<1>10. CASE ~Read(p) /\ ~Truncate(p) /\ ~Write(p)
  <2>1. CASE Stop(p)
    <3>1. run'[p] = Idle
      BY <1>i, <2>1 DEF Stop
    <3> QED
      BY <1>2, <1>3, <1>10, <1>o, <2>1, <3>1 DEF Stop, s, f, r
  <2>2. CASE Becomes(p, [[r EXCEPT !.todo = Tail(@)] EXCEPT !.open = (s.do \in {"create", "fill"})])
    <3>1. \/ run'[p] = Idle
          \/ ~Read(p) /\ ~Truncate(p) /\ s.do \notin {"load", "need"} /\ WentOn(p)
      BY <1>10, <1>t, <1>w, <2>2
    <3> QED
      BY <1>2, <1>3, <1>10, <1>o, <2>2, <3>1 DEF s, f, r
  <2> QED
    BY <1>9, <1>10, <2>1, <2>2
<1> QED
  BY <1>6, <1>7, <1>8, <1>10

\* What becomes of the files: emptied, written, erased, and the two of the key.
LEMMA Rewritten ==
  ASSUME TypeInv, NEW p \in Processes, Step(p), NEW g \in Files, files'[g] # files[g]
  PROVE  \/ /\ g = Current(p).file /\ Truncate(p) /\ Current(p).do = "save"
            /\ files'[g] = Torn(g)
         \/ /\ g = Current(p).file /\ Write(p) /\ Current(p).do = "save" /\ run[p].open
            /\ files'[g] = Whole(Content(p, g)) \/ (run[p].mixed /\ files'[g] = Torn(g))
         \/ g = Registry /\ Current(p).do = "erase" /\ files'[g] = Missing(g)
         \/ /\ g = IdentityTmp /\ Create(p) /\ Current(p).do = "create"
            /\ files[g].state = "missing" /\ files'[g] = Torn(g)
         \/ g = IdentityTmp /\ Current(p).do = "fill" /\ files'[g] = Whole(run[p].id)
         \/ g = IdentityKey /\ Current(p).do = "rename" /\ files'[g] = files[IdentityTmp]
         \/ g = IdentityTmp /\ Current(p).do = "rename" /\ files'[g] = Missing(g)
<1>1. DOMAIN files = Files
  BY DEF TypeInv, FilesInv
<1>2. Current(p).do = "erase" => Current(p).file = Registry
  BY Moves DEF StepOK
<1>3. ~Read(p) /\ ~Glance(p)
  BY DEF Read, Glance, Unchanged
<1>4. CASE Truncate(p)
  BY <1>1, <1>4 DEF Truncate, Doing
<1>5. CASE Write(p)
  BY <1>1, <1>5 DEF Write, Doing
<1>6. CASE EraseFile(p)
  BY <1>1, <1>2, <1>6 DEF EraseFile, Doing
<1>7. CASE Create(p)
  BY <1>1, <1>7 DEF Create, Doing
<1>8. CASE Fill(p)
  BY <1>1, <1>8 DEF Fill, Doing
<1>9. CASE Rename(p)
  BY <1>1, <1>9 DEF Rename, Doing
<1> QED
  BY <1>3, <1>4, <1>5, <1>6, <1>7, <1>8, <1>9 DEF Step

\* What is not a step of a program begins or ends one, and touches no file.
Events ==
  \/ \E p \in Processes : Kill(p)
  \/ \E p \in Terminals : Command(p)
  \/ StartDaemon \/ Announcement \/ Publication \/ PruneTick \/ Tick

\* An event touches no file, and a process it begins or ends holds no copy of one.
LEMMA EventsMove ==
  ASSUME TypeInv, Events
  PROVE  /\ files' = files
         /\ \A q \in Processes :
              \/ run'[q] = run[q]
              \/ run'[q].open = FALSE /\ run'[q].of = << >>
<1>1. DOMAIN run = Processes /\ Daemon \in Processes
  BY DEF TypeInv, RunsInv, Processes
<1>2. files' = files
  BY DEF Events, Kill, Command, StartDaemon, Announcement, Publication, PruneTick, Tick
<1>3. \A c, steps : /\ Begun(c, steps).open = FALSE /\ Begun(c, steps).of = << >>
                    /\ Settled(Begun(c, steps)).open = FALSE
                    /\ Settled(Begun(c, steps)).of = << >>
  BY DEF Begun, Idle, Settled
<1>4. Settled(Idle).open = FALSE /\ Settled(Idle).of = << >>
  BY IdleIs DEF Settled, Idle
<1>5. ASSUME NEW p \in Processes, NEW r, run' = [run EXCEPT ![p] = r],
             r.open = FALSE, r.of = << >>
      PROVE  \A q \in Processes : \/ run'[q] = run[q]
                                  \/ run'[q].open = FALSE /\ run'[q].of = << >>
  BY <1>1, <1>5
<1>6. CASE \E p \in Processes : Kill(p)
  BY <1>2, <1>4, <1>5, <1>6 DEF Kill, Stop, Becomes
<1>7. CASE \E p \in Terminals : Command(p)
  BY <1>2, <1>3, <1>5, <1>7 DEF Command, Processes
<1>8. CASE StartDaemon
  BY <1>1, <1>2, <1>3, <1>5, <1>8 DEF StartDaemon
<1>9. CASE Announcement
  <2>1. PICK c, steps : run' = [run EXCEPT ![Daemon] = Begun(c, steps)]
    BY <1>9 DEF Announcement
  <2> QED
    BY <1>1, <1>2, <1>3, <1>5, <2>1
<1>10. CASE Publication
  <2>1. PICK c, steps : run' = [run EXCEPT ![Daemon] = Settled(Begun(c, steps))]
    BY <1>10 DEF Publication, Becomes
  <2> QED
    BY <1>1, <1>2, <1>3, <1>5, <2>1
<1>11. CASE PruneTick \/ Tick
  BY <1>2, <1>11 DEF PruneTick, Tick
<1> QED
  BY <1>6, <1>7, <1>8, <1>9, <1>10, <1>11 DEF Events

\* A step is one of a program or an event.
LEMMA StepOrEvent == Next => Events \/ \E p \in Processes : Step(p)
BY DEF Next, Events

----------------------------------------------------------------------------
(* The identity.                                                           *)

\* In a new directory nobody is at the temporary key.
LEMMA KeyInit == Init => KeyInv
<1> SUFFICES ASSUME Init PROVE KeyInv
  OBVIOUS
<1>1. files[IdentityKey].state # "torn"
  BY FilesAre DEF Init, Whole, Missing
<1>2. \A p \in Processes : run[p].todo = << >>
  BY IdleIs DEF Init
<1> QED
  BY <1>1, <1>2 DEF KeyInv, At

\* One program at a time is at the temporary key, and only it changes that file.
LEMMA KeyNext == TypeInv /\ TypeInv' /\ KeyInv /\ [Next]_vars => KeyInv'
<1> SUFFICES ASSUME TypeInv, TypeInv', KeyInv, [Next]_vars PROVE KeyInv'
  OBVIOUS
<1>1. /\ \A q \in Processes : RunOK(run[q]) /\ RunOK(run'[q])
      /\ IdentityTmp \in Files /\ IdentityKey \in Files
      /\ IdentityTmp # IdentityKey /\ Registry # IdentityTmp /\ Registry # IdentityKey
  BY FilesAre, Names DEF TypeInv, RunsInv
<1>2. \A q \in Processes : run'[q].open = FALSE => ~At(q, Making)'
  BY <1>1 DEF RunOK, At
<1>3. ASSUME NEW p \in Processes, Step(p) PROVE KeyInv'
  <2> DEFINE s == Current(p)
  <2>1. /\ Busy(p) /\ s.file \in Files /\ s = run[p].todo[1] /\ run[p].todo # << >>
        /\ StepOK(run[p].cmd, run[p].of, run[p].todo, 1)
    BY <1>3, Moves DEF Busy
  <2>2. s.do = "save" => s.file \notin {IdentityKey, IdentityTmp}
    BY <2>1 DEF StepOK, Saves
  <2>3. \A q \in Processes \ {p} : \A what : At(q, what)' <=> At(q, what)
    BY <1>3, Moves DEF At
  <2>4. \A what : At(p, what) <=> s.do \in what
    BY <2>1 DEF At
  <2>5. s.do \notin {"create", "fill"} => ~At(p, Making)'
    <3>1. CASE run'[p] = Idle
      BY <3>1, IdleIs DEF At
    <3>2. CASE HasRead(p)
      BY <1>2, <3>2 DEF HasRead
    <3>3. CASE s.do = "save" /\ HasOpened(p)
      BY <2>1, <3>3 DEF HasOpened, At, Making
    <3>4. ASSUME WentOn(p), s.do \notin {"create", "fill"} PROVE ~At(p, Making)'
      <4>1. (s.do \in {"create", "fill"}) = FALSE
        BY <3>4
      <4>2. run'[p].open = FALSE
        BY <3>4, <4>1, Zenon DEF WentOn
      <4> QED
        BY <1>2, <4>2
    <3> QED
      BY <1>3, <3>1, <3>2, <3>3, <3>4, Moves
  <2>6. s.do \in {"create", "fill"} =>
          \/ run'[p] = Idle
          \/ /\ run'[p].todo # << >>
             /\ run'[p].todo[1].do = IF s.do = "create" THEN "fill" ELSE "rename"
    <3>1. ASSUME WentOn(p), s.do \in {"create", "fill"}
          PROVE  /\ run'[p].todo # << >>
                 /\ run'[p].todo[1].do = IF s.do = "create" THEN "fill" ELSE "rename"
      <4>1. run'[p].open /\ run'[p].todo = Tail(run[p].todo)
        BY <3>1 DEF WentOn
      <4>2. run'[p].todo # << >>
        BY <1>1, <4>1 DEF RunOK
      <4>3. TodoOK(run[p].cmd, run[p].of, run[p].todo)
        BY <1>1 DEF RunOK
      <4>4. Tail(run[p].todo)[1] = run[p].todo[2]
        BY <2>1, <4>1, <4>2, <4>3, NextIs
      <4>5. run[p].todo[2].do = IF s.do = "create" THEN "fill" ELSE "rename"
        <5>1. 1 + 1 = 2
          OBVIOUS
        <5> QED
          BY <2>1, <3>1, <5>1 DEF StepOK
      <4> QED
        BY <4>1, <4>2, <4>4, <4>5
    <3> QED
      BY <1>3, <3>1, Moves
  <2>7. /\ files'[IdentityKey] # files[IdentityKey] =>
             s.do = "rename" /\ files'[IdentityKey] = files[IdentityTmp]
        /\ files'[IdentityTmp] # files[IdentityTmp] =>
             \/ /\ s.do = "create" /\ files[IdentityTmp].state = "missing"
                /\ files'[IdentityTmp] = Torn(IdentityTmp)
             \/ s.do = "fill" /\ files'[IdentityTmp] = Whole(run[p].id)
             \/ s.do = "rename"
    BY <1>1, <1>3, <2>2, Rewritten
  <2>8. s.do = "create" /\ run'[p] # Idle =>
          /\ files[IdentityTmp].state = "missing"
          /\ files'[IdentityTmp] = Torn(IdentityTmp)
    <3>1. ASSUME s.do = "create" PROVE Create(p)
      BY <1>3, <3>1 DEF Step, Read, Glance, Truncate, Write, EraseFile, Fill, Rename, Doing
    <3>2. Stop(p) => run'[p] = Idle
      <4>1. Settled(Idle) = Idle
        BY IdleIs DEF Settled
      <4> QED
        BY <4>1 DEF Stop, Becomes, TypeInv, RunsInv
    <3> QED
      BY <1>1, <3>1, <3>2 DEF Create, TypeInv, FilesInv
  <2>9. s.do = "fill" => files'[IdentityTmp] = Whole(run[p].id)
    <3>1. ASSUME s.do = "fill" PROVE Fill(p)
      BY <1>3, <3>1 DEF Step, Read, Glance, Truncate, Write, EraseFile, Create, Rename, Doing
    <3> QED
      BY <1>1, <3>1 DEF Fill, TypeInv, FilesInv
  <2>10. Torn(IdentityTmp).state = "torn" /\ Whole(run[p].id).state = "whole"
    BY DEF Torn, Whole
  <2>11. ~At(p, Making)' \/ s.do \in {"create", "fill"}
    BY <2>5
  <2>12. run'[p] = Idle => \A what : ~At(p, what)'
    BY IdleIs DEF At
  <2>13. /\ files[IdentityKey].state # "torn"
         /\ \A q \in Processes :
              /\ At(q, {"fill"}) => files[IdentityTmp].state = "torn"
              /\ At(q, {"rename"}) => files[IdentityTmp].state = "whole"
              /\ At(q, Making) /\ At(p, Making) => p = q
         /\ \A q1, q2 \in Processes : At(q1, Making) /\ At(q2, Making) => q1 = q2
    BY <1>3 DEF KeyInv
  <2>a. \A q : /\ At(q, Making) <=> At(q, {"fill"}) \/ At(q, {"rename"})
               /\ At(q, Making)' <=> At(q, {"fill"})' \/ At(q, {"rename"})'
    BY DEF At, Making
  <2>14. files'[IdentityKey].state # "torn"
    BY <2>4, <2>7, <2>10, <2>13
  <2>15. ASSUME NEW q \in Processes, q # p
         PROVE  /\ At(q, {"fill"})' => files'[IdentityTmp].state = "torn"
                /\ At(q, {"rename"})' => files'[IdentityTmp].state = "whole"
    <3>1. CASE files'[IdentityTmp] = files[IdentityTmp]
      BY <2>3, <2>13, <2>15, <3>1
    <3>2. CASE files'[IdentityTmp] # files[IdentityTmp]
      <4>1. CASE s.do = "create" /\ files[IdentityTmp].state = "missing"
        BY <2>3, <2>13, <2>15, <4>1
      <4>2. CASE s.do \in {"fill", "rename"}
        <5>1. At(p, Making)
          BY <2>4, <4>2 DEF Making
        <5>2. ~At(q, Making)
          BY <2>13, <2>15, <5>1
        <5> QED
          BY <2>3, <2>15, <2>a, <5>2
      <4> QED
        BY <2>7, <3>2, <4>1, <4>2
    <3> QED
      BY <3>1, <3>2
  <2>16. /\ At(p, {"fill"})' => files'[IdentityTmp].state = "torn"
         /\ At(p, {"rename"})' => files'[IdentityTmp].state = "whole"
    <3>1. CASE s.do \notin {"create", "fill"} \/ run'[p] = Idle
      BY <2>5, <2>12, <2>a, <3>1
    <3>2. CASE s.do \in {"create", "fill"} /\ run'[p] # Idle
      <4>1. /\ s.do = "create" => ~At(p, {"rename"})'
            /\ s.do = "fill" => ~At(p, {"fill"})'
        BY <2>6, <3>2 DEF At
      <4> QED
        BY <2>8, <2>9, <2>10, <3>2, <4>1
    <3> QED
      BY <3>1, <3>2
  <2>17. ASSUME NEW q1 \in Processes, NEW q2 \in Processes, At(q1, Making)', At(q2, Making)'
         PROVE  q1 = q2
    <3>1. ASSUME NEW q \in Processes, q # p, At(q, Making)' PROVE ~At(p, Making)'
      <4>1. At(q, Making)
        BY <2>3, <3>1
      <4>2. files[IdentityTmp].state # "missing"
        BY <2>13, <2>a, <4>1
      <4>3. s.do \notin Making
        BY <2>4, <2>13, <3>1, <4>1
      <4>4. s.do = "create" => run'[p] = Idle
        BY <2>8, <4>2
      <4> QED
        BY <2>5, <2>12, <4>3, <4>4 DEF Making
    <3>2. CASE q1 # p /\ q2 # p
      BY <2>3, <2>13, <2>17, <3>2
    <3> QED
      BY <2>17, <3>1, <3>2
  <2> QED
    BY <2>14, <2>15, <2>16, <2>17 DEF KeyInv
<1>4. ASSUME Events PROVE KeyInv'
  <2>1. files' = files /\ \A q \in Processes : run'[q] = run[q] \/ ~At(q, Making)'
    BY <1>2, <1>4, EventsMove
  <2>2. \A q \in Processes : /\ At(q, Making)' => At(q, Making)
                             /\ At(q, {"fill"})' => At(q, {"fill"})
                             /\ At(q, {"rename"})' => At(q, {"rename"})
    BY <2>1 DEF At, Making
  <2> QED
    BY <2>1, <2>2 DEF KeyInv
<1>5. CASE UNCHANGED vars
  BY <1>5 DEF vars, KeyInv, At
<1> QED
  BY <1>3, <1>4, <1>5, StepOrEvent

\* storage.rs save_identity: the temporary key is with at most one program, torn until it
\* is filled and whole until it is renamed.
THEOREM KeyInvariance == Spec => []KeyInv
<1> QED
  BY DirectoryInvariance, KeyInit, KeyNext, PTL DEF Spec

\* DataDirectory!IdentityWhole: identity.key is never seen half written, whenever a process
\* ends, and it never disappears once it exists.
THEOREM IdentityStaysWhole == Spec => IdentityWhole
<1>1. ASSUME TypeInv, KeyInv, KeyInv', [Next]_vars
      PROVE  [/\ files'[IdentityKey].state # "torn"
              /\ files[IdentityKey].state = "whole" => files'[IdentityKey].state = "whole"]_vars
  <2>1. files'[IdentityKey].state # "torn"
    BY <1>1 DEF KeyInv
  <2>2. ASSUME NEW p \in Processes, Step(p), files[IdentityKey].state = "whole"
        PROVE  files'[IdentityKey].state = "whole"
    <3>1. CASE files'[IdentityKey] # files[IdentityKey]
      <4>1. IdentityKey \in Files /\ IdentityKey # Registry /\ IdentityKey # IdentityTmp
        BY FilesAre, Names
      <4>2. Current(p).do = "save" => Current(p).file # IdentityKey
        BY <1>1, <2>2, Moves DEF StepOK, Saves
      <4>3. Current(p).do = "rename" /\ files'[IdentityKey] = files[IdentityTmp]
        BY <1>1, <2>2, <3>1, <4>1, <4>2, Rewritten
      <4>4. At(p, {"rename"})
        BY <1>1, <2>2, <4>3, Moves DEF At, Busy
      <4> QED
        BY <1>1, <4>3, <4>4 DEF KeyInv
    <3> QED
      BY <2>2, <3>1
  <2>3. ASSUME Events, files[IdentityKey].state = "whole"
        PROVE  files'[IdentityKey].state = "whole"
    BY <1>1, <2>3, EventsMove
  <2> QED
    BY <1>1, <2>1, <2>2, <2>3, StepOrEvent
<1> QED
  BY <1>1, DirectoryInvariance, KeyInvariance, PTL DEF Spec, IdentityWhole

----------------------------------------------------------------------------
(* The registry.                                                           *)

\* In a new directory no copy of the registry has an entry.
LEMMA HeardInit == Init => HeardInv
<1> SUFFICES ASSUME Init PROVE HeardInv
  OBVIOUS
<1>1. files[Registry].content = {}
  <2>1. Registry \in Files /\ Registry # IdentityKey /\ Registry # Card
    BY FilesAre, Names
  <2>2. Empty(Registry) = {}
    BY Names DEF Empty
  <2> QED
    BY <2>1, <2>2 DEF Init, Missing
<1>2. daemon.registry = {} /\ clock = 0 /\ heard = [peer \in Peers \cup {Local} |-> 0]
  BY DEF Init, Down
<1>3. \A p \in Processes : run[p].of # Registry
  BY IdleIs, FilesAre DEF Init
<1> QED
  BY <1>1, <1>2, <1>3 DEF HeardInv, Recent

\* Later news only make the registry older than what was heard.
LEMMA RecentStays ==
  ASSUME NEW h \in [Peers \cup {Local} -> Nat], NEW h2 \in [Peers \cup {Local} -> Nat],
         \A peer \in Peers \cup {Local} : h[peer] <= h2[peer],
         NEW reg \in SUBSET Entries(Peers \cup {Local}), Recent(reg, h)
  PROVE  Recent(reg, h2)
<1>1. MaxSkew \in Nat
  BY DirectoryAssumption
<1>2. ASSUME NEW e \in reg PROVE e.seen <= h2[e.peer] + MaxSkew
  <2>1. e.seen \in Int /\ e.peer \in Peers \cup {Local}
    BY DEF Entries
  <2>2. h[e.peer] \in Nat /\ h2[e.peer] \in Nat /\ h[e.peer] <= h2[e.peer]
    BY <2>1
  <2>3. e.seen <= h[e.peer] + MaxSkew
    BY DEF Recent
  <2> QED
    BY <1>1, <2>1, <2>2, <2>3
<1> QED
  BY <1>2 DEF Recent

\* No copy of an entry is ahead of what was heard of its peer by more than the skew.
LEMMA HeardNext == TypeInv /\ TypeInv' /\ HeardInv /\ [Next]_vars => HeardInv'
<1> SUFFICES ASSUME TypeInv, TypeInv', HeardInv, [Next]_vars PROVE HeardInv'
  OBVIOUS
<1> DEFINE All == Peers \cup {Local}
           old == files[Registry].content
<1>1. /\ clock \in Nat /\ clock' \in Nat /\ MaxSkew \in Nat
      /\ heard \in [All -> Nat] /\ \A peer \in All : heard[peer] <= clock
      /\ Recent(old, heard) /\ Recent(daemon.registry, heard)
      /\ \A p \in Processes : run[p].of = Registry => Recent(run[p].held, heard)
  BY DirectoryAssumption DEF TypeInv, CountersInv, HeardInv
<1>2. /\ old \in SUBSET Entries(All) /\ daemon.registry \in SUBSET Entries(All)
      /\ \A p \in Processes : run[p].of = Registry => run[p].held \in SUBSET Entries(All)
  <2>1. \A x : ContentOK(Registry, x) <=> x \in SUBSET Entries(All)
    BY ContentIs
  <2>2. Registry \in Files /\ Registry # << >>
    BY FilesAre
  <2>3. Entries(Peers) \subseteq Entries(All)
    BY DEF Entries
  <2>4. old \in SUBSET Entries(All)
    BY <2>1, <2>2 DEF TypeInv, FilesInv
  <2>5. daemon.registry \in SUBSET Entries(All)
    BY <2>3 DEF TypeInv, DaemonInv
  <2>6. ASSUME NEW p \in Processes, run[p].of = Registry
        PROVE  run[p].held \in SUBSET Entries(All)
    <3>1. RunOK(run[p])
      BY DEF TypeInv, RunsInv
    <3>2. ContentOK(Registry, run[p].held)
      BY <2>2, <2>6, <3>1 DEF RunOK
    <3> QED
      BY <2>1, <3>2
  <2> HIDE DEF old, All
  <2> QED
    BY <2>4, <2>5, <2>6
<1>3. ASSUME NEW h \in [All -> Nat], \A peer \in All : heard[peer] <= h[peer]
      PROVE  /\ Recent(old, h) /\ Recent(daemon.registry, h)
             /\ \A p \in Processes : run[p].of = Registry => Recent(run[p].held, h)
  BY <1>1, <1>2, <1>3, RecentStays
<1>4. \A h : Recent({}, h)
  BY DEF Recent
<1>5. ASSUME heard' \in [All -> Nat],
             \A peer \in All : heard[peer] <= heard'[peer] /\ heard'[peer] <= clock',
             files'[Registry].content \in {old, {}} \/ Recent(files'[Registry].content, heard'),
             daemon'.registry \in {daemon.registry, {}} \/ Recent(daemon'.registry, heard'),
             \A p \in Processes :
               run'[p].of = Registry => \/ run[p].of = Registry /\ run'[p].held = run[p].held
                                        \/ run'[p].held = old
      PROVE  HeardInv'
  BY <1>3, <1>4, <1>5 DEF HeardInv
<1>6. ASSUME NEW p \in Processes, Step(p) PROVE HeardInv'
  <2> DEFINE s == Current(p)
             f == Current(p).file
             c == run[p].cmd
             published == Write(p) /\ c.op = "service_publish"
  <2>0. clock' = clock
    BY <1>6 DEF Step, Read, Glance, Truncate, Write, EraseFile, Create, Fill, Rename, Unchanged
  <2>1. heard' = IF published THEN [heard EXCEPT ![Local] = clock] ELSE heard
    BY <1>6 DEF Step, Read, Glance, Truncate, Write, EraseFile, Create, Fill, Rename, Unchanged
  <2>2. /\ heard' \in [All -> Nat] /\ (published => heard'[Local] = clock)
        /\ \A peer \in All : heard[peer] <= heard'[peer] /\ heard'[peer] <= clock'
    BY <1>1, <2>0, <2>1
  <2>3. daemon'.registry \in {daemon.registry, {}}
    BY <1>6 DEF Step, Read, Glance, Truncate, Write, EraseFile, Create, Fill, Rename, Unchanged, Down
  <2>4. ASSUME NEW q \in Processes, run'[q].of = Registry
        PROVE  \/ run[q].of = Registry /\ run'[q].held = run[q].held
               \/ run'[q].held = old
    <3>1. CASE q # p
      BY <1>6, <2>4, <3>1, Moves
    <3>2. CASE q = p
      <4>1. run'[p] # Idle
        BY <2>4, <3>2, IdleIs, FilesAre
      <4> QED
        BY <1>6, <2>4, <3>2, <4>1, Moves DEF HasRead, HasOpened, WentOn
    <3> QED
      BY <3>1, <3>2
  <2>5. files'[Registry].content \in {old, {}} \/ Recent(files'[Registry].content, heard')
    <3>1. /\ Registry \in Files /\ Registry # IdentityTmp /\ Registry # IdentityKey
          /\ Empty(Registry) = {}
      BY FilesAre, Names DEF Empty
    <3>2. CASE files'[Registry] \in {files[Registry], Torn(Registry), Missing(Registry)}
      BY <3>1, <3>2 DEF Torn, Missing
    <3>3. CASE /\ Registry = f /\ Write(p) /\ s.do = "save"
               /\ files'[Registry] = Whole(Content(p, Registry))
      <4>1. files'[Registry].content = Content(p, Registry)
        BY <3>3 DEF Whole
      <4>2. /\ Saves(c, f) /\ c \in Orders /\ (LoadsFirst(c, f) => run[p].of = f)
        BY <1>6, <3>3, Moves, ContentsAre DEF Doing
      <4>3. c.op \in {"announce", "service_publish"}
        BY <3>3, <4>2 DEF Saves
      <4>4. CASE c.op = "announce"
        <5>1. Content(p, Registry) = daemon.registry
          BY <4>4 DEF Content
        <5> QED
          BY <1>3, <2>2, <4>1, <5>1
      <4>5. CASE c.op = "service_publish"
        <5> DEFINE held == run[p].held
        <5>1. run[p].of = Registry
          BY <3>3, <4>2, <4>5, Names DEF LoadsFirst
        <5>2. held \in SUBSET Entries(All) /\ Recent(held, heard')
          BY <1>2, <1>3, <2>2, <5>1
        <5>3. Content(p, Registry) = Ingest(held, Local, {c.svc}, clock)
          BY <4>5, Names DEF Content, Edit
        <5>4. c.svc \in Services /\ Local \in All /\ {c.svc} \in SUBSET Services /\ clock \in Int
          BY <1>1, <4>2, <4>5, OrderIs
        <5> DEFINE e0 == [peer |-> Local, services |-> {c.svc}, seen |-> clock]
                   new == Ingest(held, Local, {c.svc}, clock)
        <5>5. e0.peer = Local /\ e0.seen = clock
          OBVIOUS
        <5>6. \A e \in new : e \in held \/ e = e0
          BY DEF Ingest
        <5> HIDE DEF held, e0, new
        <5>7. e0.seen <= heard'[e0.peer] + MaxSkew
          <6>1. heard'[Local] = clock
            BY <2>2, <3>3, <4>5
          <6> QED
            BY <1>1, <5>5, <6>1
        <5>8. Recent(new, heard')
          BY <5>2, <5>6, <5>7 DEF Recent
        <5> QED
          BY <4>1, <5>3, <5>8 DEF new, held
      <4> QED
        BY <4>3, <4>4, <4>5
    <3> QED
      BY <1>6, <3>1, <3>2, <3>3, Rewritten
  <2> QED
    BY <1>5, <2>2, <2>3, <2>4, <2>5
<1>7. ASSUME Events PROVE HeardInv'
  <2>1. /\ files' = files
        /\ \A q \in Processes : run'[q].of = Registry =>
             run[q].of = Registry /\ run'[q].held = run[q].held
    BY <1>7, EventsMove, FilesAre
  <2>2. CASE ~Announcement
    <3>1. /\ heard' = heard /\ clock' \in {clock, clock + 1}
          /\ daemon'.registry \in {daemon.registry, {}} \/ daemon'.registry \subseteq daemon.registry
      <4>1. CASE PruneTick
        <5>1. daemon' = [daemon EXCEPT !.registry = {e \in @ : clock - e.seen <= Freshness}]
          BY <4>1 DEF PruneTick
        <5>2. DOMAIN daemon = {"up", "subs", "registry"}
          BY DEF TypeInv, DaemonInv
        <5>3. daemon'.registry = {e \in daemon.registry : clock - e.seen <= Freshness}
          BY <5>1, <5>2
        <5> QED
          BY <4>1, <5>3 DEF PruneTick
      <4>2. CASE ~PruneTick
        BY <1>7, <2>2, <4>2 DEF Events, Kill, Command, StartDaemon, Publication, Tick, Down
      <4> QED
        BY <4>1, <4>2
    <3>2. \A r : r \subseteq daemon.registry => Recent(r, heard')
      BY <1>1, <3>1 DEF Recent
    <3>3. \A peer \in All : heard[peer] <= heard'[peer] /\ heard'[peer] <= clock'
      BY <1>1, <3>1
    <3> QED
      BY <1>1, <1>5, <2>1, <3>1, <3>2, <3>3
  <2>3. CASE Announcement
    <3>1. PICK peer \in Peers, services \in Announcements, skew \in (0 - MaxSkew)..MaxSkew :
            /\ daemon' = [daemon EXCEPT !.registry = Ingest(@, peer, services, clock + skew)]
            /\ heard' = [heard EXCEPT ![peer] = clock]
      BY <2>3 DEF Announcement
    <3>2. clock' = clock
      BY <2>3 DEF Announcement
    <3> DEFINE new == Ingest(daemon.registry, peer, services, clock + skew)
               e0 == [peer |-> peer, services |-> services, seen |-> clock + skew]
    <3>3. daemon'.registry = new
      BY <3>1 DEF TypeInv, DaemonInv
    <3>4. \A e \in new : e \in daemon.registry \/ e = e0
      BY DEF Ingest
    <3>5. e0.peer = peer /\ e0.seen = clock + skew
      OBVIOUS
    <3> HIDE DEF new, e0
    <3>6. /\ heard' \in [All -> Nat] /\ heard'[peer] = clock
          /\ \A q \in All : heard[q] <= heard'[q] /\ heard'[q] <= clock'
      BY <1>1, <3>1, <3>2
    <3>7. e0.seen <= heard'[e0.peer] + MaxSkew
      <4>1. skew \in Int /\ skew <= MaxSkew
        BY <1>1
      <4> QED
        BY <1>1, <3>5, <3>6, <4>1
    <3>8. Recent(daemon.registry, heard')
      BY <1>3, <3>6
    <3>9. Recent(new, heard')
      BY <3>4, <3>7, <3>8 DEF Recent
    <3> QED
      BY <1>5, <2>1, <3>3, <3>6, <3>9
  <2> QED
    BY <2>2, <2>3
<1>8. CASE UNCHANGED vars
  BY <1>8 DEF vars, HeardInv
<1> QED
  BY <1>6, <1>7, <1>8, StepOrEvent

\* service_discovery.rs: wherever a copy of an entry is, it is not ahead of the last time
\* its peer was heard by more than the error of that peer's clock.
THEOREM HeardInvariance == Spec => []HeardInv
<1> QED
  BY DirectoryInvariance, HeardInit, HeardNext, PTL DEF Spec

\* DataDirectory!OnlineIsRecent: a peer shown as online was heard within the freshness and
\* the error of its clock, whoever wrote the registry last and from whatever copy.
THEOREM OnlineWasHeard == Spec => []OnlineIsRecent
<1>1. ASSUME TypeInv, HeardInv PROVE OnlineIsRecent
  <2>1. SUFFICES ASSUME NEW e \in files[Registry].content, Online(e)
                 PROVE  clock - heard[e.peer] < Freshness + MaxSkew
    BY DEF OnlineIsRecent
  <2>2. files[Registry].content \subseteq Entries(Peers \cup {Local})
    <3>1. ContentOK(Registry, files[Registry].content)
      BY <1>1, FilesAre DEF TypeInv, FilesInv
    <3> QED
      BY <3>1, ContentIs
  <2>3. e.seen \in Int /\ e.peer \in Peers \cup {Local}
    BY <2>2 DEF Entries
  <2>4. /\ clock \in Nat /\ Freshness \in Nat /\ MaxSkew \in Nat /\ heard[e.peer] \in Nat
        /\ e.seen <= heard[e.peer] + MaxSkew
    BY <1>1, <2>3, DirectoryAssumption DEF TypeInv, CountersInv, HeardInv, Recent
  <2> QED
    BY <2>1, <2>3, <2>4 DEF Online
<1> QED
  BY <1>1, DirectoryInvariance, HeardInvariance, PTL
----------------------------------------------------------------------------
(* Torn files.                                                             *)

\* A process has a copy of the file, or has it open.
Has(p, f) == Busy(p) /\ (run[p].of = f \/ (run[p].open /\ Current(p).file = f))

\* Only the process that loaded a file first, or has it open, touches one of these.
LEMMA UnrecoverableAre ==
  ASSUME NEW f \in Unrecoverable
  PROVE  /\ f \in Files /\ f \notin {IdentityKey, Card, Port, Registry, Contacts, Subscriptions}
         /\ f = IdentityTmp \/ f = Timeline \/ f = Notifications
              \/ f[1] \in {"publications", "ratings"}
<1>1. f \in Files
  BY FilesAre DEF Unrecoverable, Files, Kept
<1>2. ASSUME f \in PerService, f[1] # "permissions"
      PROVE  f[1] \in {"publications", "ratings"}
  BY <1>2 DEF PerService
<1>3. f = IdentityTmp \/ f = Timeline \/ f = Notifications \/ f[1] \in {"publications", "ratings"}
  BY <1>2 DEF Unrecoverable
<1> QED
  BY <1>1, <1>3, Names

\* A torn file that no process has stays torn, and no process gets it.
LEMMA TornStays ==
  ASSUME TypeInv, TypeInv', NEW p \in Processes, Step(p), NEW f \in Unrecoverable,
         files[f].state = "torn", \A q \in Processes : ~Has(q, f)
  PROVE  files'[f].state = "torn" /\ \A q \in Processes : ~Has(q, f)'
<1> DEFINE r == run[p]
           s == Current(p)
           c == run[p].cmd
<1>1. /\ Busy(p) /\ s.file \in Files /\ s = r.todo[1] /\ r.todo # << >>
      /\ StepOK(c, r.of, r.todo, 1) /\ RunOK(r) /\ RunOK(run'[p])
      /\ r.of # f /\ ~(r.open /\ s.file = f)
  BY Moves DEF Has, Busy, TypeInv, RunsInv
<1>2. s.do = "save" => s.file # f
  <2>1. SUFFICES ASSUME s.do = "save", s.file = f PROVE FALSE
    OBVIOUS
  <2>2. Saves(c, f) /\ (LoadsFirst(c, f) => r.of = f)
    BY <1>1, <2>1, ContentsAre DEF Doing
  <2>3. c.op \notin {"announce", "permit"}
    BY <2>2, UnrecoverableAre, Names DEF Saves
  <2> QED
    BY <1>1, <2>2, <2>3, UnrecoverableAre DEF LoadsFirst
<1>3. s.do \in {"fill", "rename"} => f # IdentityTmp
  BY <1>1 DEF RunOK, StepOK, Making
<1>4. files'[f] = files[f]
  BY <1>1, <1>2, <1>3, Rewritten, UnrecoverableAre
<1>5. ASSUME s.do = "create", f = IdentityTmp PROVE run'[p] = Idle
  <2>1. Create(p)
    BY <1>5 DEF Step, Read, Glance, Truncate, Write, EraseFile, Fill, Rename, Doing
  <2>2. Stop(p)
    BY <1>5, <2>1 DEF Create
  <2>3. Settled(Idle) = Idle
    BY IdleIs DEF Settled
  <2> QED
    BY <2>2, <2>3 DEF Stop, Becomes, TypeInv, RunsInv
<1>6. ~Has(p, f)'
  <2>1. CASE run'[p] = Idle
    BY <2>1, IdleIs DEF Has, Busy
  <2>2. CASE s.do \in {"load", "need"} /\ HasRead(p)
    BY <1>1, <2>2, UnrecoverableAre DEF HasRead, Has, Forgives
  <2>3. CASE s.do = "save" /\ HasOpened(p)
    BY <1>1, <1>2, <2>3 DEF HasOpened, Has, Current
  <2>4. CASE s.do \notin {"create", "fill"} /\ WentOn(p)
    <3>1. (s.do \in {"create", "fill"}) = FALSE
      BY <2>4
    <3>2. run'[p].open = FALSE
      BY <2>4, <3>1, Zenon DEF WentOn
    <3> QED
      BY <1>1, <2>4, <3>2 DEF WentOn, Has
  <2>5. CASE s.do \in {"create", "fill"} /\ WentOn(p) /\ run'[p] # Idle
    <3>1. f # IdentityTmp
      BY <1>3, <1>5, <2>5
    <3>2. ASSUME Busy(p)' PROVE Current(p)'.file = IdentityTmp
      <4>1. run'[p].todo = Tail(r.todo) /\ run'[p].todo # << >>
        BY <2>5, <3>2 DEF WentOn, Busy
      <4>2. TodoOK(c, r.of, r.todo) /\ 1 + 1 = 2
        BY <1>1 DEF RunOK
      <4>3. Tail(r.todo)[1] = r.todo[2] /\ r.todo[2].do \in Making /\ 2 \in DOMAIN r.todo
        <5>1. Tail(r.todo)[1] = r.todo[2]
          BY <1>1, <4>1, <4>2, NextIs
        <5> QED
          BY <1>1, <2>5, <4>2, <5>1 DEF StepOK, Making
      <4>4. StepOK(c, r.of, r.todo, 2)
        BY <4>2, <4>3 DEF TodoOK
      <4>5. Current(p)' = run'[p].todo[1]
        BY <1>1, <4>1 DEF Current, RunOK, TodoOK
      <4> QED
        BY <4>1, <4>3, <4>4, <4>5 DEF StepOK, Making
    <3> QED
      BY <1>1, <2>5, <3>1, <3>2 DEF WentOn, Has
  <2> QED
    BY <2>1, <2>2, <2>3, <2>4, <2>5, Moves
<1>7. ASSUME NEW q \in Processes, q # p PROVE ~Has(q, f)'
  BY <1>7, Moves DEF Has, Busy, Current
<1> QED
  BY <1>4, <1>6, <1>7

\* DataDirectory!TornForever: a file that every program parses before it rewrites it, left
\* half written with no program at it, stays so, and no later program gets past it.
THEOREM TornStaysTorn == Spec => TornForever
<1>1. ASSUME TypeInv, TypeInv', [Next]_vars
      PROVE  [\A f \in Unrecoverable :
                files[f].state = "torn" /\ ~InHand(f) =>
                    files'[f].state = "torn" /\ ~InHand(f)']_vars
  <2>1. SUFFICES ASSUME Next, NEW f \in Unrecoverable, files[f].state = "torn", ~InHand(f)
                 PROVE  files'[f].state = "torn" /\ ~InHand(f)'
    BY <1>1
  <2>2. \A q \in Processes : ~Has(q, f)
    BY <2>1 DEF InHand, Has
  <2>3. SUFFICES files'[f].state = "torn" /\ \A q \in Processes : ~Has(q, f)'
    BY DEF InHand, Has
  <2>4. CASE \E p \in Processes : Step(p)
    BY <1>1, <2>1, <2>2, <2>4, TornStays
  <2>5. CASE Events
    <3>1. /\ files' = files
          /\ \A q \in Processes :
               \/ run'[q] = run[q]
               \/ run'[q].open = FALSE /\ run'[q].of = << >>
      BY <1>1, <2>5, EventsMove
    <3>2. f # << >>
      BY FilesAre, UnrecoverableAre
    <3> QED
      BY <2>1, <2>2, <3>1, <3>2 DEF Has, Busy, Current
  <2> QED
    BY <2>1, <2>4, <2>5, StepOrEvent
<1> QED
  BY <1>1, DirectoryInvariance, PTL DEF Spec, TornForever
----------------------------------------------------------------------------
(* What the user may rely on.                                              *)

\* The files the user relies on are none of the identity or the registry.
LEMMA KeptAre ==
  /\ \A f \in Kept : /\ f \in Files
                     /\ f \notin {IdentityKey, IdentityTmp, Card, Registry, Port, << >>}
  /\ Subscriptions \in Kept
<1>1. \A f \in Kept : f \in {Contacts, Timeline, Subscriptions, Notifications} \/ f \in PerService
  BY DEF Kept
<1>2. \A f \in PerService : f[1] \in {"publications", "ratings", "permissions"}
  BY DEF PerService
<1> QED
  BY <1>1, <1>2, Names, FilesAre DEF Kept

\* A rewrite that is due after the first step is due before it, or loads anew.
LEMMA DueEarlier ==
  ASSUME NEW c, NEW of, NEW t, TodoOK(c, of, t), t # << >>,
         NEW i \in DOMAIN Tail(t), Tail(t)[i].do = "save", Quiet(Tail(t), 1, i),
         LoadsFirst(c, Tail(t)[i].file)
  PROVE  /\ t[1].do # "save"
         /\ i + 1 \in DOMAIN t /\ t[i + 1] = Tail(t)[i]
         /\ t[1].do # "load" => Quiet(t, 1, i + 1)
<1> DEFINE n == Len(t)
           rest == Tail(t)
<1>1. t \in Seq(StepRecords) /\ \A k \in DOMAIN t : StepOK(c, of, t, k)
  BY DEF TodoOK
<1>2. /\ n \in Nat /\ n > 0 /\ DOMAIN t = 1..n /\ DOMAIN rest = 1..n - 1
      /\ \A k \in 1..n - 1 : rest[k] = t[k + 1]
  BY <1>1
<1> HIDE DEF n, rest
<1>3. i \in 1..n - 1 /\ rest[i] = t[i + 1] /\ rest[i].do = "save" /\ Quiet(rest, 1, i)
      /\ LoadsFirst(c, rest[i].file)
  BY <1>2 DEF rest
<1>4. \A k \in 2..i : t[k].do \notin {"load", "save"}
  <2>1. ASSUME NEW k \in 2..i PROVE t[k].do \notin {"load", "save"}
    <3>1. k - 1 \in 1..i - 1 /\ k - 1 \in 1..n - 1 /\ (k - 1) + 1 = k
      BY <1>2, <1>3
    <3> QED
      BY <1>2, <1>3, <3>1 DEF Quiet
  <2> QED
    BY <2>1
<1>5. i + 1 \in 1..n /\ Covered(of, t, i + 1)
  BY <1>1, <1>2, <1>3 DEF StepOK
<1>6. t[1].do # "save"
  <2>1. CASE Quiet(t, 1, i + 1)
    BY <1>2, <1>3, <2>1 DEF Quiet
  <2>2. CASE \E j \in 1..(i + 1) - 1 : t[j].do = "load"
    BY <1>2, <1>3, <1>4, <2>2
  <2> QED
    BY <1>5, <2>1, <2>2 DEF Covered
<1>7. t[1].do # "load" => Quiet(t, 1, i + 1)
  BY <1>2, <1>3, <1>4, <1>6 DEF Quiet
<1> QED
  BY <1>2, <1>3, <1>5, <1>6, <1>7 DEF rest

\* A process that is past a step which loads nothing is due for what it was due for
\* before, and nothing that loads first is due after a rewrite.
LEMMA DueStays ==
  ASSUME NEW p, RunOK(run[p]), Busy(p), NEW f, Due(p, f)',
         run'[p].todo = Tail(run[p].todo), run'[p].cmd = run[p].cmd
  PROVE  Current(p).do # "save" /\ (Current(p).do # "load" => Due(p, f))
<1> DEFINE t == run[p].todo
<1>1. t # << >> /\ TodoOK(run[p].cmd, run[p].of, t) /\ Current(p) = t[1]
  BY CurrentIs DEF RunOK
<1>2. PICK i \in DOMAIN Tail(t) : /\ Tail(t)[i].do = "save" /\ Tail(t)[i].file = f
                                  /\ Quiet(Tail(t), 1, i) /\ LoadsFirst(run[p].cmd, f)
  BY DEF Due
<1>3. /\ t[1].do # "save" /\ i + 1 \in DOMAIN t /\ t[i + 1] = Tail(t)[i]
      /\ t[1].do # "load" => Quiet(t, 1, i + 1)
  <2> HIDE DEF t
  <2> QED
    BY <1>1, <1>2, DueEarlier
<1> QED
  BY <1>1, <1>2, <1>3 DEF Due

\* A rewrite that disturbs nothing leaves in the file what is expected of it then.
LEMMA WriteIs ==
  ASSUME TypeInv, KeptInv, NEW p \in Processes, Write(p),
         NEW f, f = Current(p).file, f \in Kept, f \notin disturbed'
  PROVE  /\ files'[f] = Whole(Content(p, f))
         /\ Items(f, Content(p, f)) = expected'[f]
         /\ run[p].cmd.op = "announce" => f = Subscriptions /\ expected'[f] = expected[f]
<1> DEFINE c == run[p].cmd
           r == run[p]
<1>1. f \in Files /\ DOMAIN files = Files /\ DOMAIN expected = Kept /\ Doing(p, "save")
  BY KeptAre DEF TypeInv, FilesInv, CountersInv, Write
<1>2. disturbed' = IF FromOldCopy(p, f) \/ run[p].mixed THEN disturbed \cup {f} ELSE disturbed
  BY DEF Write
<1>3. ~FromOldCopy(p, f) /\ ~run[p].mixed /\ f \notin disturbed
  BY <1>2
<1>4. /\ files'[f] = Whole(Content(p, f))
      /\ expected'[f] = Asked(c, f, expected[f], r.id, r.author)
  BY <1>1, <1>3 DEF Write
<1>5. /\ Saves(c, f) /\ c \in Orders /\ (LoadsFirst(c, f) => r.of = f)
      /\ c.op # "announce" => Items(f, Content(p, f)) = Asked(c, f, Items(f, r.held), r.id, r.author)
      /\ c.op = "announce" => p = Daemon /\ daemon.up /\ f \in {Registry, Subscriptions}
  BY <1>1, ContentsAre
<1>6. CASE c.op = "announce"
  <2>1. f = Subscriptions /\ daemon.up /\ ~behind
    BY <1>3, <1>5, <1>6, KeptAre DEF FromOldCopy
  <2>2. Content(p, f) = daemon.subs
    BY <1>6, <2>1, KeptAre DEF Content
  <2>3. Items(f, daemon.subs) = Range(daemon.subs)
    BY <2>1, ItemsAre
  <2>4. Range(daemon.subs) = expected[f]
    BY <1>3, <2>1 DEF KeptInv, DaemonIsUpToDate
  <2>5. Asked(c, f, expected[f], r.id, r.author) = expected[f]
    BY <1>6 DEF Asked
  <2> QED
    BY <1>4, <2>1, <2>2, <2>3, <2>4, <2>5
<1>7. CASE c.op = "permit"
  <2>1. Asked(c, f, expected[f], r.id, r.author) = Asked(c, f, Items(f, r.held), r.id, r.author)
    BY <1>7 DEF Asked
  <2> QED
    BY <1>4, <1>5, <1>7, <2>1
<1>8. CASE c.op \notin {"announce", "permit"}
  <2>1. LoadsFirst(c, f)
    BY <1>8, KeptAre DEF LoadsFirst
  <2>2. Due(p, f)
    <3>1. /\ r.todo # << >> /\ r.todo \in Seq(StepRecords) /\ Current(p) = r.todo[1]
          /\ Current(p).do = "save"
      BY <1>1, CurrentIs DEF Doing, TypeInv, RunsInv, RunOK, TodoOK
    <3>2. 1 \in DOMAIN r.todo /\ Quiet(r.todo, 1, 1)
      BY <3>1 DEF Quiet
    <3> QED
      BY <2>1, <3>1, <3>2 DEF Due
  <2>3. r.of = f /\ ~r.stale
    BY <1>3, <1>5, <1>8, <2>1 DEF FromOldCopy
  <2>4. Items(f, r.held) = expected[f]
    BY <1>3, <2>2, <2>3 DEF KeptInv, CopyIsExpected
  <2> QED
    BY <1>4, <1>5, <1>8, <2>4
<1> QED
  BY <1>6, <1>7, <1>8
\* A step of a program other than a rewrite leaves what is expected as it was.
LEMMA StepsExpect ==
  ASSUME TypeInv, NEW p \in Processes, Step(p)
  PROVE  /\ disturbed \subseteq disturbed'
         /\ \A f \in Kept : ~(Write(p) /\ f = Current(p).file) => expected'[f] = expected[f]
         /\ \/ daemon' = daemon /\ (behind' = (behind \/ (Write(p) /\ Current(p).file = Subscriptions
                                                             /\ p # Daemon)))
            \/ /\ Doing(p, "load") \/ Doing(p, "need")
               /\ Read(p) /\ Current(p).file = Subscriptions
               /\ daemon' = [Down EXCEPT !.up = TRUE, !.subs = files[Subscriptions].content]
               /\ behind' = (files[Subscriptions].state = "torn")
<1>1. DOMAIN expected = Kept /\ behind \in BOOLEAN
  BY DEF TypeInv, CountersInv
<1>2. CASE Write(p)
  BY <1>1, <1>2 DEF Write
<1>3. CASE ~Write(p)
  <2>1. disturbed' = disturbed /\ expected' = expected
    BY <1>3 DEF Step, Read, Glance, Truncate, EraseFile, Create, Fill, Rename, Unchanged
  <2>2. CASE Read(p)
    BY <1>1, <1>3, <2>1, <2>2 DEF Read, Unchanged
  <2>3. CASE ~Read(p)
    <3>1. daemon' = daemon /\ behind' = behind
      BY <1>3, <2>3 DEF Step, Glance, Truncate, EraseFile, Create, Fill, Rename, Unchanged
    <3> QED
      BY <1>1, <1>3, <2>1, <3>1
  <2> QED
    BY <2>2, <2>3
<1> QED
  BY <1>2, <1>3

\* A step of a program that disturbs nothing leaves what is expected in the files, and
\* in every copy that is not superseded.
LEMMA KeptStep ==
  ASSUME TypeInv, TypeInv', KeptInv, NEW p \in Processes, Step(p)
  PROVE  KeptInv'
<1> DEFINE s == Current(p)
           c == run[p].cmd
<1>1. /\ Busy(p) /\ s.file \in Files /\ RunOK(run[p]) /\ s = run[p].todo[1]
      /\ StepOK(c, run[p].of, run[p].todo, 1) /\ run[p].todo # << >>
      /\ \A q \in Processes \ {p} :
           /\ run'[q].todo = run[q].todo /\ run'[q].cmd = run[q].cmd
           /\ run'[q].of = run[q].of /\ run'[q].held = run[q].held
           /\ run'[q].open = run[q].open
           /\ run'[q].stale = (run[q].stale \/ (Write(p) /\ run[q].of = s.file))
  BY Moves DEF TypeInv, RunsInv, Busy
<1>2. \/ run'[p] = Idle
      \/ Read(p) /\ s.do \in {"load", "need"} /\ HasRead(p)
      \/ Truncate(p) /\ s.do = "save" /\ ~run[p].open /\ HasOpened(p)
      \/ ~Read(p) /\ ~Truncate(p) /\ s.do \notin {"load", "need"} /\ WentOn(p)
  BY Moves
<1>3. Write(p) <=> s.do = "save" /\ run[p].open
  BY DEF Step, Read, Glance, Truncate, Write, EraseFile, Create, Fill, Rename, Doing
<1>4. s.do = "save" /\ ~run[p].open => Truncate(p)
  BY DEF Step, Read, Glance, Truncate, Write, EraseFile, Create, Fill, Rename, Doing
<1>5. Truncate(p) => HasOpened(p) /\ ~Write(p)
  <2>1. ASSUME Truncate(p) PROVE run'[p] # Idle
    <3>1. run'[p].open
      BY <2>1 DEF Truncate, TypeInv, RunsInv, RunOK, RunFields
    <3> QED
      BY <3>1, IdleIs
  <2> QED
    BY <1>2, <1>3, <2>1 DEF Truncate, Read, Doing
<1>6. ASSUME NEW f \in Kept, f \notin disturbed' PROVE FileIsExpected(f)'
  <2>1. /\ f \in Files /\ f \notin {IdentityKey, IdentityTmp, Card, Registry, Port}
        /\ FileIsExpected(f)
    BY <1>6, KeptAre, StepsExpect DEF KeptInv
  <2>2. CASE Write(p) /\ f = s.file
    <3>1. files'[f] = Whole(Content(p, f)) /\ Items(f, Content(p, f)) = expected'[f]
      BY <1>6, <2>2, WriteIs
    <3> QED
      BY <3>1 DEF FileIsExpected, Whole
  <2>3. CASE ~(Write(p) /\ f = s.file)
    <3>1. expected'[f] = expected[f]
      BY <2>3, StepsExpect
    <3>2. CASE files'[f] # files[f]
      <4>1. f = s.file /\ Truncate(p) /\ files'[f] = Torn(f)
        BY <2>1, <2>3, <3>2, Rewritten
      <4>2. Writing(f)'
        BY <1>5, <4>1 DEF HasOpened, Writing, Current
      <4> QED
        BY <4>1, <4>2 DEF FileIsExpected, Torn
    <3>3. CASE files'[f] = files[f]
      <4>1. ASSUME files[f].state = "torn" PROVE Writing(f)'
        <5>1. PICK q \in Processes : run[q].open /\ Current(q).file = f
          BY <2>1, <4>1 DEF FileIsExpected, Writing
        <5>2. q # p
          <6>1. ASSUME q = p PROVE FALSE
            <7>1. s.do = "save"
              BY <1>1, <2>1, <5>1, <6>1 DEF RunOK, StepOK
            <7> QED
              BY <1>3, <2>3, <5>1, <6>1, <7>1
          <6> QED
            BY <6>1
        <5> QED
          BY <1>1, <5>1, <5>2 DEF Writing, Current
      <4> QED
        BY <2>1, <3>1, <3>3, <4>1 DEF FileIsExpected
    <3> QED
      BY <3>2, <3>3
  <2> QED
    BY <2>2, <2>3
<1>7. ASSUME NEW f \in Kept, f \notin disturbed', NEW q \in Processes
      PROVE  CopyIsExpected(q, f)'
  <2>1. SUFFICES ASSUME run'[q].of = f, ~run'[q].stale, Due(q, f)'
                 PROVE  Items(f, run'[q].held) = expected'[f]
    BY DEF CopyIsExpected
  <2>2. /\ f # << >> /\ FileIsExpected(f) /\ CopyIsExpected(q, f)
    BY <1>7, KeptAre, StepsExpect DEF KeptInv
  <2>3. CASE q # p
    <3>1. /\ run[q].of = f /\ ~run[q].stale /\ ~(Write(p) /\ f = s.file)
          /\ run'[q].held = run[q].held
      BY <1>1, <2>1, <2>3
    <3>2. Due(q, f)
      BY <1>1, <2>1, <2>3 DEF Due
    <3> QED
      BY <2>2, <3>1, <3>2, StepsExpect DEF CopyIsExpected
  <2>4. CASE q = p
    <3>1. run'[p] # Idle
      BY <2>1, <2>2, <2>4, IdleIs
    <3>2. CASE s.do = "load" /\ HasRead(p)
      <4>1. /\ f = s.file /\ run'[p].held = files[f].content /\ files[f].state # "torn"
        BY <2>1, <2>4, <3>2 DEF HasRead
      <4>2. ~Write(p)
        BY <1>3, <3>2
      <4> QED
        BY <2>2, <2>4, <4>1, <4>2, StepsExpect DEF FileIsExpected
    <3>3. CASE s.do = "need" /\ HasRead(p)
      <4>1. /\ run[p].of = f /\ ~run[p].stale /\ run'[p].held = run[p].held
            /\ run'[p].todo = Tail(run[p].todo) /\ run'[p].cmd = run[p].cmd
        BY <2>1, <2>4, <3>3 DEF HasRead
      <4>2. Due(p, f) /\ ~Write(p)
        BY <1>1, <1>3, <2>1, <2>4, <3>3, <4>1, DueStays
      <4> QED
        BY <2>2, <2>4, <4>1, <4>2, StepsExpect DEF CopyIsExpected
    <3>4. CASE Truncate(p) /\ HasOpened(p)
      <4>1. /\ run[p].of = f /\ ~run[p].stale /\ run'[p].held = run[p].held
            /\ Due(p, f) /\ ~Write(p)
        BY <1>5, <2>1, <2>4, <3>4 DEF HasOpened, Due
      <4> QED
        BY <2>2, <2>4, <4>1, StepsExpect DEF CopyIsExpected
    <3>5. CASE s.do \notin {"load", "need"} /\ WentOn(p)
      <4>1. /\ run[p].of = f /\ ~run[p].stale /\ run'[p].held = run[p].held
            /\ run'[p].todo = Tail(run[p].todo) /\ run'[p].cmd = run[p].cmd
        BY <2>1, <2>4, <3>5 DEF WentOn
      <4>2. Due(p, f) /\ ~Write(p)
        BY <1>1, <1>3, <2>1, <2>4, <3>5, <4>1, DueStays
      <4> QED
        BY <2>2, <2>4, <4>1, <4>2, StepsExpect DEF CopyIsExpected
    <3> QED
      BY <1>2, <3>1, <3>2, <3>3, <3>4, <3>5
  <2> QED
    BY <2>3, <2>4
<1>8. DaemonIsUpToDate'
  <2>1. SUFFICES ASSUME daemon'.up, ~behind', Subscriptions \notin disturbed'
                 PROVE  Range(daemon'.subs) = expected'[Subscriptions]
    BY DEF DaemonIsUpToDate
  <2>2. /\ Subscriptions \in Kept /\ Subscriptions \notin disturbed
        /\ FileIsExpected(Subscriptions) /\ DaemonIsUpToDate
    BY <2>1, KeptAre, StepsExpect DEF KeptInv
  <2>3. CASE /\ Read(p) /\ ~Write(p)
             /\ daemon' = [Down EXCEPT !.up = TRUE, !.subs = files[Subscriptions].content]
             /\ behind' = (files[Subscriptions].state = "torn")
    <3>1. daemon'.subs = files[Subscriptions].content
      BY <2>3 DEF Down
    <3>2. files[Subscriptions].state # "torn"
      BY <2>1, <2>3
    <3>3. expected'[Subscriptions] = expected[Subscriptions]
      BY <2>2, <2>3, StepsExpect
    <3> QED
      BY <2>2, <3>1, <3>2, <3>3, ItemsAre DEF FileIsExpected
  <2>4. CASE /\ daemon' = daemon
             /\ behind' = (behind \/ (Write(p) /\ s.file = Subscriptions /\ p # Daemon))
    <3>1. daemon.up /\ ~behind /\ ~(Write(p) /\ s.file = Subscriptions /\ p # Daemon)
      BY <2>1, <2>4
    <3>2. CASE Write(p) /\ s.file = Subscriptions
      <4>1. p = Daemon /\ Saves(c, Subscriptions)
        BY <3>1, <3>2, ContentsAre DEF Write
      <4>2. c.op = "announce"
        BY <4>1 DEF Saves, KeptInv
      <4>3. expected'[Subscriptions] = expected[Subscriptions]
        BY <2>1, <2>2, <3>2, <4>2, WriteIs
      <4> QED
        BY <2>2, <2>4, <3>1, <4>3 DEF DaemonIsUpToDate
    <3>3. CASE ~(Write(p) /\ s.file = Subscriptions)
      BY <2>2, <2>4, <3>1, <3>3, StepsExpect DEF DaemonIsUpToDate
    <3> QED
      BY <3>2, <3>3
  <2>5. Read(p) => ~Write(p)
    BY DEF Read, Write, Doing
  <2> QED
    BY <2>3, <2>4, <2>5, StepsExpect
<1>9. run'[Daemon].cmd.op \in {"none", "daemon_start", "announce", "publication"}
  <2>1. Daemon \in Processes
    BY DEF Processes
  <2>2. run'[Daemon].cmd.op \in {run[Daemon].cmd.op, "none"}
    BY <1>1, <1>2, <2>1, IdleIs DEF HasRead, HasOpened, WentOn
  <2> QED
    BY <2>2 DEF KeptInv
<1> QED
  BY <1>6, <1>7, <1>8, <1>9 DEF KeptInv

\* No event changes what is expected, and a process that has a file open when it is
\* killed disturbs that file.
LEMMA EventsKeep ==
  ASSUME TypeInv, Events
  PROVE  /\ expected' = expected /\ disturbed \subseteq disturbed' /\ behind' = behind
         /\ \A q \in Processes :
              run[q].open => run'[q] = run[q] \/ Current(q).file \in disturbed'
         /\ daemon'.up = FALSE \/ (daemon'.up = daemon.up /\ daemon'.subs = daemon.subs)
         /\ run'[Daemon].cmd.op \in
              {run[Daemon].cmd.op, "none", "daemon_start", "announce", "publication"}
<1>1. /\ DOMAIN run = Processes /\ Daemon \in Processes /\ Daemon \notin Terminals
      /\ DOMAIN daemon = {"up", "subs", "registry"}
  BY DirectoryAssumption DEF TypeInv, RunsInv, DaemonInv, Processes
<1>2. \A q \in Processes : run[q].open => Busy(q)
  BY DEF TypeInv, RunsInv, RunOK, Busy
<1>3. \A c, steps : Begun(c, steps).cmd = c
  BY DEF Begun, Idle
<1>4. \A c, steps : Settled(Begun(c, steps)).cmd.op \in {c.op, "none"}
  BY <1>3, IdleIs DEF Settled
<1>5. Settled(Idle) = Idle /\ Down.up = FALSE
  BY IdleIs DEF Settled, Down
<1>6. CASE \E p \in Processes : Kill(p)
  <2>1. PICK p \in Processes : Kill(p)
    BY <1>6
  <2>2. /\ run' = [run EXCEPT ![p] = Idle]
        /\ expected' = expected /\ behind' = behind
        /\ daemon' = IF p = Daemon THEN Down ELSE daemon
        /\ disturbed' = IF Busy(p) /\ run[p].open THEN disturbed \cup {Current(p).file}
                        ELSE disturbed
    BY <1>5, <2>1 DEF Kill, Stop, Becomes
  <2>3. \A q \in Processes :
          run[q].open => run'[q] = run[q] \/ Current(q).file \in disturbed'
    BY <1>1, <1>2, <2>2
  <2>4. run'[Daemon].cmd.op \in {run[Daemon].cmd.op, "none"}
    BY <1>1, <2>2, IdleIs
  <2>5. daemon'.up = FALSE \/ (daemon'.up = daemon.up /\ daemon'.subs = daemon.subs)
    <3>1. CASE daemon' = Down
      BY <1>5, <3>1
    <3>2. CASE daemon' = daemon
      BY <3>2
    <3> QED
      BY <2>2, <3>1, <3>2
  <2>6. disturbed \subseteq disturbed'
    BY <2>2
  <2> QED
    BY <2>2, <2>3, <2>4, <2>5, <2>6
<1>7. CASE \E p \in Terminals : Command(p)
  <2>1. PICK p \in Terminals : Command(p)
    BY <1>7
  <2>2. PICK c, steps : ~Busy(p) /\ run' = [run EXCEPT ![p] = Begun(c, steps)]
    BY <2>1 DEF Command
  <2> QED
    BY <1>1, <1>2, <2>1, <2>2 DEF Command
<1>8. CASE StartDaemon
  BY <1>1, <1>2, <1>3, <1>8 DEF StartDaemon
<1>9. CASE Announcement
  <2>1. PICK steps, registry :
          /\ ~Busy(Daemon) /\ run' = [run EXCEPT ![Daemon] = Begun([op |-> "announce"], steps)]
          /\ daemon' = [daemon EXCEPT !.registry = registry]
          /\ UNCHANGED <<files, clock, expected, disturbed, behind, missed, session>>
    BY <1>9 DEF Announcement, Listening
  <2> QED
    BY <1>1, <1>2, <1>3, <2>1
<1>10. CASE Publication
  <2>1. PICK svc \in Services :
          LET id == used.commands + used.events + 1
              watched == IsListed(daemon.subs, svc, Everyone)
          IN Becomes(Daemon, Begun([op |-> "publication", svc |-> svc, id |-> id],
                                   IF watched THEN NotifySubscriber ELSE << >>))
    BY <1>10 DEF Publication
  <2> DEFINE c == [op |-> "publication", svc |-> svc, id |-> used.commands + used.events + 1]
             steps == IF IsListed(daemon.subs, svc, Everyone) THEN NotifySubscriber ELSE << >>
  <2>2. run' = [run EXCEPT ![Daemon] = Settled(Begun(c, steps))]
    BY <2>1 DEF Becomes
  <2>3. c.op = "publication"
    OBVIOUS
  <2> HIDE DEF c, steps
  <2>4. /\ ~Busy(Daemon)
        /\ UNCHANGED <<files, daemon, clock, expected, disturbed, behind, heard, session>>
    BY <1>10 DEF Publication, Listening
  <2>5. \A q \in Processes : run[q].open => run'[q] = run[q]
    BY <1>1, <1>2, <2>2, <2>4
  <2>6. run'[Daemon].cmd.op \in {"publication", "none"}
    BY <1>1, <1>4, <2>2, <2>3
  <2> QED
    BY <2>4, <2>5, <2>6
<1>11. CASE PruneTick
  BY <1>1, <1>11 DEF PruneTick
<1>12. CASE Tick
  BY <1>12 DEF Tick
<1> QED
  BY <1>6, <1>7, <1>8, <1>9, <1>10, <1>11, <1>12 DEF Events

\* A new directory holds what is expected of it: nothing.
LEMMA KeptInit == Init => KeptInv
<1> SUFFICES ASSUME Init PROVE KeptInv
  OBVIOUS
<1>1. \A p \in Processes : run[p].of = << >> /\ run[p].cmd.op = "none"
  BY IdleIs DEF Init
<1>2. ~daemon.up /\ Daemon \in Processes
  BY DEF Init, Down, Processes
<1>3. ASSUME NEW f \in Kept PROVE FileIsExpected(f) /\ f # << >>
  <2>1. files[f] = Missing(f) /\ expected[f] = Items(f, Empty(f)) /\ f # << >>
    BY KeptAre DEF Init
  <2> QED
    BY <2>1 DEF FileIsExpected, Missing
<1> QED
  BY <1>1, <1>2, <1>3 DEF KeptInv, CopyIsExpected, DaemonIsUpToDate

\* Whatever happens, what is expected of an undisturbed file is in it, in each copy of it
\* that is not superseded, and in the memory of the daemon that is not behind.
LEMMA KeptNext == TypeInv /\ TypeInv' /\ KeptInv /\ [Next]_vars => KeptInv'
<1> SUFFICES ASSUME TypeInv, TypeInv', KeptInv, [Next]_vars PROVE KeptInv'
  OBVIOUS
<1>1. CASE \E p \in Processes : Step(p)
  BY <1>1, KeptStep
<1>2. CASE Events
  <2>1. /\ files' = files
        /\ \A q \in Processes : \/ run'[q] = run[q]
                                \/ run'[q].open = FALSE /\ run'[q].of = << >>
    BY <1>2, EventsMove
  <2>2. /\ expected' = expected /\ disturbed \subseteq disturbed' /\ behind' = behind
        /\ \A q \in Processes :
             run[q].open => run'[q] = run[q] \/ Current(q).file \in disturbed'
        /\ daemon'.up = FALSE \/ (daemon'.up = daemon.up /\ daemon'.subs = daemon.subs)
        /\ run'[Daemon].cmd.op \in
             {run[Daemon].cmd.op, "none", "daemon_start", "announce", "publication"}
    BY <1>2, EventsKeep
  <2>3. ASSUME NEW f \in Kept, f \notin disturbed'
        PROVE  FileIsExpected(f)' /\ \A q \in Processes : CopyIsExpected(q, f)'
    <3>1. FileIsExpected(f) /\ f # << >> /\ \A q \in Processes : CopyIsExpected(q, f)
      BY <2>2, <2>3, KeptAre DEF KeptInv
    <3>2. Writing(f) => Writing(f)'
      BY <2>2, <2>3 DEF Writing, Current
    <3>3. FileIsExpected(f)'
      BY <2>1, <2>2, <3>1, <3>2 DEF FileIsExpected
    <3>4. ASSUME NEW q \in Processes PROVE CopyIsExpected(q, f)'
      BY <2>1, <2>2, <3>1 DEF CopyIsExpected, Due
    <3> QED
      BY <3>3, <3>4
  <2>4. DaemonIsUpToDate'
    BY <2>2 DEF KeptInv, DaemonIsUpToDate
  <2> QED
    BY <2>2, <2>3, <2>4 DEF KeptInv
<1>3. CASE UNCHANGED vars
  BY <1>3 DEF vars, KeptInv, FileIsExpected, CopyIsExpected, DaemonIsUpToDate, Due, Writing,
              Current
<1> QED
  BY <1>1, <1>2, <1>3, StepOrEvent

\* The invariant of what the user may rely on.
THEOREM KeptInvariance == Spec => []KeptInv
<1> QED
  BY DirectoryInvariance, KeptInit, KeptNext, PTL DEF Spec

\* DataDirectory!KeptUnlessDisturbed: a file holds what the finished commands asked it to
\* hold, whatever other commands, kills and daemon events there were, unless someone
\* rewrote it from a superseded copy or was killed inside the rewrite.
THEOREM KeptUnlessInterfered == Spec => []KeptUnlessDisturbed
<1>1. ASSUME KeptInv PROVE KeptUnlessDisturbed
  BY <1>1 DEF KeptInv, FileIsExpected, KeptUnlessDisturbed
<1> QED
  BY <1>1, KeptInvariance, PTL
=============================================================================
