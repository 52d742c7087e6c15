---------------------------- MODULE Parts_proofs ----------------------------
(***************************************************************************)
(* Proofs about the programs that own a terminal, for every number of      *)
(* contacts, posts, services, menu items and lines of a page: selections   *)
(* exist, the window shows the cursor, the terminal is given back.  And    *)
(* about the commands with a swarm of their own, for every number of       *)
(* messages and rounds: what they count was sent, and was handled.  And    *)
(* about the reassembly of fragments, for messages of every size: what is  *)
(* handed over is what was split.                                          *)
(***************************************************************************)
EXTENDS MCParts, Integers, FiniteSetTheorems, SequenceTheorems, WellFoundedInduction, TLAPS

----------------------------------------------------------------------------
(* The full-screen interface.                                              *)

Views == {"home", "contacts", "chat", "timeline", "groups"}
Saved == [contacts : Nat, timeline : Seq({"cut", "fits"})]

Fields ==
  {"view", "menu", "contact", "contacts", "chat", "input", "messages", "scroll",
   "timeline", "above", "group", "banner", "timer", "dark", "accessible"}

\* The fields of the interface have their types.
App(a) ==
  /\ DOMAIN a = Fields
  /\ a.view \in Views /\ a.input \in Seq({"ink", "blank"})
  /\ a.timeline \in Seq({"cut", "fits"})
  /\ a.menu \in Nat /\ a.contact \in Nat /\ a.contacts \in Nat /\ a.chat \in Nat
  /\ a.messages \in Nat /\ a.scroll \in Nat /\ a.above \in Nat /\ a.group \in Nat
  /\ a.timer \in Nat /\ a.banner \in BOOLEAN

\* An index is of an element of its list, or the list may be empty.
Within(i, n) == i = 0 \/ i < n

\* A state of the interface in which every index is within its list.
Fine(a) ==
  /\ App(a)
  /\ a.menu < MenuItems /\ a.group < Groups
  /\ a.timer <= BannerTime /\ (a.timer > 0 <=> a.banner)
  /\ Within(a.contact, a.contacts)
  /\ a.view = "chat" => a.chat < a.contacts
  /\ a.view = "chat" => Within(a.scroll, a.messages)
  /\ Within(a.above, Len(a.timeline))

\* The names of the fields.
LEMMA FieldsAre ==
  /\ "view" \in Fields /\ "menu" \in Fields /\ "contact" \in Fields
  /\ "contacts" \in Fields /\ "chat" \in Fields /\ "input" \in Fields
  /\ "messages" \in Fields /\ "scroll" \in Fields /\ "timeline" \in Fields
  /\ "above" \in Fields /\ "group" \in Fields /\ "banner" \in Fields
  /\ "timer" \in Fields /\ "dark" \in Fields /\ "accessible" \in Fields
BY DEF Fields

\* A fresh interface is fine.
LEMMA NewIsFine ==
  ASSUME NEW s \in Saved
  PROVE  Fine(NewApp(s))
<1>1. DOMAIN NewApp(s) = Fields
  BY DEF NewApp, Fields
<1> QED
  BY <1>1, TuiAssumption DEF NewApp, Fine, App, Views, Saved, Within

\* Going back and forth in a list stays inside it.
LEMMA StepsWithin ==
  ASSUME NEW i \in Nat, NEW n \in Nat
  PROVE  /\ Less(i) \in Nat /\ More(i, n) \in Nat
         /\ Within(i, n) => Within(Less(i), n) /\ Within(More(i, n), n)
         /\ i < n => Less(i) < n /\ More(i, n) < n
BY DEF Less, More, Within

\* The arrow keys keep every index within its list.
LEMMA ArrowsAreFine ==
  ASSUME NEW a, Fine(a)
  PROVE  Fine(Previous(a)) /\ Fine(Following(a))
<1>1. /\ App(a) /\ Len(a.timeline) \in Nat /\ MenuItems \in Nat /\ Groups \in Nat
      /\ a.view \in Views
  BY TuiAssumption DEF Fine, App
<1>2. Fine(Previous(a))
  BY <1>1, FieldsAre, StepsWithin DEF Fine, Previous, App, Views
<1>3. Fine(Following(a))
  BY <1>1, FieldsAre, StepsWithin DEF Fine, Following, App, Views
<1> QED
  BY <1>2, <1>3

\* The views that load their list anew select nothing in it.
LEMMA ShowsAreFine ==
  ASSUME NEW a, Fine(a), NEW s \in Saved
  PROVE  /\ Fine(ShowContacts(a, s)) /\ Fine(ShowTimeline(a, s)) /\ Fine(ShowGroups(a))
<1>1. Fine(ShowContacts(a, s))
  BY FieldsAre DEF Fine, App, Views, Within, Saved, ShowContacts
<1>2. Fine(ShowTimeline(a, s))
  BY FieldsAre DEF Fine, App, Views, Within, Saved, ShowTimeline
<1>3. Fine(ShowGroups(a))
  BY FieldsAre, TuiAssumption DEF Fine, App, Views, Within, ShowGroups
<1> QED
  BY <1>1, <1>2, <1>3

\* Enter opens only a contact that exists.
LEMMA EnterIsFine ==
  ASSUME NEW a, Fine(a), NEW s \in Saved
  PROVE  Fine(Enter(a, s))
<1>1. ASSUME a.contacts > 0 PROVE Fine(OpenChat(Announce(a)))
  <2> DEFINE b == Announce(a)
  <2>1. /\ App(b) /\ b.menu < MenuItems /\ b.group < Groups
        /\ b.timer <= BannerTime /\ (b.timer > 0 <=> b.banner)
        /\ Within(b.contact, b.contacts) /\ b.contacts > 0
        /\ Within(b.above, Len(b.timeline))
    BY <1>1, FieldsAre, TuiAssumption DEF Fine, App, Announce
  <2>2. a.contact = b.contact
    BY FieldsAre DEF Fine, App, Announce
  <2> HIDE DEF b
  <2> DEFINE c == OpenChat(b)
  <2>3. /\ DOMAIN c = Fields /\ c.view = "chat" /\ c.chat = b.contact
        /\ c.input = << >> /\ c.messages = 0 /\ c.scroll = 0
        /\ c.menu = b.menu /\ c.group = b.group /\ c.timer = b.timer
        /\ c.banner = b.banner /\ c.contact = b.contact /\ c.contacts = b.contacts
        /\ c.timeline = b.timeline /\ c.above = b.above
    BY <2>1, <2>2, FieldsAre DEF App, OpenChat
  <2> HIDE DEF c
  <2>4. App(c)
    BY <2>1, <2>3 DEF App, Views
  <2>5. b.contact < b.contacts
    BY <2>1 DEF Within, App
  <2>6. c.timer <= BannerTime /\ (c.timer > 0 <=> c.banner)
    BY <2>1, <2>3, Zenon
  <2>7. c.menu < MenuItems /\ c.group < Groups /\ c.chat < c.contacts
    BY <2>1, <2>3, <2>5
  <2>8. Within(c.contact, c.contacts) /\ Within(c.above, Len(c.timeline))
    BY <2>1, <2>3, Zenon
  <2>9. Within(c.scroll, c.messages)
    BY <2>3 DEF Within
  <2>10. Fine(c)
    BY <2>4, <2>6, <2>7, <2>8, <2>9 DEF Fine
  <2> QED
    BY <2>10 DEF b, c
<1>2. ASSUME a.view = "chat" PROVE Fine(SendMessage(a))
  <2>1. Fine([a EXCEPT !.messages = @ + 1, !.input = << >>])
    BY FieldsAre DEF Fine, App, Within
  <2> QED
    BY <2>1 DEF SendMessage
<1> QED
  BY <1>1, <1>2, ShowsAreFine DEF Enter

\* What is typed stays a line of characters.
LEMMA TypedIsFine ==
  ASSUME NEW a, Fine(a), NEW key
  PROVE  Fine(Typed(a, key))
<1>1. a.input \in Seq({"ink", "blank"})
  BY DEF Fine, App
<1>2. ASSUME NEW input \in Seq({"ink", "blank"}) PROVE Fine([a EXCEPT !.input = input])
  BY FieldsAre DEF Fine, App
<1>3. a.input # << >> => SubSeq(a.input, 1, Len(a.input) - 1) \in Seq({"ink", "blank"})
  BY <1>1
<1>4. /\ Append(a.input, "blank") \in Seq({"ink", "blank"})
      /\ Append(a.input, "ink") \in Seq({"ink", "blank"})
  BY <1>1
<1> QED
  BY <1>2, <1>3, <1>4 DEF Typed

\* Every key leaves a fine state.
LEMMA PressedIsFine ==
  ASSUME NEW a, Fine(a), NEW s \in Saved, NEW key
  PROVE  Fine(Pressed(a, key, s))
<1>1. Fine([a EXCEPT !.dark = ~@]) /\ Fine([a EXCEPT !.accessible = ~@])
  BY FieldsAre DEF Fine, App
<1>2. Fine(Escape(a))
  <2>1. Fine(CloseChat(a))
    BY FieldsAre DEF CloseChat, Fine, App, Views
  <2>2. Fine([a EXCEPT !.view = "home"])
    BY FieldsAre DEF Fine, App, Views
  <2> QED
    BY <2>1, <2>2 DEF Escape
<1> QED
  BY <1>1, <1>2, ShowsAreFine, ArrowsAreFine, EnterIsFine, TypedIsFine DEF Pressed

\* The notification runs out with its time.
LEMMA TickIsFine ==
  ASSUME NEW a, Fine(a)
  PROVE  Fine(TickNotification(a))
<1>1. ASSUME a.timer # 0
      PROVE  Fine([a EXCEPT !.timer = @ - 1, !.banner = a.timer > 1])
  <2> DEFINE b == [a EXCEPT !.timer = @ - 1, !.banner = a.timer > 1]
  <2>1. /\ DOMAIN b = Fields /\ b.timer = a.timer - 1 /\ b.banner = (a.timer > 1)
        /\ b.view = a.view /\ b.chat = a.chat /\ b.input = a.input
        /\ b.messages = a.messages /\ b.scroll = a.scroll
        /\ b.menu = a.menu /\ b.group = a.group
        /\ b.contact = a.contact /\ b.contacts = a.contacts
        /\ b.timeline = a.timeline /\ b.above = a.above
    BY FieldsAre DEF Fine, App
  <2>2. a.timer - 1 \in Nat /\ a.timer - 1 <= BannerTime /\ (a.timer - 1 > 0 <=> a.timer > 1)
    <3>1. a.timer \in Nat /\ a.timer <= BannerTime
      BY DEF Fine, App
    <3> QED
      BY <1>1, <3>1, TuiAssumption
  <2> HIDE DEF b
  <2>3. App(b)
    BY <2>1, <2>2 DEF Fine, App
  <2>4. b.timer <= BannerTime /\ (b.timer > 0 <=> b.banner)
    BY <2>1, <2>2
  <2>5. /\ b.menu < MenuItems /\ b.group < Groups
        /\ Within(b.contact, b.contacts) /\ Within(b.above, Len(b.timeline))
        /\ b.view = "chat" => b.chat < b.contacts
        /\ b.view = "chat" => Within(b.scroll, b.messages)
    BY <2>1, Zenon DEF Fine
  <2>6. Fine(b)
    BY <2>3, <2>4, <2>5 DEF Fine
  <2> QED
    BY <2>6 DEF b
<1> QED
  BY <1>1 DEF TickNotification

----------------------------------------------------------------------------
(* `service browse`.                                                       *)

Page == [n : Nat, cursor : Nat, offset : Nat,
         reads : {"key", "escape", "sequence", "pageup", "pagedown", "details"}]

\* The cursor is on a service, and in the window.
Shown(v) ==
  /\ v.cursor < v.n
  /\ v.offset <= v.cursor /\ v.cursor < v.offset + PageSize

\* Whatever moved the cursor, at the end of the loop the window follows it.
LEMMA ScrollShows ==
  ASSUME NEW v \in Page, v.cursor < v.n
  PROVE  Scroll(v) \in Page /\ Shown(Scroll(v))
<1>1. /\ v.cursor \in Nat /\ v.n \in Nat /\ v.offset \in Nat /\ PageSize \in Nat \ {0}
      /\ v.cursor + 1 - PageSize \in Int
  BY BrowserAssumption DEF Page
<1>2. CASE v.cursor < v.offset
  <2>1. ~(v.cursor >= v.offset + PageSize)
    BY <1>1, <1>2
  <2>2. Scroll(v) = [v EXCEPT !.offset = v.cursor]
    BY <1>2, <2>1, Zenon DEF Scroll
  <2> QED
    BY <1>1, <1>2, <2>2 DEF Page, Shown
<1>3. CASE v.cursor >= v.offset + PageSize
  <2>1. ~(v.cursor < v.offset)
    BY <1>1, <1>3
  <2>2. Scroll(v) = [v EXCEPT !.offset = v.cursor + 1 - PageSize]
    BY <1>3, <2>1, Zenon DEF Scroll
  <2> QED
    BY <1>1, <1>3, <2>2 DEF Page, Shown
<1>4. CASE ~(v.cursor < v.offset) /\ ~(v.cursor >= v.offset + PageSize)
  <2>1. Scroll(v) = v
    BY <1>4, Zenon DEF Scroll
  <2> QED
    BY <1>1, <1>4, <2>1 DEF Shown
<1> QED
  BY <1>2, <1>3, <1>4

\* A new list shows its first service.
LEMMA OpenedShows ==
  ASSUME NEW n \in Nat
  PROVE  Opened(n) \in Page /\ (n > 0 => Shown(Opened(n)))
BY BrowserAssumption DEF Opened, Page, Shown

\* Every byte leaves the cursor in the window.
LEMMA TakesShows ==
  ASSUME NEW v \in Page, Shown(v), NEW byte
  PROVE  Takes(v, byte) \in Page /\ Shown(Takes(v, byte))
<1>1. ASSUME NEW r \in {"key", "escape", "sequence", "pageup", "pagedown", "details"}
      PROVE  Expecting(v, r) \in Page /\ Shown(Expecting(v, r))
  BY DEF Expecting, Page, Shown
<1>2. ASSUME NEW w \in {v, Up(v), Down(v), PageUp(v), PageDown(v)}
      PROVE  Again(w) \in Page /\ Shown(Again(w))
  <2>1. v.cursor \in Nat /\ v.n \in Nat /\ v.cursor < v.n /\ PageSize \in Nat \ {0}
    BY BrowserAssumption DEF Page, Shown
  <2>2. w \in Page /\ w.cursor < w.n
    <3>1. /\ Minus(v.cursor, 1) \in Nat /\ Minus(v.cursor, 1) < v.n
          /\ Minus(v.cursor, PageSize) \in Nat /\ Minus(v.cursor, PageSize) < v.n
          /\ Lower(v.cursor + PageSize, v.n - 1) \in Nat
          /\ Lower(v.cursor + PageSize, v.n - 1) < v.n
      BY <2>1 DEF Minus, Lower
    <3>2. ASSUME NEW k \in Nat, k < v.n
          PROVE  [v EXCEPT !.cursor = k] \in Page
                 /\ [v EXCEPT !.cursor = k].cursor < [v EXCEPT !.cursor = k].n
      BY <3>2 DEF Page
    <3>3. Down(v) \in {[v EXCEPT !.cursor = v.cursor + 1], [v EXCEPT !.cursor = v.cursor]}
             /\ (v.cursor + 1 < v.n \/ Down(v) = [v EXCEPT !.cursor = v.cursor])
      BY DEF Down
    <3>4. v.cursor + 1 \in Nat
      BY <2>1
    <3> QED
      BY <2>1, <3>1, <3>2, <3>3, <3>4 DEF Up, PageUp, PageDown
  <2>3. Expecting(w, "key") \in Page /\ Expecting(w, "key").cursor < Expecting(w, "key").n
    BY <2>2 DEF Expecting, Page
  <2> QED
    BY <2>3, ScrollShows DEF Again
<1> QED
  BY <1>1, <1>2 DEF Takes

----------------------------------------------------------------------------
(* The terminal.                                                           *)

\* A raw terminal, at the shell or found by the full-screen interface, was
\* abandoned by an earlier program; and while `service browse` reads, there is a
\* service under its cursor.
TerminalInv ==
  /\ program \in {"shell", "tui", "browser"}
  /\ tty \in {"cooked", "raw"} /\ before \in {"cooked", "raw"} /\ abandoned \in BOOLEAN
  /\ saved \in Saved /\ Fine(app)
  /\ page \in Page /\ Len(line) \in 0..MaxLine
  /\ program = "shell" /\ tty = "raw" => abandoned
  /\ program = "tui" /\ before = "raw" => abandoned
  /\ program = "browser" => Shown(page)

\* Every step keeps it.
LEMMA TerminalStep ==
  ASSUME TerminalInv, [TerminalNext]_terminal
  PROVE  TerminalInv'
<1> USE DEF TerminalInv
<1>a. /\ Fine(NewApp(saved)) /\ Fine(NewApp(Empty)) /\ Opened(0) \in Page
  <2>1. Empty \in Saved
    BY DEF Empty, Saved
  <2> QED
    BY <2>1, NewIsFine, OpenedShows
<1>b. Len(<< >>) \in 0..MaxLine
  BY TerminalAssumption
<1>1. CASE UNCHANGED terminal
  BY <1>1 DEF terminal
<1>2. CASE StartTui
  <2>1. Fine(app')
    BY <1>2, <1>a, TickIsFine DEF StartTui, Shows
  <2> QED
    BY <1>2, <2>1 DEF StartTui, Hands
<1>3. ASSUME NEW key \in TuiKeys, TuiKey(key) PROVE TerminalInv'
  <2>1. Fine(app')
    BY <1>3, <1>a, TickIsFine, PressedIsFine DEF TuiKey, Shows
  <2> QED
    BY <1>3, <2>1 DEF TuiKey, Abandoned, Hands
<1>4. ASSUME NEW key \in TuiKeys, TuiQuit(key) PROVE TerminalInv'
  BY <1>4, <1>a DEF TuiQuit, TuiRestores, Restored, Abandoned, Hands
<1>5. ASSUME NEW n \in Markets, StartBrowser(n) PROVE TerminalInv'
  BY <1>5, TerminalAssumption, OpenedShows DEF StartBrowser, Hands
<1>6. ASSUME NEW key \in BrowserKeys, Press(key) PROVE TerminalInv'
  <2>1. Len(line') \in 0..MaxLine
    BY <1>6 DEF Press, Sends
  <2> QED
    BY <1>6, <2>1 DEF Press
<1>7. ASSUME NEW k \in 1..BufSize, ReadByte(k) PROVE TerminalInv'
  <2>1. CASE Closes(page, line[1])
    <3>1. /\ Restored("cooked") \/ Abandoned(tty)
          /\ page' = Opened(0) /\ line' = << >> /\ UNCHANGED <<before, app, saved>>
      BY <1>7, <2>1 DEF ReadByte
    <3>2. program' = "shell" /\ tty' \in {"cooked", tty} /\ (tty' = "raw" => abandoned')
          /\ abandoned' \in BOOLEAN
      BY <3>1 DEF Restored, Abandoned, Hands
    <3> QED
      BY <1>a, <1>b, <3>1, <3>2
  <2>2. CASE ~Closes(page, line[1])
    BY <1>7, <2>2, TakesShows, TerminalAssumption DEF ReadByte
  <2> QED
    BY <2>1, <2>2
<1>8. ASSUME NEW files \in Directories, Elsewhere(files) PROVE TerminalInv'
  BY <1>8, TerminalAssumption DEF Elsewhere, Saved
<1>9. CASE StartTuiFails
  BY <1>9 DEF StartTuiFails, Abandoned, Hands
<1>10. CASE TuiFails
  BY <1>10, <1>a DEF TuiFails, TuiRestores, Restored, Abandoned, Hands
<1>11. CASE TuiDies
  BY <1>11, <1>a DEF TuiDies, Abandoned, Hands
<1>12. CASE BrowserDies
  BY <1>12, <1>a, <1>b DEF BrowserDies, Abandoned, Hands
<1> QED
  BY <1>1, <1>2, <1>3, <1>4, <1>5, <1>6, <1>7, <1>8, <1>9, <1>10, <1>11,
     <1>12 DEF TerminalNext

\* A shell at a cooked terminal.
LEMMA TerminalStarts == TerminalInit => TerminalInv
<1> SUFFICES ASSUME TerminalInit PROVE TerminalInv
  OBVIOUS
<1>1. Empty \in Saved /\ Len(<< >>) \in 0..MaxLine
  BY TerminalAssumption DEF Empty, Saved
<1> QED
  BY <1>1, NewIsFine, OpenedShows DEF TerminalInit, TerminalInv

\* The inductive invariant holds in every behaviour at a terminal.
THEOREM TerminalInvariance == TerminalSpec => []TerminalInv
BY TerminalStarts, TerminalStep, PTL DEF TerminalSpec

\* It gives every variable its type.
LEMMA TerminalTyped == TerminalInv => TerminalTypeOK
<1> SUFFICES ASSUME TerminalInv PROVE TerminalTypeOK
  OBVIOUS
<1>1. /\ app.menu \in 0..MenuItems - 1 /\ app.group \in 0..Groups - 1
      /\ app.timer \in 0..BannerTime /\ (app.timer > 0 <=> app.banner)
  BY TuiAssumption DEF TerminalInv, Fine, App
<1>2. /\ page.reads \in {"key", "escape", "sequence", "pageup", "pagedown", "details"}
      /\ Len(line) <= MaxLine
  BY TerminalAssumption DEF TerminalInv, Page
<1> QED
  BY <1>1, <1>2 DEF TerminalInv, TerminalTypeOK

\* The state of the terminal and of its programs keeps its types.
THEOREM TerminalTypeCorrect == TerminalSpec => []TerminalTypeOK
BY TerminalInvariance, TerminalTyped, PTL

\* Whatever the lists lose and gain between two loads, what is selected exists: no
\* key makes the full-screen interface index past the end of a list.
THEOREM SelectedExists == TerminalSpec => []SelectionExists
<1>1. TerminalInv => SelectionExists
  BY DEF TerminalInv, Fine, SelectionExists, Within
<1> QED
  BY <1>1, TerminalInvariance, PTL

\* For every page size, every number of services and every way the bytes of the
\* keys are cut into reads: the cursor is on a service, and the window shows it.
THEOREM CursorIsShown == TerminalSpec => []WindowShowsCursor
<1>1. TerminalInv => WindowShowsCursor
  BY DEF TerminalInv, Shown, WindowShowsCursor
<1> QED
  BY <1>1, TerminalInvariance, PTL

\* However often the two programs follow each other, find a raw terminal, fail or
\* are killed: a shell is at a raw terminal only if one of them ended without
\* restoring it, since the terminal was last handed back cooked.
THEOREM RawIsExplained == TerminalSpec => []RawMeansAbandoned
<1>1. TerminalInv => RawMeansAbandoned
  BY DEF TerminalInv, RawMeansAbandoned
<1> QED
  BY <1>1, TerminalInvariance, PTL

----------------------------------------------------------------------------
(* The commands with a swarm of their own.                                 *)

Peer == [known : BOOLEAN, link : {"down", "dialing", "up"}, heard : BOOLEAN]
States == {"queued", "left", "handled", "answered", "failed"}

Awaiting == at \in {"head", "select"}

\* The requests whose fate the command knows: all but the one it waits for.
Resolved == IF Awaiting THEN current - 1 ELSE current
Settled == report.delivered \cup report.failed

\* Where the command can be, after how many messages.
StageOK ==
  /\ command \in {"send", "track", "pressure", "join", "group", "doctor"}
  /\ rounds \in Nat /\ rounds <= RoundsOf /\ (at = "find" => rounds < RoundsOf)
  /\ peer \in Peer
  /\ requests \in Seq(States)
  /\ at \in {"find", "dial", "mesh", "publish"} => requests = << >>
  /\ at \in {"mesh", "publish"} => command # "pressure"
  /\ Awaiting => current > 0
  /\ at = "say" /\ command # "pressure" => current = 0
  /\ current + report.dropped <= Count
  /\ at \in {"find", "dial", "say", "mesh", "publish"} => current + report.dropped < Count

\* What it counts: every message of a pressure test that is over, once, and once
\* more if its time-out was noticed at the head of the loop.
Counters == {"delivered", "failed", "expired", "early", "dropped"}
CountsOK ==
  /\ report.expired \in Nat /\ report.early \in Nat /\ report.dropped \in Nat
  /\ DOMAIN report = Counters
  /\ Settled \subseteq 1..Resolved /\ report.delivered \cap report.failed = {}
  /\ \A i \in report.delivered : requests[i] = "answered"
  /\ command = "pressure" =>
       Cardinality(Settled) + report.expired = Resolved + report.early

CommandInv == StageOK /\ CountsOK

\* A command knows how many requests it has made.
LEMMA CountIs ==
  ASSUME StageOK
  PROVE  /\ current \in Nat /\ Resolved \in Int /\ DOMAIN requests = 1..current
         /\ Awaiting => Resolved = current - 1
         /\ ~Awaiting => Resolved = current
<1>1. current \in Nat /\ DOMAIN requests = 1..current
  BY DEF StageOK, current
<1> QED
  BY <1>1 DEF Resolved

\* The peer stays a peer with every event.
LEMMA PeerEventsAre ==
  ASSUME peer \in Peer, NEW p \in PeerEvents
  PROVE  p \in Peer
BY DEF PeerEvents, Peer

\* Moving a request adds none, and takes no answer back.
LEMMA MovesIs ==
  ASSUME StageOK, CountsOK, NEW i \in DOMAIN requests, NEW from, from # "answered",
         NEW to \in States, Moves(i, from, to)
  PROVE  /\ requests' \in Seq(States) /\ current' = current
         /\ requests'[i] = to
         /\ \A j \in report.delivered : requests'[j] = "answered"
<1>1. requests \in Seq(States) /\ requests' = [requests EXCEPT ![i] = to]
  BY DEF StageOK, Moves
<1>2. requests' \in Seq(States) /\ Len(requests') = Len(requests)
  BY <1>1, ExceptSeq
<1>3. requests'[i] = to
  BY <1>1
<1>4. ASSUME NEW j \in report.delivered PROVE requests'[j] = "answered"
  <2>1. requests[j] = "answered" /\ requests[i] = from
    BY DEF CountsOK, Moves
  <2> QED
    BY <1>1, <2>1
<1> QED
  BY <1>2, <1>3, <1>4 DEF current

\* A step that leaves the report alone and brings no message to its end.
LEMMA QuietCounts ==
  ASSUME StageOK, CountsOK, StageOK', UNCHANGED <<report, command>>,
         Resolved' = Resolved, \A j \in report.delivered : requests'[j] = "answered"
  PROVE  CountsOK'
BY DEF CountsOK, Settled

\* A step that neither makes a request nor ends one, and stays with its message.
LEMMA QuietStep ==
  ASSUME StageOK, CountsOK,
         UNCHANGED <<report, command, requests>>, peer' \in Peer,
         rounds' \in Nat /\ rounds' <= RoundsOf /\ (at' = "find" => rounds' < RoundsOf),
         \/ at' = at
         \/ Awaiting /\ Awaiting'
         \/ at = "find" /\ at' = "dial"
         \/ at = "dial" /\ at' = "say"
         \/ at = "mesh" /\ at' = "publish"
         \/ ~Awaiting /\ at' = "done"
  PROVE  StageOK' /\ CountsOK'
<1>1. current' = current /\ RoundsOf' = RoundsOf
  BY DEF RoundsOf, current
<1>2. (Awaiting' <=> Awaiting) /\ Resolved' = Resolved
  BY <1>1 DEF Awaiting, Resolved
<1>3. StageOK'
  <2>1. CASE at = "dial" /\ at' = "say"
    <3>1. current = 0
      BY <2>1 DEF StageOK, current
    <3> QED
      BY <1>1, <1>2, <2>1, <3>1 DEF StageOK, Awaiting
  <2>2. CASE ~(at = "dial" /\ at' = "say")
    BY <1>1, <1>2, <2>2 DEF StageOK, Awaiting
  <2> QED
    BY <2>1, <2>2
<1> QED
  BY <1>2, <1>3, QuietCounts DEF CountsOK

\* The end of a message: what is counted is one more.
LEMMA OverIs ==
  ASSUME StageOK, CountsOK, UNCHANGED <<command, rounds, peer>>,
         requests' \in Seq(States), current' = current,
         \A j \in report'.delivered : requests'[j] = "answered",
         NEW result, Over(result),
         DOMAIN result = Counters,
         result.expired \in Nat, result.early \in Nat, result.dropped \in Nat,
         current + result.dropped <= Count,
         result.delivered \cup result.failed \subseteq 1..current,
         result.delivered \cap result.failed = {},
         at \in {"head", "select", "say"},
         command = "pressure" =>
           Cardinality(result.delivered \cup result.failed) + result.expired
             = current + result.early
  PROVE  StageOK' /\ CountsOK'
<1>1. report' = result /\ at' \in {"say", "done"}
      /\ (at' = "say" => command = "pressure" /\ current + result.dropped < Count)
  BY DEF Over, Another
<1>2. RoundsOf' = RoundsOf /\ ~Awaiting' /\ Resolved' = current
  BY <1>1 DEF RoundsOf, Awaiting, Resolved
<1>3. StageOK'
  BY <1>1, <1>2 DEF StageOK
<1>4. CountsOK'
  BY <1>1, <1>2 DEF CountsOK, Settled
<1> QED
  BY <1>3, <1>4

\* The settled messages are finitely many, and one more counts one more.
LEMMA SettledCount ==
  ASSUME StageOK, CountsOK, Awaiting
  PROVE  /\ current \notin Settled
         /\ Settled \subseteq 1..current /\ current \in 1..current
         /\ Cardinality(Settled) \in Nat
         /\ Cardinality(Settled \cup {current}) = Cardinality(Settled) + 1
<1>1. current \in Nat \ {0} /\ Resolved = current - 1 /\ Settled \subseteq 1..(current - 1)
  BY CountIs DEF StageOK, CountsOK
<1>2. IsFiniteSet(Settled)
  <2>1. IsFiniteSet(1..(current - 1))
    BY <1>1, FS_Interval
  <2> QED
    BY <1>1, <2>1, FS_Subset
<1>3. current \notin Settled
  BY <1>1
<1> QED
  BY <1>1, <1>2, <1>3, FS_CardinalityType, FS_AddElement

\* The first states of a command.
LEMMA CommandStarts == ClientInit => CommandInv
<1> SUFFICES ASSUME ClientInit PROVE CommandInv
  OBVIOUS
<1>1. command \in {"send", "track", "pressure", "join", "group", "doctor"}
      /\ Rounds \in Nat \ {0} /\ PressureRounds \in Nat \ {0} /\ Count \in Nat \ {0}
  BY ClientAssumption DEF ClientInit
<1>2. report = Nothing /\ report.dropped = 0 /\ report.expired = 0 /\ report.early = 0
      /\ report.delivered = {} /\ report.failed = {} /\ rounds = 0 /\ peer \in Peer
  BY DEF ClientInit, Nothing, Peer
<1>3. RoundsOf \in Nat \ {0}
  BY <1>1 DEF RoundsOf
<1>4. CASE command = "doctor"
  <2>1. requests = <<"queued">> /\ at = "select"
    BY <1>4 DEF ClientInit, Begins
  <2>2. requests \in Seq(States) /\ current = 1
    BY <2>1 DEF States, current
  <2>3. Settled = {} /\ Resolved = 0
    BY <1>2, <2>1, <2>2 DEF Settled, Resolved, Awaiting
  <2>4. StageOK
    BY <1>1, <1>2, <1>3, <1>4, <2>1, <2>2 DEF StageOK, Awaiting
  <2>5. CountsOK
    BY <1>2, <1>4, <2>3 DEF CountsOK, Nothing, Counters
  <2> QED
    BY <2>4, <2>5 DEF CommandInv
<1>5. CASE command # "doctor"
  <2>1. requests = << >> /\ at \in {"mesh", "find"} /\ (at = "mesh" => command # "pressure")
    BY <1>1, <1>5 DEF ClientInit, Begins
  <2>2. requests \in Seq(States) /\ current = 0
    BY <2>1, EmptySeq DEF current
  <2>3. Settled = {} /\ Resolved = 0
    BY <1>2, <2>1, <2>2 DEF Settled, Resolved, Awaiting
  <2>4. StageOK
    BY <1>1, <1>2, <1>3, <2>1, <2>2 DEF StageOK, Awaiting
  <2>5. Cardinality({}) = 0
    BY FS_EmptySet
  <2>6. CountsOK
    BY <1>2, <2>3, <2>5 DEF CountsOK, Nothing, Counters
  <2> QED
    BY <2>4, <2>6 DEF CommandInv
<1> QED
  BY <1>4, <1>5

\* What moves inside the swarm, with the command waiting or not.
LEMMA RequestMoves ==
  ASSUME CommandInv, NEW i \in DOMAIN requests, Leaves(i) \/ PeerHandles(i)
  PROVE  CommandInv'
<1>1. StageOK /\ CountsOK
  BY DEF CommandInv
<1>2. UNCHANGED <<command, at, rounds, peer, report>>
  BY DEF Leaves, PeerHandles
<1>3. /\ requests' \in Seq(States) /\ current' = current
      /\ \A j \in report.delivered : requests'[j] = "answered"
  <2>1. CASE Leaves(i)
    <3>1. Moves(i, "queued", "left") /\ "left" \in States
      BY <2>1 DEF Leaves, States
    <3> QED
      BY <1>1, <3>1, MovesIs
  <2>2. CASE PeerHandles(i)
    <3>1. Moves(i, "left", "handled") /\ "handled" \in States
      BY <2>2 DEF PeerHandles, States
    <3> QED
      BY <1>1, <3>1, MovesIs
  <2> QED
    BY <2>1, <2>2
<1>4. Resolved' = Resolved /\ RoundsOf' = RoundsOf /\ (Awaiting' <=> Awaiting)
  BY <1>2, <1>3 DEF Resolved, Awaiting, RoundsOf
<1>5. requests # << >>
  OBVIOUS
<1>6. StageOK'
  BY <1>1, <1>2, <1>3, <1>4, <1>5 DEF StageOK
<1> QED
  BY <1>1, <1>2, <1>3, <1>4, <1>6, QuietCounts DEF CommandInv

\* The steps that neither make a request nor end one.
LEMMA QuietSteps ==
  ASSUME CommandInv,
         \/ Find \/ Dial \/ Clock \/ Redials \/ Other \/ Mesh \/ MeshOver
         \/ Spread \/ SpreadOver \/ (LoopHead /\ ~due)
  PROVE  CommandInv'
<1>1. StageOK /\ CountsOK /\ peer \in Peer /\ RoundsOf \in Nat
      /\ rounds \in Nat /\ rounds <= RoundsOf /\ (at = "find" => rounds < RoundsOf)
  BY ClientAssumption DEF CommandInv, StageOK, RoundsOf
<1>2. CASE Find
  <2>1. /\ UNCHANGED <<report, command, requests>> /\ rounds' = rounds + 1
        /\ peer' \in Peer /\ at = "find"
        /\ at' = IF peer'.link = "up" \/ rounds' = RoundsOf THEN "dial" ELSE "find"
    BY <1>1, <1>2, PeerEventsAre DEF Find, RoundsOf
  <2> QED
    BY <1>1, <2>1, QuietStep DEF CommandInv
<1>3. CASE Dial
  <2>1. /\ UNCHANGED <<report, command, requests, rounds>>
        /\ at = "dial" /\ at' \in {"say", "done"}
    BY <1>3 DEF Dial
  <2>2. peer' \in Peer
    BY <1>1, <1>3 DEF Dial, Peer
  <2> QED
    BY <1>1, <2>1, <2>2, QuietStep DEF CommandInv, Awaiting
<1>4. CASE Clock
  <2>1. UNCHANGED <<report, command, requests, rounds, at, peer>>
    BY <1>4 DEF Clock
  <2> QED
    BY <1>1, <2>1, QuietStep DEF CommandInv
<1>5. CASE Redials
  <2>1. UNCHANGED <<report, command, requests, rounds, at>>
    BY <1>5 DEF Redials
  <2>2. peer' \in Peer
    BY <1>1, <1>5 DEF Redials, Peer
  <2> QED
    BY <1>1, <2>1, <2>2, QuietStep DEF CommandInv
<1>6. CASE Other
  <2>1. UNCHANGED <<report, command, requests, rounds>> /\ peer' \in Peer
        /\ at = "select" /\ at' \in {"select", "head"}
    BY <1>1, <1>6, PeerEventsAre DEF Other, Back
  <2> QED
    BY <1>1, <2>1, QuietStep DEF CommandInv, Awaiting
<1>7. CASE Mesh
  <2>1. UNCHANGED <<report, command, requests, rounds, at>>
    BY <1>7 DEF Mesh
  <2>2. PICK p \in PeerEvents :
           peer' = IF p.known /\ ~peer.known /\ p.link = "down"
                   THEN [p EXCEPT !.link = "dialing"] ELSE p
    BY <1>7 DEF Mesh
  <2>3. p \in Peer
    BY <1>1, PeerEventsAre
  <2>4. peer' \in Peer
    BY <2>2, <2>3 DEF Peer
  <2> QED
    BY <1>1, <2>1, <2>4, QuietStep DEF CommandInv
<1>8. CASE MeshOver
  <2>1. UNCHANGED <<report, command, requests, rounds, peer>>
        /\ at = "mesh" /\ at' \in {"done", "publish"}
    BY <1>8 DEF MeshOver
  <2> QED
    BY <1>1, <2>1, QuietStep DEF CommandInv, Awaiting
<1>9. CASE Spread
  <2>1. UNCHANGED <<report, command, requests, rounds, at>> /\ peer' \in Peer
    BY <1>1, <1>9, PeerEventsAre DEF Spread
  <2> QED
    BY <1>1, <2>1, QuietStep DEF CommandInv
<1>10. CASE SpreadOver
  <2>1. UNCHANGED <<report, command, requests, rounds, peer>>
        /\ at = "spread" /\ at' = "done"
    BY <1>10 DEF SpreadOver
  <2> QED
    BY <1>1, <2>1, QuietStep DEF CommandInv, Awaiting
<1>11. CASE LoopHead /\ ~due
  <2>1. UNCHANGED <<report, command, requests, rounds, peer>>
        /\ at = "head" /\ at' = "select"
    BY <1>11 DEF LoopHead
  <2> QED
    BY <1>1, <2>1, QuietStep DEF CommandInv, Awaiting
<1> QED
  BY <1>2, <1>3, <1>4, <1>5, <1>6, <1>7, <1>8, <1>9, <1>10, <1>11

\* A request is made: the message becomes the current one.
LEMMA RequestMade ==
  ASSUME CommandInv, Say \/ Publish
  PROVE  CommandInv'
<1>1. StageOK /\ CountsOK /\ current \in Nat /\ ~Awaiting /\ Resolved = current
      /\ report.dropped \in Nat /\ current + report.dropped < Count /\ Count \in Nat
      /\ requests \in Seq(States)
  BY CountIs, ClientAssumption DEF CommandInv, StageOK, CountsOK, Awaiting, Say, Publish, Resolved
<1>2. UNCHANGED <<command, rounds, peer, report>> /\ RoundsOf' = RoundsOf
  BY DEF Say, Publish, RoundsOf
<1>3. CASE requests' = Append(requests, "queued")
  <2>1. at' \in {"done", "head", "spread"} /\ (at' # "head" => command # "pressure")
    BY <1>1, <1>3 DEF Say, Publish, StageOK
  <2>2. requests' \in Seq(States) /\ current' = current + 1
        /\ \A j \in 1..current : requests'[j] = requests[j]
    BY <1>1, <1>3, AppendProperties DEF States, current
  <2>3. StageOK'
    BY <1>1, <1>2, <2>1, <2>2 DEF StageOK, Awaiting
  <2>4. (at' = "head" => Resolved' = Resolved) /\ Resolved' \in {Resolved, Resolved + 1}
    BY <1>1, <2>1, <2>2 DEF Resolved, Awaiting
  <2>5. CountsOK'
    <3>1. Settled' = Settled /\ Settled \subseteq 1..current
          /\ \A j \in report.delivered : requests[j] = "answered"
      BY <1>1, <1>2 DEF Settled, CountsOK
    <3> QED
      BY <1>1, <1>2, <2>1, <2>2, <2>4, <3>1 DEF CountsOK, Settled
  <2> QED
    BY <2>3, <2>5 DEF CommandInv
<1>4. CASE Publish /\ UNCHANGED requests
  <2>1. at = "publish" /\ at' = "done"
    <3>1. << >> # <<"queued">>
      OBVIOUS
    <3>2. requests = << >>
      BY <1>1, <1>4 DEF StageOK, Publish
    <3> QED
      BY <1>4, <3>1, <3>2 DEF Publish
  <2> QED
    BY <1>1, <1>2, <1>4, <2>1, QuietStep DEF CommandInv, StageOK, Awaiting
<1>5. CASE Publish /\ ~UNCHANGED requests
  <2>1. requests = << >>
    BY <1>1, <1>5 DEF StageOK, Publish
  <2>2. requests' = <<"queued">>
    BY <1>5 DEF Publish
  <2>3. requests' = Append(requests, "queued")
    BY <2>1, <2>2
  <2> QED
    BY <1>3, <2>3
<1>6. CASE Say
  BY <1>3, <1>6 DEF Say, SendChat
<1> QED
  BY <1>4, <1>5, <1>6

\* Both sides of the count grow together.
LEMMA CountOnce ==
  ASSUME NEW settled \in Nat, NEW expired \in Nat, NEW early \in Nat, NEW n \in Nat,
         settled + expired = n - 1 + early
  PROVE  /\ settled + (expired + 1) = n + early
         /\ settled + (expired + 2) = n + (early + 1)
OBVIOUS

\* A message ends without an answer: dropped, or its time is over.
LEMMA MessageExpires ==
  ASSUME CommandInv, Drop \/ (LoopHead /\ due) \/ Expires
  PROVE  CommandInv'
<1>1. StageOK /\ CountsOK /\ current \in Nat
      /\ report.dropped \in Nat /\ report.expired \in Nat /\ report.early \in Nat
      /\ current + report.dropped <= Count /\ requests \in Seq(States) /\ Count \in Nat
      /\ \A j \in report.delivered : requests[j] = "answered"
  BY CountIs, ClientAssumption DEF CommandInv, StageOK, CountsOK
<1>2. UNCHANGED <<command, rounds, peer, requests>> /\ current' = current
  BY DEF Drop, LoopHead, Expires, current
<1>3. Settled \subseteq 1..Resolved /\ report.delivered \cap report.failed = {}
      /\ (command = "pressure" =>
            Cardinality(Settled) + report.expired = Resolved + report.early)
  BY <1>1 DEF CountsOK
<1>7. DOMAIN report = Counters
  BY <1>1 DEF CountsOK
<1>4. CASE Drop
  <2> DEFINE result == [report EXCEPT !.dropped = @ + 1]
  <2>1. at = "say" /\ Over(result) /\ current + report.dropped < Count
        /\ Resolved = current
    BY <1>1, <1>4, CountIs DEF Drop, StageOK, Resolved, Awaiting
  <2>2. /\ result.delivered = report.delivered /\ result.failed = report.failed
        /\ result.expired = report.expired /\ result.early = report.early
        /\ result.dropped = report.dropped + 1
    BY <1>7 DEF Counters
  <2>3. Settled = result.delivered \cup result.failed /\ report' = result
    BY <2>1, <2>2 DEF Settled, Over
  <2>6. result.expired = report.expired /\ result.early = report.early
        /\ result.delivered = report.delivered /\ result.failed = report.failed
        /\ result.dropped = report.dropped + 1 /\ result.dropped \in Nat
        /\ current + result.dropped <= Count
    BY <1>1, <2>1, <2>2
  <2>7. DOMAIN result = Counters
    BY <1>7
  <2> HIDE DEF result
  <2> QED
    BY <1>1, <1>2, <1>3, <2>1, <2>3, <2>6, <2>7, OverIs DEF CommandInv
<1>5. CASE LoopHead /\ due
  <2> DEFINE more == IF command = "pressure" THEN 2 ELSE 1
             result == [report EXCEPT !.expired = @ + more, !.early = @ + 1]
  <2>1. at = "head" /\ Over(result) /\ Resolved = current - 1 /\ current \in Nat \ {0}
    BY <1>1, <1>5, CountIs DEF LoopHead, StageOK, Resolved, Awaiting
  <2>2. /\ result.delivered = report.delivered /\ result.failed = report.failed
        /\ result.expired = report.expired + more /\ result.early = report.early + 1
        /\ result.dropped = report.dropped
    <3> HIDE DEF more
    <3> QED
      BY <1>7 DEF Counters
  <2>8. more \in Nat /\ (command = "pressure" => more = 2)
    OBVIOUS
  <2>3. Settled = result.delivered \cup result.failed /\ report' = result
        /\ Settled \subseteq 1..current
    BY <1>3, <2>1, <2>2 DEF Settled, Over
  <2>4. Cardinality(Settled) \in Nat
    BY <1>1, <2>1, SettledCount DEF Awaiting
  <2>5. command = "pressure" =>
           Cardinality(Settled) + result.expired = current + result.early
    <3> HIDE DEF more
    <3>1. result.expired = report.expired + more /\ result.early = report.early + 1
      BY <2>2
    <3>2. Cardinality(Settled) + report.expired = current - 1 + report.early
          => Cardinality(Settled) + (report.expired + 2) = current + (report.early + 1)
      <4>1. current \in Nat /\ report.expired \in Nat /\ report.early \in Nat
        BY <1>1
      <4> QED
        BY <2>4, <4>1, CountOnce
    <3> HIDE DEF result
    <3> QED
      BY <1>3, <2>1, <2>8, <3>1, <3>2
  <2>6. result.expired \in Nat /\ result.early \in Nat /\ result.dropped = report.dropped
        /\ result.delivered = report.delivered /\ result.failed = report.failed
    <3> HIDE DEF more
    <3> QED
      BY <1>1, <2>2, <2>8
  <2>7. DOMAIN result = Counters
    BY <1>7
  <2> HIDE DEF result
  <2> QED
    BY <1>1, <1>2, <1>3, <2>1, <2>3, <2>5, <2>6, <2>7, OverIs DEF CommandInv
<1>6. CASE Expires
  <2> DEFINE result == [report EXCEPT !.expired = @ + 1]
  <2>1. at = "select" /\ Over(result) /\ Resolved = current - 1 /\ current \in Nat \ {0}
    BY <1>1, <1>6, CountIs DEF Expires, StageOK, Resolved, Awaiting
  <2>2. /\ result.delivered = report.delivered /\ result.failed = report.failed
        /\ result.expired = report.expired + 1 /\ result.early = report.early
        /\ result.dropped = report.dropped
    BY <1>7 DEF Counters
  <2>3. Settled = result.delivered \cup result.failed /\ report' = result
        /\ Settled \subseteq 1..current
    BY <1>3, <2>1, <2>2 DEF Settled, Over
  <2>4. Cardinality(Settled) \in Nat
    BY <1>1, <2>1, SettledCount DEF Awaiting
  <2>5. command = "pressure" =>
           Cardinality(Settled) + result.expired = current + result.early
    <3>1. result.expired = report.expired + 1 /\ result.early = report.early
      BY <2>2
    <3>2. Cardinality(Settled) + report.expired = current - 1 + report.early
          => Cardinality(Settled) + (report.expired + 1) = current + report.early
      <4>1. current \in Nat /\ report.expired \in Nat /\ report.early \in Nat
        BY <1>1
      <4> QED
        BY <2>4, <4>1, CountOnce
    <3> HIDE DEF result
    <3> QED
      BY <1>3, <2>1, <3>1, <3>2
  <2>6. result.expired \in Nat /\ result.early \in Nat /\ result.dropped = report.dropped
        /\ result.delivered = report.delivered /\ result.failed = report.failed
    BY <1>1, <2>2
  <2>7. DOMAIN result = Counters
    BY <1>7
  <2> HIDE DEF result
  <2> QED
    BY <1>1, <1>2, <1>3, <2>1, <2>3, <2>5, <2>6, <2>7, OverIs DEF CommandInv
<1> QED
  BY <1>4, <1>5, <1>6

\* An answer or a failure that is not for the current message.
LEMMA NotMine ==
  ASSUME CommandInv, NEW i \in DOMAIN requests, NEW from, from # "answered",
         NEW to \in States, at = "select", Moves(i, from, to),
         at' = Back, UNCHANGED <<report, command, rounds, peer>>
  PROVE  CommandInv'
<1>1. StageOK /\ CountsOK /\ at' \in {"select", "head"}
  BY DEF CommandInv, Back
<1>2. /\ requests' \in Seq(States) /\ current' = current
      /\ \A j \in report.delivered : requests'[j] = "answered"
  BY <1>1, MovesIs
<1>3. Resolved' = Resolved /\ RoundsOf' = RoundsOf /\ Awaiting /\ Awaiting'
  BY <1>1, <1>2 DEF Resolved, Awaiting, RoundsOf
<1>4. StageOK'
  BY <1>1, <1>2, <1>3 DEF StageOK
<1> QED
  BY <1>1, <1>2, <1>3, <1>4, QuietCounts DEF CommandInv

\* The current message is answered or has failed.
LEMMA MessageSettled ==
  ASSUME CommandInv, NEW i \in DOMAIN requests, Answer(i) \/ Failure(i)
  PROVE  CommandInv'
<1>1. StageOK /\ CountsOK /\ current \in Nat
      /\ report.dropped \in Nat /\ report.expired \in Nat /\ report.early \in Nat
      /\ current + report.dropped <= Count
      /\ report.delivered \cap report.failed = {} /\ DOMAIN report = Counters
  BY CountIs DEF CommandInv, StageOK, CountsOK
<1>2. at = "select" /\ UNCHANGED <<command, rounds, peer>>
  BY DEF Answer, Failure, Settles
<1>3. /\ current \notin Settled /\ Settled \subseteq 1..current /\ current \in 1..current
      /\ Cardinality(Settled) \in Nat
      /\ Cardinality(Settled \cup {current}) = Cardinality(Settled) + 1
      /\ Resolved = current - 1
  BY <1>1, <1>2, SettledCount, CountIs DEF Awaiting
<1>4. command = "pressure" =>
        Cardinality(Settled \cup {current}) + report.expired = current + report.early
  <2>1. ASSUME command = "pressure"
        PROVE  Cardinality(Settled) + report.expired = current - 1 + report.early
    BY <1>1, <1>3, <2>1 DEF CountsOK
  <2>2. ASSUME Cardinality(Settled) + report.expired = current - 1 + report.early
        PROVE  Cardinality(Settled) + 1 + report.expired = current + report.early
    BY <1>1, <1>3, <2>2, CountOnce
  <2> QED
    BY <1>3, <2>1, <2>2
<1>5. ASSUME Answer(i), Mine(i) PROVE CommandInv'
  <2> DEFINE result == [report EXCEPT !.delivered = @ \union {current}]
  <2>1. Over(result) /\ Moves(i, "handled", "answered") /\ report' = result /\ i = current
    BY <1>5 DEF Answer, Settles, Mine, Over
  <2>2. /\ result.delivered = report.delivered \cup {current}
        /\ result.failed = report.failed /\ result.early = report.early
        /\ result.expired = report.expired /\ result.dropped = report.dropped
        /\ DOMAIN result = Counters
    BY <1>1 DEF Counters
  <2>3. /\ requests' \in Seq(States) /\ current' = current /\ requests'[current] = "answered"
        /\ \A j \in report.delivered : requests'[j] = "answered"
    BY <1>1, <2>1, MovesIs DEF States
  <2> HIDE DEF result
  <2>4. /\ result.delivered \cup result.failed = Settled \cup {current}
        /\ result.delivered \cap result.failed = {}
    BY <1>1, <1>3, <2>2 DEF Settled
  <2>5. result.delivered \cup result.failed \subseteq 1..current
    BY <1>3, <2>4
  <2>6. \A j \in report'.delivered : requests'[j] = "answered"
    BY <2>1, <2>2, <2>3
  <2>7. result.expired \in Nat /\ result.early \in Nat /\ result.dropped \in Nat
        /\ current + result.dropped <= Count
    BY <1>1, <2>2
  <2>8. command = "pressure" =>
          Cardinality(result.delivered \cup result.failed) + result.expired
            = current + result.early
    BY <1>4, <2>2, <2>4
  <2> QED
    BY <1>1, <1>2, <2>1, <2>2, <2>3, <2>4, <2>5, <2>6, <2>7, <2>8, OverIs DEF CommandInv
<1>6. ASSUME Failure(i), Mine(i) PROVE CommandInv'
  <2> DEFINE result == [report EXCEPT !.failed = @ \union {current}]
  <2>1. Over(result) /\ report' = result
    BY <1>6 DEF Failure, Settles, Over
  <2>2. /\ result.failed = report.failed \cup {current}
        /\ result.delivered = report.delivered /\ result.early = report.early
        /\ result.expired = report.expired /\ result.dropped = report.dropped
        /\ DOMAIN result = Counters
    BY <1>1 DEF Counters
  <2>3. /\ requests' \in Seq(States) /\ current' = current
        /\ \A j \in report.delivered : requests'[j] = "answered"
    <3>1. PICK from \in {"queued", "left", "handled"} : Moves(i, from, "failed")
      BY <1>6 DEF Failure
    <3> QED
      BY <1>1, <3>1, MovesIs DEF States
  <2> HIDE DEF result
  <2>4. /\ result.delivered \cup result.failed = Settled \cup {current}
        /\ result.delivered \cap result.failed = {}
    BY <1>1, <1>3, <2>2 DEF Settled
  <2>5. result.delivered \cup result.failed \subseteq 1..current
    BY <1>3, <2>4
  <2>6. \A j \in report'.delivered : requests'[j] = "answered"
    BY <2>1, <2>2, <2>3
  <2>7. result.expired \in Nat /\ result.early \in Nat /\ result.dropped \in Nat
        /\ current + result.dropped <= Count
    BY <1>1, <2>2
  <2>8. command = "pressure" =>
          Cardinality(result.delivered \cup result.failed) + result.expired
            = current + result.early
    BY <1>4, <2>2, <2>4
  <2> QED
    BY <1>1, <1>2, <2>1, <2>2, <2>3, <2>4, <2>5, <2>6, <2>7, <2>8, OverIs DEF CommandInv
<1>7. ASSUME ~Mine(i) PROVE CommandInv'
  <2>1. at' = Back /\ UNCHANGED report
    BY <1>7 DEF Answer, Failure, Settles
  <2>2. CASE Answer(i)
    <3>1. Moves(i, "handled", "answered") /\ "answered" \in States
      BY <2>2 DEF Answer, States
    <3> QED
      BY <1>2, <2>1, <3>1, NotMine
  <2>3. CASE Failure(i)
    <3>1. PICK from \in {"queued", "left", "handled"} : Moves(i, from, "failed")
      BY <2>3 DEF Failure
    <3> QED
      BY <1>2, <2>1, <3>1, NotMine DEF States
  <2> QED
    BY <2>2, <2>3
<1> QED
  BY <1>5, <1>6, <1>7

\* Every step of a command keeps its counts.
LEMMA CommandStep ==
  ASSUME CommandInv, [ClientNext]_client
  PROVE  CommandInv'
<1>1. CASE ClientNext
  <2>1. CASE \/ Find \/ Dial \/ Clock \/ Redials \/ Other \/ Mesh \/ MeshOver
             \/ Spread \/ SpreadOver \/ (LoopHead /\ ~due)
    BY <2>1, QuietSteps
  <2>2. CASE Say \/ Publish
    BY <2>2, RequestMade
  <2>3. CASE Drop \/ (LoopHead /\ due) \/ Expires
    BY <2>3, MessageExpires
  <2>4. CASE \E i \in DOMAIN requests : Leaves(i) \/ PeerHandles(i)
    BY <2>4, RequestMoves
  <2>5. CASE \E i \in DOMAIN requests : Answer(i) \/ Failure(i)
    BY <2>5, MessageSettled
  <2> QED
    BY <1>1, <2>1, <2>2, <2>3, <2>4, <2>5 DEF ClientNext, Steps
<1>2. CASE UNCHANGED client
  BY <1>2 DEF client, CommandInv, StageOK, CountsOK, Resolved, Settled, Awaiting,
                    RoundsOf, current
<1> QED
  BY <1>1, <1>2

\* Every command, with every number of messages, keeps its counts.
THEOREM CommandInvariance == ClientSpec => []CommandInv
BY CommandStarts, CommandStep, PTL DEF ClientSpec

\* What is delivered was handled; the rest of the type.
LEMMA DeliveredHandled == ASSUME CommandInv PROVE report.delivered \subseteq Handled
<1>1. DOMAIN requests = 1..current /\ current \in Nat
      /\ (Resolved = current - 1 \/ Resolved = current)
  BY CountIs DEF CommandInv
<1>2. report.delivered \subseteq 1..current
  BY <1>1 DEF CommandInv, CountsOK, Settled
<1> QED
  BY <1>1, <1>2 DEF CommandInv, CountsOK, Handled

\* What is counted was sent, and once.
LEMMA ClientTyped == CommandInv => ClientTypeOK
<1> SUFFICES ASSUME CommandInv PROVE ClientTypeOK
  OBVIOUS
<1>1. StageOK /\ CountsOK /\ current \in Nat
      /\ (Resolved = current - 1 \/ Resolved = current)
  BY CountIs DEF CommandInv
<1>2. Settled \subseteq 1..current
  BY <1>1 DEF CountsOK
<1> QED
  BY <1>1, <1>2 DEF ClientTypeOK, StageOK, CountsOK, Settled, Peer

\* The commands of main.rs count no message twice, none that was not sent, and
\* no more than was asked for.
THEOREM ClientTypeCorrect == ClientSpec => []ClientTypeOK
BY CommandInvariance, ClientTyped, PTL

\* The totals of a pressure test of any length: every message that was sent is
\* counted once, and once more exactly when its time-out was noticed at the head
\* of the loop (cmd_chat_pressure_test).
THEOREM EveryMessageIsCounted == ClientSpec => []EveryMessageCounted
<1>1. ASSUME CommandInv PROVE EveryMessageCounted
  <2>1. SUFFICES ASSUME command = "pressure", at = "done"
                 PROVE  Cardinality(report.delivered \union report.failed) + report.expired
                          = current + report.early
    BY DEF EveryMessageCounted
  <2>2. Resolved = current
    BY <2>1 DEF Resolved, Awaiting
  <2> QED
    BY <1>1, <2>1, <2>2 DEF CommandInv, CountsOK, Settled
<1> QED
  BY <1>1, CommandInvariance, PTL

\* A command reports as delivered what the peer has handled, whatever answers
\* come late; a pressure test that passes had 99 in a hundred of its messages
\* handled, and every one of less than a hundred (cmd_chat_pressure_test).
THEOREM DeliveredWasHandled == ClientSpec => []DeliveredIsHandled
<1>1. ASSUME CommandInv PROVE DeliveredIsHandled
  <2>1. report.delivered \subseteq Handled
    BY <1>1, DeliveredHandled
  <2>2. ASSUME Verdict \in {"PASS_R26", "PASS_R27"}
        PROVE  /\ 1000 * Cardinality(Handled) >= 990 * current
               /\ current < 100 => Handled = 1..current
    <3>1. Reaches(990) \/ Reaches(999)
      BY <2>2 DEF Verdict
    <3>2. DOMAIN requests = 1..current /\ current \in Nat /\ Handled \subseteq 1..current
      BY <1>1, CountIs DEF CommandInv, Handled
    <3>3. IsFiniteSet(1..current) /\ Cardinality(1..current) = current
      BY <3>2, FS_Interval
    <3>4. /\ IsFiniteSet(Handled) /\ Cardinality(Handled) \in Nat
          /\ Cardinality(Handled) <= current
          /\ Cardinality(Handled) = current => Handled = 1..current
      BY <3>2, <3>3, FS_Subset, FS_CardinalityType
    <3>5. /\ Cardinality(report.delivered) \in Nat
          /\ Cardinality(report.delivered) <= Cardinality(Handled)
      BY <2>1, <3>4, FS_Subset, FS_CardinalityType
    <3>6. 1000 * Cardinality(report.delivered) >= 990 * current
      BY <3>1, <3>2, <3>5 DEF Reaches
    <3>7. 1000 * Cardinality(Handled) >= 990 * current
      BY <3>2, <3>4, <3>5, <3>6
    <3>8. ASSUME current < 100 PROVE Handled = 1..current
      <4>1. Cardinality(Handled) = current
        BY <3>2, <3>4, <3>7, <3>8
      <4> QED
        BY <3>4, <4>1
    <3> QED
      BY <3>7, <3>8
  <2> QED
    BY <2>1, <2>2 DEF DeliveredIsHandled
<1> QED
  BY <1>1, CommandInvariance, PTL

----------------------------------------------------------------------------
(* What is cut and joined.                                                 *)

\* The natural numbers have no proper subset that is closed under successor.
LEMMA Induction ==
  ASSUME NEW T, 0 \in T, \A n \in Nat : n \in T => n + 1 \in T
  PROVE  Nat \subseteq T
<1> DEFINE R == {ss \in Nat \X Nat : ss[1] < ss[2]}
           Rest == Nat \ T
<1>1. IsWellFoundedOn(R, Nat)
  BY NatLessThanWellFounded DEF OpToRel
<1>2. \A m \in Nat, n \in Nat : m < n => <<m, n>> \in R
  OBVIOUS
<1> HIDE DEF R
<1>3. SUFFICES ASSUME Rest # {} PROVE FALSE
  OBVIOUS
<1>4. PICK n \in Rest : \A m \in Rest : <<m, n>> \notin R
  <2>1. Rest \subseteq Nat
    OBVIOUS
  <2> HIDE DEF Rest
  <2> QED
    BY <1>1, <1>3, <2>1, WFMin
<1>5. n - 1 \in Nat /\ n - 1 < n
  <2>1. n \in Nat /\ n # 0
    OBVIOUS
  <2> QED
    BY <2>1
<1>6. n - 1 \notin Rest
  BY <1>2, <1>4, <1>5
<1> QED
  BY <1>5, <1>6

\* G lists the concatenations of the first of the n sequences.
Flattens(seqs, n, G) ==
  /\ seqs = [i \in 1..n |-> seqs[i]]
  /\ G[1] = seqs[1]
  /\ \A i \in 1..n : i # 1 => G[i] = G[i - 1] \o seqs[i]

\* The recursion of FlattenSeq defines one function.
LEMMA FlattenIs ==
  ASSUME NEW seqs, NEW n \in Nat \ {0}, NEW G, Flattens(seqs, n, G)
  PROVE  FlattenSeq(seqs) = G[n]
<1> USE DEF Flattens
<1> DEFINE Step(f, i) == IF i = 1 THEN seqs[i] ELSE f[i - 1] \o seqs[i]
           Flat(f) == f = [i \in 1..n |-> Step(f, i)]
           H == [i \in 1..n |-> G[i]]
           f == CHOOSE g : Flat(g)
<1>1. Len(seqs) = n /\ DOMAIN seqs = 1..n
  OBVIOUS
<1>2. FlattenSeq(seqs) = f[n]
  BY <1>1 DEF FlattenSeq
<1>3. Flat(H)
  <2>1. ASSUME NEW i \in 1..n PROVE G[i] = Step(H, i)
    <3>1. CASE i = 1
      BY <3>1
    <3>2. CASE i # 1
      <4>1. i - 1 \in 1..n
        BY <3>2
      <4> QED
        BY <3>2, <4>1
    <3> QED
      BY <3>1, <3>2
  <2> QED
    BY <2>1
<1>4. Flat(f)
  <2> HIDE DEF H, Flat
  <2> QED
    BY <1>3
<1> HIDE DEF f, H
<1> DEFINE T == {i \in Nat : i + 1 \in 1..n => f[i + 1] = G[i + 1]}
<1>5. 0 \in T
  BY <1>4
<1>6. ASSUME NEW i \in Nat, i \in T PROVE i + 1 \in T
  <2> SUFFICES ASSUME (i + 1) + 1 \in 1..n PROVE f[(i + 1) + 1] = G[(i + 1) + 1]
    OBVIOUS
  <2> DEFINE j == (i + 1) + 1
  <2>1. j \in 1..n /\ j # 1 /\ j - 1 = i + 1 /\ i + 1 \in 1..n
    OBVIOUS
  <2>2. f[i + 1] = G[i + 1]
    BY <1>6, <2>1
  <2> HIDE DEF j
  <2>3. f[j] = f[j - 1] \o seqs[j]
    BY <1>4, <2>1
  <2>4. f[j] = G[j]
    BY <2>1, <2>2, <2>3
  <2> QED
    BY <2>4 DEF j
<1> HIDE DEF T
<1>7. Nat \subseteq T
  BY <1>5, <1>6, Induction
<1>8. n - 1 \in Nat /\ (n - 1) + 1 = n
  OBVIOUS
<1> QED
  BY <1>2, <1>7, <1>8 DEF T

\* Multiples of a positive number are at least that number apart.
LEMMA Multiples ==
  ASSUME NEW F \in Nat \ {0}, NEW i \in Int, NEW j \in Int, i < j
  PROVE  i * F \in Int /\ j * F \in Int /\ i * F + F <= j * F
<1>1. i * F \in Int /\ j * F \in Int
  OBVIOUS
<1>2. j * F = (i + 1) * F + (j - i - 1) * F
  OBVIOUS
<1>3. (j - i - 1) * F >= 0
  OBVIOUS
<1>4. (i + 1) * F = i * F + F
  OBVIOUS
<1> QED
  BY <1>1, <1>2, <1>3, <1>4

\* The remainder of a number past a multiple.
LEMMA Remainder ==
  ASSUME NEW F \in Nat \ {0}, NEW k \in Int, NEW r \in 0..F-1
  PROVE  (k * F + r) % F = r
<1> DEFINE x == k * F + r
<1>1. F \in Int /\ F > 0 /\ x \in Int /\ k * F \in Int /\ x = F * k + r
  OBVIOUS
<1> HIDE DEF x
<1>2. x \div F = k
  BY <1>1
<1>3. x % F = x - F * (x \div F)
  BY <1>1
<1>4. x % F = r
  BY <1>1, <1>2, <1>3
<1> QED
  BY <1>4 DEF x

\* Where the first k fragments end.
End(bytes, k) == IF k * FragmentSize < Len(bytes) THEN k * FragmentSize ELSE Len(bytes)

\* Every fragment begins inside the message, and the last one ends with it.
LEMMA CutsAre ==
  ASSUME NEW bytes, Utf8(bytes)
  PROVE  /\ Total(bytes) \in Nat /\ End(bytes, Total(bytes)) = Len(bytes)
         /\ \A i \in 0..Total(bytes)-1 :
              i * FragmentSize \in Nat /\ i * FragmentSize < Len(bytes)
<1> DEFINE F == FragmentSize
           n == Len(bytes)
           t == Total(bytes)
<1>1. F \in Nat \ {0} /\ n \in Nat
  BY FragmentsAssumption DEF Utf8
<1>2. t = (n + F - 1) \div F
  BY DEF Total
<1> HIDE DEF F, n, t
<1>3. F \in Int /\ F > 0 /\ n + F - 1 \in Int /\ n + F - 1 >= 0
  BY <1>1
<1>4. t \in Int /\ F * t <= n + F - 1 /\ n + F - 1 < F * t + F
  <2> DEFINE x == n + F - 1
  <2>1. x \in Int /\ t = x \div F
    BY <1>2, <1>3
  <2> HIDE DEF x
  <2>2. t \in Int /\ F * t \in Int /\ x % F = x - F * t /\ x % F \in 0..F-1
    BY <1>3, <2>1
  <2>3. F * t <= x /\ x < F * t + F
    BY <1>3, <2>1, <2>2
  <2> QED
    BY <2>2, <2>3 DEF x
<1>5. t >= 0
  <2> SUFFICES ASSUME t < 0 PROVE FALSE
    BY <1>4
  <2>1. t * F + F <= 0 * F
    BY <1>1, <1>4, Multiples
  <2> QED
    BY <1>1, <1>3, <1>4, <2>1
<1>6. t * F >= n /\ t * F \in Nat
  BY <1>1, <1>4, <1>5
<1>7. ASSUME NEW i \in 0..t-1 PROVE i * F \in Nat /\ i * F < n
  <2>1. i * F \in Int /\ t * F \in Int /\ i * F + F <= t * F
    BY <1>1, <1>4, <1>7, Multiples
  <2>2. i * F >= 0
    BY <1>1, <1>7
  <2> QED
    BY <1>1, <1>4, <2>1, <2>2
<1>8. End(bytes, t) = n
  BY <1>1, <1>6 DEF End, F, n
<1> QED
  BY <1>4, <1>5, <1>7, <1>8 DEF t, F, n

\* A fragment is the part of what arrives between two cuts.
LEMMA ChunkIs ==
  ASSUME NEW bytes, Utf8(bytes), NEW k \in Nat, k * FragmentSize < Len(bytes)
  PROVE  /\ End(bytes, k) = k * FragmentSize /\ End(bytes, k + 1) \in Nat
         /\ End(bytes, k) < End(bytes, k + 1) /\ End(bytes, k + 1) <= Len(bytes)
         /\ Chunk(bytes, k) = SubSeq(Arrived(bytes), End(bytes, k) + 1, End(bytes, k + 1))
<1> DEFINE F == FragmentSize
           n == Len(bytes)
           start == k * F
           end == IF start + F < n THEN start + F ELSE n
           sub == SubSeq(bytes, start + 1, end)
<1>1. F \in Nat \ {0} /\ n \in Nat /\ start \in Nat /\ start < n
  BY FragmentsAssumption DEF Utf8
<1>2. (k + 1) * F = start + F
  BY <1>1
<1>3. End(bytes, k) = start /\ End(bytes, k + 1) = end
  BY <1>1, <1>2 DEF End
<1>4. bytes \in Seq({"one", "lead", "tail"}) /\ \A i \in 1..n : Whole(bytes, i)
  BY DEF Utf8
<1>5. end \in Nat /\ start < end /\ end <= n /\ end - start <= F
      /\ (end - start < F => end = n)
  BY <1>1
<1> HIDE DEF F, start, end
<1>6. /\ DOMAIN sub = 1..(end - start) /\ Len(sub) = end - start
      /\ \A j \in 1..(end - start) : sub[j] = bytes[start + j]
  BY <1>1, <1>4, <1>5
<1> HIDE DEF sub
<1>7. Chunk(bytes, k) = [j \in 1..(end - start) |->
                           IF Whole(sub, j) THEN sub[j] ELSE "?"]
  <2>1. Chunk(bytes, k) = Decoded(sub)
    BY DEF Chunk, sub, start, end, F
  <2> QED
    BY <1>6, <2>1 DEF Decoded
<1>8. ASSUME NEW j \in 1..(end - start)
      PROVE  Whole(sub, j) <=> ~CutInside(bytes, start + j)
  <2> DEFINE i == start + j
  <2>1. i \in 1..n /\ i \in Nat /\ j \in 1..F /\ sub[j] = bytes[i]
    BY <1>1, <1>5, <1>6
  <2>2. bytes[i] \in {"one", "lead", "tail"} /\ Whole(bytes, i)
    BY <1>4, <2>1
  <2>3. CASE bytes[i] = "one"
    <3>1. Whole(sub, j)
      BY <2>1, <2>3 DEF Whole
    <3>2. ~CutInside(bytes, i)
      BY <2>3 DEF CutInside
    <3> QED
      BY <3>1, <3>2
  <2>4. CASE bytes[i] = "lead"
    <3>1. i < n /\ bytes[i + 1] = "tail"
      BY <2>2, <2>4 DEF Whole
    <3>2. Whole(sub, j) <=> j < end - start
      <4>1. Whole(sub, j) <=> j < Len(sub) /\ sub[j + 1] = "tail"
        BY <2>1, <2>4 DEF Whole
      <4>2. j < end - start => sub[j + 1] = bytes[i + 1]
        <5> SUFFICES ASSUME j < end - start PROVE sub[j + 1] = bytes[i + 1]
          OBVIOUS
        <5>1. j + 1 \in 1..(end - start) /\ start + (j + 1) = i + 1
          BY <1>1, <1>5
        <5> QED
          BY <1>6, <5>1
      <4> QED
        BY <1>6, <3>1, <4>1, <4>2
    <3>3. j < end - start <=> j # F
      BY <1>1, <1>5, <2>1, <3>1
    <3>4. CutInside(bytes, i) <=> i % F = 0
      BY <2>4 DEF CutInside, F
    <3>5. CASE j = F
      <4>1. i = (k + 1) * F + 0 /\ 0 \in 0..F-1 /\ k + 1 \in Int
        BY <1>1, <1>2, <3>5
      <4>2. i % F = 0
        BY <1>1, <4>1, Remainder
      <4> QED
        BY <3>2, <3>3, <3>4, <3>5, <4>2
    <3>6. CASE j # F
      <4>1. i = k * F + j /\ j \in 0..F-1 /\ k \in Int
        BY <1>1, <2>1, <3>6 DEF start
      <4>2. i % F = j
        BY <1>1, <4>1, Remainder
      <4> QED
        BY <3>2, <3>3, <3>4, <3>6, <4>2
    <3> QED
      BY <3>5, <3>6
  <2>5. CASE bytes[i] = "tail"
    <3>1. i > 1 /\ bytes[i - 1] = "lead"
      BY <2>2, <2>5 DEF Whole
    <3>2. Whole(sub, j) <=> j > 1
      <4>1. Whole(sub, j) <=> j > 1 /\ sub[j - 1] = "lead"
        BY <2>1, <2>5 DEF Whole
      <4>2. j > 1 => sub[j - 1] = bytes[i - 1]
        <5> SUFFICES ASSUME j > 1 PROVE sub[j - 1] = bytes[i - 1]
          OBVIOUS
        <5>1. j - 1 \in 1..(end - start) /\ start + (j - 1) = i - 1
          BY <1>1, <1>5
        <5> QED
          BY <1>6, <5>1
      <4> QED
        BY <3>1, <4>1, <4>2
    <3>3. CutInside(bytes, i) <=> (i - 1) % F = 0
      BY <2>5 DEF CutInside, F
    <3>4. i - 1 = k * F + (j - 1) /\ j - 1 \in 0..F-1 /\ k \in Int
      BY <1>1, <2>1 DEF start
    <3>5. (i - 1) % F = j - 1
      BY <1>1, <3>4, Remainder
    <3> QED
      BY <3>2, <3>3, <3>5
  <2> QED
    BY <2>2, <2>3, <2>4, <2>5
<1>9. Chunk(bytes, k) = [j \in 1..(end - start) |-> Arrived(bytes)[start + j]]
  <2>1. ASSUME NEW j \in 1..(end - start)
        PROVE  (IF Whole(sub, j) THEN sub[j] ELSE "?") = Arrived(bytes)[start + j]
    <3>1. start + j \in DOMAIN bytes
      BY <1>1, <1>4, <1>5
    <3> QED
      BY <1>6, <1>8, <3>1 DEF Arrived
  <2> QED
    BY <1>7, <2>1
<1>10. SubSeq(Arrived(bytes), start + 1, end)
         = [j \in 1..(end - start) |-> Arrived(bytes)[start + j]]
  <2>1. Arrived(bytes) \in Seq({"one", "lead", "tail", "?"}) /\ Len(Arrived(bytes)) = n
    BY <1>1, <1>4 DEF Arrived
  <2> QED
    BY <1>1, <1>5, <2>1
<1> QED
  BY <1>3, <1>5, <1>9, <1>10 DEF n, start, F

\* All fragments of a message, joined in order, are what arrives of it.
LEMMA JoinedIs ==
  ASSUME NEW bytes, Utf8(bytes), Total(bytes) # 0, NEW s, s.total = Total(bytes),
         \A i \in 0..s.total-1 : s.parts[i] = Chunk(bytes, i)
  PROVE  Joined(s) = Arrived(bytes)
<1> DEFINE n == s.total
           A == Arrived(bytes)
           seqs == [i \in 1..n |-> s.parts[i - 1]]
           G == [i \in 1..n |-> SubSeq(A, 1, End(bytes, i))]
<1>1. /\ n \in Nat \ {0} /\ End(bytes, n) = Len(bytes)
      /\ \A i \in 0..n-1 : i * FragmentSize \in Nat /\ i * FragmentSize < Len(bytes)
  BY CutsAre
<1>2. A \in Seq({"one", "lead", "tail", "?"}) /\ Len(A) = Len(bytes) /\ Len(bytes) \in Nat
  BY DEF Utf8, Arrived
<1>3. ASSUME NEW i \in 1..n
      PROVE  /\ End(bytes, i - 1) \in Nat /\ End(bytes, i) \in Nat
             /\ End(bytes, i - 1) < End(bytes, i) /\ End(bytes, i) <= Len(A)
             /\ seqs[i] = SubSeq(A, End(bytes, i - 1) + 1, End(bytes, i))
  <2> DEFINE k == i - 1
  <2>1. k \in 0..n-1 /\ k \in Nat /\ k + 1 = i
    BY <1>1
  <2> HIDE DEF k
  <2>2. k * FragmentSize \in Nat /\ k * FragmentSize < Len(bytes)
    BY <1>1, <2>1
  <2>3. seqs[i] = Chunk(bytes, k)
    BY <1>1, <2>1 DEF k
  <2> HIDE DEF seqs
  <2>4. /\ End(bytes, k) = k * FragmentSize /\ End(bytes, k + 1) \in Nat
        /\ End(bytes, k) < End(bytes, k + 1) /\ End(bytes, k + 1) <= Len(bytes)
        /\ Chunk(bytes, k) = SubSeq(A, End(bytes, k) + 1, End(bytes, k + 1))
    BY <2>1, <2>2, ChunkIs
  <2>5. k = i - 1
    BY DEF k
  <2> QED
    BY <1>2, <2>1, <2>2, <2>3, <2>4, <2>5
<1>4. G[1] = seqs[1]
  <2>1. End(bytes, 0) = 0
    <3>1. 0 \in 0..n-1 /\ 0 * FragmentSize = 0
      BY <1>1, FragmentsAssumption
    <3>2. 0 < Len(bytes)
      BY <1>1, <3>1
    <3> QED
      BY <3>1, <3>2 DEF End
  <2>2. 1 \in 1..n /\ 1 - 1 = 0
    BY <1>1
  <2>3. seqs[1] = SubSeq(A, End(bytes, 1 - 1) + 1, End(bytes, 1))
    BY <1>3, <2>2
  <2>4. G[1] = SubSeq(A, 1, End(bytes, 1))
    BY <2>2
  <2>5. End(bytes, 1 - 1) + 1 = 1
    BY <2>1, <2>2
  <2> HIDE DEF seqs, G, A
  <2> QED
    BY <2>3, <2>4, <2>5
<1>5. ASSUME NEW i \in 1..n, i # 1 PROVE G[i] = G[i - 1] \o seqs[i]
  <2>1. i - 1 \in 1..n
    BY <1>1, <1>5
  <2>2. /\ G[i] = SubSeq(A, 1, End(bytes, i))
        /\ G[i - 1] = SubSeq(A, 1, End(bytes, i - 1))
    BY <2>1
  <2> HIDE DEF G, seqs, A
  <2>3. SubSeq(A, 1, End(bytes, i - 1)) \o SubSeq(A, End(bytes, i - 1) + 1, End(bytes, i))
          = SubSeq(A, 1, End(bytes, i))
    <3>1. /\ 1 \in 1..Len(A)+1 /\ End(bytes, i - 1) \in 1-1..Len(A)
          /\ End(bytes, i) \in End(bytes, i - 1)..Len(A)
      BY <1>2, <1>3
    <3> QED
      BY <1>2, <3>1, ConcatAdjacentSubSeq
  <2> QED
    BY <1>3, <2>2, <2>3
<1>6. G[n] = A
  <2>1. n \in 1..n /\ G[n] = SubSeq(A, 1, Len(A))
    BY <1>1, <1>2
  <2> HIDE DEF A, G
  <2> QED
    BY <1>2, <2>1, SubSeqFull
<1>7. Joined(s) = FlattenSeq(seqs)
  BY DEF Joined
<1>8. seqs = [i \in 1..n |-> seqs[i]]
  OBVIOUS
<1> HIDE DEF seqs, G, n, A
<1>9. FlattenSeq(seqs) = G[n]
  <2>1. n \in Nat \ {0}
    BY <1>1
  <2>2. \A i \in 1..n : i # 1 => G[i] = G[i - 1] \o seqs[i]
    BY <1>5
  <2> QED
    <3>1. Flattens(seqs, n, G)
      BY <1>4, <1>8, <2>2, Zenon DEF Flattens
    <3> QED
      BY <2>1, <3>1, FlattenIs, Zenon
<1> QED
  BY <1>6, <1>7, <1>9 DEF A

----------------------------------------------------------------------------
(* The reassembly of fragments.                                            *)

\* A session knows the total of one message of its identity, has parts of
\* messages of its identity, each the fragment of its index, counts them rightly,
\* and is not complete.
SessionOK(k, s) ==
  /\ DOMAIN s = {"parts", "total", "received", "started"}
  /\ IsFiniteSet(DOMAIN s.parts) /\ s.received = Cardinality(DOMAIN s.parts)
  /\ \E m \in Under(k) : s.total = Total(m.bytes)
  /\ \A i \in DOMAIN s.parts :
       \E m \in Under(k) : i \in 0..Total(m.bytes)-1 /\ s.parts[i] = Chunk(m.bytes, i)

Complete(s) == s.received >= s.total /\ 0..s.total-1 \subseteq DOMAIN s.parts

FragmentsInv ==
  /\ mail \in Mailbags
  /\ \A k \in DOMAIN sessions : SessionOK(k, sessions[k]) /\ ~Complete(sessions[k])

\* The number of fragments is a number.
LEMMA TotalIs ==
  ASSUME mail \in Mailbags, NEW m \in mail
  PROVE  Total(m.bytes) \in Int
<1>1. Len(m.bytes) \in Nat
  BY FragmentsAssumption DEF Utf8
<1> QED
  BY <1>1, FragmentsAssumption DEF Total

\* A fragment is of a message of its identity, and within its number of fragments.
LEMMA FragmentIs ==
  ASSUME NEW f \in Wire, f.total # 0
  PROVE  \E m \in Under(f.key) : /\ f.total = Total(m.bytes) /\ f.index \in 0..f.total-1
                                 /\ f.text = Chunk(m.bytes, f.index)
<1>1. PICK m \in mail, ts \in Times : f \in SplitLargeMessage(m, ts)
  BY DEF Wire
<1>2. f # Plain(m, ts)
  BY DEF Plain
<1>3. PICK i \in 0..Total(m.bytes)-1 :
         f = [key |-> <<m.from, m.id>>, ts |-> ts, total |-> Total(m.bytes),
              index |-> i, text |-> Chunk(m.bytes, i)]
  BY <1>1, <1>2 DEF SplitLargeMessage
<1>4. /\ m \in Under(f.key) /\ f.total = Total(m.bytes) /\ f.index = i
      /\ f.text = Chunk(m.bytes, i)
  BY <1>3 DEF Under
<1> QED
  BY <1>3, <1>4

\* A new session is empty, and an old one goes on.
LEMMA SessionIs ==
  ASSUME FragmentsInv, NEW f \in Wire, f.total # 0
  PROVE  SessionOK(f.key, Session(f))
<1>1. CASE Session(f) = NewSession(f)
  <2>1. DOMAIN NewSession(f).parts = {} /\ NewSession(f).received = 0
        /\ NewSession(f).total = f.total
        /\ DOMAIN NewSession(f) = {"parts", "total", "received", "started"}
    BY DEF NewSession
  <2>2. \E m \in Under(f.key) : f.total = Total(m.bytes)
    BY FragmentIs
  <2> QED
    BY <1>1, <2>1, <2>2, FS_EmptySet DEF SessionOK
<1>2. CASE Session(f) # NewSession(f)
  <2>1. f.key \in DOMAIN sessions /\ Session(f) = sessions[f.key]
    BY <1>2 DEF Session
  <2> QED
    BY <2>1 DEF FragmentsInv
<1> QED
  BY <1>1, <1>2

\* A fragment put into a session is counted once.
LEMMA InsertIs ==
  ASSUME NEW f \in Wire, f.total # 0, NEW s, SessionOK(f.key, s)
  PROVE  SessionOK(f.key, Insert(s, f))
<1> DEFINE parts == With(s.parts, f.index, f.text)
           received == IF f.index \in DOMAIN s.parts THEN s.received ELSE s.received + 1
<1>1. /\ Insert(s, f).parts = parts /\ Insert(s, f).received = received
      /\ Insert(s, f).total = s.total
      /\ DOMAIN Insert(s, f) = {"parts", "total", "received", "started"}
  BY DEF SessionOK, Insert
<1>2. /\ DOMAIN parts = DOMAIN s.parts \cup {f.index} /\ parts[f.index] = f.text
      /\ \A i \in DOMAIN s.parts \ {f.index} : parts[i] = s.parts[i]
  BY DEF With
<1>3. IsFiniteSet(DOMAIN parts) /\ received = Cardinality(DOMAIN parts)
  <2>1. CASE f.index \in DOMAIN s.parts
    <3>1. DOMAIN parts = DOMAIN s.parts
      BY <1>2, <2>1
    <3> QED
      BY <2>1, <3>1 DEF SessionOK
  <2>2. CASE f.index \notin DOMAIN s.parts
    BY <1>2, <2>2, FS_AddElement DEF SessionOK
  <2> QED
    BY <2>1, <2>2
<1>4. \A i \in DOMAIN parts :
        \E m \in Under(f.key) : i \in 0..Total(m.bytes)-1 /\ parts[i] = Chunk(m.bytes, i)
  <2>1. \E m \in Under(f.key) : /\ f.index \in 0..Total(m.bytes)-1
                                /\ parts[f.index] = Chunk(m.bytes, f.index)
    BY <1>2, FragmentIs
  <2>2. \A i \in DOMAIN s.parts :
          \E m \in Under(f.key) : /\ i \in 0..Total(m.bytes)-1
                                  /\ s.parts[i] = Chunk(m.bytes, i)
    BY DEF SessionOK
  <2> HIDE DEF parts
  <2> QED
    BY <1>2, <2>1, <2>2
<1> HIDE DEF parts, received
<1> QED
  BY <1>1, <1>3, <1>4 DEF SessionOK

\* A fragment arrives.
LEMMA IngestStep ==
  ASSUME FragmentsInv, NEW f \in Wire, Ingest(f), mail' = mail
  PROVE  FragmentsInv'
<1>1. CASE f.total = 0
  BY <1>1 DEF Ingest, FragmentsInv, SessionOK, Complete, Under
<1>2. CASE f.total # 0
  <2> DEFINE s == Insert(Session(f), f)
  <2>1. SessionOK(f.key, s)
    BY <1>2, SessionIs, InsertIs
  <2>2. \/ Complete(s) /\ Forget({f.key})
        \/ ~Complete(s) /\ Keep(f.key, s)
    BY <1>2 DEF Ingest, Complete
  <2> HIDE DEF s
  <2>3. ASSUME NEW k, NEW r, SessionOK(k, r) PROVE SessionOK(k, r)'
    BY <2>3 DEF SessionOK, Under
  <2>4. CASE Complete(s) /\ Forget({f.key})
    <3>1. \A k \in DOMAIN sessions' : k \in DOMAIN sessions /\ sessions'[k] = sessions[k]
      BY <2>4 DEF Forget
    <3> QED
      BY <2>3, <3>1 DEF FragmentsInv, Complete
  <2>5. CASE ~Complete(s) /\ Keep(f.key, s)
    <3>1. /\ DOMAIN sessions' = DOMAIN sessions \cup {f.key}
          /\ sessions'[f.key] = s
          /\ \A k \in DOMAIN sessions \ {f.key} : sessions'[k] = sessions[k]
      BY <2>5 DEF Keep, With
    <3>2. ASSUME NEW k \in DOMAIN sessions'
          PROVE  SessionOK(k, sessions'[k]) /\ ~Complete(sessions'[k])
      BY <2>1, <2>5, <3>1, <3>2 DEF FragmentsInv
    <3> QED
      BY <3>2 DEF FragmentsInv, SessionOK, Complete, Under
  <2> QED
    BY <2>2, <2>4, <2>5
<1> QED
  BY <1>1, <1>2

\* Every session that is kept is of its identity, and incomplete.
THEOREM FragmentsInvariance == FragmentsSpec => []FragmentsInv
<1>1. FragmentsInit => FragmentsInv
  BY DEF FragmentsInit, FragmentsInv
<1>2. ASSUME FragmentsInv, [FragmentsNext]_fragments PROVE FragmentsInv'
  <2>1. CASE \E f \in Wire : Ingest(f) /\ UNCHANGED mail
    BY <1>2, <2>1, IngestStep
  <2>2. CASE \E now \in Times : PurgeStale(now) /\ UNCHANGED mail
    BY <1>2, <2>2 DEF PurgeStale, Forget, FragmentsInv, SessionOK, Complete, Under
  <2>3. CASE UNCHANGED fragments
    BY <1>2, <2>3 DEF fragments, FragmentsInv, SessionOK, Complete, Under
  <2> QED
    BY <1>2, <2>1, <2>2, <2>3 DEF FragmentsNext
<1> QED
  BY <1>1, <1>2, PTL DEF FragmentsSpec

\* A session that is kept counts its fragments rightly, for messages, fragments
\* and clocks of every size; one that has all it counts on, and is stuck, is of
\* an identity given to two messages of different sizes (ingest in fragment.rs).
THEOREM StuckOnlyIfReused == FragmentsSpec => []LeftIsIncomplete
<1>1. ASSUME FragmentsInv, NEW k \in DOMAIN sessions
      PROVE  LET s == sessions[k]
             IN  /\ s.received = Cardinality(DOMAIN s.parts)
                 /\ s.received >= s.total =>
                      \E m, n \in Under(k) : Total(m.bytes) # Total(n.bytes)
  <2> DEFINE s == sessions[k]
  <2>1. SessionOK(k, s) /\ ~Complete(s) /\ mail \in Mailbags
    BY <1>1 DEF FragmentsInv
  <2> HIDE DEF s
  <2>2. PICK m \in Under(k) : s.total = Total(m.bytes)
    BY <2>1 DEF SessionOK
  <2>3. ASSUME s.received >= s.total, \A n \in Under(k) : Total(n.bytes) = Total(m.bytes)
        PROVE  FALSE
    <3>1. s.total \in Int
      BY <2>1, <2>2, TotalIs DEF Under
    <3>2. DOMAIN s.parts \subseteq 0..s.total-1
      BY <2>1, <2>2, <2>3 DEF SessionOK
    <3>3. IsFiniteSet(0..s.total-1)
          /\ Cardinality(0..s.total-1) = IF 0 > s.total-1 THEN 0 ELSE s.total
      BY <3>1, FS_Interval
    <3>4. s.received <= Cardinality(0..s.total-1) /\ s.received \in Nat
          /\ (s.received = Cardinality(0..s.total-1) => DOMAIN s.parts = 0..s.total-1)
      <4>1. s.received = Cardinality(DOMAIN s.parts)
        BY <2>1 DEF SessionOK
      <4>2. Cardinality(DOMAIN s.parts) <= Cardinality(0..s.total-1)
            /\ IsFiniteSet(DOMAIN s.parts)
        BY <3>2, <3>3, FS_Subset
      <4>3. Cardinality(DOMAIN s.parts) = Cardinality(0..s.total-1)
            => DOMAIN s.parts = 0..s.total-1
        BY <3>2, <3>3, FS_Subset
      <4> QED
        BY <4>1, <4>2, <4>3, FS_CardinalityType
    <3>5. CASE s.total <= 0
      <4>1. 0..s.total-1 = {}
        BY <3>1, <3>5
      <4> QED
        BY <2>1, <2>3, <4>1 DEF Complete
    <3>6. CASE s.total > 0
      <4>1. s.received = Cardinality(0..s.total-1)
        BY <2>3, <3>1, <3>3, <3>4, <3>6
      <4> QED
        BY <2>1, <2>3, <3>4, <4>1 DEF Complete
    <3> QED
      BY <3>1, <3>5, <3>6
  <2>4. s.received = Cardinality(DOMAIN s.parts)
    BY <2>1 DEF SessionOK
  <2> QED
    BY <2>2, <2>3, <2>4 DEF s
<1>2. FragmentsInv => LeftIsIncomplete
  BY <1>1 DEF LeftIsIncomplete
<1> QED
  BY <1>2, FragmentsInvariance, PTL

\* A message that needs no cut arrives as it is.
LEMMA PlainIs ==
  ASSUME NEW bytes, Utf8(bytes), Len(bytes) <= FragmentSize
  PROVE  Arrived(bytes) = bytes
<1>1. Len(bytes) \in Nat /\ FragmentSize \in Nat \ {0}
  BY FragmentsAssumption DEF Utf8
<1>2. ASSUME NEW i \in 1..Len(bytes) PROVE ~CutInside(bytes, i)
  <2>1. Whole(bytes, i) /\ i \in Nat /\ i >= 1
    BY <1>2 DEF Utf8
  <2>2. ASSUME bytes[i] = "lead" PROVE i % FragmentSize # 0
    <3>1. i < Len(bytes)
      BY <2>1, <2>2 DEF Whole
    <3>2. i \in 0..FragmentSize-1 /\ 0 * FragmentSize + i = i
      BY <1>1, <2>1, <3>1
    <3>3. i % FragmentSize = i
      BY <1>1, <3>2, Remainder
    <3> QED
      BY <2>1, <3>3
  <2>3. ASSUME bytes[i] = "tail" PROVE (i - 1) % FragmentSize # 0
    <3>1. i > 1
      BY <2>1, <2>3 DEF Whole
    <3>2. /\ i - 1 \in 0..FragmentSize-1 /\ 0 * FragmentSize + (i - 1) = i - 1
          /\ i - 1 # 0
      BY <1>1, <1>2, <2>1, <3>1
    <3>3. (i - 1) % FragmentSize = i - 1
      BY <1>1, <3>2, Remainder
    <3> QED
      BY <3>2, <3>3
  <2> QED
    BY <2>2, <2>3 DEF CutInside
<1>3. bytes = [i \in 1..Len(bytes) |-> bytes[i]] /\ DOMAIN bytes = 1..Len(bytes)
  BY DEF Utf8
<1> QED
  BY <1>2, <1>3 DEF Arrived

\* What a fragment hands over is the one message of its identity.
LEMMA HandedIs ==
  ASSUME FragmentsInv, NEW f \in Wire, Ingest(f), NEW h \in handed', h \notin handed,
         OneMessage(h.key), NEW m \in Under(h.key)
  PROVE  h.text = Arrived(m.bytes)
<1>1. /\ mail \in Mailbags /\ m \in mail /\ Utf8(m.bytes)
      /\ \A n \in mail : Utf8(n.bytes)
  BY FragmentsAssumption DEF FragmentsInv, Under
<1>2. Under(h.key) = {m}
  <2>1. IsFiniteSet(Under(h.key))
    BY <1>1, FragmentsAssumption, FS_Subset DEF Under
  <2>2. PICK x : Under(h.key) = {x}
    BY <2>1, FS_Singleton DEF OneMessage
  <2> QED
    BY <2>2
<1>3. CASE f.total = 0
  <2>1. h.key = f.key /\ h.text = f.text
    BY <1>3 DEF Ingest, HandOver
  <2>2. PICK n \in mail, ts \in Times : f \in SplitLargeMessage(n, ts)
    BY DEF Wire
  <2>3. CASE Len(n.bytes) <= FragmentSize
    <3>1. f = Plain(n, ts)
      BY <2>2, <2>3 DEF SplitLargeMessage
    <3>2. n \in Under(h.key) /\ h.text = n.bytes
      BY <2>1, <3>1 DEF Plain, Under
    <3> QED
      BY <1>1, <1>2, <2>3, <3>2, PlainIs
  <2>4. CASE ~(Len(n.bytes) <= FragmentSize)
    <3>1. PICK i \in 0..Total(n.bytes)-1 : f.total = Total(n.bytes)
      BY <2>2, <2>4 DEF SplitLargeMessage
    <3> QED
      BY <1>3, <3>1
  <2> QED
    BY <2>3, <2>4
<1>4. CASE f.total # 0
  <2> DEFINE s == Insert(Session(f), f)
  <2>1. SessionOK(f.key, s)
    BY <1>4, SessionIs, InsertIs
  <2>2. Complete(s) /\ h.key = f.key /\ h.text = Joined(s)
    BY <1>4 DEF Ingest, HandOver, Complete
  <2> HIDE DEF s
  <2>3. s.total = Total(m.bytes) /\ \A i \in 0..s.total-1 : s.parts[i] = Chunk(m.bytes, i)
    BY <1>2, <2>1, <2>2 DEF SessionOK, Complete
  <2>4. Total(m.bytes) # 0
    <3>1. \E n \in Under(f.key) : f.total = Total(n.bytes)
      BY <1>4, FragmentIs
    <3> QED
      BY <1>2, <1>4, <2>2, <3>1
  <2> QED
    BY <1>1, <2>2, <2>3, <2>4, JoinedIs
<1> QED
  BY <1>3, <1>4

\* What the reassembler hands over is the message that was split, for messages and
\* fragments of every size and for fragments in any order, repeated and restarted:
\* only characters a cut falls inside are lost (split_large_message, ingest).
THEOREM WholeMessageArrives == FragmentsSpec => []WholeMessage
<1>1. FragmentsInit => WholeMessage
  BY DEF FragmentsInit, WholeMessage
<1>2. ASSUME FragmentsInv, WholeMessage, [FragmentsNext]_fragments PROVE WholeMessage'
  <2>1. mail' = mail
    BY <1>2 DEF FragmentsNext, fragments
  <2>2. ASSUME NEW h \in handed', OneMessage(h.key), NEW m \in Under(h.key)
        PROVE  h.text = Arrived(m.bytes)
    <3>1. CASE h \in handed
      BY <1>2, <2>2, <3>1 DEF WholeMessage
    <3>2. CASE h \notin handed
      <4>1. PICK f \in Wire : Ingest(f)
        BY <1>2, <3>2 DEF FragmentsNext, fragments, PurgeStale
      <4> QED
        BY <1>2, <2>2, <3>2, <4>1, HandedIs
    <3> QED
      BY <3>1, <3>2
  <2>3. \A h : (OneMessage(h.key))' <=> OneMessage(h.key)
    BY <2>1 DEF OneMessage, Under
  <2>4. \A h : (Under(h.key))' = Under(h.key)
    BY <2>1 DEF Under
  <2> QED
    BY <2>2, <2>3, <2>4 DEF WholeMessage
<1> QED
  BY <1>1, <1>2, FragmentsInvariance, PTL DEF FragmentsSpec

----------------------------------------------------------------------------
(* The three parts in one behaviour.                                       *)

\* The commands keep their invariant; where no command was started, none is.
PartsInv == TerminalInv /\ IF part = "client" THEN CommandInv ELSE NoCommand

\* A behaviour of one part leaves the others as they were, and every part that
\* moves keeps its type.
THEOREM PartsTypeCorrect == Spec => []PartsTypeOK
<1>1. Init => PartsInv
  BY TerminalStarts, CommandStarts DEF Init, PartsInv
<1>2. ASSUME PartsInv, [Next]_vars PROVE PartsInv'
  <2>1. /\ part' = part /\ [TerminalNext]_terminal /\ [ClientNext]_client
        /\ part # "client" => UNCHANGED client
    BY <1>2 DEF Next, vars
  <2>2. TerminalInv'
    BY <1>2, <2>1, TerminalStep DEF PartsInv
  <2>3. CASE part = "client"
    BY <1>2, <2>1, <2>2, <2>3, CommandStep DEF PartsInv
  <2>4. CASE part # "client"
    BY <1>2, <2>1, <2>2, <2>4 DEF PartsInv, NoCommand, client
  <2> QED
    BY <2>3, <2>4
<1>3. ASSUME NoCommand PROVE ClientTypeOK
  BY <1>3, ClientAssumption DEF NoCommand, ClientTypeOK, RoundsOf, current, Nothing
<1>4. PartsInv => PartsTypeOK
  BY <1>3, TerminalTyped, ClientTyped DEF PartsInv, PartsTypeOK
<1> QED
  BY <1>1, <1>2, <1>4, PTL DEF Spec

=============================================================================
