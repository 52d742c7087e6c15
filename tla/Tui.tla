-------------------------------- MODULE Tui --------------------------------
(* tui.rs: the state of the full-screen interface and what a key does to it.
   Lists are known by their lengths, except the posts of the timeline, where it
   matters whether the cut at 12 or 60 bytes falls inside a character, and the
   input line, where it matters whether a character is blank. *)
EXTENDS Naturals, Sequences

CONSTANTS
    MenuItems,  \* 7
    Groups,     \* 5, built in
    BannerTime, \* 5: redraws a notification stays for
    Rows        \* posts that fit on the screen

ASSUME TuiAssumption ==
    /\ MenuItems \in Nat \ {0} /\ Groups \in Nat \ {0}
    /\ BannerTime \in Nat \ {0} /\ Rows \in Nat

\* saved is what the directory holds: the number of contacts, and the posts.
NewApp(saved) ==
    [view |-> "home", menu |-> 0, contact |-> 0, contacts |-> saved.contacts,
     chat |-> 0, input |-> <<>>, messages |-> 0, scroll |-> 0,
     timeline |-> saved.timeline, above |-> 0, group |-> 0,
     banner |-> FALSE, timer |-> 0, dark |-> TRUE, accessible |-> FALSE]

OpenChat(app) ==
    [app EXCEPT !.view = "chat", !.chat = app.contact,
                !.input = <<>>, !.messages = 0, !.scroll = 0]
CloseChat(app) == [app EXCEPT !.view = "contacts", !.input = <<>>, !.messages = 0]

\* The message is kept on the screen only.
SendMessage(app) ==
    IF \E i \in DOMAIN app.input : app.input[i] = "ink"
    THEN [app EXCEPT !.messages = @ + 1, !.input = <<>>]
    ELSE app

Announce(app) == [app EXCEPT !.banner = TRUE, !.timer = BannerTime]

\* Mutant: the queue is cleared one draw too early.
TickEarly(app) ==
    IF app.timer = 0 THEN app
    ELSE [app EXCEPT !.timer = @ - 1, !.banner = app.timer > 2]

TickNotification(app) ==
    IF app.timer = 0 THEN app
    ELSE [app EXCEPT !.timer = @ - 1, !.banner = app.timer > 1]

Less(n) == IF n > 0 THEN n - 1 ELSE n
More(n, size) == IF n + 1 < size THEN n + 1 ELSE n

Previous(app) ==
    CASE app.view = "home" -> [app EXCEPT !.menu = Less(@)]
      [] app.view = "contacts" -> [app EXCEPT !.contact = Less(@)]
      [] app.view = "chat" -> [app EXCEPT !.scroll = More(@, app.messages)]
      [] app.view = "timeline" -> [app EXCEPT !.above = More(@, Len(app.timeline))]
      [] app.view = "groups" -> [app EXCEPT !.group = Less(@)]

Following(app) ==
    CASE app.view = "home" -> [app EXCEPT !.menu = More(@, MenuItems)]
      [] app.view = "contacts" -> [app EXCEPT !.contact = More(@, app.contacts)]
      [] app.view = "chat" -> [app EXCEPT !.scroll = Less(@)]
      [] app.view = "timeline" -> [app EXCEPT !.above = Less(@)]
      [] app.view = "groups" -> [app EXCEPT !.group = More(@, Groups)]

\* Mutant: the list is loaded anew under the old selection.
ShowContactsSelected(app, saved) ==
    [app EXCEPT !.view = "contacts", !.contacts = saved.contacts]

ShowContacts(app, saved) ==
    [app EXCEPT !.view = "contacts", !.contact = 0, !.contacts = saved.contacts]
ShowTimeline(app, saved) ==
    [app EXCEPT !.view = "timeline", !.above = 0, !.timeline = saved.timeline]
ShowGroups(app) == [app EXCEPT !.view = "groups", !.group = 0]

Enter(app, saved) ==
    CASE app.view = "home" /\ app.menu = 0 -> ShowContacts(app, saved)
      [] app.view = "home" /\ app.menu = 2 -> ShowGroups(app)
      [] app.view = "home" /\ app.menu = 3 -> ShowTimeline(app, saved)
      [] app.view = "contacts" /\ app.contacts > 0 -> OpenChat(Announce(app))
      [] app.view = "chat" -> SendMessage(app)
      [] OTHER -> app

Escape(app) ==
    IF app.view = "chat" THEN CloseChat(app) ELSE [app EXCEPT !.view = "home"]

Quits(app, key) == key = "^q" \/ (app.view = "home" /\ key \in {"q", "esc"})

\* j and k scroll a conversation too: they cannot be typed, q can.
Typed(app, key) ==
    CASE key = "backspace" /\ app.input # <<>> ->
             [app EXCEPT !.input = SubSeq(@, 1, Len(@) - 1)]
      [] key = "blank" -> [app EXCEPT !.input = Append(@, "blank")]
      [] key \in {"ink", "q"} -> [app EXCEPT !.input = Append(@, "ink")]
      [] OTHER -> app

Pressed(app, key, saved) ==
    CASE key = "^c" -> ShowContacts(app, saved)
      [] key = "^t" -> ShowTimeline(app, saved)
      [] key = "^g" -> ShowGroups(app)
      [] key = "F5" -> [app EXCEPT !.dark = ~@]
      [] key = "F1" -> [app EXCEPT !.accessible = ~@]
      [] key = "esc" -> Escape(app)
      [] key \in {"up", "k"} -> Previous(app)
      [] key \in {"down", "j"} -> Following(app)
      [] key = "enter" -> Enter(app, saved)
      [] app.view = "chat" -> Typed(app, key)
      [] OTHER -> app

\* What is drawn: the posts on the screen, newest first.
Drawn(app) ==
    LET n == Len(app.timeline)
    IN {app.timeline[i] : i \in {i \in 1..n : i <= n - app.above /\ i > n - app.above - Rows}}

\* Drawing cuts a text at a byte that is not a character boundary.
Panics(app) == app.view = "timeline" /\ "cut" \in Drawn(app)
=============================================================================
