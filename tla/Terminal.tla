------------------------------ MODULE Terminal ------------------------------
(* One terminal and the two programs of agent-circle that take it over: the
   full-screen interface (Tui) and `service browse` (Browser).  The terminal is
   "cooked" or "raw".  tui.rs restores the mode it found, through crossterm;
   main.rs calls stty, whose failures it ignores, and leaves the terminal cooked
   whatever it was.  Either program may fail or be killed.  Another terminal
   writes the data directory meanwhile. *)
EXTENDS Tui, Browser

CONSTANTS
    TuiKeys,      \* keys pressed in the full-screen interface
    BrowserKeys,  \* keys pressed in `service browse`
    Markets,      \* numbers of services `service browse` may find
    Directories,  \* contacts and posts the data directory may hold
    MaxMessages, MaxInput, MaxLine  \* bounds

\* The keyboard sends bytes, the directory holds contacts and posts.
ASSUME TerminalAssumption ==
    /\ Markets \subseteq Nat
    /\ Directories \subseteq [contacts : Nat, timeline : Seq({"cut", "fits"})]
    /\ MaxLine \in Nat

VARIABLES
    program,  \* who reads the terminal: "shell", "tui" or "browser"
    tty,      \* "cooked" or "raw"
    before,   \* the mode the full-screen interface found
    app,      \* its App
    page,     \* the list of `service browse`
    line,     \* bytes sent by the keyboard and not yet read
    saved,    \* contacts and posts in the data directory
    abandoned \* ghost: a program has ended in raw mode, without putting back the
              \* mode it found, since the terminal was last handed back cooked

terminal == <<program, tty, before, app, page, line, saved, abandoned>>

Empty == [contacts |-> 0, timeline |-> <<>>]

Hands(to, mode) == program' = to /\ tty' = mode
Shows(shown) == app' = TickNotification(shown)

\* A program ends: having set the mode of the terminal, or leaving it as it was.
Restored(mode) == Hands("shell", mode) /\ abandoned' = (abandoned /\ mode = "raw")
Abandoned(mode) == Hands("shell", mode) /\ abandoned' = (mode = "raw")

TerminalInit ==
    /\ program = "shell" /\ tty = "cooked" /\ before = "cooked"
    /\ saved = Empty
    /\ app = NewApp(saved) /\ page = Opened(0) /\ line = <<>>
    /\ abandoned = FALSE

\* The first frame is the home view, which cuts no text.
StartTui ==
    /\ program = "shell"
    /\ Hands("tui", "raw") /\ before' = tty /\ Shows(NewApp(saved))
    /\ UNCHANGED <<page, line, saved, abandoned>>

\* The terminal is raw when the alternate screen cannot be entered, or the
\* size of the terminal cannot be read: both return at once.
StartTuiFails ==
    /\ program = "shell"
    /\ Abandoned("raw")
    /\ UNCHANGED <<before, app, page, line, saved>>

TuiKey(key) ==
    /\ program = "tui" /\ ~Quits(app, key)
    /\ LET shown == Pressed(app, key, saved)
       IN IF Panics(shown)
          THEN Abandoned(tty) /\ app' = NewApp(Empty)
          ELSE Shows(shown) /\ UNCHANGED <<program, tty, abandoned>>
    /\ Len(app'.input) <= MaxInput /\ app'.messages <= MaxMessages
    /\ UNCHANGED <<before, page, line, saved>>

\* The restoring may itself fail.
TuiRestores == Restored(before) \/ Abandoned(tty)

TuiQuit(key) ==
    /\ program = "tui" /\ Quits(app, key)
    /\ TuiRestores /\ app' = NewApp(Empty)
    /\ UNCHANGED <<before, page, line, saved>>

\* Mutant: the error returns at once, before the terminal is restored.
TuiFailsAtOnce ==
    /\ program = "tui"
    /\ Hands("shell", tty) /\ app' = NewApp(Empty)
    /\ UNCHANGED <<before, page, line, saved, abandoned>>

\* An error of drawing or of reading an event is kept until the terminal is
\* restored.
TuiFails ==
    /\ program = "tui"
    /\ TuiRestores /\ app' = NewApp(Empty)
    /\ UNCHANGED <<before, page, line, saved>>

\* The process is killed.
TuiDies ==
    /\ program = "tui"
    /\ Abandoned(tty) /\ app' = NewApp(Empty)
    /\ UNCHANGED <<before, page, line, saved>>

\* An empty market is reported without touching the terminal.  When stty fails,
\* the terminal stays as it is.
StartBrowser(n) ==
    /\ program = "shell" /\ n > 0
    /\ \E mode \in {"raw", tty} : Hands("browser", mode)
    /\ page' = Opened(n)
    /\ UNCHANGED <<before, app, line, saved, abandoned>>

Press(key) ==
    /\ program = "browser" /\ Len(line \o Sends(key)) <= MaxLine
    /\ line' = line \o Sends(key)
    /\ UNCHANGED <<program, tty, before, app, page, saved, abandoned>>

\* Enter shows the details of a service in cooked mode, and turns raw mode on
\* again before it reads.
ShowsDetails(byte) == page.reads = "key" /\ byte = "enter"

\* The bytes of a key arrive together or, on a slow line, apart.  What was typed
\* ahead of the end goes to the shell.
ReadByte(k) ==
    /\ program = "browser" /\ k <= Len(line)
    /\ IF Closes(page, line[1])
       THEN /\ Restored("cooked") \/ Abandoned(tty)
            /\ page' = Opened(0) /\ line' = <<>>
       ELSE /\ page' = Takes(page, line[1])
            /\ line' = SubSeq(line, k + 1, Len(line))
            /\ tty' \in IF ShowsDetails(line[1]) THEN {"raw", "cooked", tty} ELSE {tty}
            /\ UNCHANGED <<program, abandoned>>
    /\ UNCHANGED <<before, app, saved>>

\* The process is killed, perhaps between the two modes of the details, or it
\* panics: println! does when the output is closed.
BrowserDies ==
    /\ program = "browser"
    /\ \/ Abandoned(tty)
       \/ line # <<>> /\ ShowsDetails(line[1]) /\ Abandoned("cooked")
    /\ page' = Opened(0) /\ line' = <<>>
    /\ UNCHANGED <<before, app, saved>>

\* Commands run in another terminal change the files; one that does not parse
\* is loaded as an empty one.  `service browse` reads neither file, so what
\* happens meanwhile is left to the time after it.
Elsewhere(files) ==
    /\ program # "browser" /\ saved' = files
    /\ UNCHANGED <<program, tty, before, app, page, line, abandoned>>

TerminalNext ==
    \/ StartTui \/ StartTuiFails \/ TuiFails \/ TuiDies \/ BrowserDies
    \/ \E key \in TuiKeys : TuiKey(key) \/ TuiQuit(key)
    \/ \E n \in Markets : StartBrowser(n)
    \/ \E key \in BrowserKeys : Press(key)
    \/ \E k \in 1..BufSize : ReadByte(k)
    \/ \E files \in Directories : Elsewhere(files)

TerminalSpec == TerminalInit /\ [][TerminalNext]_terminal

------------------------------------------------------------------------------
\* The state of the terminal and of the two programs has its type; the counters
\* stay within their bounds (App in tui.rs, cmd_service_browse in main.rs).
TerminalTypeOK ==
    /\ program \in {"shell", "tui", "browser"}
    /\ tty \in {"cooked", "raw"} /\ before \in {"cooked", "raw"}
    /\ app.menu \in 0..MenuItems-1 /\ app.group \in 0..Groups-1
    /\ app.timer \in 0..BannerTime /\ (app.timer > 0 <=> app.banner)
    /\ page.reads \in {"key", "escape", "sequence", "pageup", "pagedown", "details"}
    /\ Len(line) <= MaxLine /\ abandoned \in BOOLEAN

\* Whatever is selected exists in the list that is shown, though the list is
\* loaded anew and other terminals add to it, lose it or empty it: Enter on a
\* contact, which indexes the list, cannot panic, a conversation is with a
\* contact, and no scrolling passes the first message or post
\* (open_chat, previous, next and the shortcuts of run_app).
SelectionExists ==
    /\ app.contact = 0 \/ app.contact < app.contacts
    /\ app.view = "chat" => app.chat < app.contacts
    /\ app.scroll = 0 \/ app.view # "chat" \/ app.scroll < app.messages
    /\ app.above = 0 \/ app.above < Len(app.timeline)

\* Between two keys the cursor of `service browse` is on a service, so the
\* details index the list, and in the part of the list that is shown, whichever
\* way the bytes of the keys were cut into reads.
WindowShowsCursor ==
    program = "browser" =>
        /\ page.cursor < page.n
        /\ page.offset <= page.cursor /\ page.cursor < page.offset + PageSize

\* A shell is at a raw terminal only if a program ended without restoring it: it
\* was killed, it panicked (a post cut inside a character while drawing, an
\* output closed under println!), its set-up failed after raw mode was on (the
\* two ? after enable_raw_mode in run), or the restoring itself failed (stty,
\* disable_raw_mode).  Quitting, an error inside the loop of the full-screen
\* interface, details shown in cooked mode, or a program started at a terminal
\* that was already raw add no other way to it (run in tui.rs, the end of
\* cmd_service_browse).
RawMeansAbandoned == program = "shell" /\ tty = "raw" => abandoned
=============================================================================
