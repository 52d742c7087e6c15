------------------------------ MODULE Browser ------------------------------
(* main.rs, `service browse`: a list with a cursor, shown a page at a time, and
   keys read from the terminal as bytes.  read_key reads up to four bytes and
   uses the first: the rest of an escape sequence that arrives together with
   its first byte is thrown away. *)
EXTENDS Naturals, Sequences

CONSTANTS
    PageSize,   \* 15
    BufSize     \* 4: bytes of one read

ASSUME BrowserAssumption == PageSize \in Nat \ {0} /\ BufSize \in Nat \ {0}

\* What a key sends.
Sends(key) ==
    CASE key = "up" -> <<"esc", "[", "A">>
      [] key = "down" -> <<"esc", "[", "B">>
      [] key = "pgup" -> <<"esc", "[", "5", "~">>
      [] key = "pgdn" -> <<"esc", "[", "6", "~">>
      [] OTHER -> <<key>>

\* n services; reads: what the next byte is taken for.
Opened(n) == [n |-> n, cursor |-> 0, offset |-> 0, reads |-> "key"]

Lower(a, b) == IF a < b THEN a ELSE b
Minus(a, b) == IF a < b THEN 0 ELSE a - b

Up(page) == [page EXCEPT !.cursor = Minus(@, 1)]
Down(page) == [page EXCEPT !.cursor = IF @ + 1 < page.n THEN @ + 1 ELSE @]
PageUp(page) == [page EXCEPT !.cursor = Minus(@, PageSize)]
PageDown(page) == [page EXCEPT !.cursor = Lower(@ + PageSize, page.n - 1)]

\* Mutant: the window follows one line late.
ScrollLate(page) ==
    CASE page.cursor < page.offset -> [page EXCEPT !.offset = page.cursor]
      [] page.cursor > page.offset + PageSize ->
             [page EXCEPT !.offset = page.cursor + 1 - PageSize]
      [] OTHER -> page

\* The end of the loop: the window follows the cursor.
Scroll(page) ==
    CASE page.cursor < page.offset -> [page EXCEPT !.offset = page.cursor]
      [] page.cursor >= page.offset + PageSize ->
             [page EXCEPT !.offset = page.cursor + 1 - PageSize]
      [] OTHER -> page

Expecting(page, reads) == [page EXCEPT !.reads = reads]
Again(page) == Scroll(Expecting(page, "key"))

Closes(page, byte) ==
    \/ page.reads = "key" /\ byte = "q"
    \/ page.reads = "escape" /\ byte # "["

\* One byte: a key, the second and third byte of a sequence, its end, or the
\* answer to the details of a service.
Takes(page, byte) ==
    CASE page.reads = "key" /\ byte = "esc" -> Expecting(page, "escape")
      [] page.reads = "key" /\ byte = "enter" -> Expecting(page, "details")
      [] page.reads = "key" /\ byte = "j" -> Again(Down(page))
      [] page.reads = "key" /\ byte = "k" -> Again(Up(page))
      [] page.reads = "escape" -> Expecting(page, "sequence")
      [] page.reads = "sequence" /\ byte = "A" -> Again(Up(page))
      [] page.reads = "sequence" /\ byte = "B" -> Again(Down(page))
      [] page.reads = "sequence" /\ byte = "5" -> Expecting(page, "pageup")
      [] page.reads = "sequence" /\ byte = "6" -> Expecting(page, "pagedown")
      [] page.reads = "pageup" -> Again(PageUp(page))
      [] page.reads = "pagedown" -> Again(PageDown(page))
      [] page.reads = "details" /\ byte \notin {"enter", "q"} -> page
      [] OTHER -> Again(page)
=============================================================================
