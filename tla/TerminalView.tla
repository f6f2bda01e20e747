---------------------------- MODULE TerminalView ----------------------------
(* The view of one terminal (crates/forgetty-gtk/src/terminal.rs): where in  *)
(* the scrollback the viewport stands, the search bar and the selection, and *)
(* what output, the wheel, the scrollbar, zooming and copying do to them.    *)
(* Every callback runs to its end on the GTK main loop and is one action;    *)
(* only the loop of copy_selection is taken page by page.                    *)
(*                                                                           *)
(* The scrollback belongs to libghostty-vt.  A row is the number of times    *)
(* the searched word is in it; rows are counted from 0 at the top, as in     *)
(* scrollbar_state.  A selection is the rows it begins and ends in.          *)
EXTENDS Integers, Sequences, FiniteSets, SequencesExt, TLC

CONSTANTS
  MaxRows,     \* bound: the rows libghostty keeps
  Heights,     \* bound: heights of the pane, in rows
  NoRows       \* no selection, no copy in progress

ASSUME ViewAssumption == Heights \subseteq Nat \ {0}

VARIABLES
  text,            \* the rows
  len,             \* the rows of the viewport
  offset,          \* the viewport's first row
  scroll_lock,     \* the user has scrolled away: output does not move the view
  viewport_offset, \* TerminalState's copy of offset
  search,          \* active, query, all_matches, current_index
  since,           \* history: what has happened to the text since the last scan
  selection,       \* <<start, end>>
  selecting,       \* the button is down and a drag selects
  drag_origin,     \* the row of the press
  copying          \* copy_selection's locals

viewVars == <<text, len, offset, scroll_lock, viewport_offset, search, since,
              selection, selecting, drag_origin, copying>>
select == <<selection, selecting, drag_origin>>

Lower(a, b) == IF a < b THEN a ELSE b
Higher(a, b) == IF a > b THEN a ELSE b

NoSearch == [active |-> FALSE, query |-> "", all_matches |-> <<>>, current_index |-> 0]

ViewInit ==
  /\ len \in Heights
  /\ text = [k \in 1 .. len |-> 0] /\ offset = 0
  /\ scroll_lock = FALSE /\ viewport_offset = 0
  /\ search = NoSearch /\ since = "nothing"
  /\ selection = NoRows /\ selecting = FALSE /\ drag_origin = NoRows
  /\ copying = NoRows

-----------------------------------------------------------------------------
(* libghostty-vt *)

Bottom(rows, height) == Len(rows) - height
AtBottom == offset = Bottom(text, len)
Scrolled(from, delta) == Higher(0, Lower(Bottom(text, len), from + delta))

(* A viewport at the bottom stays there; one further up keeps its rows.      *)
Fed(rows, gone) ==
  /\ text' = rows
  /\ offset' = IF AtBottom \/ ~ scroll_lock THEN Bottom(rows, len)
               ELSE Higher(0, Lower(Bottom(rows, len), offset - gone))

Idle == copying = NoRows

-----------------------------------------------------------------------------
(* Output: the copy of the offset is taken before the bytes are fed and      *)
(* renewed only if the view follows.  Matches go, the query stays.           *)
Unmatched == [search EXCEPT !.all_matches = <<>>, !.current_index = 0]

SlipKeepMatches == search
ClearMatches ==
  IF search.active /\ search.all_matches # <<>> THEN Unmatched ELSE search

Output ==
  /\ Idle
  /\ \/ \E row \in 0 .. 1 :
          LET longer == Append(text, row)
          IN IF Len(longer) > MaxRows THEN Fed(Tail(longer), 1) ELSE Fed(longer, 0)
     \/ \E row \in 0 .. 1 : row # Last(text) /\ Fed([text EXCEPT ![Len(text)] = row], 0)
     \/ Len(text) > len /\ Fed(SubSeq(text, Len(text) - len + 1, Len(text)), Len(text) - len)
  /\ viewport_offset' = IF scroll_lock THEN offset ELSE offset'
  /\ search' = ClearMatches
  /\ since' = "output"
  /\ UNCHANGED <<len, scroll_lock, select, copying>>

-----------------------------------------------------------------------------
(* Scrolling *)

Wheel(delta) ==
  /\ Idle
  /\ offset' = Scrolled(offset, delta)
  /\ viewport_offset' = offset'
  /\ scroll_lock' = (offset' < Bottom(text, len))
  /\ UNCHANGED <<text, len, search, since, select, copying>>

(* The scrollbar scrolls without the lock: the next output takes the view    *)
(* back to the bottom.                                                       *)
ScrollbarMoved(to) ==
  /\ Idle /\ to \in 0 .. Bottom(text, len) /\ to # offset
  /\ offset' = to /\ viewport_offset' = to
  /\ UNCHANGED <<text, len, scroll_lock, search, since, select, copying>>

(* Every frame and every 16 ms.                                              *)
SyncScrollbar ==
  /\ Idle
  /\ viewport_offset' = offset
  /\ UNCHANGED <<text, len, offset, scroll_lock, search, since, select, copying>>

-----------------------------------------------------------------------------
(* Search *)

MatchesIn(q, row, count) ==
  [k \in 1 .. IF q = "word" THEN count ELSE 0 |-> <<row, k - 1>>]

(* collect_matches_from_viewport                                             *)
OnPage(q, rows, height, from) ==
  FlattenSeq([k \in 1 .. height |-> MatchesIn(q, from + k - 1, rows[from + k])])

(* The pages: from the top, one viewport on, the last one as far as it goes. *)
PageStep(rows, height, from) == Lower(height, Bottom(rows, height) - from)

Scan(q, rows, height) ==
  LET pages[from \in 0 .. MaxRows] ==
        IF from >= Bottom(rows, height) THEN OnPage(q, rows, height, from)
        ELSE OnPage(q, rows, height, from) \o pages[from + PageStep(rows, height, from)]
  IN pages[0]

(* recompute_all_search_matches: what the pages gave, sorted, what two of    *)
(* them gave once; the view is put back where it was.                        *)
Before(a, b) == a[1] < b[1] \/ (a[1] = b[1] /\ a[2] < b[2])
Dedup(s) == LET first == {k \in DOMAIN s : k = 1 \/ s[k] # s[k - 1]}
            IN [i \in 1 .. Cardinality(first) |-> s[SetToSortSeq(first, <)[i]]]

Recomputed(q, rows, height) ==
  LET all == IF q = "" THEN <<>> ELSE Dedup(SortSeq(Scan(q, rows, height), Before))
  IN [search EXCEPT !.query = q, !.all_matches = all,
                    !.current_index = IF @ >= Len(all) THEN 0 ELSE @]

SearchChanged(q) ==
  /\ Idle /\ search.active /\ q # search.query
  /\ search' = Recomputed(q, text, len)
  /\ since' = "nothing"
  /\ viewport_offset' = offset
  /\ UNCHANGED <<text, len, offset, scroll_lock, select, copying>>

(* scroll_to_current_match: a third of the page from the top.                *)
SlipPastEnd(row) == row
TargetOffset(row) ==
  Lower(IF row > len \div 3 THEN row - len \div 3 ELSE 0, Bottom(text, len))

(* navigate_search_forward and navigate_search_backward                      *)
GoTo(index) ==
  /\ Idle /\ search.active /\ search.query # "" /\ search.all_matches # <<>>
  /\ search' = [search EXCEPT !.current_index = index]
  /\ offset' = TargetOffset(search.all_matches[index + 1][1])
  /\ viewport_offset' = IF offset' # offset THEN offset' ELSE viewport_offset
  /\ UNCHANGED <<text, len, scroll_lock, since, select, copying>>

navigate_search_forward ==
  GoTo(IF search.current_index + 1 < Len(search.all_matches) THEN search.current_index + 1 ELSE 0)

navigate_search_backward ==
  GoTo(IF search.current_index > 0 THEN search.current_index - 1 ELSE Len(search.all_matches) - 1)

toggle_search ==
  /\ Idle
  /\ search' = IF search.active THEN NoSearch ELSE [search EXCEPT !.active = TRUE]
  /\ UNCHANGED <<text, len, offset, scroll_lock, viewport_offset, since, select, copying>>

-----------------------------------------------------------------------------
(* The grid changes: rows may be joined, blank ones may be added.  A resize  *)
(* leaves the matches as they are, a zoom looks for them again.              *)
Padded(rows, height) == rows \o [k \in 1 .. Higher(0, height - Len(rows)) |-> 0]

Regrid(height) ==
  /\ Idle
  /\ len' = height
  /\ \E rows \in {text} \cup {RemoveAt(text, k) : k \in DOMAIN text} :
       /\ Len(rows) > 0
       /\ text' = Padded(rows, height)
       /\ offset' = IF AtBottom THEN Bottom(text', height)
                    ELSE Lower(offset, Bottom(text', height))
  /\ UNCHANGED <<scroll_lock, select, copying>>

Resize(height) ==
  /\ height # len
  /\ Regrid(height)
  /\ viewport_offset' = offset'
  /\ since' = "reflow"
  /\ UNCHANGED search

(* apply_font_zoom, also after a change of the font in the configuration.    *)
apply_font_zoom(height) ==
  /\ Regrid(height)
  /\ IF search.query = ""
     THEN UNCHANGED <<search, viewport_offset>> /\ since' = "reflow"
     ELSE /\ search' = Recomputed(search.query, text', height)
          /\ viewport_offset' = offset'
          /\ since' = "nothing"

-----------------------------------------------------------------------------
(* Selection.  A row of the screen is turned into one of the scrollback by   *)
(* TerminalState's copy of the offset.                                       *)
Absolute(row) == viewport_offset + row
Deselected == selection' = NoRows /\ selecting' = FALSE
ScreenRows == 0 .. len - 1
View == <<text, len, offset, scroll_lock, viewport_offset, search, since, copying>>

(* A click; with shift it moves the end of what is selected.                 *)
Press(row, shift) ==
  /\ Idle
  /\ IF shift /\ selection # NoRows
     THEN /\ selection' = <<selection[1], Absolute(row)>>
          /\ selecting' = FALSE /\ UNCHANGED drag_origin
     ELSE /\ selection' = NoRows /\ selecting' = TRUE
          /\ drag_origin' = <<Absolute(row)>>
  /\ UNCHANGED View

(* The second click takes the word and a drag goes on from there, the third  *)
(* takes the line.                                                           *)
DoubleClick(row, clicks) ==
  /\ Idle
  /\ selection' = <<Absolute(row), Absolute(row)>>
  /\ selecting' = (clicks = 2)
  /\ UNCHANGED <<drag_origin, View>>

(* A drag past an edge scrolls by three rows; the selection begins with the  *)
(* first motion.                                                             *)
Motion(row, delta) ==
  /\ Idle /\ selecting
  /\ offset' = Scrolled(offset, delta)
  /\ viewport_offset' = IF delta = 0 THEN viewport_offset ELSE offset'
  /\ LET end == viewport_offset' + row
     IN selection' = IF selection # NoRows THEN <<selection[1], end>>
                     ELSE IF drag_origin # NoRows THEN <<drag_origin[1], end>>
                     ELSE NoRows
  /\ drag_origin' = IF selection = NoRows THEN NoRows ELSE drag_origin
  /\ UNCHANGED <<text, len, scroll_lock, search, since, selecting, copying>>

(* An empty selection is dropped.                                            *)
Release ==
  /\ Idle /\ selecting
  /\ selecting' = FALSE /\ drag_origin' = NoRows
  /\ \/ UNCHANGED selection
     \/ selection # NoRows /\ selection[1] = selection[2] /\ selection' = NoRows
  /\ UNCHANGED View

select_all_visible ==
  /\ Idle
  /\ selection' = <<viewport_offset, Absolute(len - 1)>> /\ selecting' = FALSE
  /\ UNCHANGED <<drag_origin, View>>

(* A key for the program, or Ctrl+C without a selection.                     *)
KeyTyped ==
  /\ Idle
  /\ offset' = Bottom(text, len) /\ viewport_offset' = offset'
  /\ scroll_lock' = FALSE
  /\ \/ Deselected /\ drag_origin' = NoRows
     \/ selection = NoRows /\ UNCHANGED select
  /\ UNCHANGED <<text, len, search, since, copying>>

Escape ==
  /\ Idle /\ selection # NoRows
  /\ Deselected
  /\ UNCHANGED <<drag_origin, View>>

-----------------------------------------------------------------------------
(* copy_selection scrolls to the first selected row, takes what the viewport *)
(* shows of the selection, and goes on below it.                             *)
CopyStart ==
  /\ Idle /\ selection # NoRows
  /\ LET first == Lower(selection[1], selection[2])
     IN copying' = [first |-> first, cursor |-> first,
                    last |-> Higher(selection[1], selection[2]),
                    orig_offset |-> offset, lines |-> <<>>]
  /\ UNCHANGED <<text, len, offset, scroll_lock, viewport_offset, search, since, select>>

SlipSkipRow(end) == end + 2
NextCursor(end) == end + 1

CopyPage ==
  /\ ~ Idle /\ copying.cursor <= copying.last
  /\ offset' = Scrolled(copying.cursor, 0)
  /\ LET end == Lower(copying.last, offset' + len - 1)
     IN copying' = [copying EXCEPT !.lines = @ \o SubSeq(text, copying.cursor + 1, end + 1),
                                   !.cursor = NextCursor(end)]
  /\ UNCHANGED <<text, len, scroll_lock, viewport_offset, search, since, select>>

CopyDone ==
  /\ ~ Idle /\ copying.cursor > copying.last
  /\ offset' = Scrolled(copying.orig_offset, 0)
  /\ copying' = NoRows
  /\ UNCHANGED <<text, len, scroll_lock, viewport_offset, search, since, select>>

copy_selection == CopyPage \/ CopyDone

ScrollNext ==
  \/ Output \/ SyncScrollbar \/ KeyTyped
  \/ \E delta \in {-1, 1} : Wheel(delta)
  \/ \E to \in 0 .. MaxRows : ScrollbarMoved(to)
  \/ \E height \in Heights : Resize(height) \/ apply_font_zoom(height)

SearchNext ==
  \/ \E q \in {"", "word", "other"} : SearchChanged(q)
  \/ navigate_search_forward \/ navigate_search_backward \/ toggle_search

SelectNext ==
  \/ \E row \in ScreenRows :
       \/ \E shift \in BOOLEAN : Press(row, shift)
       \/ \E clicks \in {2, 3} : DoubleClick(row, clicks)
       \/ \E delta \in {-3, 0, 3} : Motion(row, delta)
  \/ Release \/ select_all_visible \/ Escape \/ CopyStart \/ copy_selection

(* Fairness: a loop on the main thread is not interrupted.                   *)
SelectSpec ==
  ViewInit /\ [][ScrollNext \/ SelectNext]_viewVars /\ WF_viewVars(copy_selection)

(***************************************************************************)
(* Properties                                                              *)
(***************************************************************************)
ViewTypeOK ==
  /\ text \in Seq(0 .. 1) /\ Len(text) \in len .. MaxRows /\ len \in Heights
  /\ offset \in 0 .. Bottom(text, len) /\ viewport_offset \in 0 .. MaxRows
  /\ search.current_index \in 0 .. Higher(1, Len(search.all_matches)) - 1
  /\ since \in {"nothing", "output", "reflow"}

(* Matches on the screen and in "3 of 15" are the matches of the text, each  *)
(* once and in order, from the first row of the scrollback to the last: the  *)
(* scan by pages misses and repeats none, and none of an older text remains. *)
AllMatches ==
  FlattenSeq([k \in DOMAIN text |-> MatchesIn(search.query, k - 1, text[k])])

SearchIsExact ==
  /\ (search.active /\ since = "nothing") => search.all_matches = AllMatches
  /\ (search.all_matches # <<>> /\ since # "reflow") => search.all_matches = AllMatches

(* Going to a match brings it on the screen, from wherever the view stood,   *)
(* unless the grid has changed under the matches.                            *)
CurrentMatchShown ==
  [][(since # "reflow" /\ (navigate_search_forward \/ navigate_search_backward)) =>
       LET row == search'.all_matches[search'.current_index + 1][1]
       IN offset' <= row /\ row < offset' + len]_viewVars

(* A copy that ends has taken every selected row once and in order, over any *)
(* number of pages, and leaves the view where it was.                        *)
CopyIsExact ==
  [][CopyDone => /\ copying.lines = SubSeq(text, copying.first + 1, Lower(copying.last + 1, Len(text)))
                 /\ offset' = copying.orig_offset]_viewVars

(* app.rs: "we must scroll page by page, extracting each viewport's          *)
(* contribution": a copy comes to its end.                                   *)
CopyReturns == (copying # NoRows) ~> (copying = NoRows)
=============================================================================
