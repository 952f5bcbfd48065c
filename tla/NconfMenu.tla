------------------------------ MODULE NconfMenu ------------------------------
(***************************************************************************)
(* The menus of nconf (support/kconfig/nconf.c) while they are on the      *)
(* screen: which item is highlighted, which rows are seen, and the search  *)
(* that runs as the user types.  conf and conf_choice show their menu in   *)
(* one loop and read keys in another inside it.                            *)
(*                                                                         *)
(* The menus of ncurses are external: they keep the highlighted item in    *)
(* the window.  A key whose number does not fit a char is taken for a      *)
(* letter by the search when its low byte is one, as that of Page Down is, *)
(* so that any letter may be added to the pattern.                         *)
(***************************************************************************)
EXTENDS Integers, Sequences

CONSTANTS
  Menus,        \* what a menu may show: sequences of texts
  Glyphs,       \* what the user types
  MenuLines,    \* mwin_max_lines, as the terminal is
  MaxPattern    \* bounds the pattern

ASSUME NconfMenuAssumption ==
  /\ \A m \in Menus : m \in Seq(Seq(Glyphs))
  /\ MenuLines \subseteq Nat \ {0} /\ MaxPattern \in Nat

VARIABLES
  radio,        \* whether it is conf_choice that shows the menu
  listing,      \* the items
  lines,        \* mwin_max_lines
  spot,         \* [current, top]: the item highlighted, and the first one seen
  selected,     \* current_index or selected_index
  lastTop,      \* last_top_row
  search,       \* [on, dir, pattern]: match_state
  look,         \* [on, index, start]: the loop of get_mext_match
  failure       \* "none", or what undefined step was taken

nconfMenuVars == <<radio, listing, lines, spot, selected, lastTop, search, look, failure>>
onScreen == <<radio, listing, lines>>

Count == Len(listing)
Positions == 0 .. Count - 1
Text(i) == listing[i + 1]

\* strcasestr
Has(text, part) ==
  \E k \in 0 .. Len(text) - Len(part) : SubSeq(text, k + 1, k + Len(part)) = part

-----------------------------------------------------------------------------
(* center_item, on a menu of n items in a window of h lines.                 *)

Larger(a, b) == IF a > b THEN a ELSE b
LastTop(n, h) == Larger(n - h, 0)

\* set_top_row, which refuses a row that would leave lines empty, and
\* set_current_item, which scrolls no further than it must.
SetTop(s, row, n, h) ==
  IF row \in 0 .. LastTop(n, h) /\ row # s.top THEN [top |-> row, current |-> row] ELSE s
SetCurrent(s, i, n, h) ==
  IF i \notin 0 .. n - 1 THEN s
  ELSE [current |-> i,
        top |-> CASE i < s.top -> i [] i >= s.top + h -> i - h + 1 [] OTHER -> s.top]

Outside(i, top, h) == i < top \/ i >= top + h

Middle(i, n, h) ==
  IF Larger(i - (h \div 2), 0) >= n - h THEN n - h ELSE Larger(i - (h \div 2), 0)
Centre(s, i, n, h) ==
  LET top == IF Outside(i, s.top, h) THEN Middle(i, n, h) ELSE s.top
  IN  [spot |-> SetCurrent(SetTop(s, top, n, h), i, n, h), last |-> top]
CenterItem(s, i, last, n, h) == Centre(SetTop(s, last, n, h), i, n, h)

\* show_menu starts from the first item; an index that is none is read from
\* before the array.
ShowMenu(m, h, i, last) ==
  /\ listing' = m /\ lines' = h
  /\ LET c == CenterItem([top |-> 0, current |-> IF m = <<>> THEN -1 ELSE 0], i, last, Len(m), h)
     IN  spot' = c.spot /\ lastTop' = c.last
  /\ selected' = i
  /\ failure' = IF i < 0 THEN "no item" ELSE failure

NoSearch == [on |-> FALSE, dir |-> "tinker down", pattern |-> <<>>]
NotLooking == [on |-> FALSE, index |-> 0, start |-> 0]

-----------------------------------------------------------------------------
(* do_match and get_mext_match. *)

Waiting == failure = "none" /\ ~look.on
Searching == Waiting /\ search.on

\* adj_match_dir
Adjusted(dir) ==
  CASE dir = "next down" -> "tinker down" [] dir = "next up" -> "tinker up" [] OTHER -> dir

\* "/" starts and ends a search, as escape does.
Slash ==
  /\ Waiting
  /\ search' = [NoSearch EXCEPT !.on = ~search.on] /\ selected' = -1
  /\ UNCHANGED <<onScreen, spot, lastTop, look, failure>>

\* The head of get_mext_match; a remainder by the number of items, even of none.
Offset ==
  [d \in {"tinker down", "tinker up", "next down", "next up"} |->
     CASE d = "next down" -> 1 [] d = "next up" -> -1 [] OTHER -> 0]
Wrapped(i) == (i + Count) % Count
Find(pattern, dir) ==
  /\ search' = [on |-> TRUE, dir |-> dir, pattern |-> pattern] /\ selected' = -1
  /\ IF Count = 0 THEN failure' = "division" /\ UNCHANGED look
     ELSE /\ look' = [on |-> TRUE, index |-> Wrapped(spot.current + Offset[dir]),
                      start |-> spot.current + Offset[dir]]
          /\ UNCHANGED failure
  /\ UNCHANGED <<onScreen, spot, lastTop>>

TypeGlyph ==
  /\ Searching /\ Len(search.pattern) < MaxPattern
  /\ \E g \in Glyphs : Find(Append(search.pattern, g), Adjusted(search.dir))
NextHit == Searching /\ \E dir \in {"next down", "next up"} : Find(search.pattern, dir)

\* A round of the loop; the start may be no index, then it is never met again.
Upwards == search.dir \in {"tinker up", "next up"}

\* Mutant: always down.
Onwards_Down(i) == Wrapped(i + 1)

Onwards(i) == Wrapped(IF Upwards THEN i - 1 ELSE i + 1)

Concluded(i) ==
  /\ look' = NotLooking /\ selected' = i
  /\ IF i = -1 THEN UNCHANGED <<spot, lastTop>>
     ELSE LET c == CenterItem(spot, i, lastTop, Count, lines)
          IN  spot' = c.spot /\ lastTop' = c.last
Look ==
  /\ look.on
  /\ CASE Has(Text(look.index), search.pattern) -> Concluded(look.index)
       [] ~Has(Text(look.index), search.pattern) /\ Onwards(look.index) = look.start -> Concluded(-1)
       [] OTHER -> /\ look' = [look EXCEPT !.index = Onwards(look.index)]
                   /\ UNCHANGED <<spot, selected, lastTop>>
  /\ UNCHANGED <<onScreen, search, failure>>

\* Of an empty pattern, the byte before it is cleared, which is clear.
Rub ==
  /\ Searching
  /\ search' = [search EXCEPT !.pattern = SubSeq(@, 1, Len(@) - 1), !.dir = Adjusted(@)]
  /\ selected' = -1
  /\ UNCHANGED <<onScreen, spot, lastTop, look, failure>>

-----------------------------------------------------------------------------
(* Other keys, which end a search.                                           *)

\* menu_driver goes to some item.
Drive ==
  /\ Waiting /\ Count > 0
  /\ \E top \in 0 .. LastTop(Count, lines) : \E i \in Positions :
       ~Outside(i, top, lines) /\ spot' = [top |-> top, current |-> i]
  /\ search' = NoSearch /\ selected' = -1
  /\ UNCHANGED <<onScreen, lastTop, look, failure>>

\* conf does what the key says and shows the menu anew, which may have other
\* items then, on the item that was highlighted.
Act ==
  /\ Waiting /\ ~radio
  /\ \E m \in Menus, h \in MenuLines : ShowMenu(m, h, spot.current, spot.top)
  /\ search' = NoSearch
  /\ UNCHANGED <<radio, look>>

\* conf_choice goes back to the member that was chosen when it began; where
\* that one is not shown any more, selected_index is what do_match has left.
ActInChoice ==
  /\ Waiting /\ radio
  /\ \E m \in Menus, h \in MenuLines, active \in -1 .. 3 :
       /\ active < Len(m)
       /\ ShowMenu(m, h, active, IF active = -1 THEN lastTop ELSE spot.top)
  /\ search' = NoSearch
  /\ UNCHANGED <<radio, look>>

NconfMenuInit ==
  /\ radio \in BOOLEAN /\ search = NoSearch /\ look = NotLooking /\ failure = "none"
  /\ listing \in Menus /\ lines \in MenuLines /\ selected = 0 /\ lastTop = 0
  /\ spot = [top |-> 0, current |-> IF listing = <<>> THEN -1 ELSE 0]

NconfMenuNext ==
  \/ Slash \/ TypeGlyph \/ NextHit \/ Look \/ Rub \/ Drive \/ Act \/ ActInChoice

NconfMenuSpec == NconfMenuInit /\ [][NconfMenuNext]_nconfMenuVars /\ WF_nconfMenuVars(Look)

-----------------------------------------------------------------------------
(* Properties. *)

\* The items from the highlighted one on, in the direction of the search.
Distance(i) ==
  LET by == IF Upwards THEN spot.current + Offset[search.dir] - i
            ELSE i - spot.current - Offset[search.dir]
  IN  (by + 2 * Count) % Count
Hits == {i \in Positions : Has(Text(i), search.pattern)}

HitIsNearest ==
  look.on /\ ~look'.on =>
    IF selected' = -1 THEN Hits = {}
    ELSE /\ selected' \in Hits /\ \A i \in Hits : Distance(selected') =< Distance(i)
         /\ spot'.current = selected'
         /\ lastTop = spot.top /\ ~Outside(selected', spot.top, lines) => spot'.top = spot.top

(* What a search highlights is an item that has the pattern, the nearest one in *)
(* its direction, around the ends of the menu; it says that there is none only  *)
(* where there is none.  The window stays where it is if it shows the item.     *)
FoundIsNearest == [][HitIsNearest]_nconfMenuVars

(* get_mext_match (nconf.c:496): "return the index of the matched item, or -1 if *)
(* no such item exists".                                                        *)
SearchAnswers == look.on ~> ~look.on
=============================================================================
