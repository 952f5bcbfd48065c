------------------------------- MODULE TextBox -------------------------------
(***************************************************************************)
(* dialog_textbox (support/kconfig/lxdialog/textbox.c), which shows a help *)
(* text, a message or the results of a search, and update_text (mconf.c),  *)
(* which gives keys to the results on the page.                            *)
(*                                                                         *)
(* buf is the text, a sequence of Newline and of other characters; a place *)
(* in it is an offset, that of its NUL Len(buf).  The functions on the     *)
(* static variables page, begin_reached and end_reached are operators on   *)
(* records of them.                                                        *)
(***************************************************************************)
EXTENDS Naturals, Sequences, FiniteSets

CONSTANTS
  Newline,
  TextsShown,      \* the texts |-> the offsets of their jumps, or <<>>
  Heights,    \* the heights that the box may have; 0: the display is too small
  JumpKeys,   \* JUMP_NB
  MaxColumn   \* bounds hscroll

ASSUME TextBoxAssumption ==
  /\ \A t \in DOMAIN TextsShown :
       /\ Len(t) \in Nat \ {0} /\ t[Len(t)] = Newline
       /\ TextsShown[t] \in Seq(Nat)
       /\ \A j, k \in DOMAIN TextsShown[t] : j < k => TextsShown[t][j] =< TextsShown[t][k]
  /\ Heights \subseteq Nat /\ JumpKeys \in Nat \ {0} /\ MaxColumn \in Nat

VARIABLES
  buf, jumps,
  place,        \* [page, begin, end]
  pageLength, hscroll,
  boxh,
  printed,      \* [from, to, column]: the part of the text that is on the screen
  keysOn,       \* keys: a sequence of [key, jump]
  result,       \* "reading", or what the dialog returned
  kept          \* [lines, column]: *_vscroll and *_hscroll

textVars == <<buf, jumps, place, pageLength, hscroll, boxh, printed, keysOn, result, kept>>
textIs == <<buf, jumps>>

End == Len(buf)
CharAt(p) == buf[p + 1]
Place(page, begin, end) == [page |-> page, begin |-> begin, end |-> end]

-----------------------------------------------------------------------------
(* get_line, back_lines. *)

Newlines == {i \in 0 .. End - 1 : CharAt(i) = Newline}
Smallest(S) == CHOOSE i \in S : \A j \in S : i =< j
Largest(S) == CHOOSE i \in S : \A j \in S : i >= j

GetLine(v) ==
  LET ends == {i \in Newlines : i >= v.page}
  IN  IF ends = {} THEN Place(End, v.begin, TRUE) ELSE Place(Smallest(ends) + 1, v.begin, FALSE)

GetLines(v, n) ==
  LET after[m \in 0 .. n] == IF m = 0 THEN v ELSE GetLine(after[m - 1]) IN after[n]

\* The start of the line that ends before p.
LineBefore(p) ==
  LET ends == {i \in Newlines : i < p - 1}
  IN  IF ends = {} THEN 0 ELSE Largest(ends) + 1

\* Mutant: the empty line at the end does not count.
BackOne_EndIsFree(v) ==
  IF LineBefore(v.page) = 0 THEN Place(0, TRUE, FALSE) ELSE Place(LineBefore(v.page), FALSE, FALSE)

\* A first step from the end only leaves it.
BackOne(v) ==
  CASE v.page = End /\ v.end -> Place(v.page, FALSE, FALSE)
    [] ~(v.page = End /\ v.end) /\ (v.page = 0 \/ {i \in Newlines : i < v.page - 1} = {}) ->
         Place(0, TRUE, v.end)
    [] OTHER -> Place(LineBefore(v.page), FALSE, v.end)

\* The loop ends at the beginning.
BackUnlessBegun(v) == IF v.begin THEN v ELSE BackOne(v)
BackLines(v, n) ==
  LET back[m \in 0 .. n] ==
        IF m = 0 THEN [v EXCEPT !.begin = FALSE] ELSE BackUnlessBegun(back[m - 1])
  IN  back[n]

-----------------------------------------------------------------------------
(* print_page. *)

HasJumps == jumps # <<>>

\* update_text: the first JumpKeys results between from and to get a key, which
\* goes round with their number.
Between(from, to) == {j \in DOMAIN jumps : from =< jumps[j] /\ jumps[j] < to}
KeyOf(j) == ((j - 1) % JumpKeys) + 1

UpdateText(from, to) ==
  LET all == Between(from, to)
  IN  {[key |-> KeyOf(j), jump |-> j] : j \in {i \in all : i < Smallest(all) + JumpKeys}}

\* What the results make of the page: the last one is full.
Settled(v, h) == IF HasJumps THEN BackLines(GetLines(v, h), h) ELSE v

\* Lines that are printed until the end is met; the line of the end counts.
PassedLines(v, h) ==
  LET atEnd == {n \in 1 .. h : GetLines(v, n).end}
  IN  IF atEnd = {} THEN h ELSE Smallest(atEnd)
PrintFrom(v, h, column) ==
  /\ place' = GetLines(v, h)
  /\ pageLength' = PassedLines(v, h)
  /\ printed' = [from |-> v.page, to |-> GetLines(v, h).page, column |-> column]
PrintPage(v, h, column) ==
  /\ PrintFrom(Settled(v, h), h, column)
  /\ keysOn' = IF HasJumps
               THEN UpdateText(Settled(v, h).page, GetLines(v, h).page)
               ELSE {}

-----------------------------------------------------------------------------
\* dialog_textbox up to its loop: where the last one has left off, if anywhere.
StartPlace(lines) ==
  IF lines = 0 THEN Place(0, TRUE, FALSE) ELSE GetLines(Place(0, FALSE, FALSE), lines)
Start(h) ==
  IF h = 0 THEN result' = "too small" /\ UNCHANGED <<place, pageLength, hscroll, boxh, printed, keysOn>>
  ELSE /\ result' = "reading" /\ boxh' = h /\ hscroll' = kept.column
       /\ PrintPage(StartPlace(kept.lines), h, kept.column)

TextInit ==
  /\ buf \in DOMAIN TextsShown /\ jumps = TextsShown[buf]
  /\ place = Place(0, TRUE, FALSE) /\ pageLength = 0 /\ hscroll = 0 /\ boxh = 0
  /\ printed = [from |-> 0, to |-> 0, column |-> 0] /\ keysOn = {}
  /\ result = "not shown" /\ kept = [lines |-> 0, column |-> 0]

\* search_conf comes back to the results after each jump.
ShowText ==
  /\ result = "not shown" \/ (result = "jump")
  /\ \E h \in Heights : Start(h)
  /\ UNCHANGED <<textIs, kept>>

Reading == result = "reading" /\ UNCHANGED <<textIs, kept>>
GoTo(v) == PrintPage(v, boxh, hscroll) /\ UNCHANGED <<hscroll, boxh, result>>

FirstPage == Reading /\ ~place.begin /\ GoTo(Place(0, TRUE, place.end))
LastPage == Reading /\ GoTo(BackLines(Place(End, place.begin, TRUE), boxh))
PreviousLine == Reading /\ ~place.begin /\ GoTo(BackLines(place, pageLength + 1))
PreviousPage == Reading /\ ~place.begin /\ GoTo(BackLines(place, pageLength + boxh))
NextLine == Reading /\ ~place.end /\ GoTo(BackLines(place, pageLength - 1))
NextPage == Reading /\ ~place.end /\ GoTo([place EXCEPT !.begin = FALSE])

\* Left, right, and the beginning of the line.
Sideways ==
  /\ Reading
  /\ \E column \in {0, hscroll - 1, hscroll + 1} \cap 0 .. MaxColumn :
       /\ column < hscroll \/ column = hscroll + 1
       /\ hscroll' = column /\ PrintPage(BackLines(place, pageLength), boxh, column)
  /\ UNCHANGED <<boxh, result>>

\* KEY_RESIZE goes back by the height of the dialog, not of the page.
ResizeText ==
  /\ Reading
  /\ \E h \in Heights :
       IF h = 0 THEN /\ result' = "too small"
                     /\ UNCHANGED <<place, pageLength, hscroll, boxh, printed, keysOn>>
       ELSE /\ boxh' = h /\ PrintPage(BackLines(place, boxh + 4), h, hscroll)
            /\ UNCHANGED <<hscroll, result>>

\* Exit, escape, or the key of a result; *_vscroll becomes the first line shown.
LinesUpTo(p) == Cardinality({i \in Newlines : i < p})
CloseText ==
  /\ result = "reading"
  /\ \/ result' = "closed"
     \/ keysOn # {} /\ result' = "jump"
  /\ place' = BackLines(place, pageLength)
  /\ kept' = [lines |-> LinesUpTo(BackLines(place, pageLength).page), column |-> hscroll]
  /\ UNCHANGED <<textIs, pageLength, hscroll, boxh, printed, keysOn>>

TextNext ==
  \/ ShowText \/ FirstPage \/ LastPage \/ PreviousLine \/ PreviousPage \/ NextLine \/ NextPage
  \/ Sideways \/ ResizeText \/ CloseText

TextSpec == TextInit /\ [][TextNext]_textVars

-----------------------------------------------------------------------------
(* Properties. *)

\* The results whose line is on the screen.
OnScreen == Between(printed.from, printed.to)

KeysFit ==
  result = "reading" =>
    /\ {k.jump : k \in keysOn} = {j \in OnScreen : Cardinality({i \in OnScreen : i < j}) < JumpKeys}
    /\ \A k, l \in keysOn : k.key = l.key => k = l
    /\ place.begin => printed.from = 0
    /\ place.end => printed.to = End

SamePage == printed'.from = printed.from /\ printed'.to = printed.to
Adjoining ==
  \/ printed'.from =< printed.to /\ printed.from =< printed'.to
  \/ printed'.from = 0 \/ printed'.to = End
NothingIsSkipped ==
  /\ hscroll' # hscroll /\ result = "reading" => SamePage
  /\ result = "jump" /\ result' = "reading" /\ boxh' = boxh => SamePage
  /\ result = "reading" => ResizeText \/ Adjoining

(* On the screen, the first JUMP_NB results, and no others, have keys, all      *)
(* different: what update_text is told of the page before it is printed fits    *)
(* what is printed.  A flag that stops the keys for up or down is set only      *)
(* where nothing is above or below.                                             *)
(* Scrolling sideways, and coming back from a jump to a box of the same height, *)
(* show the page that was shown; no key but those for the first and the last    *)
(* page skips a line.  A resize is left out: it goes back by the height of the  *)
(* dialog and shows an earlier page.                                            *)
ReadingIsRight == []KeysFit /\ [][NothingIsSkipped]_textVars
=============================================================================
