------------------------------- MODULE ListBox -------------------------------
(***************************************************************************)
(* The dialogs of support/kconfig/lxdialog in which something is chosen,   *)
(* from their call to their return: dialog_menu (menubox.c) and            *)
(* dialog_checklist (checklist.c), which show a list of items, and         *)
(* dialog_yesno (yesno.c), which has only buttons.                         *)
(*                                                                         *)
(* Items are numbered from 0.  The list is in a window of height rows; a   *)
(* row shows an item, or nothing.  What is drawn around it is left out, as *)
(* are widths.  The list of dialog_checklist is not empty: a choice that   *)
(* is y has a visible member.                                              *)
(***************************************************************************)
EXTENDS Integers

CONSTANTS
  MaxItems,     \* bounds the list
  MenuHeights,  \* menu_height, as the terminal is; 0: it is too small
  ListHeight,   \* list_height of dialog_checklist
  Letters       \* the letter by which each item is reached

ASSUME ListBoxAssumption ==
  /\ MaxItems \in Nat /\ MenuHeights \subseteq Nat /\ ListHeight \in Nat \ {0}
  /\ DOMAIN Letters = 0 .. MaxItems - 1

VARIABLES
  box,          \* "menu", "check" or "yesno"
  count,        \* item_count()
  height,       \* of the window
  given,        \* the item that the caller wants highlighted, or None
  saved,        \* *s_scroll
  scroll, choice, firstItem, button,   \* as in the code
  window,       \* [rows, lit]: what each row shows, and which are highlighted
  mark,         \* the highlighted button
  paging,       \* [by, left]: a loop over pages, and how often it still runs
  answer,       \* what the dialog returns, or Open
  picked,       \* the item that it has selected
  skewed        \* whether what was drawn does not fit firstItem or button; for the properties

listBoxVars == <<box, count, height, given, saved, scroll, choice, firstItem, button, window,
                 mark, paging, answer, picked, skewed>>
called == <<box, count, given>>
view == <<scroll, choice, window>>
still == <<called, height, saved, firstItem, button, mark, picked, skewed>>

None == -1
Open == "open"
Blank == -1
Least(a, b) == IF a < b THEN a ELSE b
Most(a, b) == IF a > b THEN a ELSE b

Hot == {Letters[k] : k \in 0 .. MaxItems - 1}
Items == 0 .. count - 1
Rows == 0 .. height - 1
maxChoice == Least(height, count)

-----------------------------------------------------------------------------
(* Windows. *)

PrintItem(w, row, item, selected) ==
  [rows |-> [w.rows EXCEPT ![row] = item],
   lit  |-> IF selected THEN w.lit \cup {row} ELSE w.lit \ {row}]

\* wscrl
Scrolled(w, n) ==
  [rows |-> [r \in Rows |-> IF r + n \in Rows THEN w.rows[r + n] ELSE Blank],
   lit  |-> {r \in Rows : r + n \in w.lit}]

\* A page from item first on.
Page(h, n, first, at) ==
  [rows |-> [r \in 0 .. h - 1 |-> IF r < Least(h, n) THEN first + r ELSE Blank],
   lit  |-> {r \in 0 .. h - 1 : r < Least(h, n) /\ r = at}]

NotPaging == [by |-> 0, left |-> 0]

-----------------------------------------------------------------------------
(* dialog_menu *)

\* The place of the highlighted item, at, in a window of h rows: what is kept
\* of the saved scroll, and what follows the beginning of the loop.
KeepsScroll(h, at) ==
  /\ saved =< at /\ saved + Least(h, count) > at
  /\ saved + Least(h, count) =< count
Centred(h, at) ==
  IF at >= count - Least(h, count) \div 2 THEN count - Least(h, count) ELSE at - Least(h, count) \div 2

\* first: what firstItem was before.
FirstAt(h, at, first) ==
  CASE KeepsScroll(h, at) -> saved
    [] ~KeepsScroll(h, at) /\ at >= Least(h, count) -> Centred(h, at)
    [] OTHER -> first
ScrollAt(h, at) ==
  CASE KeepsScroll(h, at) -> saved
    [] ~KeepsScroll(h, at) /\ at >= Least(h, count) -> Centred(h, at)
    [] OTHER -> 0

\* From do_resize to the loop.
DrawMenu(h, at, first) ==
  /\ height' = h
  /\ IF h = 0 THEN answer' = "too small" /\ UNCHANGED <<view, firstItem, mark, skewed>>
     ELSE /\ answer' = Open
          /\ scroll' = ScrollAt(h, at) /\ choice' = at - ScrollAt(h, at)
          /\ firstItem' = FirstAt(h, at, first)
          /\ window' = Page(h, count, FirstAt(h, at, first), at - ScrollAt(h, at))
          /\ mark' = 0
          /\ skewed' = (skewed \/ FirstAt(h, at, first) # ScrollAt(h, at) \/ button # 0)
  /\ UNCHANGED <<called, saved, button, paging, picked>>
Default(at) == IF given = None THEN at ELSE given

CallMenu ==
  /\ box = "menu" /\ answer = "called"
  /\ \E h \in MenuHeights : DrawMenu(h, Default(0), 0)

InMenuBox == box = "menu" /\ answer = Open /\ paging.left = 0

\* KEY_RESIZE: the highlight goes back to the item given, or, where none was
\* given, keeps its row as if nothing were scrolled; firstItem keeps its value.
ResizeMenu ==
  /\ InMenuBox
  /\ \E h \in MenuHeights : DrawMenu(h, Default(choice), firstItem)

\* The row that a letter leads to: the next one, or the first.
RowsOf(key) == {r \in 0 .. maxChoice - 1 : Letters[scroll + r] = key}
FirstOfRows(R) == CHOOSE r \in R : \A q \in R : r =< q
NextRow(key) ==
  LET after == {r \in RowsOf(key) : r > choice}
  IN  FirstOfRows(IF after # {} THEN after ELSE RowsOf(key))
Plain(key) == key \notin {"y", "n", "m", "h", " "}

Steady == UNCHANGED <<still, paging, answer>>

\* The keys that move the highlight remove it first and draw it at last.
Moved(w, s, c) == PrintItem(w, c, s + c, TRUE)
Dark == PrintItem(window, choice, scroll + choice, FALSE)

LetterKey ==
  /\ InMenuBox /\ count # 0
  /\ \E key \in Hot :
       /\ Plain(key) /\ RowsOf(key) # {}
       /\ choice' = NextRow(key)
       /\ window' = Moved(Dark, scroll, NextRow(key))
  /\ UNCHANGED scroll /\ Steady

\* Up scrolls once the highlight is near the top.
Up ==
  /\ InMenuBox /\ count # 0
  /\ IF choice < 2 /\ scroll > 0
     THEN /\ scroll' = scroll - 1 /\ UNCHANGED choice
          /\ window' = Moved(PrintItem(Scrolled(Dark, -1), 0, scroll - 1, FALSE), scroll - 1, choice)
     ELSE /\ choice' = Most(choice - 1, 0) /\ UNCHANGED scroll
          /\ window' = Moved(Dark, scroll, Most(choice - 1, 0))
  /\ Steady

Down ==
  /\ InMenuBox /\ count # 0
  /\ IF choice > maxChoice - 3 /\ scroll + maxChoice < count
     THEN /\ scroll' = scroll + 1 /\ UNCHANGED choice
          /\ window' = Moved(PrintItem(Scrolled(Dark, 1), maxChoice - 1, scroll + maxChoice, FALSE),
                             scroll + 1, choice)
     ELSE /\ choice' = Least(choice + 1, maxChoice - 1) /\ UNCHANGED scroll
          /\ window' = Moved(Dark, scroll, Least(choice + 1, maxChoice - 1))
  /\ Steady

\* KEY_PPAGE, KEY_NPAGE: a loop that scrolls or moves the highlight.
StartPaging ==
  /\ InMenuBox /\ count # 0
  /\ \E by \in {-1, 1} : paging' = [by |-> by, left |-> maxChoice]
  /\ window' = Dark
  /\ UNCHANGED <<still, scroll, choice, answer>>

\* A round of the loop, and the highlight after the last one.
Round(w, s, c) ==
  /\ scroll' = s /\ choice' = c
  /\ window' = IF paging.left = 1 THEN Moved(w, s, c) ELSE w
  /\ paging' = IF paging.left = 1 THEN NotPaging ELSE [paging EXCEPT !.left = @ - 1]
PageUp ==
  /\ paging.left > 0 /\ paging.by = -1
  /\ IF scroll > 0
     THEN Round(PrintItem(Scrolled(window, -1), 0, scroll - 1, FALSE), scroll - 1, choice)
     ELSE Round(window, scroll, Most(choice - 1, 0))
  /\ UNCHANGED <<still, answer>>
PageDown ==
  /\ paging.left > 0 /\ paging.by = 1
  /\ IF scroll + maxChoice < count
     THEN Round(PrintItem(Scrolled(window, 1), maxChoice - 1, scroll + maxChoice, FALSE),
                scroll + 1, choice)
     ELSE Round(window, scroll, Least(choice + 1, maxChoice - 1))
  /\ UNCHANGED <<still, answer>>

\* A key that ends the menu, unless it is the letter of an item on the page.
ButtonAnswer == <<"select", "exit", "help", "save", "load">>
KeyAnswer(key) ==
  CASE key \in {"h", "?"} -> "help"
    [] key \in {"s", "y"} -> "yes"
    [] key = "n" -> "no"
    [] key = "m" -> "mod"
    [] key = " " -> "space"
    [] key = "/" -> "search"
    [] key = "z" -> "show all"
    [] key = "enter" -> ButtonAnswer[button + 1]
Ending == {"h", "?", "s", "y", "n", "m", " ", "/", "z", "enter"}

\* Mutant: the row is taken for the item.
Select_TheRow(at) ==
  /\ picked' = IF count = 0 THEN None ELSE choice
  /\ answer' = at
  /\ UNCHANGED <<view, called, height, firstItem, button, mark, paging, skewed>>

SelectKey(at) ==
  /\ picked' = IF count = 0 THEN None ELSE scroll + choice
  /\ answer' = at
  /\ UNCHANGED <<view, called, height, firstItem, button, mark, paging, skewed>>

AnswerMenu ==
  /\ InMenuBox
  /\ \E key \in Ending : (Plain(key) => RowsOf(key) = {}) /\ SelectKey(KeyAnswer(key))
  /\ saved' = scroll

-----------------------------------------------------------------------------
(* dialog_checklist: the list is drawn around the item that was highlighted  *)
(* before a help text, or the member that is chosen, or the first one.       *)

Refuse == answer' = "too small" /\ UNCHANGED <<still, view, paging>>

DrawCheck(s, c) ==
  LET from == IF c >= ListHeight THEN c - ListHeight + 1 ELSE s
      at == IF c >= ListHeight THEN ListHeight - 1 ELSE c
  IN  /\ answer' = Open
      /\ scroll' = from /\ choice' = at /\ window' = Page(ListHeight, count, from, at)
      /\ mark' = 0 /\ skewed' = (skewed \/ button # 0)
      /\ UNCHANGED <<called, height, saved, firstItem, button, paging, picked>>
CallCheck ==
  /\ box = "check" /\ answer = "called"
  /\ DrawCheck(0, Default(0)) \/ Refuse
InCheck == box = "check" /\ answer = Open
ResizeCheck == InCheck /\ (DrawCheck(scroll, choice) \/ Refuse)

MoveTo(c) ==
  /\ choice' = c /\ UNCHANGED scroll
  /\ window' = IF c = choice THEN window ELSE Moved(Dark, scroll, c)

\* The list scrolls when the highlight is at its edge; a list of one row is
\* only drawn again.
ScrollCheck(by, edge) ==
  /\ scroll' = scroll + by /\ UNCHANGED choice
  /\ window' = PrintItem(IF ListHeight > 1
                         THEN Scrolled(PrintItem(window, edge, scroll + edge, FALSE), by) ELSE window,
                         edge, scroll + by + edge, TRUE)
UpCheck ==
  /\ InCheck /\ scroll + choice > 0
  /\ IF choice = 0 THEN ScrollCheck(-1, 0) ELSE MoveTo(choice - 1)
  /\ Steady

DownCheck ==
  /\ InCheck /\ scroll + choice < count - 1
  /\ IF choice = maxChoice - 1 THEN ScrollCheck(1, maxChoice - 1) ELSE MoveTo(choice + 1)
  /\ Steady

\* Here the first row of that letter is taken, and every letter may be one.
LetterCheck ==
  /\ InCheck
  /\ \E key \in Hot : RowsOf(key) # {} /\ MoveTo(FirstOfRows(RowsOf(key)))
  /\ Steady

AnswerCheck ==
  /\ InCheck
  /\ \E key \in {"h", "?", "s", " ", "enter"} :
       /\ RowsOf(key) = {}
       /\ SelectKey(ButtonAnswer[IF key \in {"h", "?"} \/ button = 1 THEN 3 ELSE 1])
  /\ UNCHANGED saved

-----------------------------------------------------------------------------
(* dialog_yesno *)

DrawYesNo ==
  /\ answer' = Open /\ mark' = 0 /\ skewed' = (skewed \/ button # 0)
  /\ UNCHANGED <<called, view, height, saved, firstItem, button, paging, picked>>
CallYesNo == box = "yesno" /\ answer = "called" /\ (DrawYesNo \/ Refuse)
ResizeYesNo == box = "yesno" /\ answer = Open /\ (DrawYesNo \/ Refuse)

AnswerYesNo ==
  /\ box = "yesno" /\ answer = Open
  /\ \E key \in {"y", "n", " "} :
       answer' = IF key = "y" \/ (key = " " /\ button = 0) THEN "yes" ELSE "no"
  /\ UNCHANGED <<still, view, paging>>

-----------------------------------------------------------------------------
(* All three. *)

\* TAB and the arrows walk in a circle through the buttons.
Buttons == IF box = "menu" THEN 5 ELSE 2
Button ==
  /\ answer = Open /\ paging.left = 0
  /\ \E by \in {-1, 1} : button' = (button + by) % Buttons /\ mark' = (button + by) % Buttons
  /\ UNCHANGED <<called, view, height, saved, firstItem, paging, answer, picked, skewed>>

\* on_key_esc: of what comes with an escape, one more escape counts; a single
\* other key is read as if it had come alone.
OnKeyEsc(rest) == IF rest = <<"esc">> THEN "escape" ELSE Open
Rests == {<<>>, <<"esc">>, <<"esc", "esc">>, <<"[", "A">>}

\* Leaving keeps nothing, *s_scroll least of all.
EscapeList ==
  /\ answer = Open /\ paging.left = 0
  /\ \/ box # "yesno" /\ RowsOf("x") = {} /\ answer' = "escape"
     \/ \E rest \in Rests : answer' = OnKeyEsc(rest)
  /\ UNCHANGED <<still, view, paging>>

\* A list of any length; *s_scroll and the item given are from an earlier one.
ListBoxInit ==
  /\ box \in {"menu", "check", "yesno"}
  /\ count \in (CASE box = "menu" -> 0 .. MaxItems [] box = "check" -> 1 .. MaxItems [] OTHER -> {0})
  /\ given \in Items \cup {None}
  /\ saved \in (IF box = "menu" THEN 0 .. MaxItems ELSE {0})
  /\ height = ListHeight
  /\ scroll = 0 /\ choice = 0 /\ firstItem = 0 /\ button = 0 /\ mark = 0
  /\ window = Page(ListHeight, 0, 0, 0) /\ paging = NotPaging
  /\ answer = "called" /\ picked = None /\ skewed = FALSE

ListBoxNext ==
  \/ CallMenu \/ ResizeMenu \/ LetterKey \/ Up \/ Down \/ StartPaging \/ PageUp \/ PageDown
  \/ AnswerMenu
  \/ CallCheck \/ ResizeCheck \/ UpCheck \/ DownCheck \/ LetterCheck \/ AnswerCheck
  \/ CallYesNo \/ ResizeYesNo \/ AnswerYesNo \/ Button \/ EscapeList

ListBoxSpec == ListBoxInit /\ [][ListBoxNext]_listBoxVars

-----------------------------------------------------------------------------
(* Properties. *)

RowsShown ==
  \A r \in Rows :
    /\ window.rows[r] = IF r < maxChoice THEN scroll + r ELSE Blank
    /\ r \in window.lit <=> (r = choice /\ r < maxChoice /\ paging.left = 0)

PickIsHighlighted ==
  picked # None => picked \in Items /\ (skewed \/ \E r \in window.lit : window.rows[r] = picked)

(* Each row of the window shows the item that the program takes it for, only    *)
(* the current one is highlighted, and so is the button that Enter stands for:  *)
(* whatever has been scrolled, printed or drawn anew, but for what a resize     *)
(* draws from an old first_item or without regard to the button.                *)
(* And the item that is selected is one of the list, and the one highlighted.   *)
WindowIsRight ==
  /\ answer = Open /\ ~skewed => RowsShown /\ mark = button
  /\ PickIsHighlighted
=============================================================================
