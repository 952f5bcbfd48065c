----------------------------- MODULE NconfBoxes ------------------------------
(***************************************************************************)
(* The dialogs of nconf (support/kconfig/nconf.gui.c): dialog_inputbox,    *)
(* which asks for a line of text, show_scroll_win, which shows a text that *)
(* may be longer than the display, and btn_dialog, which shows a message   *)
(* over a row of buttons.                                                  *)
(*                                                                         *)
(* The characters are those that take one column.  The panels and windows  *)
(* of ncurses are external, and what does not fit in one is cut off.       *)
(***************************************************************************)
EXTENDS Integers, Sequences, FiniteSets

CONSTANTS
  Typed,        \* the characters that may be typed
  EndOfLine,    \* the newline of a text
  Drafts,       \* the texts to start with
  MaxDraft,     \* bounds the text that is typed
  Prompts,      \* the texts over a field or buttons
  Pages,        \* those that scroll, which all end in a newline
  Displays,     \* how many lines and columns stdscr has: [lines, columns]
  MaxButtons    \* bounds the buttons

ASSUME NconfBoxesAssumption ==
  /\ EndOfLine \notin Typed /\ MaxDraft \in Nat /\ MaxButtons \in Nat
  /\ \A t \in Drafts : t \in Seq(Typed) /\ Len(t) =< MaxDraft
  /\ \A t \in Prompts \cup Pages : t \in Seq(Typed \cup {EndOfLine}) /\ Len(t) > 0
  /\ \A t \in Pages : t[Len(t)] = EndOfLine
  /\ \A t \in Prompts : \E i \in 1 .. Len(t) : t[i] # EndOfLine
  /\ Displays \subseteq [lines : Nat, columns : Nat] /\ \A d \in Displays : d.columns > 9

VARIABLES
  shownBox,     \* "entry", "scroll" or "buttons"
  draft,        \* dialog_inputbox: result, without its end
  room,         \* result_len
  promptWidth,  \* prompt_width
  caret,        \* cursor_position
  caretColumn,  \* cursor_form_win
  letter,       \* show_scroll_win: text
  pane,         \* text_lines and text_cols, as [lines, columns]
  startY, startX,
  buttonCount,  \* btn_dialog: btn_num
  buttonAt,     \* the button that is highlighted, -1 where there is none
  reply         \* what the dialog returns, or Unanswered

entryVars == <<draft, room, promptWidth, caret, caretColumn>>
scrollVars == <<letter, pane, startY, startX>>
buttonVars == <<buttonCount, buttonAt>>
nconfBoxVars == <<shownBox, entryVars, scrollVars, buttonVars, reply>>

Unanswered == "open"
Asked(kind) == shownBox = kind /\ reply = Unanswered

Shorter(a, b) == IF a < b THEN a ELSE b
Longer(a, b) == IF a > b THEN a ELSE b

-----------------------------------------------------------------------------
(* Texts: get_line_no, get_line and get_line_length.                         *)

LineEnds(text) == {i \in 1 .. Len(text) : text[i] = EndOfLine}
LineCount(text) == 1 + Cardinality(LineEnds(text))
LineFrom(text, n) ==
  IF n = 0 THEN 1
  ELSE 1 + CHOOSE i \in LineEnds(text) : LineCount(SubSeq(text, 1, i)) = n + 1
LineLength(text, n) ==
  LET rest == SubSeq(text, LineFrom(text, n), Len(text))
  IN  CHOOSE k \in 0 .. Len(rest) :
        /\ \A i \in 1 .. k : rest[i] # EndOfLine
        /\ k = Len(rest) \/ rest[k + 1] = EndOfLine
Widest(text) ==
  CHOOSE w \in {LineLength(text, n) : n \in 0 .. LineCount(text) - 1} :
    \A n \in 0 .. LineCount(text) - 1 : LineLength(text, n) =< w

-----------------------------------------------------------------------------
(* dialog_inputbox, whose field is as wide as the prompt or less.            *)

EntryWidth(prompt, d) == Longer(Shorter(Widest(prompt) + 7, d.columns - 2) - 7, 0)

Clamped(column) == IF column < 0 THEN 0 ELSE Shorter(column, promptWidth - 1)

MovedBy(by) == caret' = caret + by /\ caretColumn' = Clamped(caretColumn + by)
EntryKey ==
  /\ Asked("entry")
  /\ UNCHANGED <<shownBox, promptWidth, scrollVars, buttonVars, reply>>
Unedited == UNCHANGED <<draft, room>>

\* Mutant: the characters after the cursor stay.
With_Overwritten(c) == SubSeq(draft, 1, caret) \o <<c>> \o SubSeq(draft, caret + 2, Len(draft))

With(c) == SubSeq(draft, 1, caret) \o <<c>> \o SubSeq(draft, caret + 1, Len(draft))

Cut(i) == SubSeq(draft, 1, i - 1) \o SubSeq(draft, i + 1, Len(draft))

TypeChar ==
  /\ EntryKey /\ Len(draft) < MaxDraft
  /\ \E c \in Typed : draft' = With(c)
  /\ room' = Longer(room, Len(draft) + 2)
  /\ MovedBy(1)
RubOut == EntryKey /\ caret > 0 /\ draft' = Cut(caret) /\ MovedBy(-1) /\ UNCHANGED room
CutNext ==
  /\ EntryKey /\ caret < Len(draft)
  /\ draft' = Cut(caret + 1)
  /\ UNCHANGED <<room, caret, caretColumn>>
GoRight == EntryKey /\ caret < Len(draft) /\ MovedBy(1) /\ Unedited
GoLeft == EntryKey /\ caret > 0 /\ MovedBy(-1) /\ Unedited
GoHome == EntryKey /\ caret' = 0 /\ caretColumn' = 0 /\ Unedited
GoToEnd ==
  /\ EntryKey /\ caret' = Len(draft) /\ caretColumn' = Shorter(Len(draft), promptWidth - 1)
  /\ Unedited

AnswerEntry ==
  /\ Asked("entry") /\ reply' \in {"0", "1", "KEY_EXIT"}
  /\ UNCHANGED <<shownBox, entryVars, scrollVars, buttonVars>>

\* The callers ask again, with the value or the file name there is, in the
\* buffer there is.
OpenEntry(t, prompt, d, size) ==
  /\ draft' = t /\ room' = Longer(size, Len(t) + 1)
  /\ promptWidth' = EntryWidth(prompt, d)
  /\ caret' = Len(t) /\ caretColumn' = Shorter(Len(t), EntryWidth(prompt, d) - 1)
AskAgain ==
  /\ shownBox = "entry" /\ reply # Unanswered /\ reply' = Unanswered
  /\ \E t \in Drafts, p \in Prompts, d \in Displays : OpenEntry(t, p, d, room)
  /\ UNCHANGED <<shownBox, scrollVars, buttonVars>>

-----------------------------------------------------------------------------
(* show_scroll_win.                                                          *)

TotalLines == LineCount(letter)
TotalColumns == Widest(letter) + 2
PaneOf(text, d) ==
  [lines   |-> Longer(Shorter(LineCount(text) + 4, d.lines - 2) - 4, 0),
   columns |-> Longer(Shorter(Widest(text) + 4, d.columns - 2) - 2, 0)]

\* copywin fills the rows and columns from 2 up to text_lines and text_cols.
RowsSeen == startY .. startY + pane.lines - 2
Held(start, total, seen) == Shorter(Longer(start, 0), total - seen)

\* Mutant: a page is as long as the pane.
Ahead_Far == pane.lines

Ahead == pane.lines - 2

ScrollKey == Asked("scroll") /\ UNCHANGED <<shownBox, letter, pane, entryVars, buttonVars, reply>>
ToLine(y) == startY' = Held(y, TotalLines, pane.lines) /\ UNCHANGED startX
ToColumn(x) == startX' = Held(x, TotalColumns, pane.columns) /\ UNCHANGED startY
PageForward == ScrollKey /\ ToLine(startY + Ahead)
PageBackward == ScrollKey /\ ToLine(startY - (pane.lines + 2))
ScrollHome == ScrollKey /\ ToLine(0)
ScrollEnd == ScrollKey /\ ToLine(TotalLines - pane.lines)
LineForward == ScrollKey /\ ToLine(startY + 1)
LineBackward == ScrollKey /\ ToLine(startY - 1)
ScrollSideways == ScrollKey /\ \E by \in {-1, 1} : ToColumn(startX + by)

CloseScroll ==
  /\ Asked("scroll") /\ reply' = "closed"
  /\ UNCHANGED <<shownBox, entryVars, scrollVars, buttonVars>>

-----------------------------------------------------------------------------
(* btn_dialog, whose buttons are a menu of one row; ncurses stops at its     *)
(* ends.  Without buttons any of these keys only closes the message.         *)

MoveButton ==
  /\ Asked("buttons")
  /\ \E by \in {-1, 1} :
       buttonAt' = IF buttonAt + by \in 0 .. buttonCount - 1 THEN buttonAt + by ELSE buttonAt
  /\ UNCHANGED <<shownBox, buttonCount, entryVars, scrollVars, reply>>
PressButton ==
  /\ Asked("buttons") /\ reply' \in {"current item", "KEY_EXIT"}
  /\ UNCHANGED <<shownBox, entryVars, scrollVars, buttonVars>>

-----------------------------------------------------------------------------
EntryIdle ==
  /\ draft = <<>> /\ room = 1 /\ promptWidth = 1 /\ caret = 0 /\ caretColumn = 0
ScrollIdle == letter = <<EndOfLine>> /\ pane = [lines |-> 2, columns |-> 2] /\ startY = 0 /\ startX = 0
ButtonsIdle == buttonCount = 0 /\ buttonAt = -1

OpenScroll(t, d) == letter = t /\ pane = PaneOf(t, d) /\ startY = 0 /\ startX = 0
FirstEntry(t, prompt, d) ==
  /\ draft = t /\ room = Len(t) + 1
  /\ promptWidth = EntryWidth(prompt, d)
  /\ caret = Len(t) /\ caretColumn = Shorter(Len(t), EntryWidth(prompt, d) - 1)

NconfBoxesInit ==
  /\ reply = Unanswered
  /\ \/ /\ shownBox = "entry" /\ ScrollIdle /\ ButtonsIdle
        /\ \E t \in Drafts, p \in Prompts, d \in Displays : FirstEntry(t, p, d)
     \/ /\ shownBox = "scroll" /\ EntryIdle /\ ButtonsIdle
        /\ \E t \in Pages, d \in Displays : OpenScroll(t, d)
     \/ /\ shownBox = "buttons" /\ EntryIdle /\ ScrollIdle
        /\ buttonCount \in 0 .. MaxButtons /\ buttonAt = IF buttonCount = 0 THEN -1 ELSE 0

NconfBoxesNext ==
  \/ TypeChar \/ RubOut \/ CutNext \/ GoRight \/ GoLeft \/ GoHome \/ GoToEnd \/ AnswerEntry \/ AskAgain
  \/ PageForward \/ PageBackward \/ ScrollHome \/ ScrollEnd \/ LineForward \/ LineBackward
  \/ ScrollSideways \/ CloseScroll
  \/ MoveButton \/ PressButton

NconfBoxesSpec == NconfBoxesInit /\ [][NconfBoxesNext]_nconfBoxVars

-----------------------------------------------------------------------------
(* Properties. *)

CaretIsInField ==
  /\ caret \in 0 .. Len(draft)
  /\ caretColumn \in 0 .. promptWidth - 1 /\ caretColumn =< caret
  /\ Len(draft) < room

EntryEditor == INSTANCE LineEditor WITH
  Printable <- Typed, Limit <- MaxDraft, text <- draft, cursor <- caret

(* Until it is answered, dialog_inputbox is an editor of a line, which starts  *)
(* anew each time it is called.  The cursor stays in the field and on the      *)
(* text, the field never shows what is before the text, and the text and its   *)
(* end fit in the buffer, whatever was typed and however wide the field is:    *)
(* cursor_position and cursor_form_win are kept apart.                         *)
EntryIsRight ==
  /\ []CaretIsInField
  /\ EntryEditor!LineInit
  /\ [][EntryEditor!LineNext \/ (reply # Unanswered /\ EntryEditor!LineInit')]_<<draft, caret>>

(* Page Down and the Down key leave no line of the text out, where they do    *)
(* not move the text its last line is seen, and End shows it: a line and a    *)
(* column less than text_lines and text_cols say are copied to the window.    *)
(* Of two lines, only one is seen, and Page Down stays there.                 *)
LastLineSeen == pane.lines > 1 => TotalLines - 2 \in RowsSeen
NothingIsPassed ==
  [][/\ (PageForward \/ LineForward) /\ pane.lines >= Shorter(3, TotalLines) =>
          \/ startY' = startY /\ LastLineSeen
          \/ startY' \in startY + 1 .. startY + pane.lines - 1
     /\ ScrollEnd => LastLineSeen']_nconfBoxVars
=============================================================================
