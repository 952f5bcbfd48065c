------------------------------ MODULE InputBox -------------------------------
(***************************************************************************)
(* dialog_inputbox (support/kconfig/lxdialog/inputbox.c): the field and    *)
(* the buttons of the dialog that asks for a line of text.                 *)
(*                                                                         *)
(* instr is the buffer with its indices and its NUL; what follows the NUL  *)
(* is whatever was there before.  field is what the columns of the field   *)
(* show.                                                                   *)
(***************************************************************************)
EXTENDS Naturals, Sequences

CONSTANTS
  Chars,      \* the characters that may be typed
  Nul, Space, \* end of the text, and an empty column
  MaxLen,     \* MAX_LEN
  BoxWidth,   \* box_width
  Given       \* the texts to start with

ASSUME InputBoxAssumption ==
  /\ Nul \notin Chars /\ MaxLen \in Nat \ {0} /\ BoxWidth \in Nat \ {0}
  /\ \A t \in Given : t \in Seq(Chars) /\ Len(t) =< MaxLen

VARIABLES
  instr, len, pos, inputX, showX,   \* as in the code
  field,        \* what is on the screen
  at,           \* button: the field, "ok" or "help"
  outcome       \* what the dialog returns, or Asking

inputVars == <<instr, len, pos, inputX, showX, field, at, outcome>>
buffer == <<instr, len>>
edited == <<instr, len, pos, inputX, showX, field>>

Asking == "asking"
InField == at = "field" /\ outcome = Asking
Indices == 0 .. MaxLen
Columns == 0 .. BoxWidth - 1

-----------------------------------------------------------------------------
\* The loop that prints the field stops after the first empty column.
PrintField(b, from, f) ==
  [c \in Columns |->
     IF \E d \in 0 .. c - 1 : b[from + d] = Nul THEN f[c]
     ELSE IF b[from + c] = Nul THEN Space ELSE b[from + c]]

\* From do_resize to the loop: a long text is shown from its end, where the
\* cursor needs a column of its own.
FirstColumn(n) == IF n >= BoxWidth THEN n - BoxWidth + 1 ELSE 0
DrawField(b, n) ==
  [c \in Columns |-> IF FirstColumn(n) + c < n THEN b[FirstColumn(n) + c] ELSE Space]

Load(t, rest) == [i \in Indices |-> CASE i < Len(t) -> t[i + 1] [] i = Len(t) -> Nul [] OTHER -> rest]

InputInit ==
  /\ \E t \in Given, rest \in Chars :
       /\ instr = Load(t, rest) /\ len = Len(t) /\ pos = Len(t)
       /\ showX = FirstColumn(Len(t)) /\ inputX = Len(t) - FirstColumn(Len(t))
       /\ field = DrawField(Load(t, rest), Len(t))
  /\ at = "field" /\ outcome = Asking

-----------------------------------------------------------------------------
(* The field. *)

\* Mutant: the end of the field is noticed a column too late.
Inserted_Late(b, from, x) ==
  /\ IF x = BoxWidth THEN showX' = from + 1 /\ inputX' = x ELSE showX' = from /\ inputX' = x + 1
  /\ field' = PrintField(b, IF x = BoxWidth THEN from + 1 ELSE from, field)

\* The cursor goes right, at the right end the text goes left.
Inserted(b, from, x) ==
  /\ IF x = BoxWidth - 1 THEN showX' = from + 1 /\ inputX' = x ELSE showX' = from /\ inputX' = x + 1
  /\ field' = PrintField(b, IF x = BoxWidth - 1 THEN from + 1 ELSE from, field)

WithKey(c) ==
  [i \in Indices |->
     CASE i < pos -> instr[i]
       [] i = pos -> c
       [] pos < i /\ i =< len -> instr[i - 1]
       [] i = len + 1 -> Nul
       [] OTHER -> instr[i]]
TypeKey ==
  /\ InField /\ len < MaxLen
  /\ \E c \in Chars : instr' = WithKey(c) /\ Inserted(WithKey(c), showX, inputX)
  /\ pos' = pos + 1 /\ len' = len + 1
  /\ UNCHANGED <<at, outcome>>

\* Mutant: the character after the cursor goes, not the one before it.
WithoutKey_Next ==
  [i \in Indices |->
     CASE i = len - 1 -> Nul
       [] i # len - 1 /\ pos =< i /\ i < len /\ pos < len -> instr[i + 1]
       [] OTHER -> instr[i]]

WithoutKey ==
  [i \in Indices |->
     CASE i = len - 1 -> Nul
       [] i # len - 1 /\ pos - 1 =< i /\ i < len /\ pos < len -> instr[i + 1]
       [] OTHER -> instr[i]]

Backspace ==
  /\ InField /\ pos > 0
  /\ IF inputX = 0 THEN showX' = showX - 1 /\ UNCHANGED inputX
     ELSE inputX' = inputX - 1 /\ UNCHANGED showX
  /\ instr' = WithoutKey /\ pos' = pos - 1 /\ len' = len - 1
  /\ field' = PrintField(WithoutKey, IF inputX = 0 THEN showX - 1 ELSE showX, field)
  /\ UNCHANGED <<at, outcome>>

LeftKey ==
  /\ InField /\ pos > 0
  /\ IF inputX > 0 THEN inputX' = inputX - 1 /\ UNCHANGED <<showX, field>>
     ELSE showX' = showX - 1 /\ field' = PrintField(instr, showX - 1, field) /\ UNCHANGED inputX
  /\ pos' = pos - 1
  /\ UNCHANGED <<buffer, at, outcome>>

RightKey ==
  /\ InField /\ pos < len
  /\ IF inputX < BoxWidth - 1 THEN inputX' = inputX + 1 /\ UNCHANGED <<showX, field>>
     ELSE showX' = showX + 1 /\ field' = PrintField(instr, showX + 1, field) /\ UNCHANGED inputX
  /\ pos' = pos + 1
  /\ UNCHANGED <<buffer, at, outcome>>

-----------------------------------------------------------------------------
(* The buttons. *)

Onward == [field |-> "ok", ok |-> "help", help |-> "field"]
Back == [field |-> "help", ok |-> "field", help |-> "ok"]

\* TAB, up and down anywhere, left and right outside the field.
WalkButtons ==
  /\ outcome = Asking
  /\ at' \in {Onward[at], Back[at]}
  /\ UNCHANGED <<edited, outcome>>

\* Letters stand for the buttons outside the field only, as the space bar does.
AnswerInput ==
  /\ outcome = Asking
  /\ \/ at = "field" /\ outcome' = "ok"
     \/ at # "field" /\ outcome' \in {"ok", "help", "escape"}
  /\ UNCHANGED <<edited, at>>

EscapeInput ==
  /\ outcome = Asking /\ outcome' = "escape"
  /\ UNCHANGED <<edited, at>>

\* KEY_RESIZE: the cursor goes to the end; button keeps its value.
ResizeInput ==
  /\ outcome = Asking
  /\ \/ /\ pos' = len /\ showX' = FirstColumn(len) /\ inputX' = len - FirstColumn(len)
        /\ field' = DrawField(instr, len)
        /\ UNCHANGED <<buffer, at, outcome>>
     \/ outcome' = "too small" /\ UNCHANGED <<edited, at>>

InputNext ==
  \/ TypeKey \/ Backspace \/ LeftKey \/ RightKey \/ WalkButtons \/ AnswerInput \/ EscapeInput
  \/ ResizeInput

InputSpec == InputInit /\ [][InputNext]_inputVars

-----------------------------------------------------------------------------
(* Properties. *)

TextIsThere ==
  /\ len \in Indices /\ pos \in 0 .. len
  /\ instr[len] = Nul /\ \A i \in 0 .. len - 1 : instr[i] \in Chars
CursorIsInField == inputX \in Columns /\ showX \in Indices /\ showX + inputX = pos
FieldIsCurrent == \A c \in Columns : field[c] = IF showX + c < len THEN instr[showX + c] ELSE Space

(* The cursor that is seen, in the part of the text that is seen, is the place  *)
(* where the program edits: input_x, show_x and pos, which change one by one,   *)
(* agree, the buffer is never overrun, and what is printed over the field,      *)
(* never all of it, leaves nothing old there.                                   *)
FieldIsRight == TextIsThere /\ CursorIsInField /\ FieldIsCurrent

(* The dialog is an editor of a line, whatever is moved in the buffer.          *)
Editor == INSTANCE LineEditor WITH
  Printable <- Chars, Limit <- MaxLen,
  text <- [i \in 1 .. len |-> instr[i - 1]], cursor <- pos
ImplementsEditor == Editor!LineSpec
=============================================================================
