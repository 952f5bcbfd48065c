----------------------------- MODULE BoxProofs ------------------------------
(***************************************************************************)
(* Proof that what the boxes of menuconfig show is what they stand for.    *)
(* In dialog_inputbox, its three indices, its buffer and the field on the  *)
(* screen agree after every key; in dialog_menu and dialog_checklist, each *)
(* row of the window shows the item that the program takes it for; in      *)
(* dialog_textbox, the page and its keys fit the text.  In the             *)
(* boxes of nconf, no line of a text is passed and the entry is an editor; *)
(* a search in its menus finds the nearest item.                           *)
(***************************************************************************)
EXTENDS InputBox, ListBox, TextBox, NconfBoxes, NconfMenu, SequenceTheorems, Induction, TLAPS

(* What a printed field shows: the loop stops after the first empty        *)
(* column, so that it is right only where the rest was empty before.       *)
LEMMA PrintedIsCurrent ==
  ASSUME NEW b, NEW f, NEW n \in Nat, NEW from \in 0 .. n,
         b[n] = Nul, \A i \in 0 .. n - 1 : b[i] \in Chars,
         \A c \in Columns : from + c > n => f[c] = Space
  PROVE  \A c \in Columns :
           PrintField(b, from, f)[c] = IF from + c < n THEN b[from + c] ELSE Space
<1> SUFFICES ASSUME NEW c \in Columns
             PROVE  PrintField(b, from, f)[c] = IF from + c < n THEN b[from + c] ELSE Space
  OBVIOUS
<1>0. BoxWidth \in Nat /\ Nul \notin Chars /\ c \in Nat
  BY InputBoxAssumption DEF Columns
<1>1. CASE from + c < n
  <2>1. b[from + c] \in Chars
    BY <1>0, <1>1
  <2>2. \A d \in 0 .. c - 1 : b[from + d] \in Chars
    BY <1>0, <1>1
  <2> QED
    BY <1>0, <1>1, <2>1, <2>2 DEF PrintField
<1>2. CASE from + c = n
  <2>1. \A d \in 0 .. c - 1 : b[from + d] \in Chars
    BY <1>0, <1>2
  <2> QED
    BY <1>0, <1>2, <2>1 DEF PrintField
<1>3. CASE from + c > n
  <2>1. n - from \in 0 .. c - 1 /\ from + (n - from) = n
    BY <1>0, <1>3
  <2>2. \E d \in 0 .. c - 1 : b[from + d] = Nul
    BY <2>1
  <2> QED
    BY <1>0, <1>3, <2>2 DEF PrintField
<1> QED
  BY <1>0, <1>1, <1>2, <1>3

-----------------------------------------------------------------------------
(* A field that is drawn afresh: at the start, and after a resize.         *)
LEMMA DrawnIsRight ==
  ASSUME NEW b, NEW n \in Nat
  PROVE  /\ FirstColumn(n) \in 0 .. n /\ n - FirstColumn(n) \in Columns
         /\ \A c \in Columns : DrawField(b, n)[c] =
              IF FirstColumn(n) + c < n THEN b[FirstColumn(n) + c] ELSE Space
<1>1. BoxWidth \in Nat \ {0}
  BY InputBoxAssumption
<1>2. FirstColumn(n) \in 0 .. n /\ n - FirstColumn(n) \in Columns
  BY <1>1 DEF FirstColumn, Columns
<1> QED
  BY <1>2 DEF DrawField

(* The field is right, whatever is printed over it, if the buffer and the  *)
(* cursor are, and the columns behind the text were empty.                 *)
IInv == FieldIsRight /\ instr \in [Indices -> Chars \cup {Nul}]

LEMMA InitRight == InputInit => IInv
<1> SUFFICES ASSUME InputInit PROVE IInv
  OBVIOUS
<1>1. PICK t \in Given, rest \in Chars :
        /\ instr = Load(t, rest) /\ len = Len(t) /\ pos = Len(t)
        /\ showX = FirstColumn(Len(t)) /\ inputX = Len(t) - FirstColumn(Len(t))
        /\ field = DrawField(Load(t, rest), Len(t))
  BY DEF InputInit
<1>2. t \in Seq(Chars) /\ Len(t) =< MaxLen /\ Len(t) \in Nat /\ MaxLen \in Nat
  BY InputBoxAssumption
<1>3. \A i \in 0 .. Len(t) - 1 : t[i + 1] \in Chars
  BY <1>2
<1>4. TextIsThere
  BY <1>1, <1>2, <1>3 DEF TextIsThere, Load, Indices
<1>5. CursorIsInField
  BY <1>1, <1>2, DrawnIsRight DEF CursorIsInField, Indices
<1>6. FieldIsCurrent
  BY <1>1, <1>2, DrawnIsRight DEF FieldIsCurrent
<1>7. instr \in [Indices -> Chars \cup {Nul}]
  BY <1>1, <1>2, <1>3 DEF Load, Indices
<1> QED
  BY <1>4, <1>5, <1>6, <1>7 DEF IInv, FieldIsRight

-----------------------------------------------------------------------------
(* The keys in the field. *)

(* The facts about the state before a key that the cases below share. *)
LEMMA Ranges ==
  ASSUME IInv
  PROVE  /\ MaxLen \in Nat /\ BoxWidth \in Nat \ {0} /\ Nul \notin Chars
         /\ len \in 0 .. MaxLen /\ pos \in 0 .. len
         /\ inputX \in 0 .. BoxWidth - 1 /\ showX \in 0 .. MaxLen /\ showX + inputX = pos
         /\ instr[len] = Nul /\ \A i \in 0 .. len - 1 : instr[i] \in Chars
         /\ \A c \in Columns : showX + c >= len => field[c] = Space
<1>1. MaxLen \in Nat /\ BoxWidth \in Nat \ {0} /\ Nul \notin Chars
  BY InputBoxAssumption
<1>2. /\ len \in 0 .. MaxLen /\ pos \in 0 .. len
      /\ inputX \in 0 .. BoxWidth - 1 /\ showX \in 0 .. MaxLen /\ showX + inputX = pos
      /\ instr[len] = Nul /\ \A i \in 0 .. len - 1 : instr[i] \in Chars
  BY DEF IInv, FieldIsRight, TextIsThere, CursorIsInField, Indices, Columns
<1>3. \A c \in Columns : showX + c >= len => field[c] = Space
  BY <1>1, <1>2 DEF IInv, FieldIsRight, FieldIsCurrent, Columns
<1> QED
  BY <1>1, <1>2, <1>3

LEMMA TypeKeyKeeps == IInv /\ TypeKey => IInv'
<1> SUFFICES ASSUME IInv, TypeKey PROVE IInv'
  OBVIOUS
<1> USE Ranges
<1>1. PICK c \in Chars : instr' = WithKey(c) /\ Inserted(WithKey(c), showX, inputX)
  BY DEF TypeKey
<1>2. pos' = pos + 1 /\ len' = len + 1 /\ len < MaxLen
  BY DEF TypeKey
<1>3. instr' \in [Indices -> Chars \cup {Nul}]
  <2>1. \A i \in Indices : pos < i /\ i =< len => i - 1 \in Indices
    BY DEF Indices
  <2> QED
    BY <1>1, <2>1 DEF WithKey, IInv
<1>4. TextIsThere'
  <2>1. len + 1 \in Indices /\ instr'[len + 1] = Nul
    BY <1>1, <1>2 DEF WithKey, Indices
  <2>2. \A i \in 0 .. len : instr'[i] \in Chars
    <3> SUFFICES ASSUME NEW i \in 0 .. len PROVE instr'[i] \in Chars
      OBVIOUS
    <3>1. i \in Indices
      BY DEF Indices
    <3>2. CASE i < pos
      BY <1>1, <3>1, <3>2 DEF WithKey
    <3>3. CASE i = pos
      BY <1>1, <3>1, <3>3 DEF WithKey
    <3>4. CASE i > pos
      <4>1. i - 1 \in 0 .. len - 1
        BY <3>4
      <4> QED
        BY <1>1, <3>1, <3>4, <4>1 DEF WithKey
    <3> QED
      BY <3>2, <3>3, <3>4
  <2> QED
    BY <1>2, <2>1, <2>2 DEF TextIsThere
<1> DEFINE from == IF inputX = BoxWidth - 1 THEN showX + 1 ELSE showX
<1>5. /\ showX' = from /\ inputX' = IF inputX = BoxWidth - 1 THEN inputX ELSE inputX + 1
      /\ field' = PrintField(instr', from, field)
  BY <1>1 DEF Inserted
<1>6. CursorIsInField'
  <2> USE DEF CursorIsInField, Columns, Indices
  <2>1. CASE inputX = BoxWidth - 1
    BY <1>2, <1>5, <2>1
  <2>2. CASE inputX # BoxWidth - 1
    <3>1. inputX' = inputX + 1 /\ showX' = showX
      BY <1>5, <2>2
    <3>2. inputX + 1 \in Columns
      BY <2>2
    <3> QED
      BY <1>2, <3>1, <3>2
  <2> QED
    BY <2>1, <2>2
<1>7. \A c2 \in Columns : from + c2 > len + 1 => field[c2] = Space
  <2>1. from \in {showX, showX + 1}
    OBVIOUS
  <2> HIDE DEF from
  <2>2. \A c2 \in Columns : from + c2 > len + 1 => showX + c2 >= len
    BY <2>1 DEF Columns
  <2> QED
    BY <2>2
<1>8. /\ from \in 0 .. len + 1 /\ len + 1 \in Nat
      /\ instr'[len + 1] = Nul /\ \A i \in 0 .. (len + 1) - 1 : instr'[i] \in Chars
  BY <1>2, <1>4 DEF TextIsThere
<1>9. FieldIsCurrent'
  <2> HIDE DEF from
  <2>1. \A c2 \in Columns : PrintField(instr', from, field)[c2] =
          IF from + c2 < len + 1 THEN instr'[from + c2] ELSE Space
    BY ONLY <1>7, <1>8, PrintedIsCurrent
  <2> QED
    BY <1>2, <1>5, <2>1 DEF FieldIsCurrent
<1> QED
  BY <1>3, <1>4, <1>6, <1>9 DEF IInv, FieldIsRight

LEMMA BackspaceKeeps == IInv /\ Backspace => IInv'
<1> SUFFICES ASSUME IInv, Backspace PROVE IInv'
  OBVIOUS
<1> USE Ranges
<1>1. /\ pos > 0 /\ pos' = pos - 1 /\ len' = len - 1 /\ instr' = WithoutKey
  BY DEF Backspace
<1>2. instr' \in [Indices -> Chars \cup {Nul}]
  <2>1. \A i \in Indices : i < len => i + 1 \in Indices
    BY DEF Indices
  <2> QED
    BY <1>1, <2>1 DEF WithoutKey, IInv
<1>3. TextIsThere'
  <2>1. len - 1 \in Indices /\ instr'[len - 1] = Nul
    BY <1>1 DEF WithoutKey, Indices
  <2>2. \A i \in 0 .. len - 2 : instr'[i] \in Chars
    <3> SUFFICES ASSUME NEW i \in 0 .. len - 2 PROVE instr'[i] \in Chars
      OBVIOUS
    <3>1. i \in Indices /\ i # len - 1 /\ i < len /\ i \in 0 .. len - 1 /\ i + 1 \in 0 .. len - 1
      BY DEF Indices
    <3> QED
      BY <1>1, <3>1 DEF WithoutKey
  <2> QED
    BY <1>1, <2>1, <2>2 DEF TextIsThere
<1> DEFINE from == IF inputX = 0 THEN showX - 1 ELSE showX
<1>4. /\ showX' = from /\ inputX' = IF inputX = 0 THEN inputX ELSE inputX - 1
      /\ field' = PrintField(instr', from, field)
  BY <1>1 DEF Backspace
<1>5. CursorIsInField'
  BY <1>1, <1>4 DEF CursorIsInField, Columns, Indices
<1>6. \A c \in Columns : from + c > len - 1 => field[c] = Space
  BY DEF Columns
<1>7. /\ from \in 0 .. len - 1 /\ len - 1 \in Nat
      /\ instr'[len - 1] = Nul /\ \A i \in 0 .. (len - 1) - 1 : instr'[i] \in Chars
  BY <1>1, <1>3 DEF TextIsThere
<1>8. FieldIsCurrent'
  <2> DEFINE n == len - 1
  <2>1. /\ \A c \in Columns : from + c > n => field[c] = Space
        /\ from \in 0 .. n /\ n \in Nat
        /\ instr'[n] = Nul /\ \A i \in 0 .. n - 1 : instr'[i] \in Chars
    BY <1>6, <1>7
  <2>2. showX' = from /\ len' = n /\ field' = PrintField(instr', from, field)
    BY <1>1, <1>4
  <2> HIDE DEF from, n
  <2>3. \A c \in Columns : PrintField(instr', from, field)[c] =
          IF from + c < n THEN instr'[from + c] ELSE Space
    BY ONLY <2>1, PrintedIsCurrent
  <2> QED
    BY <2>2, <2>3 DEF FieldIsCurrent
<1> QED
  BY <1>2, <1>3, <1>5, <1>8 DEF IInv, FieldIsRight

(* Left and right only move; where the cursor is at the end of the field,  *)
(* the text moves under it.                                                *)
LEMMA ScrolledIsCurrent ==
  ASSUME IInv, NEW from \in 0 .. len, from >= showX - 1, from =< showX + 1,
         UNCHANGED buffer, showX' = from, field' = PrintField(instr, from, field)
  PROVE  FieldIsCurrent'
<1>1. \A c \in Columns : from + c > len => field[c] = Space
  BY Ranges DEF Columns
<1>2. /\ len \in Nat /\ instr[len] = Nul /\ \A i \in 0 .. len - 1 : instr[i] \in Chars
  BY Ranges
<1>3. \A c \in Columns :
        PrintField(instr, from, field)[c] = IF from + c < len THEN instr[from + c] ELSE Space
  BY ONLY <1>1, <1>2, from \in 0 .. len, PrintedIsCurrent
<1> QED
  BY <1>3 DEF FieldIsCurrent, buffer

LEMMA MovesKeep == IInv /\ (LeftKey \/ RightKey) => IInv'
<1> SUFFICES ASSUME IInv, LeftKey \/ RightKey PROVE IInv'
  OBVIOUS
<1> USE Ranges
<1>1. TextIsThere' /\ (instr \in [Indices -> Chars \cup {Nul}])'
  BY DEF LeftKey, RightKey, buffer, IInv, FieldIsRight, TextIsThere, Indices
<1>2. CursorIsInField'
  BY DEF LeftKey, RightKey, CursorIsInField, Columns, Indices
<1>3. FieldIsCurrent'
  <2>1. CASE UNCHANGED <<showX, field>>
    BY <2>1 DEF LeftKey, RightKey, buffer, IInv, FieldIsRight, FieldIsCurrent
  <2>2. CASE LeftKey /\ ~(inputX > 0)
    <3>1. showX - 1 \in 0 .. len
      BY <2>2 DEF LeftKey
    <3> QED
      BY <2>2, <3>1, ScrolledIsCurrent DEF LeftKey
  <2>3. CASE RightKey /\ ~(inputX < BoxWidth - 1)
    <3>1. showX + 1 \in 0 .. len
      BY <2>3 DEF RightKey
    <3> QED
      BY <2>3, <3>1, ScrolledIsCurrent DEF RightKey
  <2> QED
    BY <2>1, <2>2, <2>3 DEF LeftKey, RightKey
<1> QED
  BY <1>1, <1>2, <1>3 DEF IInv, FieldIsRight

LEMMA ResizeKeeps == IInv /\ ResizeInput => IInv'
<1> SUFFICES ASSUME IInv, ResizeInput PROVE IInv'
  OBVIOUS
<1> USE Ranges
<1>1. CASE UNCHANGED edited
  BY <1>1 DEF edited, IInv, FieldIsRight, TextIsThere, CursorIsInField, FieldIsCurrent
<1>2. CASE /\ pos' = len /\ showX' = FirstColumn(len) /\ inputX' = len - FirstColumn(len)
           /\ field' = DrawField(instr, len) /\ UNCHANGED buffer
  <2>1. TextIsThere'
    BY <1>2 DEF buffer, TextIsThere, Indices
  <2>2. CursorIsInField'
    BY <1>2, DrawnIsRight DEF CursorIsInField, Indices
  <2>3. FieldIsCurrent'
    BY <1>2, DrawnIsRight DEF FieldIsCurrent, buffer
  <2> QED
    BY <1>2, <2>1, <2>2, <2>3 DEF IInv, FieldIsRight, buffer
<1> QED
  BY <1>1, <1>2 DEF ResizeInput

LEMMA InvStep == IInv /\ [InputNext]_inputVars => IInv'
<1> SUFFICES ASSUME IInv, [InputNext]_inputVars PROVE IInv'
  OBVIOUS
<1>1. CASE WalkButtons \/ AnswerInput \/ EscapeInput \/ UNCHANGED inputVars
  <2>1. UNCHANGED edited
    BY <1>1 DEF WalkButtons, AnswerInput, EscapeInput, inputVars, edited
  <2> QED
    BY <2>1 DEF edited, IInv, FieldIsRight, TextIsThere, CursorIsInField, FieldIsCurrent
<1> QED
  BY <1>1, TypeKeyKeeps, BackspaceKeeps, MovesKeep, ResizeKeeps DEF InputNext

(* Of dialog_inputbox: the cursor that is seen, in the part of the text    *)
(* that is seen, is the place where the program edits, and nothing old     *)
(* stays in the field, for every text, length and width.                   *)
THEOREM FieldAlwaysRight == InputSpec => []FieldIsRight
<1>1. IInv => FieldIsRight
  BY DEF IInv
<1> QED
  BY <1>1, InitRight, InvStep, PTL DEF InputSpec

-----------------------------------------------------------------------------
(* The editor of a line. *)

Content == [i \in 1 .. len |-> instr[i - 1]]

LEMMA TextOf ==
  ASSUME NEW b, NEW n \in Nat, \A i \in 0 .. n - 1 : b[i] \in Chars
  PROVE  /\ [i \in 1 .. n |-> b[i - 1]] \in Seq(Chars)
         /\ Len([i \in 1 .. n |-> b[i - 1]]) = n
         /\ \A k \in 1 .. n : [i \in 1 .. n |-> b[i - 1]][k] = b[k - 1]
<1>1. \A i \in 1 .. n : b[i - 1] \in Chars
  OBVIOUS
<1> QED
  BY <1>1

LEMMA ContentIsText ==
  ASSUME IInv
  PROVE  /\ Content \in Seq(Chars) /\ Len(Content) = len /\ len \in 0 .. MaxLen /\ MaxLen \in Nat
         /\ \A i \in 1 .. len : Content[i] = instr[i - 1]
         /\ pos \in 0 .. len
  BY Ranges, TextOf DEF Content

LEMMA ContentIsTextNext ==
  ASSUME IInv'
  PROVE  /\ Content' \in Seq(Chars) /\ Len(Content') = len'
         /\ \A i \in 1 .. len' : Content'[i] = instr'[i - 1]
<1>1. len' \in Nat /\ \A i \in 0 .. len' - 1 : instr'[i] \in Chars
  BY InputBoxAssumption DEF IInv, FieldIsRight, TextIsThere, Indices
<1> QED
  BY <1>1, TextOf DEF Content

(* A text with a character more at a place, or without the one before it.  *)
HasMore(r, s, p, c) ==
  /\ Len(r) = Len(s) + 1 /\ r[p + 1] = c
  /\ \A i \in 1 .. p : r[i] = s[i]
  /\ \A i \in p + 2 .. Len(s) + 1 : r[i] = s[i - 1]

LEMMA Insertion ==
  ASSUME NEW S, NEW s \in Seq(S), NEW r \in Seq(S), NEW p \in 0 .. Len(s), NEW c \in S,
         HasMore(r, s, p, c)
  PROVE  r = Append(SubSeq(s, 1, p), c) \o SubSeq(s, p + 1, Len(s))
<1> DEFINE b == SubSeq(s, 1, p)
           a == SubSeq(s, p + 1, Len(s))
           bc == Append(b, c)
           t == bc \o a
<1> USE DEF HasMore
<1>1. Len(s) \in Nat /\ \A i \in 1 .. Len(s) : s[i] \in S
  BY LenProperties, ElementOfSeq
<1>2. b \in Seq(S) /\ Len(b) = p /\ \A i \in 1 .. p : b[i] = s[i]
  BY <1>1, SubSeqProperties
<1>3. a \in Seq(S) /\ Len(a) = Len(s) - p /\ \A i \in 1 .. Len(s) - p : a[i] = s[p + i]
  BY <1>1, SubSeqProperties
<1> HIDE DEF b, a
<1>4. /\ bc \in Seq(S) /\ Len(bc) = p + 1 /\ bc[p + 1] = c /\ \A i \in 1 .. p : bc[i] = s[i]
  BY <1>1, <1>2
<1> HIDE DEF bc
<1>5. /\ t \in Seq(S) /\ Len(t) = Len(s) + 1
      /\ \A i \in 1 .. Len(s) + 1 : t[i] = IF i =< p + 1 THEN bc[i] ELSE a[i - (p + 1)]
  BY <1>1, <1>3, <1>4, ConcatProperties
<1> HIDE DEF t
<1>6. \A i \in 1 .. Len(s) + 1 : r[i] = t[i]
  <2> SUFFICES ASSUME NEW i \in 1 .. Len(s) + 1 PROVE r[i] = t[i]
    OBVIOUS
  <2>1. CASE i =< p
    BY <1>1, <1>4, <1>5, <2>1
  <2>2. CASE i = p + 1
    BY <1>1, <1>4, <1>5, <2>2
  <2>3. CASE i > p + 1
    <3>1. t[i] = a[i - (p + 1)] /\ i - (p + 1) \in 1 .. Len(s) - p /\ i \in p + 2 .. Len(s) + 1
      BY <1>1, <1>5, <2>3
    <3>2. PICK j \in 1 .. Len(s) - p : j = i - (p + 1) /\ p + j = i - 1
      BY <1>1, <3>1
    <3>3. a[j] = s[p + j]
      BY <1>3
    <3> QED
      BY <3>1, <3>2, <3>3
  <2> QED
    BY <1>1, <2>1, <2>2, <2>3
<1>7. r = t
  BY <1>5, <1>6, SeqEqual
<1> QED
  BY <1>7 DEF t, bc, b, a

LEMMA Deletion ==
  ASSUME NEW S, NEW s \in Seq(S), NEW r \in Seq(S), NEW p \in 1 .. Len(s),
         Len(r) = Len(s) - 1, \A i \in 1 .. p - 1 : r[i] = s[i],
         \A i \in p .. Len(s) - 1 : r[i] = s[i + 1]
  PROVE  r = SubSeq(s, 1, p - 1) \o SubSeq(s, p + 1, Len(s))
<1> DEFINE b == SubSeq(s, 1, p - 1)
           a == SubSeq(s, p + 1, Len(s))
           t == b \o a
<1>1. Len(s) \in Nat /\ \A i \in 1 .. Len(s) : s[i] \in S
  BY LenProperties, ElementOfSeq
<1>2. b \in Seq(S) /\ Len(b) = p - 1 /\ \A i \in 1 .. p - 1 : b[i] = s[i]
  BY <1>1, SubSeqProperties
<1>3. a \in Seq(S) /\ Len(a) = Len(s) - p /\ \A i \in 1 .. Len(s) - p : a[i] = s[p + i]
  BY <1>1, SubSeqProperties
<1> HIDE DEF b, a
<1>4. /\ t \in Seq(S) /\ Len(t) = Len(s) - 1
      /\ \A i \in 1 .. Len(s) - 1 : t[i] = IF i =< p - 1 THEN b[i] ELSE a[i - (p - 1)]
  <2>1. Len(b) + Len(a) = Len(s) - 1 /\ Len(b) = p - 1
    BY <1>1, <1>2, <1>3
  <2>2. /\ t \in Seq(S) /\ Len(t) = Len(b) + Len(a)
        /\ \A i \in 1 .. Len(b) + Len(a) : t[i] = IF i =< Len(b) THEN b[i] ELSE a[i - Len(b)]
    BY <1>2, <1>3, ConcatProperties
  <2> QED
    BY <2>1, <2>2
<1> HIDE DEF t
<1>5. \A i \in 1 .. Len(s) - 1 : r[i] = t[i]
  <2> SUFFICES ASSUME NEW i \in 1 .. Len(s) - 1 PROVE r[i] = t[i]
    OBVIOUS
  <2>1. CASE i =< p - 1
    BY <1>1, <1>2, <1>4, <2>1
  <2>2. CASE i > p - 1
    <3>1. t[i] = a[i - (p - 1)] /\ i - (p - 1) \in 1 .. Len(s) - p /\ i \in p .. Len(s) - 1
      BY <1>1, <1>4, <2>2
    <3>2. a[i - (p - 1)] = s[p + (i - (p - 1))] /\ p + (i - (p - 1)) = i + 1
      BY <1>1, <1>3, <3>1
    <3> QED
      BY <3>1, <3>2
  <2> QED
    BY <1>1, <2>1, <2>2
<1>6. r = t
  BY <1>1, <1>4, <1>5, SeqEqual
<1> QED
  BY <1>6 DEF t, b, a

LEMMA TypeKeyInserts == IInv /\ IInv' /\ TypeKey => \E c \in Chars : Editor!Insert(c)
<1> SUFFICES ASSUME IInv, IInv', TypeKey PROVE \E c \in Chars : Editor!Insert(c)
  OBVIOUS
<1>1. PICK c \in Chars : instr' = WithKey(c)
  BY DEF TypeKey
<1>2. pos' = pos + 1 /\ len' = len + 1 /\ len < MaxLen
  BY DEF TypeKey
<1>3. /\ Content \in Seq(Chars) /\ Len(Content) = len /\ len \in 0 .. MaxLen /\ MaxLen \in Nat
      /\ \A i \in 1 .. len : Content[i] = instr[i - 1]
      /\ pos \in 0 .. len
  BY ContentIsText
<1>4. /\ Content' \in Seq(Chars) /\ Len(Content') = len'
      /\ \A i \in 1 .. len' : Content'[i] = instr'[i - 1]
  BY ContentIsTextNext
<1>5. \A i \in 1 .. pos : Content'[i] = Content[i]
  <2> SUFFICES ASSUME NEW i \in 1 .. pos PROVE Content'[i] = Content[i]
    OBVIOUS
  <2>1. i - 1 \in Indices /\ i - 1 < pos /\ i \in 1 .. len /\ i \in 1 .. len'
    BY <1>2, <1>3 DEF Indices
  <2>2. instr'[i - 1] = instr[i - 1]
    BY <1>1, <1>3, <2>1 DEF WithKey
  <2> QED
    BY <1>3, <1>4, <2>1, <2>2
<1>6. Content'[pos + 1] = c
  <2>1. pos \in Indices /\ pos + 1 \in 1 .. len' /\ (pos + 1) - 1 = pos /\ ~(pos < pos)
    BY <1>2, <1>3 DEF Indices
  <2>2. instr'[pos] = c
    BY <1>1, <1>3, <2>1 DEF WithKey
  <2> QED
    BY <1>4, <2>1, <2>2
<1>7. \A i \in pos + 2 .. len + 1 : Content'[i] = Content[i - 1]
  <2> SUFFICES ASSUME NEW i \in pos + 2 .. len + 1 PROVE Content'[i] = Content[i - 1]
    OBVIOUS
  <2>1. /\ i - 1 \in Indices /\ pos < i - 1 /\ i - 1 =< len /\ i \in 1 .. len' /\ i - 1 \in 1 .. len
        /\ ~(i - 1 < pos) /\ i - 1 # pos
    BY <1>2, <1>3 DEF Indices
  <2>2. instr'[i - 1] = instr[(i - 1) - 1]
    BY <1>1, <1>3, <2>1 DEF WithKey
  <2> QED
    BY <1>3, <1>4, <2>1, <2>2
<1>8. Content' = Append(SubSeq(Content, 1, pos), c) \o SubSeq(Content, pos + 1, Len(Content))
  <2>1. /\ Len(Content') = Len(Content) + 1 /\ pos \in 0 .. Len(Content)
        /\ \A i \in pos + 2 .. Len(Content) + 1 : Content'[i] = Content[i - 1]
    BY <1>2, <1>3, <1>4, <1>7
  <2>2. HasMore(Content', Content, pos, c)
    BY <2>1, <1>5, <1>6 DEF HasMore
  <2> QED
    BY <2>1, <2>2, <1>3, <1>4, Insertion
<1>9. Editor!Insert(c)
  BY <1>2, <1>3, <1>8 DEF Editor!Insert, Editor!Before, Editor!After, Content
<1> QED
  BY <1>9

LEMMA BackspaceDeletes == IInv /\ IInv' /\ Backspace => Editor!Delete
<1> SUFFICES ASSUME IInv, IInv', Backspace PROVE Editor!Delete
  OBVIOUS
<1>1. pos > 0 /\ pos' = pos - 1 /\ len' = len - 1 /\ instr' = WithoutKey
  BY DEF Backspace
<1>2. /\ Content \in Seq(Chars) /\ Len(Content) = len /\ len \in 0 .. MaxLen /\ MaxLen \in Nat
      /\ \A i \in 1 .. len : Content[i] = instr[i - 1]
      /\ pos \in 0 .. len
  BY ContentIsText
<1>3. /\ Content' \in Seq(Chars) /\ Len(Content') = len'
      /\ \A i \in 1 .. len' : Content'[i] = instr'[i - 1]
  BY ContentIsTextNext
<1>4. \A i \in 1 .. pos - 1 : Content'[i] = Content[i]
  <2> SUFFICES ASSUME NEW i \in 1 .. pos - 1 PROVE Content'[i] = Content[i]
    OBVIOUS
  <2>1. /\ i - 1 \in Indices /\ i - 1 # len - 1 /\ ~(pos - 1 =< i - 1)
        /\ i \in 1 .. len /\ i \in 1 .. len'
    BY <1>1, <1>2 DEF Indices
  <2>2. instr'[i - 1] = instr[i - 1]
    BY <1>1, <2>1 DEF WithoutKey
  <2> QED
    BY <1>2, <1>3, <2>1, <2>2
<1>5. \A i \in pos .. len - 1 : Content'[i] = Content[i + 1]
  <2> SUFFICES ASSUME NEW i \in pos .. len - 1 PROVE Content'[i] = Content[i + 1]
    OBVIOUS
  <2>1. /\ i - 1 \in Indices /\ i - 1 # len - 1 /\ pos - 1 =< i - 1 /\ i - 1 < len /\ pos < len
        /\ i \in 1 .. len' /\ i + 1 \in 1 .. len /\ (i - 1) + 1 = i /\ (i + 1) - 1 = i
    BY <1>1, <1>2 DEF Indices
  <2>2. instr'[i - 1] = instr[i]
    BY <1>1, <2>1 DEF WithoutKey
  <2> QED
    BY <1>2, <1>3, <2>1, <2>2
<1>6. Content' = SubSeq(Content, 1, pos - 1) \o SubSeq(Content, pos + 1, Len(Content))
  <2>1. /\ Len(Content') = Len(Content) - 1 /\ pos \in 1 .. Len(Content)
        /\ \A i \in pos .. Len(Content) - 1 : Content'[i] = Content[i + 1]
    BY <1>1, <1>2, <1>3, <1>5
  <2> QED
    BY ONLY <2>1, <1>2, <1>3, <1>4, Deletion
<1> QED
  BY <1>1, <1>2, <1>6 DEF Editor!Delete, Editor!After, Content

(* Nothing that the other keys do changes the text. *)
LEMMA OthersMove ==
  ASSUME IInv, InputNext, ~TypeKey, ~Backspace
  PROVE  [Editor!LineNext]_<<Content, pos>>
<1>1. len \in Nat /\ pos \in 0 .. len /\ Len(Content) = len
  BY ContentIsText
<1>2. CASE LeftKey
  BY <1>1, <1>2 DEF LeftKey, buffer, Content, Editor!LineNext, Editor!MoveLeft
<1>3. CASE RightKey
  BY <1>1, <1>3 DEF RightKey, buffer, Content, Editor!LineNext, Editor!MoveRight
<1>4. CASE ResizeInput /\ pos' = len /\ UNCHANGED buffer
  BY <1>1, <1>4 DEF buffer, Content, Editor!LineNext, Editor!ToEnd
<1>5. CASE WalkButtons \/ AnswerInput \/ EscapeInput \/ UNCHANGED edited
  BY <1>5 DEF WalkButtons, AnswerInput, EscapeInput, edited, Content
<1> QED
  BY <1>2, <1>3, <1>4, <1>5 DEF InputNext, ResizeInput

(* dialog_inputbox is an editor of a line: each key inserts or deletes one *)
(* character at the cursor or moves it, whatever is moved in the buffer.   *)
THEOREM InputImplementsEditor == InputSpec => ImplementsEditor
<1>1. InputInit => Editor!LineInit
  <2> SUFFICES ASSUME InputInit PROVE Editor!LineInit
    OBVIOUS
  <2>1. IInv
    BY InitRight
  <2>2. Content \in Seq(Chars) /\ Len(Content) = len /\ len =< MaxLen /\ pos = len
    BY <2>1, ContentIsText DEF InputInit
  <2> QED
    BY <2>2 DEF Editor!LineInit, Content
<1>2. IInv /\ IInv' /\ [InputNext]_inputVars => [Editor!LineNext]_<<Content, pos>>
  <2> SUFFICES ASSUME IInv, IInv', [InputNext]_inputVars
               PROVE  [Editor!LineNext]_<<Content, pos>>
    OBVIOUS
  <2>1. CASE TypeKey
    BY <2>1, TypeKeyInserts DEF Editor!LineNext
  <2>2. CASE Backspace
    BY <2>2, BackspaceDeletes DEF Editor!LineNext
  <2>3. CASE InputNext /\ ~TypeKey /\ ~Backspace
    BY <2>3, OthersMove
  <2>4. CASE UNCHANGED inputVars
    BY <2>4 DEF inputVars, Content
  <2> QED
    BY <2>1, <2>2, <2>3, <2>4
<1>3. IInv /\ IInv' /\ [InputNext]_inputVars
        => [Editor!LineNext]_<<[i \in 1 .. len |-> instr[i - 1]], pos>>
  BY <1>2 DEF Content
<1> QED
  BY <1>1, <1>3, InitRight, InvStep, PTL DEF InputSpec, ImplementsEditor, Editor!LineSpec

-----------------------------------------------------------------------------
(* The lists of menuconfig.                                               *)

(* A window that has a row for each of its lines, and one that shows the   *)
(* items from s on.                                                        *)
Whole(w) == w.rows \in [Rows -> Int] /\ w.lit \subseteq Rows
Shows(w, s) == \A r \in Rows : w.rows[r] = IF r < maxChoice THEN s + r ELSE Blank

ListTypes ==
  /\ box \in {"menu", "check", "yesno"} /\ count \in Nat /\ given \in Items \cup {None}
  /\ height \in Nat /\ saved \in Nat /\ firstItem \in Int /\ skewed \in BOOLEAN
  /\ button \in 0 .. Buttons - 1
  /\ paging \in [by : {-1, 0, 1}, left : Nat]
  /\ box = "check" => count > 0
  /\ box = "yesno" => count = 0
  /\ box # "menu" => height = ListHeight

NotYetDrawn ==
  answer = "called" =>
    /\ window = Page(ListHeight, 0, 0, 0) /\ height = ListHeight
    /\ scroll = 0 /\ choice = 0 /\ firstItem = 0 /\ button = 0 /\ mark = 0 /\ ~skewed

(* The page is within the list, and the highlight within the page.         *)
Placed(s, c) ==
  /\ s \in Nat /\ c \in Nat /\ s + maxChoice =< count
  /\ c < maxChoice \/ (count = 0 /\ c = 0)

Highlight == IF paging.left = 0 /\ count > 0 THEN {choice} ELSE {}

OpenRight ==
  answer = Open =>
    /\ height > 0 /\ Placed(scroll, choice) /\ Whole(window)
    /\ ~skewed => Shows(window, scroll) /\ window.lit = Highlight /\ mark = button

PagingMenu == paging.left > 0 => answer = Open /\ box = "menu" /\ count > 0 /\ paging.by # 0
NothingPicked == answer \in {"called", Open} => picked = None

ListInv ==
  /\ ListTypes /\ NotYetDrawn /\ OpenRight /\ PagingMenu /\ NothingPicked
  /\ PickIsHighlighted

LEMMA InvShows == ListInv => WindowIsRight
<1> SUFFICES ASSUME ListInv, answer = Open, ~skewed PROVE RowsShown /\ mark = button
  BY DEF ListInv, WindowIsRight
<1>1. /\ Shows(window, scroll) /\ window.lit = Highlight /\ mark = button
      /\ height \in Nat /\ count \in Nat /\ Placed(scroll, choice) /\ paging.left \in Nat
  BY DEF ListInv, OpenRight, ListTypes
<1>2. ASSUME NEW r \in Rows
      PROVE  r \in window.lit <=> (r = choice /\ r < maxChoice /\ paging.left = 0)
  <2>1. CASE count = 0
    BY <1>1, <1>2, <2>1 DEF Highlight, Least, maxChoice, Rows
  <2>2. CASE count # 0
    BY <1>1, <1>2, <2>2 DEF Highlight, Placed
  <2> QED
    BY <2>1, <2>2
<1> QED
  BY <1>1, <1>2 DEF RowsShown, Shows

(* Drawing a row again, in the place where it is.                          *)
LEMMA PrintWhole ==
  ASSUME NEW w, Whole(w), NEW row \in Rows, NEW item \in Int, NEW lit
  PROVE  /\ Whole(PrintItem(w, row, item, lit))
         /\ PrintItem(w, row, item, lit).lit = IF lit THEN w.lit \cup {row} ELSE w.lit \ {row}
         /\ \A r \in Rows :
              PrintItem(w, row, item, lit).rows[r] = IF r = row THEN item ELSE w.rows[r]
<1> DEFINE x == PrintItem(w, row, item, lit)
<1>1. x.rows = [w.rows EXCEPT ![row] = item] /\ x.lit = IF lit THEN w.lit \cup {row} ELSE w.lit \ {row}
  BY DEF PrintItem
<1>2. x.rows \in [Rows -> Int] /\ \A r \in Rows : x.rows[r] = IF r = row THEN item ELSE w.rows[r]
  BY <1>1 DEF Whole
<1> HIDE DEF x
<1>3. Whole(x)
  BY <1>1, <1>2 DEF Whole
<1> QED
  BY <1>1, <1>2, <1>3 DEF x

LEMMA PrintShows ==
  ASSUME NEW w, Whole(w), NEW s \in Int, Shows(w, s), NEW row \in Rows, row < maxChoice, NEW lit
  PROVE  Shows(PrintItem(w, row, s + row, lit), s)
<1> DEFINE x == PrintItem(w, row, s + row, lit)
<1>1. \A r \in Rows : x.rows[r] = IF r = row THEN s + row ELSE w.rows[r]
  <2>1. x.rows = [w.rows EXCEPT ![row] = s + row]
    BY DEF PrintItem
  <2> QED
    BY <2>1 DEF Whole
<1> HIDE DEF x
<1>2. Shows(x, s)
  BY <1>1 DEF Shows
<1> QED
  BY <1>2 DEF x

(* A list that can be scrolled fills its window.                           *)
LEMMA ScrollUpKeeps ==
  ASSUME ListTypes, NEW w, Whole(w), NEW s \in Nat, s > 0, s + maxChoice =< count, height > 0,
         NEW lit
  PROVE  LET x == PrintItem(Scrolled(w, -1), 0, s - 1, lit)
         IN  /\ Whole(x) /\ (Shows(w, s) => Shows(x, s - 1))
             /\ w.lit = {} => x.lit = IF lit THEN {0} ELSE {}
<1> DEFINE y == Scrolled(w, -1)
           x == PrintItem(y, 0, s - 1, lit)
<1>1. height \in Nat /\ count \in Nat /\ maxChoice = height
  BY DEF ListTypes, maxChoice, Least
<1>2. /\ y.rows \in [Rows -> Int] /\ y.lit \subseteq Rows
      /\ \A r \in Rows : r - 1 \in Rows => y.rows[r] = w.rows[r - 1]
      /\ w.lit = {} => y.lit = {}
  <2>1. /\ y.rows = [r \in Rows |-> IF r + (-1) \in Rows THEN w.rows[r + (-1)] ELSE Blank]
        /\ y.lit = {r \in Rows : r + (-1) \in w.lit}
    BY DEF Scrolled
  <2>2. Blank \in Int /\ \A r \in Rows : r + (-1) = r - 1
    BY <1>1 DEF Blank, Rows
  <2> HIDE DEF y
  <2> QED
    BY <2>1, <2>2 DEF Whole
<1> HIDE DEF y
<1>3. 0 \in Rows /\ s - 1 \in Int /\ Whole(y)
  BY <1>1, <1>2 DEF Rows, Whole
<1>4. /\ x.rows = [y.rows EXCEPT ![0] = s - 1]
      /\ x.lit = IF lit THEN y.lit \cup {0} ELSE y.lit \ {0}
  BY DEF PrintItem
<1>5. x.rows \in [Rows -> Int] /\ \A r \in Rows : x.rows[r] = IF r = 0 THEN s - 1 ELSE y.rows[r]
  <2>1. y.rows \in [Rows -> Int]
    BY <1>2
  <2> HIDE DEF x
  <2> QED
    BY <1>3, <1>4, <2>1
<1>6. Whole(x) /\ x.lit = IF lit THEN y.lit \cup {0} ELSE y.lit \ {0}
  <2> HIDE DEF x
  <2>1. x.lit \subseteq Rows
    BY <1>2, <1>3, <1>4
  <2> QED
    BY <1>4, <1>5, <2>1 DEF Whole
<1>7. ASSUME Shows(w, s), NEW r \in Rows PROVE x.rows[r] = (s - 1) + r /\ r < maxChoice
  <2>1. r \in Int /\ r < maxChoice
    BY <1>1 DEF Rows
  <2>2. CASE r = 0
    BY <1>5, <2>1, <2>2
  <2>3. CASE r # 0
    <3>1. r - 1 \in Rows /\ r - 1 < maxChoice
      BY <1>1, <2>3 DEF Rows
    <3>2. w.rows[r - 1] = s + (r - 1)
      BY <1>7, <3>1 DEF Shows
    <3> QED
      BY <1>2, <1>5, <2>1, <2>3, <3>1, <3>2
  <2> QED
    BY <2>2, <2>3
<1>8. Shows(w, s) => Shows(x, s - 1)
  BY <1>7 DEF Shows
<1>9. w.lit = {} => x.lit = IF lit THEN {0} ELSE {}
  <2> HIDE DEF x
  <2> QED
    BY <1>2, <1>6
<1> QED
  BY <1>6, <1>8, <1>9 DEF y

LEMMA ScrollDownKeeps ==
  ASSUME ListTypes, NEW w, Whole(w), NEW s \in Nat, s + maxChoice < count, height > 0,
         NEW lit
  PROVE  LET x == PrintItem(Scrolled(w, 1), maxChoice - 1, s + maxChoice, lit)
         IN  /\ Whole(x) /\ (Shows(w, s) => Shows(x, s + 1))
             /\ w.lit = {} => x.lit = IF lit THEN {maxChoice - 1} ELSE {}
<1> DEFINE y == Scrolled(w, 1)
           x == PrintItem(y, maxChoice - 1, s + maxChoice, lit)
<1>1. height \in Nat /\ count \in Nat /\ maxChoice = height
  BY DEF ListTypes, maxChoice, Least
<1>2. /\ y.rows \in [Rows -> Int] /\ y.lit \subseteq Rows
      /\ \A r \in Rows : r + 1 \in Rows => y.rows[r] = w.rows[r + 1]
      /\ w.lit = {} => y.lit = {}
  <2>1. /\ y.rows = [r \in Rows |-> IF r + 1 \in Rows THEN w.rows[r + 1] ELSE Blank]
        /\ y.lit = {r \in Rows : r + 1 \in w.lit}
    BY DEF Scrolled
  <2>2. Blank \in Int
    BY DEF Blank
  <2> HIDE DEF y
  <2> QED
    BY <2>1, <2>2 DEF Whole
<1> HIDE DEF y
<1>3. maxChoice - 1 \in Rows /\ s + maxChoice \in Int /\ Whole(y)
  BY <1>1, <1>2 DEF Rows, Whole
<1>4. /\ x.rows = [y.rows EXCEPT ![maxChoice - 1] = s + maxChoice]
      /\ x.lit = IF lit THEN y.lit \cup {maxChoice - 1} ELSE y.lit \ {maxChoice - 1}
  BY DEF PrintItem
<1>5. x.rows \in [Rows -> Int] /\ \A r \in Rows : x.rows[r] = IF r = maxChoice - 1 THEN s + maxChoice ELSE y.rows[r]
  <2>1. y.rows \in [Rows -> Int]
    BY <1>2
  <2> HIDE DEF x
  <2> QED
    BY <1>3, <1>4, <2>1
<1>6. Whole(x) /\ x.lit = IF lit THEN y.lit \cup {maxChoice - 1} ELSE y.lit \ {maxChoice - 1}
  <2> HIDE DEF x
  <2>1. x.lit \subseteq Rows
    BY <1>2, <1>3, <1>4
  <2> QED
    BY <1>4, <1>5, <2>1 DEF Whole
<1>7. ASSUME Shows(w, s), NEW r \in Rows PROVE x.rows[r] = (s + 1) + r /\ r < maxChoice
  <2>1. r \in Int /\ r < maxChoice
    BY <1>1 DEF Rows
  <2>2. CASE r = maxChoice - 1
    BY <1>1, <1>5, <2>1, <2>2
  <2>3. CASE r # maxChoice - 1
    <3>1. r + 1 \in Rows /\ r + 1 < maxChoice
      BY <1>1, <2>3 DEF Rows
    <3>2. w.rows[r + 1] = s + (r + 1)
      BY <1>7, <3>1 DEF Shows
    <3> QED
      BY <1>2, <1>5, <2>1, <2>3, <3>1, <3>2
  <2> QED
    BY <2>2, <2>3
<1>8. Shows(w, s) => Shows(x, s + 1)
  BY <1>7 DEF Shows
<1>9. w.lit = {} => x.lit = IF lit THEN {maxChoice - 1} ELSE {}
  <2> HIDE DEF x
  <2> QED
    BY <1>2, <1>6
<1> QED
  BY <1>6, <1>8, <1>9 DEF y

(* Where a menu is put that is drawn afresh.                               *)
LEMMA MenuIsPlaced ==
  ASSUME ListTypes, NEW h \in Nat, h > 0, NEW i \in Nat, i < count \/ (count = 0 /\ i = 0)
  PROVE  /\ ScrollAt(h, i) \in Nat /\ ScrollAt(h, i) + Least(h, count) =< count
         /\ i - ScrollAt(h, i) \in Nat
         /\ i - ScrollAt(h, i) < Least(h, count) \/ (count = 0 /\ i - ScrollAt(h, i) = 0)
<1> DEFINE m == Least(h, count)
<1>1. /\ count \in Nat /\ saved \in Nat /\ m \in Nat /\ m =< count
      /\ m > 0 \/ count = 0
  BY DEF ListTypes, Least
<1>2. m \div 2 \in Nat /\ m - (m \div 2) =< (m \div 2) + 1 /\ m \div 2 =< m /\ (m > 0 => m \div 2 < m)
  <2> HIDE DEF m
  <2>1. m \in Nat
    BY <1>1
  <2> QED
    BY ONLY <2>1
<1>3. CASE KeepsScroll(h, i)
  <2>1. ScrollAt(h, i) = saved
    BY <1>3 DEF ScrollAt
  <2>2. saved =< i /\ saved + m > i /\ saved + m =< count
    BY <1>3 DEF KeepsScroll
  <2> HIDE DEF m
  <2> QED
    BY <1>1, <2>1, <2>2 DEF m
<1>4. CASE ~KeepsScroll(h, i) /\ i >= m
  <2>1. ScrollAt(h, i) = IF i >= count - (m \div 2) THEN count - m ELSE i - (m \div 2)
    BY <1>4 DEF ScrollAt, Centred
  <2> DEFINE half == m \div 2
             s == ScrollAt(h, i)
  <2> HIDE DEF half, m, s
  <2>2. s = IF i >= count - half THEN count - m ELSE i - half
    BY <2>1 DEF half, s
  <2>3. half \in Nat /\ m - half =< half + 1 /\ half =< m /\ (m > 0 => half < m)
    BY <1>2 DEF half
  <2>4. CASE i >= count - half
    <3>1. s = count - m
      BY <2>2, <2>4
    <3>2. s \in Nat /\ s + m =< count
      BY <1>1, <3>1
    <3>3. count - half =< i /\ s =< i
      BY <1>1, <2>3, <2>4, <3>1
    <3>4. i - s \in Nat /\ (i - s < m \/ (count = 0 /\ i - s = 0))
      BY <1>1, <3>1, <3>2, <3>3
    <3> QED
      BY <3>2, <3>4 DEF s, m
  <2>5. CASE ~(i >= count - half)
    <3>1. s = i - half /\ i + half < count
      BY <1>1, <2>2, <2>3, <2>5
    <3>2. i >= half
      BY <1>1, <1>4, <2>3
    <3>3. s \in Nat /\ i - s = half
      BY <1>1, <2>3, <3>1, <3>2
    <3>4. s + m =< count
      BY <1>1, <2>3, <3>1
    <3>5. m > 0
      BY <1>1, <2>3, <3>1
    <3> QED
      BY <1>1, <2>3, <3>3, <3>4, <3>5 DEF s, m
  <2> QED
    BY <2>4, <2>5
<1>5. CASE ~KeepsScroll(h, i) /\ ~(i >= m)
  <2>1. ScrollAt(h, i) = 0
    BY <1>5 DEF ScrollAt
  <2> QED
    BY <1>1, <1>5, <2>1
<1> QED
  BY <1>3, <1>4, <1>5

(* A page that is drawn afresh.                                            *)
PageRight(p, h, n, first, c) ==
  /\ p.rows \in [0 .. h - 1 -> Int] /\ p.lit = IF n > 0 THEN {c} ELSE {}
  /\ \A r \in 0 .. h - 1 : p.rows[r] = IF r < Least(h, n) THEN first + r ELSE Blank

LEMMA PageIsRight ==
  ASSUME NEW h \in Nat, h > 0, NEW n \in Nat, NEW first \in Int, NEW c \in Nat,
         c < Least(h, n) \/ (n = 0 /\ c = 0)
  PROVE  PageRight(Page(h, n, first, c), h, n, first, c)
<1>1. Page(h, n, first, c).lit = {r \in 0 .. h - 1 : r < Least(h, n) /\ r = c}
  BY DEF Page
<1>2. Least(h, n) \in Nat /\ Least(h, n) =< h /\ (n = 0 => Least(h, n) = 0)
  BY DEF Least
<1>3. CASE n > 0
  <2>1. c \in 0 .. h - 1 /\ c < Least(h, n)
    BY <1>2, <1>3
  <2> QED
    BY <1>1, <1>3, <2>1 DEF Page, PageRight, Blank
<1>4. CASE n = 0
  BY <1>1, <1>2, <1>4 DEF Page, PageRight, Blank
<1> QED
  BY <1>3, <1>4

LEMMA DrawMenuKeeps ==
  ASSUME ListInv, box = "menu", paging.left = 0, answer \in {"called", Open},
         NEW h \in MenuHeights, NEW i \in Nat, i < count \/ (count = 0 /\ i = 0),
         DrawMenu(h, i, firstItem)
  PROVE  ListInv'
<1>1. /\ ListTypes /\ h \in Nat /\ picked = None /\ count \in Nat /\ NothingPicked
  BY ListBoxAssumption DEF ListInv, NothingPicked, ListTypes
<1>2. UNCHANGED <<box, count, given, saved, button, paging, picked>> /\ height' = h
  BY DEF DrawMenu, called
<1>3. answer' \in {"too small", Open}
  BY DEF DrawMenu
<1>4. ListTypes'
  <2>1. firstItem' \in Int /\ skewed' \in BOOLEAN
    <3>1. CASE h = 0
      BY <1>1, <3>1 DEF DrawMenu, ListTypes
    <3>2. CASE h # 0
      <4>1. /\ firstItem' = FirstAt(h, i, firstItem)
            /\ skewed' = (skewed \/ FirstAt(h, i, firstItem) # ScrollAt(h, i) \/ button # 0)
        BY <3>2 DEF DrawMenu
      <4>2. ScrollAt(h, i) \in Nat /\ firstItem \in Int
        BY <1>1, <3>2, MenuIsPlaced DEF ListTypes
      <4>3. FirstAt(h, i, firstItem) \in {firstItem, ScrollAt(h, i)}
        BY DEF FirstAt, ScrollAt
      <4> QED
        BY <4>1, <4>2, <4>3
    <3> QED
      BY <3>1, <3>2
  <2> QED
    BY <1>1, <1>2, <2>1 DEF ListTypes, Items, Buttons
<1>5. NotYetDrawn' /\ NothingPicked' /\ PickIsHighlighted'
  BY <1>1, <1>2, <1>3 DEF NotYetDrawn, NothingPicked, PickIsHighlighted, Open
<1>6. PagingMenu'
  BY <1>2 DEF PagingMenu
<1>7. OpenRight'
  <2> SUFFICES ASSUME h # 0 PROVE OpenRight'
    BY DEF OpenRight, DrawMenu, Open
  <2> DEFINE s == ScrollAt(h, i)
             f == FirstAt(h, i, firstItem)
             p == Page(h, count, f, i - s)
  <2>1. /\ scroll' = s /\ choice' = i - s /\ window' = p /\ mark' = 0
        /\ skewed' = (skewed \/ f # s \/ button # 0) /\ button' = button
        /\ height' = h /\ count' = count
    BY <1>2 DEF DrawMenu
  <2>2. /\ s \in Nat /\ s + Least(h, count) =< count /\ i - s \in Nat
        /\ i - s < Least(h, count) \/ (count = 0 /\ i - s = 0)
    BY <1>1, MenuIsPlaced
  <2>3. f \in Int
    BY <1>1, <2>2 DEF FirstAt, ScrollAt, ListTypes
  <2> HIDE DEF s, f
  <2>4. /\ p.rows \in [0 .. h - 1 -> Int] /\ p.lit = IF count > 0 THEN {i - s} ELSE {}
        /\ \A r \in 0 .. h - 1 : p.rows[r] = IF r < Least(h, count) THEN f + r ELSE Blank
    <3> DEFINE c == i - s
    <3>1. h > 0 /\ h \in Nat /\ count \in Nat
      BY <1>1
    <3>2. c \in Nat /\ (c < Least(h, count) \/ (count = 0 /\ c = 0))
      BY <2>2
    <3> HIDE DEF c
    <3>3. PageRight(Page(h, count, f, c), h, count, f, c)
      BY <2>3, <3>1, <3>2, PageIsRight
    <3> QED
      BY <3>3 DEF c, PageRight
  <2> HIDE DEF p
  <2>5. h > 0 /\ Placed(scroll, choice)'
    BY <1>1, <2>1, <2>2 DEF Placed, maxChoice
  <2>6. Whole(window)'
    <3>1. Least(h, count) \in Nat /\ Least(h, count) =< h
      BY <1>1 DEF Least
    <3>2. count > 0 => i - s \in 0 .. h - 1
      BY <1>1, <2>2, <3>1
    <3>3. p.lit \subseteq 0 .. h - 1
      BY <2>4, <3>2
    <3> QED
      BY <2>1, <2>4, <3>3 DEF Whole, Rows
  <2>7. ~skewed' => Shows(window, scroll)' /\ window.lit' = Highlight' /\ mark' = button'
    BY <1>2, <2>1, <2>4 DEF Shows, Rows, maxChoice, Highlight
  <2> QED
    BY <2>1, <2>5, <2>6, <2>7 DEF OpenRight
<1> QED
  BY <1>4, <1>5, <1>6, <1>7 DEF ListInv

(* What is left to show of the keys that only move the highlight.          *)
LEMMA MoveKeeps ==
  ASSUME ListInv, answer = Open, UNCHANGED <<still, answer>>,
         paging' \in [by : {-1, 0, 1}, left : Nat],
         paging'.left > 0 => box = "menu" /\ count > 0 /\ paging'.by # 0,
         Placed(scroll', choice'), Whole(window'),
         ~skewed => /\ Shows(window', scroll')
                    /\ window'.lit = IF paging'.left = 0 /\ count > 0 THEN {choice'} ELSE {}
  PROVE  ListInv'
<1>1. /\ ListTypes /\ height > 0 /\ picked = None
      /\ ~skewed => mark = button
  BY DEF ListInv, OpenRight, NothingPicked
<1>2. UNCHANGED <<box, count, given, height, saved, firstItem, button, mark, picked, skewed, answer>>
  BY DEF still, called
<1>3. ListTypes'
  BY <1>1, <1>2 DEF ListTypes, Items, Buttons
<1>4. NotYetDrawn' /\ NothingPicked' /\ PickIsHighlighted' /\ PagingMenu'
  BY <1>1, <1>2 DEF NotYetDrawn, NothingPicked, PickIsHighlighted, PagingMenu, Open
<1>5. Placed(scroll, choice)' /\ Whole(window)'
  BY <1>2 DEF Placed, maxChoice, Whole, Rows
<1>6. ~skewed' => Shows(window, scroll)' /\ window.lit' = Highlight' /\ mark' = button'
  BY <1>1, <1>2 DEF Shows, maxChoice, Rows, Highlight
<1> QED
  BY <1>1, <1>2, <1>3, <1>4, <1>5, <1>6 DEF ListInv, OpenRight

(* What holds of a list that is shown and not empty.                       *)
LEMMA OpenFacts ==
  ASSUME ListInv, answer = Open, count # 0
  PROVE  /\ ListTypes /\ height \in Nat /\ height > 0 /\ count \in Nat /\ paging.left \in Nat
         /\ maxChoice \in Nat \ {0} /\ maxChoice =< height
         /\ scroll \in Nat /\ choice \in Nat /\ choice < maxChoice /\ choice \in Rows
         /\ scroll + maxChoice =< count /\ scroll + choice \in Items
         /\ Whole(window) /\ NotPaging \in [by : {-1, 0, 1}, left : Nat] /\ NotPaging.left = 0
         /\ ~skewed => Shows(window, scroll) /\ mark = button
                       /\ window.lit = IF paging.left = 0 THEN {choice} ELSE {}
<1>1. /\ ListTypes /\ height > 0 /\ Placed(scroll, choice) /\ Whole(window)
      /\ ~skewed => Shows(window, scroll) /\ window.lit = Highlight /\ mark = button
  BY DEF ListInv, OpenRight
<1>2. height \in Nat /\ count \in Nat /\ count > 0 /\ paging.left \in Nat
  BY <1>1 DEF ListTypes
<1>3. maxChoice \in Nat \ {0} /\ maxChoice =< height
  BY <1>1, <1>2 DEF maxChoice, Least
<1>4. /\ scroll \in Nat /\ choice \in Nat /\ choice < maxChoice
      /\ scroll + maxChoice =< count
  BY <1>1, <1>2 DEF Placed
<1>5. choice \in Rows /\ scroll + choice \in Items
  BY <1>2, <1>3, <1>4 DEF Rows, Items
<1>6. NotPaging \in [by : {-1, 0, 1}, left : Nat] /\ NotPaging.left = 0
  BY DEF NotPaging
<1> QED
  BY <1>1, <1>2, <1>3, <1>4, <1>5, <1>6 DEF Highlight

(* The window with the highlight taken away, and put back at c.            *)
LEMMA DarkIsRight ==
  ASSUME ListInv, answer = Open, count # 0, paging.left = 0
  PROVE  Whole(Dark) /\ (~skewed => Shows(Dark, scroll) /\ Dark.lit = {})
<1> USE OpenFacts
<1>1. scroll + choice \in Int
  OBVIOUS
<1>2. Whole(Dark) /\ Dark.lit = window.lit \ {choice}
  <2>1. Dark.lit = window.lit \ {choice}
    BY DEF Dark, PrintItem
  <2> QED
    BY <1>1, <2>1, PrintWhole DEF Dark
<1>3. ~skewed => Shows(Dark, scroll)
  <2>1. scroll \in Int /\ choice \in Rows /\ choice < maxChoice /\ Whole(window)
    OBVIOUS
  <2>2. ~skewed => Shows(window, scroll)
    OBVIOUS
  <2> QED
    BY ONLY <2>1, <2>2, PrintShows DEF Dark
<1> QED
  BY <1>2, <1>3

LEMMA MovedIsRight ==
  ASSUME ListInv, answer = Open, count # 0, NEW w, Whole(w), NEW s \in Nat, NEW c \in Nat,
         c < maxChoice
  PROVE  /\ Whole(Moved(w, s, c)) /\ Moved(w, s, c).lit = w.lit \cup {c}
         /\ Shows(w, s) => Shows(Moved(w, s, c), s)
<1>1. c \in Rows /\ s + c \in Int /\ s \in Int
  BY OpenFacts DEF Rows
<1>2. Whole(Moved(w, s, c))
  BY <1>1, PrintWhole DEF Moved
<1>3. Moved(w, s, c).lit = w.lit \cup {c}
  BY DEF Moved, PrintItem
<1>4. Shows(w, s) => Shows(Moved(w, s, c), s)
  BY <1>1, PrintShows DEF Moved
<1> QED
  BY <1>2, <1>3, <1>4

(* The highlight goes from choice to c, the page to s.                     *)
LEMMA MovedKeeps ==
  ASSUME ListInv, answer = Open, count # 0, paging.left = 0, Steady,
         NEW w, Whole(w), ~skewed => Shows(w, scroll') /\ w.lit = {},
         scroll' \in Nat, choice' \in Nat, scroll' + maxChoice =< count, choice' < maxChoice,
         window' = Moved(w, scroll', choice')
  PROVE  ListInv'
<1>1. UNCHANGED <<still, paging, answer>>
  BY DEF Steady
<1>2. Placed(scroll', choice')
  BY DEF Placed
<1>3. /\ Whole(window') /\ window'.lit = w.lit \cup {choice'}
      /\ Shows(w, scroll') => Shows(window', scroll')
  BY MovedIsRight
<1>4. paging \in [by : {-1, 0, 1}, left : Nat]
  BY OpenFacts DEF ListTypes
<1>5. ~skewed => /\ Shows(window', scroll')
                 /\ window'.lit = IF paging'.left = 0 /\ count > 0 THEN {choice'} ELSE {}
  BY <1>1, <1>3, OpenFacts
<1> QED
  BY <1>1, <1>2, <1>3, <1>4, <1>5, MoveKeeps

LEMMA LetterLeads ==
  ASSUME ListInv, answer = Open, count # 0, NEW R, R \subseteq 0 .. maxChoice - 1, R # {}
  PROVE  FirstOfRows(R) \in R
<1>1. R \subseteq Nat
  BY OpenFacts
<1>2. \E r \in R : \A q \in R : r =< q
  BY <1>1, LeastNatural
<1> QED
  BY <1>2 DEF FirstOfRows

LEMMA LetterKeyKeeps ==
  ASSUME ListInv, LetterKey
  PROVE  ListInv'
<1>1. answer = Open /\ count # 0 /\ paging.left = 0 /\ Steady /\ scroll' = scroll
  BY DEF LetterKey, InMenuBox
<1>2. PICK key \in Hot : /\ RowsOf(key) # {} /\ choice' = NextRow(key)
                         /\ window' = Moved(Dark, scroll, NextRow(key))
  BY DEF LetterKey
<1>3. NextRow(key) \in 0 .. maxChoice - 1
  <2> DEFINE after == {r \in RowsOf(key) : r > choice}
             R == IF after # {} THEN after ELSE RowsOf(key)
  <2>1. NextRow(key) = FirstOfRows(R)
    BY DEF NextRow
  <2>2. R \subseteq 0 .. maxChoice - 1 /\ R # {}
    BY <1>2 DEF RowsOf
  <2> HIDE DEF R
  <2> QED
    BY <1>1, <2>1, <2>2, LetterLeads
<1>4. choice' \in Nat /\ choice' < maxChoice /\ window' = Moved(Dark, scroll', choice')
  BY <1>1, <1>2, <1>3, OpenFacts
<1> QED
  BY <1>1, <1>4, OpenFacts, DarkIsRight, MovedKeeps

LEMMA UpKeeps ==
  ASSUME ListInv, Up
  PROVE  ListInv'
<1>1. answer = Open /\ count # 0 /\ paging.left = 0 /\ Steady
  BY DEF Up, InMenuBox
<1>2. CASE choice < 2 /\ scroll > 0
  <2> DEFINE w == PrintItem(Scrolled(Dark, -1), 0, scroll - 1, FALSE)
  <2>1. scroll' = scroll - 1 /\ choice' = choice /\ window' = Moved(w, scroll - 1, choice)
    BY <1>2 DEF Up
  <2>2. Whole(w) /\ (Shows(Dark, scroll) => Shows(w, scroll - 1)) /\ (Dark.lit = {} => w.lit = {})
    BY <1>1, <1>2, OpenFacts, DarkIsRight, ScrollUpKeeps
  <2> HIDE DEF w
  <2>3. /\ scroll' \in Nat /\ choice' \in Nat /\ scroll' + maxChoice =< count
        /\ choice' < maxChoice /\ window' = Moved(w, scroll', choice')
    BY <1>1, <1>2, <2>1, OpenFacts
  <2>4. ~skewed => Shows(w, scroll') /\ w.lit = {}
    BY <1>1, <2>1, <2>2, DarkIsRight
  <2> QED
    BY <1>1, <2>2, <2>3, <2>4, MovedKeeps
<1>3. CASE ~(choice < 2 /\ scroll > 0)
  <2>1. scroll' = scroll /\ choice' = Most(choice - 1, 0) /\ window' = Moved(Dark, scroll, Most(choice - 1, 0))
    BY <1>3 DEF Up
  <2>2. choice' \in Nat /\ choice' < maxChoice /\ window' = Moved(Dark, scroll', choice')
    BY <1>1, <2>1, OpenFacts DEF Most
  <2> QED
    BY <1>1, <2>1, <2>2, OpenFacts, DarkIsRight, MovedKeeps
<1> QED
  BY <1>2, <1>3

LEMMA DownKeeps ==
  ASSUME ListInv, Down
  PROVE  ListInv'
<1>1. answer = Open /\ count # 0 /\ paging.left = 0 /\ Steady
  BY DEF Down, InMenuBox
<1>2. CASE choice > maxChoice - 3 /\ scroll + maxChoice < count
  <2> DEFINE w == PrintItem(Scrolled(Dark, 1), maxChoice - 1, scroll + maxChoice, FALSE)
  <2>1. scroll' = scroll + 1 /\ choice' = choice /\ window' = Moved(w, scroll + 1, choice)
    BY <1>2 DEF Down
  <2>2. Whole(w) /\ (Shows(Dark, scroll) => Shows(w, scroll + 1)) /\ (Dark.lit = {} => w.lit = {})
    BY <1>1, <1>2, OpenFacts, DarkIsRight, ScrollDownKeeps
  <2> HIDE DEF w
  <2>3. /\ scroll' \in Nat /\ choice' \in Nat /\ scroll' + maxChoice =< count
        /\ choice' < maxChoice /\ window' = Moved(w, scroll', choice')
    BY <1>1, <1>2, <2>1, OpenFacts
  <2>4. ~skewed => Shows(w, scroll') /\ w.lit = {}
    BY <1>1, <2>1, <2>2, DarkIsRight
  <2> QED
    BY <1>1, <2>2, <2>3, <2>4, MovedKeeps
<1>3. CASE ~(choice > maxChoice - 3 /\ scroll + maxChoice < count)
  <2>1. /\ scroll' = scroll /\ choice' = Least(choice + 1, maxChoice - 1)
        /\ window' = Moved(Dark, scroll, Least(choice + 1, maxChoice - 1))
    BY <1>3 DEF Down
  <2>2. choice' \in Nat /\ choice' < maxChoice /\ window' = Moved(Dark, scroll', choice')
    BY <1>1, <2>1, OpenFacts DEF Least
  <2> QED
    BY <1>1, <2>1, <2>2, OpenFacts, DarkIsRight, MovedKeeps
<1> QED
  BY <1>2, <1>3

LEMMA StartPagingKeeps ==
  ASSUME ListInv, StartPaging
  PROVE  ListInv'
<1>1. answer = Open /\ count # 0 /\ paging.left = 0 /\ box = "menu" /\ count \in Nat
  BY OpenFacts DEF StartPaging, InMenuBox
<1>2. UNCHANGED <<still, answer>> /\ scroll' = scroll /\ choice' = choice /\ window' = Dark
  BY DEF StartPaging
<1>3. \E by \in {-1, 1} : paging' = [by |-> by, left |-> maxChoice]
  BY DEF StartPaging
<1>4. /\ paging' \in [by : {-1, 0, 1}, left : Nat] /\ paging'.left # 0 /\ paging'.by # 0
  BY <1>1, <1>3, OpenFacts
<1>5. Placed(scroll', choice')
  BY <1>1, <1>2, OpenFacts DEF Placed
<1>6. Whole(window') /\ (~skewed => Shows(window', scroll') /\ window'.lit = {})
  BY <1>1, <1>2, DarkIsRight
<1> QED
  BY <1>1, <1>2, <1>4, <1>5, <1>6, MoveKeeps

(* One round of the loop over a page.                                      *)
LEMMA RoundKeeps ==
  ASSUME ListInv, answer = Open, count # 0, box = "menu", paging.left > 0, UNCHANGED <<still, answer>>,
         NEW w, Whole(w), NEW s \in Nat, NEW c \in Nat, s + maxChoice =< count, c < maxChoice,
         ~skewed => Shows(w, s) /\ w.lit = {}, Round(w, s, c)
  PROVE  ListInv'
<1>1. scroll' = s /\ choice' = c /\ Placed(scroll', choice') /\ count > 0
  BY OpenFacts DEF Round, Placed
<1>2. ListTypes /\ paging \in [by : {-1, 0, 1}, left : Nat] /\ paging.by # 0 /\ paging.left \in Nat
  BY OpenFacts DEF ListTypes, ListInv, PagingMenu
<1>3. CASE paging.left = 1
  <2>1. paging' = NotPaging /\ window' = Moved(w, s, c)
    BY <1>3 DEF Round
  <2>2. /\ Whole(window') /\ window'.lit = w.lit \cup {c}
        /\ Shows(w, s) => Shows(window', s)
    BY <2>1, MovedIsRight
  <2>3. paging' \in [by : {-1, 0, 1}, left : Nat] /\ paging'.left = 0
    BY <2>1, OpenFacts
  <2> QED
    BY <1>1, <2>2, <2>3, MoveKeeps
<1>4. CASE paging.left # 1
  <2>1. paging' = [paging EXCEPT !.left = @ - 1] /\ window' = w
    BY <1>4 DEF Round
  <2>2. paging' \in [by : {-1, 0, 1}, left : Nat] /\ paging'.left > 0 /\ paging'.by # 0
    BY <1>2, <1>4, <2>1
  <2> QED
    BY <1>1, <2>1, <2>2, MoveKeeps
<1> QED
  BY <1>3, <1>4

LEMMA PageUpKeeps ==
  ASSUME ListInv, PageUp
  PROVE  ListInv'
<1>1. /\ answer = Open /\ count # 0 /\ box = "menu" /\ paging.left > 0
      /\ UNCHANGED <<still, answer>>
  BY DEF ListInv, PagingMenu, PageUp
<1>2. ~skewed => window.lit = {}
  BY <1>1, OpenFacts
<1>3. CASE scroll > 0
  <2> DEFINE w == PrintItem(Scrolled(window, -1), 0, scroll - 1, FALSE)
  <2>1. Round(w, scroll - 1, choice)
    BY <1>3 DEF PageUp
  <2>2. Whole(w) /\ (Shows(window, scroll) => Shows(w, scroll - 1)) /\ (window.lit = {} => w.lit = {})
    BY <1>1, <1>3, OpenFacts, ScrollUpKeeps
  <2> HIDE DEF w
  <2>3. scroll - 1 \in Nat /\ (scroll - 1) + maxChoice =< count
    BY <1>1, <1>3, OpenFacts
  <2>4. ~skewed => Shows(w, scroll - 1) /\ w.lit = {}
    BY <1>1, <1>2, <2>2, OpenFacts
  <2> QED
    BY <1>1, <2>1, <2>2, <2>3, <2>4, OpenFacts, RoundKeeps
<1>4. CASE ~(scroll > 0)
  <2>1. Round(window, scroll, Most(choice - 1, 0))
    BY <1>4 DEF PageUp
  <2>2. Most(choice - 1, 0) \in Nat /\ Most(choice - 1, 0) < maxChoice
    BY <1>1, OpenFacts DEF Most
  <2> QED
    BY <1>1, <1>2, <2>1, <2>2, OpenFacts, RoundKeeps
<1> QED
  BY <1>3, <1>4

LEMMA PageDownKeeps ==
  ASSUME ListInv, PageDown
  PROVE  ListInv'
<1>1. /\ answer = Open /\ count # 0 /\ box = "menu" /\ paging.left > 0
      /\ UNCHANGED <<still, answer>>
  BY DEF ListInv, PagingMenu, PageDown
<1>2. ~skewed => window.lit = {}
  BY <1>1, OpenFacts
<1>3. CASE scroll + maxChoice < count
  <2> DEFINE w == PrintItem(Scrolled(window, 1), maxChoice - 1, scroll + maxChoice, FALSE)
  <2>1. Round(w, scroll + 1, choice)
    BY <1>3 DEF PageDown
  <2>2. Whole(w) /\ (Shows(window, scroll) => Shows(w, scroll + 1)) /\ (window.lit = {} => w.lit = {})
    BY <1>1, <1>3, OpenFacts, ScrollDownKeeps
  <2> HIDE DEF w
  <2>3. scroll + 1 \in Nat /\ (scroll + 1) + maxChoice =< count
    BY <1>1, <1>3, OpenFacts
  <2>4. ~skewed => Shows(w, scroll + 1) /\ w.lit = {}
    BY <1>1, <1>2, <2>2, OpenFacts
  <2> QED
    BY <1>1, <2>1, <2>2, <2>3, <2>4, OpenFacts, RoundKeeps
<1>4. CASE ~(scroll + maxChoice < count)
  <2>1. Round(window, scroll, Least(choice + 1, maxChoice - 1))
    BY <1>4 DEF PageDown
  <2>2. Least(choice + 1, maxChoice - 1) \in Nat /\ Least(choice + 1, maxChoice - 1) < maxChoice
    BY <1>1, OpenFacts DEF Least
  <2> QED
    BY <1>1, <1>2, <2>1, <2>2, OpenFacts, RoundKeeps
<1> QED
  BY <1>3, <1>4

(* The menu is drawn afresh.                                               *)
LEMMA MenuDrawn ==
  ASSUME ListInv, CallMenu \/ ResizeMenu
  PROVE  ListInv'
<1>1. ListTypes /\ count \in Nat /\ given \in Items \cup {None}
  BY DEF ListInv, ListTypes
<1>2. box = "menu" /\ paging.left = 0 /\ answer \in {"called", Open}
  <2>1. answer = "called" => paging.left = 0
    BY <1>1 DEF ListInv, PagingMenu, ListTypes, Open
  <2> QED
    BY <2>1 DEF CallMenu, ResizeMenu, InMenuBox
<1>3. given # None => given \in Nat /\ given < count
  BY <1>1 DEF Items
<1>4. CASE CallMenu
  <2>1. PICK h \in MenuHeights : DrawMenu(h, Default(0), 0)
    BY <1>4 DEF CallMenu
  <2>2. firstItem = 0
    BY <1>4 DEF CallMenu, ListInv, NotYetDrawn
  <2>3. Default(0) \in Nat /\ (Default(0) < count \/ (count = 0 /\ Default(0) = 0))
    BY <1>1, <1>3 DEF Default
  <2> QED
    BY <1>2, <2>1, <2>2, <2>3, DrawMenuKeeps
<1>5. CASE ResizeMenu
  <2>1. PICK h \in MenuHeights : DrawMenu(h, Default(choice), firstItem)
    BY <1>5 DEF ResizeMenu
  <2>2. choice \in Nat /\ (choice < count \/ (count = 0 /\ choice = 0))
    <3>1. Placed(scroll, choice) /\ height \in Nat
      BY <1>5 DEF ResizeMenu, InMenuBox, ListInv, OpenRight, ListTypes
    <3>2. maxChoice \in Nat /\ maxChoice =< count
      BY <1>1, <3>1 DEF maxChoice, Least
    <3> QED
      BY <1>1, <3>1, <3>2 DEF Placed
  <2>3. Default(choice) \in Nat /\ (Default(choice) < count \/ (count = 0 /\ Default(choice) = 0))
    BY <1>1, <1>3, <2>2 DEF Default
  <2> QED
    BY <1>2, <2>1, <2>3, DrawMenuKeeps
<1> QED
  BY <1>4, <1>5

(* An answer takes the item that is highlighted, and changes nothing else. *)
LEMMA AnswerKeeps ==
  ASSUME ListInv, answer = Open, paging.left = 0, saved' \in Nat,
         NEW a, a \notin {"called", Open}, SelectKey(a)
  PROVE  ListInv'
<1>1. /\ UNCHANGED <<scroll, choice, window, box, count, given, height, firstItem, button, mark,
                     paging, skewed>>
      /\ picked' = IF count = 0 THEN None ELSE scroll + choice
      /\ answer' = a
  BY DEF SelectKey, view, called
<1>2. ListTypes /\ ListTypes'
  BY <1>1 DEF ListInv, ListTypes, Items, Buttons
<1>3. NotYetDrawn' /\ OpenRight' /\ PagingMenu' /\ NothingPicked'
  BY <1>1, <1>2 DEF NotYetDrawn, OpenRight, PagingMenu, NothingPicked, ListTypes
<1>4. ASSUME picked' # None
      PROVE  picked' \in Items' /\ (skewed' \/ \E r \in window'.lit : window'.rows[r] = picked')
  <2>1. count # 0 /\ picked' = scroll + choice
    BY <1>1, <1>4
  <2>2. scroll + choice \in Items /\ choice \in Rows /\ choice < maxChoice
    BY <2>1, OpenFacts
  <2>3. ~skewed => choice \in window.lit /\ window.rows[choice] = scroll + choice
    BY <2>1, <2>2, OpenFacts DEF Shows
  <2> QED
    BY <1>1, <2>1, <2>2, <2>3 DEF Items
<1> QED
  BY <1>2, <1>3, <1>4 DEF ListInv, PickIsHighlighted

LEMMA ButtonAnswers ==
  ASSUME NEW b \in 0 .. 4
  PROVE  ButtonAnswer[b + 1] \notin {"called", Open}
<1>1. b = 0 \/ b = 1 \/ b = 2 \/ b = 3 \/ b = 4
  OBVIOUS
<1> QED
  BY <1>1 DEF ButtonAnswer, Open

LEMMA AnswersKeep ==
  ASSUME ListInv, AnswerMenu \/ AnswerCheck
  PROVE  ListInv'
<1>1. /\ answer = Open /\ ListTypes /\ saved \in Nat /\ button \in 0 .. 4
      /\ Placed(scroll, choice)
  <2>1. answer = Open /\ ListTypes /\ Placed(scroll, choice)
    BY DEF AnswerMenu, InMenuBox, AnswerCheck, InCheck, ListInv, OpenRight
  <2>2. saved \in Nat /\ button \in 0 .. 4
    BY <2>1 DEF ListTypes, Buttons
  <2> QED
    BY <2>1, <2>2
<1>2. paging.left = 0
  <2>1. paging.left \in Nat /\ (paging.left > 0 => box = "menu")
    BY <1>1 DEF ListInv, PagingMenu, ListTypes
  <2>2. AnswerMenu => paging.left = 0
    BY DEF AnswerMenu, InMenuBox
  <2>3. AnswerCheck => box = "check"
    BY DEF AnswerCheck, InCheck
  <2> QED
    BY <2>1, <2>2, <2>3
<1>3. saved' \in Nat
  BY <1>1 DEF AnswerMenu, AnswerCheck, Placed
<1>4. CASE AnswerMenu
  <2>1. PICK key \in Ending : SelectKey(KeyAnswer(key))
    BY <1>4 DEF AnswerMenu
  <2>2. KeyAnswer(key) \notin {"called", Open}
    <3>1. CASE key = "enter"
      <4>1. KeyAnswer(key) = ButtonAnswer[button + 1]
        BY <3>1 DEF KeyAnswer
      <4> QED
        BY <1>1, <4>1, ButtonAnswers
    <3>2. CASE key # "enter"
      BY <3>2 DEF KeyAnswer, Ending, Open
    <3> QED
      BY <3>1, <3>2
  <2> QED
    BY <1>1, <1>2, <1>3, <2>1, <2>2, AnswerKeeps
<1>5. CASE AnswerCheck
  <2>1. PICK key : SelectKey(ButtonAnswer[IF key \in {"h", "?"} \/ button = 1 THEN 3 ELSE 1])
    BY <1>5 DEF AnswerCheck
  <2>2. ButtonAnswer[IF key \in {"h", "?"} \/ button = 1 THEN 3 ELSE 1] \notin {"called", Open}
    BY DEF ButtonAnswer, Open
  <2> QED
    BY <1>1, <1>2, <1>3, <2>1, <2>2, AnswerKeeps
<1> QED
  BY <1>4, <1>5

-----------------------------------------------------------------------------
(* What is drawn of a list that is not a menu, or not at all.              *)
LEMMA RefuseKeeps ==
  ASSUME ListInv, answer \in {"called", Open}, paging.left = 0, Refuse
  PROVE  ListInv'
<1>1. /\ UNCHANGED <<box, count, given, height, saved, firstItem, button, mark, picked, skewed,
                     scroll, choice, window, paging>>
      /\ answer' = "too small"
  BY DEF Refuse, still, called, view
<1>2. ListTypes' /\ picked = None
  BY <1>1 DEF ListInv, ListTypes, Items, Buttons, NothingPicked
<1>3. NotYetDrawn' /\ OpenRight' /\ NothingPicked' /\ PickIsHighlighted'
  BY <1>1, <1>2 DEF NotYetDrawn, OpenRight, NothingPicked, PickIsHighlighted, Open
<1>4. PagingMenu'
  <2>1. paging'.left = 0
    BY <1>1
  <2> QED
    BY <2>1 DEF PagingMenu
<1> QED
  BY <1>2, <1>3, <1>4 DEF ListInv

LEMMA DrawCheckKeeps ==
  ASSUME ListInv, box = "check", answer \in {"called", Open}, NEW s \in Nat, NEW c \in Nat,
         s + c < count, c >= ListHeight => s = 0,
         c < ListHeight => s + Least(ListHeight, count) =< count /\ c < Least(ListHeight, count),
         DrawCheck(s, c)
  PROVE  ListInv'
<1> DEFINE from == IF c >= ListHeight THEN c - ListHeight + 1 ELSE s
           i == IF c >= ListHeight THEN ListHeight - 1 ELSE c
<1>1. /\ UNCHANGED <<box, count, given, height, saved, firstItem, button, paging, picked>>
      /\ answer' = Open /\ scroll' = from /\ choice' = i
      /\ window' = Page(ListHeight, count, from, i)
      /\ mark' = 0 /\ skewed' = (skewed \/ button # 0)
  BY DEF DrawCheck, called
<1>2. /\ ListHeight \in Nat \ {0} /\ height = ListHeight /\ count \in Nat /\ count > 0
      /\ ListTypes /\ button \in Int
  BY ListBoxAssumption DEF ListInv, ListTypes, Buttons
<1>3. paging.left = 0 /\ picked = None
  BY <1>2 DEF ListInv, PagingMenu, NothingPicked, ListTypes
<1>4. /\ from \in Nat /\ i \in Nat /\ i < Least(ListHeight, count)
      /\ from + Least(ListHeight, count) =< count
  <2>1. CASE c >= ListHeight
    BY <1>2, <2>1 DEF Least
  <2>2. CASE ~(c >= ListHeight)
    BY <1>2, <2>2
  <2> QED
    BY <2>1, <2>2
<1> HIDE DEF from, i
<1>5. ListTypes'
  BY <1>1, <1>2 DEF ListTypes, Items, Buttons
<1>6. NotYetDrawn' /\ NothingPicked' /\ PickIsHighlighted' /\ PagingMenu'
  BY <1>1, <1>3 DEF NotYetDrawn, NothingPicked, PickIsHighlighted, PagingMenu, Open
<1>7. Placed(scroll, choice)'
  BY <1>1, <1>2, <1>4 DEF Placed, maxChoice
<1>8. PageRight(window', ListHeight, count, from, i)
  BY <1>1, <1>2, <1>4, PageIsRight
<1>9. Whole(window)'
  <2>1. i \in 0 .. ListHeight - 1
    BY <1>2, <1>4 DEF Least
  <2> QED
    BY <1>1, <1>2, <1>8, <2>1 DEF PageRight, Whole, Rows
<1>10. ~skewed' => Shows(window, scroll)' /\ window.lit' = Highlight' /\ mark' = button'
  BY <1>1, <1>2, <1>3, <1>8 DEF PageRight, Shows, Rows, maxChoice, Highlight
<1> QED
  BY <1>1, <1>2, <1>5, <1>6, <1>7, <1>9, <1>10 DEF ListInv, OpenRight

LEMMA CheckDrawn ==
  ASSUME ListInv, CallCheck \/ ResizeCheck
  PROVE  ListInv'
<1>1. box = "check" /\ answer \in {"called", Open} /\ ListTypes
  BY DEF CallCheck, ResizeCheck, InCheck, ListInv
<1>2. paging.left = 0 /\ count \in Nat /\ count > 0 /\ height = ListHeight /\ ListHeight \in Nat
  BY <1>1, ListBoxAssumption DEF ListInv, PagingMenu, ListTypes
<1>3. CASE Refuse
  BY <1>1, <1>2, <1>3, RefuseKeeps
<1>4. CASE CallCheck /\ DrawCheck(0, Default(0))
  <2>1. Default(0) \in Nat /\ 0 + Default(0) < count
    BY <1>1, <1>2 DEF Default, ListTypes, Items
  <2>2. /\ 0 + Least(ListHeight, count) =< count
        /\ Default(0) < ListHeight => Default(0) < Least(ListHeight, count)
    BY <1>2, <2>1 DEF Least
  <2> QED
    BY <1>1, <1>4, <2>1, <2>2, DrawCheckKeeps
<1>5. CASE ResizeCheck /\ DrawCheck(scroll, choice)
  <2>1. answer = Open /\ count # 0
    BY <1>2, <1>5 DEF ResizeCheck, InCheck
  <2>2. /\ scroll \in Nat /\ choice \in Nat /\ scroll + choice < count /\ choice < ListHeight
        /\ scroll + Least(ListHeight, count) =< count /\ choice < Least(ListHeight, count)
    BY <1>2, <2>1, OpenFacts DEF Items, maxChoice
  <2>3. ~(choice >= ListHeight)
    BY <1>2, <2>2
  <2> QED
    BY <1>1, <1>5, <2>2, <2>3, DrawCheckKeeps
<1> QED
  BY <1>3, <1>4, <1>5 DEF CallCheck, ResizeCheck

LEMMA MoveToKeeps ==
  ASSUME ListInv, answer = Open, count # 0, paging.left = 0, Steady,
         NEW c \in Nat, c < maxChoice, MoveTo(c)
  PROVE  ListInv'
<1>1. choice' = c /\ scroll' = scroll
  BY DEF MoveTo
<1>2. CASE c = choice
  <2>1. window' = window
    BY <1>2 DEF MoveTo
  <2>2. UNCHANGED <<still, answer, paging>>
    BY DEF Steady
  <2>3. Placed(scroll', choice')
    BY <1>1, OpenFacts DEF Placed
  <2>4. paging \in [by : {-1, 0, 1}, left : Nat]
    BY OpenFacts DEF ListTypes
  <2> QED
    BY <1>1, <1>2, <2>1, <2>2, <2>3, <2>4, OpenFacts, MoveKeeps
<1>3. CASE c # choice
  <2>1. window' = Moved(Dark, scroll', choice')
    BY <1>1, <1>3 DEF MoveTo
  <2> QED
    BY <1>1, <2>1, OpenFacts, DarkIsRight, MovedKeeps
<1> QED
  BY <1>2, <1>3

(* A list of one row that is drawn again in place.                         *)
LEMMA OneRow ==
  ASSUME ListInv, answer = Open, count # 0, paging.left = 0, height = 1,
         NEW s \in Nat, NEW w, w = PrintItem(window, 0, s, TRUE)
  PROVE  maxChoice = 1 /\ choice = 0 /\ Whole(w) /\ Shows(w, s) /\ (~skewed => w.lit = {0})
<1>1. maxChoice = 1 /\ choice = 0 /\ Rows = {0}
  BY OpenFacts DEF Rows
<1>2. Whole(window) /\ (~skewed => window.lit = {0})
  BY <1>1, OpenFacts
<1>3. w.rows = [window.rows EXCEPT ![0] = s] /\ w.lit = window.lit \cup {0}
  BY DEF PrintItem
<1>4. w.rows \in [Rows -> Int] /\ w.rows[0] = s
  <2>1. window.rows \in [Rows -> Int] /\ 0 \in Rows /\ s \in Int
    BY <1>1, <1>2 DEF Whole
  <2> QED
    BY ONLY <1>3, <2>1
<1>5. Shows(w, s)
  <2>1. w.rows[0] = s + 0
    <3>1. s + 0 = s
      OBVIOUS
    <3> QED
      BY <1>4, <3>1
  <2>2. 0 < maxChoice
    BY <1>1
  <2> QED
    BY <1>1, <2>1, <2>2 DEF Shows
<1>6. Whole(w)
  BY <1>1, <1>2, <1>3, <1>4 DEF Whole
<1> QED
  BY <1>1, <1>2, <1>3, <1>5, <1>6

LEMMA ScrolledKeeps ==
  ASSUME ListInv, answer = Open, count # 0, paging.left = 0, Steady, choice' = choice,
         scroll' \in Nat, scroll' + maxChoice =< count, Whole(window'),
         ~skewed => Shows(window', scroll') /\ window'.lit = {choice}
  PROVE  ListInv'
<1>1. UNCHANGED <<still, answer, paging>>
  BY DEF Steady
<1>2. Placed(scroll', choice')
  BY OpenFacts DEF Placed
<1>3. paging \in [by : {-1, 0, 1}, left : Nat] /\ count \in Nat
  BY OpenFacts DEF ListTypes
<1>4. paging' \in [by : {-1, 0, 1}, left : Nat] /\ paging'.left = 0 /\ count > 0
  BY <1>1, <1>3
<1> QED
  BY <1>1, <1>2, <1>4, MoveKeeps

LEMMA UpCheckKeeps ==
  ASSUME ListInv, UpCheck
  PROVE  ListInv'
<1>1. /\ answer = Open /\ count # 0 /\ Steady /\ paging.left = 0 /\ scroll + choice > 0
      /\ height = ListHeight
  BY DEF UpCheck, InCheck, ListInv, ListTypes, PagingMenu
<1>2. CASE choice # 0
  <2>1. MoveTo(choice - 1)
    BY <1>2 DEF UpCheck
  <2>2. choice - 1 \in Nat /\ choice - 1 < maxChoice
    BY <1>1, <1>2, OpenFacts
  <2> QED
    BY <1>1, <2>1, <2>2, MoveToKeeps
<1>3. CASE choice = 0
  <2>1. ScrollCheck(-1, 0) /\ scroll > 0 /\ scroll - 1 \in Nat /\ scroll + (-1) = scroll - 1
    BY <1>1, <1>3, OpenFacts DEF UpCheck
  <2>2. scroll' = scroll - 1 /\ choice' = choice /\ (scroll - 1) + maxChoice =< count
    BY <1>1, <2>1, OpenFacts DEF ScrollCheck
  <2>3. CASE ListHeight > 1
    <3>1. window' = PrintItem(Scrolled(PrintItem(window, 0, scroll + 0, FALSE), -1), 0, scroll + (-1) + 0, TRUE)
      BY <2>1, <2>3 DEF ScrollCheck
    <3>2. Dark = PrintItem(window, 0, scroll + 0, FALSE)
      BY <1>3 DEF Dark
    <3>3. scroll + (-1) + 0 = scroll - 1
      BY <1>1, OpenFacts
    <3>4. window' = PrintItem(Scrolled(Dark, -1), 0, scroll - 1, TRUE)
      BY <3>1, <3>2, <3>3
    <3>5. /\ Whole(window') /\ (Shows(Dark, scroll) => Shows(window', scroll - 1))
          /\ Dark.lit = {} => window'.lit = {0}
      <4>1. /\ ListTypes /\ Whole(Dark) /\ scroll \in Nat /\ height > 0
            /\ scroll + maxChoice =< count
        BY <1>1, OpenFacts, DarkIsRight
      <4> QED
        BY ONLY <2>1, <3>4, <4>1, ScrollUpKeeps
    <3>6. ~skewed => Shows(window', scroll') /\ window'.lit = {choice}
      BY <1>1, <1>3, <2>2, <3>5, DarkIsRight
    <3> QED
      BY <1>1, <2>1, <2>2, <3>5, <3>6, ScrolledKeeps
  <2>4. CASE ~(ListHeight > 1)
    <3>1. height = 1
      BY <1>1, <2>4, OpenFacts
    <3>2. scroll + (-1) + 0 = scroll - 1
      BY <1>1, OpenFacts
    <3>3. window' = PrintItem(window, 0, scroll - 1, TRUE)
      BY <2>1, <2>4, <3>2 DEF ScrollCheck
    <3>4. /\ Whole(window') /\ Shows(window', scroll - 1) /\ (~skewed => window'.lit = {0})
      BY <1>1, <2>1, <3>1, <3>3, OneRow
    <3> QED
      BY <1>1, <1>3, <2>1, <2>2, <3>4, ScrolledKeeps
  <2> QED
    BY <2>3, <2>4
<1> QED
  BY <1>2, <1>3

LEMMA DownCheckKeeps ==
  ASSUME ListInv, DownCheck
  PROVE  ListInv'
<1>1. /\ answer = Open /\ count # 0 /\ Steady /\ paging.left = 0 /\ scroll + choice < count - 1
      /\ height = ListHeight
  BY DEF DownCheck, InCheck, ListInv, ListTypes, PagingMenu
<1>2. CASE choice # maxChoice - 1
  <2>1. MoveTo(choice + 1)
    BY <1>2 DEF DownCheck
  <2>2. choice + 1 \in Nat /\ choice + 1 < maxChoice
    BY <1>1, <1>2, OpenFacts
  <2> QED
    BY <1>1, <2>1, <2>2, MoveToKeeps
<1>3. CASE choice = maxChoice - 1
  <2>1. ScrollCheck(1, maxChoice - 1) /\ scroll + maxChoice < count /\ scroll + 1 \in Nat
    BY <1>1, <1>3, OpenFacts DEF DownCheck
  <2>2. scroll' = scroll + 1 /\ choice' = choice /\ (scroll + 1) + maxChoice =< count
    BY <1>1, <2>1, OpenFacts DEF ScrollCheck
  <2>3. scroll + 1 + (maxChoice - 1) = scroll + maxChoice
    BY <1>1, OpenFacts
  <2>4. CASE ListHeight > 1
    <3>1. window' = PrintItem(Scrolled(PrintItem(window, maxChoice - 1, scroll + (maxChoice - 1), FALSE), 1),
                              maxChoice - 1, scroll + 1 + (maxChoice - 1), TRUE)
      BY <2>1, <2>4 DEF ScrollCheck
    <3>2. Dark = PrintItem(window, maxChoice - 1, scroll + (maxChoice - 1), FALSE)
      BY <1>3 DEF Dark
    <3>3. window' = PrintItem(Scrolled(Dark, 1), maxChoice - 1, scroll + maxChoice, TRUE)
      BY <2>3, <3>1, <3>2
    <3>4. /\ Whole(window') /\ (Shows(Dark, scroll) => Shows(window', scroll + 1))
          /\ Dark.lit = {} => window'.lit = {maxChoice - 1}
      <4>1. /\ ListTypes /\ Whole(Dark) /\ scroll \in Nat /\ height > 0
            /\ scroll + maxChoice =< count
        BY <1>1, OpenFacts, DarkIsRight
      <4> QED
        BY ONLY <2>1, <3>3, <4>1, ScrollDownKeeps
    <3>5. ~skewed => Shows(window', scroll') /\ window'.lit = {choice}
      BY <1>1, <1>3, <2>2, <3>4, DarkIsRight
    <3> QED
      BY <1>1, <2>1, <2>2, <3>4, <3>5, ScrolledKeeps
  <2>5. CASE ~(ListHeight > 1)
    <3>1. height = 1 /\ maxChoice = 1
      BY <1>1, <2>5, OpenFacts
    <3>2. window' = PrintItem(window, 0, scroll + 1, TRUE)
      <4>1. window' = PrintItem(window, maxChoice - 1, scroll + 1 + (maxChoice - 1), TRUE)
        BY <2>1, <2>5 DEF ScrollCheck
      <4>2. maxChoice - 1 = 0 /\ scroll + 1 + (maxChoice - 1) = scroll + 1
        BY <1>1, <3>1, OpenFacts
      <4> QED
        BY <4>1, <4>2
    <3>3. /\ Whole(window') /\ Shows(window', scroll + 1) /\ choice = 0
          /\ ~skewed => window'.lit = {0}
      BY <1>1, <2>1, <3>1, <3>2, OneRow
    <3> QED
      BY <1>1, <2>1, <2>2, <3>3, ScrolledKeeps
  <2> QED
    BY <2>4, <2>5
<1> QED
  BY <1>2, <1>3

LEMMA LetterCheckKeeps ==
  ASSUME ListInv, LetterCheck
  PROVE  ListInv'
<1>1. answer = Open /\ count # 0 /\ Steady /\ paging.left = 0
  BY DEF LetterCheck, InCheck, ListInv, ListTypes, PagingMenu
<1>2. PICK key : RowsOf(key) # {} /\ MoveTo(FirstOfRows(RowsOf(key)))
  BY DEF LetterCheck
<1>3. FirstOfRows(RowsOf(key)) \in 0 .. maxChoice - 1
  <2>1. RowsOf(key) \subseteq 0 .. maxChoice - 1
    BY DEF RowsOf
  <2> QED
    BY <1>1, <1>2, <2>1, LetterLeads
<1>4. FirstOfRows(RowsOf(key)) \in Nat /\ FirstOfRows(RowsOf(key)) < maxChoice
  BY <1>1, <1>3, OpenFacts
<1> QED
  BY <1>1, <1>2, <1>4, MoveToKeeps

-----------------------------------------------------------------------------
LEMMA YesNoDrawn ==
  ASSUME ListInv, CallYesNo \/ ResizeYesNo
  PROVE  ListInv'
<1>1. /\ box = "yesno" /\ answer \in {"called", Open} /\ ListTypes /\ count = 0
      /\ height = ListHeight /\ ListHeight \in Nat \ {0}
  BY ListBoxAssumption DEF CallYesNo, ResizeYesNo, ListInv, ListTypes
<1>2. paging.left = 0 /\ picked = None
  BY <1>1 DEF ListInv, PagingMenu, NothingPicked, ListTypes
<1>3. CASE Refuse
  BY <1>1, <1>2, <1>3, RefuseKeeps
<1>4. CASE DrawYesNo
  <2>1. /\ UNCHANGED <<box, count, given, scroll, choice, window, height, saved, firstItem, button,
                       paging, picked>>
        /\ answer' = Open /\ mark' = 0 /\ skewed' = (skewed \/ button # 0)
    BY <1>4 DEF DrawYesNo, called, view
  <2>2. Placed(scroll, choice) /\ Whole(window) /\ (~skewed => Shows(window, scroll) /\ window.lit = {})
    <3>1. CASE answer = Open
      BY <1>1, <3>1 DEF ListInv, OpenRight, Highlight
    <3>2. CASE answer = "called"
      <4>1. scroll = 0 /\ choice = 0 /\ window = Page(ListHeight, 0, 0, 0)
        BY <3>2 DEF ListInv, NotYetDrawn
      <4>2. PageRight(window, ListHeight, 0, 0, 0)
        BY <1>1, <4>1, PageIsRight
      <4>3. maxChoice = 0
        BY <1>1 DEF maxChoice, Least
      <4>4. Whole(window) /\ Shows(window, scroll) /\ window.lit = {}
        BY <1>1, <4>1, <4>2, <4>3 DEF PageRight, Whole, Shows, Rows, Least
      <4> QED
        BY <1>1, <4>1, <4>3, <4>4 DEF Placed
    <3> QED
      BY <1>1, <3>1, <3>2
  <2>3. ListTypes'
    BY <1>1, <2>1 DEF ListTypes, Items, Buttons
  <2>4. NotYetDrawn' /\ NothingPicked' /\ PickIsHighlighted' /\ PagingMenu'
    BY <1>2, <2>1 DEF NotYetDrawn, NothingPicked, PickIsHighlighted, PagingMenu, Open
  <2>5. Placed(scroll, choice)' /\ Whole(window)'
    BY <2>1, <2>2 DEF Placed, maxChoice, Whole, Rows
  <2>6. ~skewed' => Shows(window, scroll)' /\ window.lit' = Highlight' /\ mark' = button'
    <3>1. ~skewed' => mark' = button' /\ ~skewed
      BY <2>1
    <3>2. ~skewed => Shows(window, scroll)'
      BY <2>1, <2>2 DEF Shows, maxChoice, Rows
    <3>3. ~skewed => window.lit' = Highlight'
      BY <1>1, <2>1, <2>2 DEF Highlight
    <3> QED
      BY <3>1, <3>2, <3>3
  <2> QED
    BY <1>1, <2>1, <2>3, <2>4, <2>5, <2>6 DEF ListInv, OpenRight
<1> QED
  BY <1>3, <1>4 DEF CallYesNo, ResizeYesNo

(* What ends a dialog, and leaves what is drawn.                           *)
LEMMA EndKeeps ==
  ASSUME ListInv, UNCHANGED <<still, view, paging>>, answer = Open, paging.left = 0,
         answer' # "called"
  PROVE  ListInv'
<1>1. UNCHANGED <<box, count, given, height, saved, firstItem, button, mark, picked, skewed,
                  scroll, choice, window, paging>>
  BY DEF still, called, view
<1>2. ListTypes' /\ picked = None
  BY <1>1 DEF ListInv, ListTypes, Items, Buttons, NothingPicked
<1>3. OpenRight'
  BY <1>1 DEF ListInv, OpenRight, Placed, maxChoice, Whole, Rows, Shows, Highlight
<1> QED
  BY <1>1, <1>2, <1>3
     DEF ListInv, NotYetDrawn, PagingMenu, NothingPicked, PickIsHighlighted

LEMMA ButtonKeeps ==
  ASSUME ListInv, Button
  PROVE  ListInv'
<1>1. PICK by \in {-1, 1} : button' = (button + by) % Buttons /\ mark' = (button + by) % Buttons
  BY DEF Button
<1>2. UNCHANGED <<box, count, given, scroll, choice, window, height, saved, firstItem, paging,
                  answer, picked, skewed>>
  BY DEF Button, called, view
<1>3. answer = Open /\ ListTypes /\ button \in 0 .. Buttons - 1
  BY DEF Button, ListInv, ListTypes
<1>4. (button + by) % Buttons \in 0 .. Buttons - 1
  BY <1>3 DEF Buttons
<1>5. ListTypes'
  BY <1>1, <1>2, <1>3, <1>4 DEF ListTypes, Items, Buttons
<1>6. OpenRight'
  BY <1>1, <1>2 DEF ListInv, OpenRight, Placed, maxChoice, Whole, Rows, Shows, Highlight
<1> QED
  BY <1>2, <1>3, <1>5, <1>6
     DEF ListInv, NotYetDrawn, PagingMenu, NothingPicked, PickIsHighlighted, Items, Open

LEMMA ListInvInit == ListBoxInit => ListInv
<1> SUFFICES ASSUME ListBoxInit PROVE ListInv
  OBVIOUS
<1>1. /\ ListHeight \in Nat \ {0} /\ MaxItems \in Nat
      /\ box \in {"menu", "check", "yesno"}
      /\ answer = "called" /\ picked = None /\ paging = NotPaging
  BY ListBoxAssumption DEF ListBoxInit
<1>2. count \in Nat /\ (box = "check" => count > 0) /\ (box = "yesno" => count = 0)
  BY <1>1 DEF ListBoxInit
<1>3. ListTypes
  <2>1. paging \in [by : {-1, 0, 1}, left : Nat] /\ button = 0 /\ Buttons \in {2, 5}
    BY <1>1 DEF ListBoxInit, NotPaging, Buttons
  <2>2. saved \in Nat /\ height = ListHeight /\ firstItem = 0 /\ skewed = FALSE
    BY <1>1 DEF ListBoxInit
  <2>3. given \in Items \cup {None}
    BY DEF ListBoxInit
  <2>4. button \in 0 .. Buttons - 1
    BY ONLY <2>1
  <2>5. skewed \in BOOLEAN
    BY ONLY <2>2
  <2>6. height \in Nat /\ saved \in Nat /\ firstItem \in Int /\ (box # "menu" => height = ListHeight)
    BY ONLY <1>1, <2>2
  <2>7. box \in {"menu", "check", "yesno"} /\ paging \in [by : {-1, 0, 1}, left : Nat]
    BY ONLY <1>1, <2>1
  <2> QED
    BY ONLY <1>2, <2>3, <2>4, <2>5, <2>6, <2>7 DEF ListTypes
<1>4. NotYetDrawn
  BY DEF ListBoxInit, NotYetDrawn
<1> QED
  BY <1>1, <1>3, <1>4
     DEF ListInv, OpenRight, PagingMenu, NothingPicked, PickIsHighlighted, NotPaging, Open

LEMMA ListInvStep == ListInv /\ [ListBoxNext]_listBoxVars => ListInv'
<1> SUFFICES ASSUME ListInv, [ListBoxNext]_listBoxVars PROVE ListInv'
  OBVIOUS
<1>1. CASE CallMenu \/ ResizeMenu
  BY <1>1, MenuDrawn
<1>2. CASE LetterKey \/ Up \/ Down \/ StartPaging \/ PageUp \/ PageDown
  BY <1>2, LetterKeyKeeps, UpKeeps, DownKeeps, StartPagingKeeps, PageUpKeeps, PageDownKeeps
<1>3. CASE AnswerMenu \/ AnswerCheck
  BY <1>3, AnswersKeep
<1>4. CASE CallCheck \/ ResizeCheck \/ UpCheck \/ DownCheck \/ LetterCheck
  BY <1>4, CheckDrawn, UpCheckKeeps, DownCheckKeeps, LetterCheckKeeps
<1>5. CASE CallYesNo \/ ResizeYesNo
  BY <1>5, YesNoDrawn
<1>6. CASE AnswerYesNo
  <2>1. answer' # "called" /\ answer = Open /\ box = "yesno" /\ UNCHANGED <<still, view, paging>>
    BY <1>6 DEF AnswerYesNo
  <2>2. paging.left = 0
    BY <2>1 DEF ListInv, ListTypes, PagingMenu
  <2> QED
    BY <2>1, <2>2, EndKeeps
<1>7. CASE Button
  BY <1>7, ButtonKeeps
<1>8. CASE EscapeList
  <2>1. answer' # "called" /\ answer = Open /\ paging.left = 0 /\ UNCHANGED <<still, view, paging>>
    BY <1>8 DEF EscapeList, OnKeyEsc, Open
  <2> QED
    BY <2>1, EndKeeps
<1>9. CASE UNCHANGED listBoxVars
  BY <1>9 DEF listBoxVars, ListInv, ListTypes, Items, Buttons, NotYetDrawn, OpenRight, Placed,
              maxChoice, Whole, Rows, Shows, Highlight, PagingMenu, NothingPicked, PickIsHighlighted
<1> QED
  BY <1>1, <1>2, <1>3, <1>4, <1>5, <1>6, <1>7, <1>8, <1>9 DEF ListBoxNext

(* Each row of the window of a list shows the item that the program takes  *)
(* it for, only the current one is highlighted, and what is selected is    *)
(* the item that was highlighted: for lists, windows and letters of any    *)
(* kind, whatever is scrolled, paged or drawn again.                       *)
THEOREM WindowAlwaysRight == ListBoxSpec => []WindowIsRight
BY ListInvInit, ListInvStep, InvShows, PTL DEF ListBoxSpec

-----------------------------------------------------------------------------
(* The boxes of nconf: first, the lines of a text.                         *)

(* The newlines among the first characters.                                *)
EndsTo(t, i) == {k \in 1 .. i : t[k] = EndOfLine}

LEMMA EndsCounted ==
  ASSUME NEW t \in Seq(Typed \cup {EndOfLine}), NEW i \in 0 .. Len(t)
  PROVE  /\ IsFiniteSet(EndsTo(t, i)) /\ Cardinality(EndsTo(t, i)) \in Nat
         /\ LineCount(SubSeq(t, 1, i)) = 1 + Cardinality(EndsTo(t, i))
         /\ i = 0 => Cardinality(EndsTo(t, i)) = 0
<1>1. Len(t) \in Nat /\ i \in Nat
  OBVIOUS
<1>2. IsFiniteSet(1 .. i)
  BY <1>1, FS_Interval
<1>3. IsFiniteSet(EndsTo(t, i)) /\ Cardinality(EndsTo(t, i)) \in Nat
  BY <1>2, FS_Subset, FS_CardinalityType DEF EndsTo
<1>4. LineEnds(SubSeq(t, 1, i)) = EndsTo(t, i)
  <2>1. \A k \in 1 .. i : t[k] \in Typed \cup {EndOfLine}
    BY <1>1
  <2>2. /\ Len(SubSeq(t, 1, i)) = i
        /\ \A k \in 1 .. i : SubSeq(t, 1, i)[k] = t[k]
    <3>1. /\ Len(SubSeq(t, 1, i)) = IF 1 =< i THEN i - 1 + 1 ELSE 0
          /\ \A k \in 1 .. i - 1 + 1 : SubSeq(t, 1, i)[k] = t[1 + k - 1]
      BY <1>1, <2>1, SubSeqProperties
    <3>2. i - 1 + 1 = i /\ \A k \in 1 .. i : 1 + k - 1 = k
      BY <1>1
    <3> QED
      BY <1>1, <3>1, <3>2
  <2> QED
    BY <2>2 DEF LineEnds, EndsTo
<1>5. i = 0 => Cardinality(EndsTo(t, i)) = 0
  <2>1. i = 0 => EndsTo(t, i) = {}
    BY DEF EndsTo
  <2> QED
    BY <2>1, FS_EmptySet
<1> QED
  BY <1>3, <1>4, <1>5 DEF LineCount

LEMMA AllCounted ==
  ASSUME NEW t \in Seq(Typed \cup {EndOfLine})
  PROVE  LineCount(t) = 1 + Cardinality(EndsTo(t, Len(t))) /\ LineCount(t) \in Nat
<1>1. LineEnds(t) = EndsTo(t, Len(t))
  BY DEF LineEnds, EndsTo
<1>2. Len(t) \in 0 .. Len(t)
  OBVIOUS
<1> QED
  BY <1>1, <1>2, EndsCounted DEF LineCount

LEMMA CountGrows ==
  ASSUME NEW t \in Seq(Typed \cup {EndOfLine}), NEW i \in 1 .. Len(t)
  PROVE  Cardinality(EndsTo(t, i)) =
           IF t[i] = EndOfLine THEN Cardinality(EndsTo(t, i - 1)) + 1
           ELSE Cardinality(EndsTo(t, i - 1))
<1>1. i \in Nat /\ i - 1 \in 0 .. Len(t)
  OBVIOUS
<1>2. IsFiniteSet(EndsTo(t, i - 1)) /\ i \notin EndsTo(t, i - 1)
  <2>1. IsFiniteSet(EndsTo(t, i - 1))
    BY <1>1, EndsCounted
  <2>2. i \notin EndsTo(t, i - 1)
    BY ONLY <1>1 DEF EndsTo
  <2> QED
    BY <2>1, <2>2
<1>3. CASE t[i] = EndOfLine
  <2>1. EndsTo(t, i) = EndsTo(t, i - 1) \cup {i}
    BY <1>1, <1>3 DEF EndsTo
  <2> QED
    BY <1>2, <1>3, <2>1, FS_AddElement
<1>4. CASE t[i] # EndOfLine
  <2>1. EndsTo(t, i) = EndsTo(t, i - 1)
    BY <1>1, <1>4 DEF EndsTo
  <2> QED
    BY <1>4, <2>1
<1> QED
  BY <1>3, <1>4

LEMMA CountMonotonic ==
  ASSUME NEW t \in Seq(Typed \cup {EndOfLine}), NEW i \in 0 .. Len(t), NEW k \in i .. Len(t)
  PROVE  /\ k \in 0 .. Len(t) /\ Cardinality(EndsTo(t, i)) =< Cardinality(EndsTo(t, k))
         /\ i < k /\ t[k] = EndOfLine => Cardinality(EndsTo(t, i)) < Cardinality(EndsTo(t, k))
<1>1. /\ k \in 0 .. Len(t) /\ i \in Nat /\ k \in Nat /\ Len(t) \in Nat
  OBVIOUS
<1>2. ASSUME NEW m \in i .. Len(t)
      PROVE  Cardinality(EndsTo(t, i)) =< Cardinality(EndsTo(t, m))
  <2>1. EndsTo(t, i) \in SUBSET EndsTo(t, m)
    BY <1>1 DEF EndsTo
  <2>2. IsFiniteSet(EndsTo(t, m))
    BY <1>1, EndsCounted
  <2> QED
    BY <2>1, <2>2, FS_Subset
<1>3. ASSUME i < k, t[k] = EndOfLine
      PROVE  Cardinality(EndsTo(t, i)) < Cardinality(EndsTo(t, k))
  <2>1. k \in 1 .. Len(t) /\ k - 1 \in i .. Len(t) /\ k - 1 \in 0 .. Len(t)
    BY <1>1, <1>3
  <2>2. Cardinality(EndsTo(t, k)) = Cardinality(EndsTo(t, k - 1)) + 1
    BY <1>3, <2>1, CountGrows
  <2>3. Cardinality(EndsTo(t, i)) =< Cardinality(EndsTo(t, k - 1))
    BY <1>2, <2>1
  <2>4. Cardinality(EndsTo(t, i)) \in Nat /\ Cardinality(EndsTo(t, k - 1)) \in Nat
    BY <2>1, EndsCounted
  <2> QED
    BY <2>2, <2>3, <2>4
<1> QED
  BY <1>1, <1>2, <1>3

(* Every line but the first follows a newline.                             *)
LEMMA LineBegins ==
  ASSUME NEW t \in Seq(Typed \cup {EndOfLine}), NEW n \in 0 .. LineCount(t) - 1
  PROVE  \E i \in 0 .. Len(t) :
           /\ LineFrom(t, n) = i + 1 /\ Cardinality(EndsTo(t, i)) = n
           /\ i # 0 => t[i] = EndOfLine
<1>0. Len(t) \in Nat /\ n \in Nat /\ LineCount(t) \in Nat
  BY AllCounted
<1>1. CASE n = 0
  <2>1. LineFrom(t, n) = 0 + 1 /\ 0 \in 0 .. Len(t)
    BY <1>0, <1>1 DEF LineFrom
  <2> QED
    BY <1>1, <2>1, EndsCounted
<1>2. CASE n # 0
  <2> DEFINE T == {i \in 0 .. Len(t) : Cardinality(EndsTo(t, i)) >= n}
  <2>1. Len(t) \in T
    BY <1>0, AllCounted, EndsCounted
  <2>2. T \subseteq Nat /\ T # {}
    BY <2>1
  <2>3. PICK i \in T : \A k \in T : i =< k
    <3> HIDE DEF T
    <3> QED
      BY <2>2, LeastNatural
  <2>4. i \in 0 .. Len(t) /\ Cardinality(EndsTo(t, i)) >= n /\ i # 0
    BY <1>0, <1>2, EndsCounted
  <2>5. i \in 1 .. Len(t) /\ i - 1 \in 0 .. Len(t) /\ i - 1 \notin T
    BY <1>0, <2>3, <2>4
  <2>6. /\ Cardinality(EndsTo(t, i - 1)) \in Nat /\ Cardinality(EndsTo(t, i)) \in Nat
        /\ Cardinality(EndsTo(t, i - 1)) < n
    BY <1>0, <2>4, <2>5, EndsCounted
  <2>7. t[i] = EndOfLine /\ Cardinality(EndsTo(t, i)) = n
    BY <1>0, <2>4, <2>5, <2>6, CountGrows
  <2>8. i \in LineEnds(t) /\ LineCount(SubSeq(t, 1, i)) = n + 1
    BY <1>0, <2>4, <2>5, <2>7, EndsCounted DEF LineEnds
  <2> DEFINE e == CHOOSE k \in LineEnds(t) : LineCount(SubSeq(t, 1, k)) = n + 1
  <2>9. e \in LineEnds(t) /\ LineCount(SubSeq(t, 1, e)) = n + 1
    BY <2>8
  <2>10. LineFrom(t, n) = 1 + e
    BY <1>2 DEF LineFrom
  <2> HIDE DEF e
  <2>11. e \in 0 .. Len(t) /\ t[e] = EndOfLine /\ 1 + e = e + 1
    BY <1>0, <2>9 DEF LineEnds
  <2>12. Cardinality(EndsTo(t, e)) = n
    BY <1>0, <2>9, <2>11, EndsCounted
  <2> QED
    BY <2>10, <2>11, <2>12
<1> QED
  BY <1>1, <1>2

(* A line that begins with a character has a length.                       *)
LEMMA LineIsMeasured ==
  ASSUME NEW t \in Seq(Typed \cup {EndOfLine}), NEW n \in 0 .. LineCount(t) - 1,
         NEW i \in 0 .. Len(t), LineFrom(t, n) = i + 1
  PROVE  /\ LineLength(t, n) \in 0 .. Len(t)
         /\ i < Len(t) /\ t[i + 1] # EndOfLine => LineLength(t, n) > 0
<1> DEFINE rest == SubSeq(t, i + 1, Len(t))
           K == {k \in 0 .. Len(rest) : k = Len(rest) \/ rest[k + 1] = EndOfLine}
           Good(k) == /\ \A j \in 1 .. k : rest[j] # EndOfLine
                      /\ k = Len(rest) \/ rest[k + 1] = EndOfLine
<1>0. Len(t) \in Nat /\ i \in Nat
  OBVIOUS
<1>1. /\ Len(rest) \in 0 .. Len(t) /\ Len(rest) = Len(t) - i
      /\ i < Len(t) => rest[1] = t[i + 1]
  <2>1. \A k \in i + 1 .. Len(t) : t[k] \in Typed \cup {EndOfLine}
    BY <1>0
  <2>2. /\ Len(rest) = IF i + 1 =< Len(t) THEN Len(t) - (i + 1) + 1 ELSE 0
        /\ \A k \in 1 .. Len(t) - (i + 1) + 1 : rest[k] = t[(i + 1) + k - 1]
    BY <1>0, <2>1, SubSeqProperties
  <2>3. Len(rest) = Len(t) - i
    BY <1>0, <2>2
  <2>4. i < Len(t) => 1 \in 1 .. Len(t) - (i + 1) + 1 /\ (i + 1) + 1 - 1 = i + 1
    BY <1>0
  <2> QED
    BY <1>0, <2>2, <2>3, <2>4
<1>2. LineLength(t, n) = CHOOSE k \in 0 .. Len(rest) : Good(k)
  BY DEF LineLength
<1> HIDE DEF rest
<1>3. \E k \in 0 .. Len(rest) : Good(k)
  <2>1. Len(rest) \in K /\ K \subseteq Nat
    BY <1>1
  <2>2. PICK k \in K : \A m \in K : k =< m
    <3> HIDE DEF K
    <3> QED
      BY <2>1, LeastNatural
  <2>3. \A j \in 1 .. k : rest[j] # EndOfLine
    <3> SUFFICES ASSUME NEW j \in 1 .. k, rest[j] = EndOfLine PROVE FALSE
      OBVIOUS
    <3>1. j - 1 \in 0 .. Len(rest) /\ (j - 1) + 1 = j /\ ~(k =< j - 1)
      BY <1>1, <2>2
    <3>2. j - 1 \in K
      BY <3>1
    <3> QED
      BY <2>2, <3>1, <3>2
  <2> QED
    BY <2>2, <2>3
<1> HIDE DEF K
<1> DEFINE m == LineLength(t, n)
<1>4. m \in 0 .. Len(rest) /\ Good(m)
  <2> HIDE DEF Good
  <2> QED
    BY <1>2, <1>3
<1>5. ASSUME i < Len(t), t[i + 1] # EndOfLine PROVE m # 0
  <2>1. Len(rest) # 0 /\ rest[0 + 1] # EndOfLine
    BY <1>0, <1>1, <1>5
  <2> QED
    BY <1>4, <2>1
<1> QED
  BY <1>0, <1>1, <1>4, <1>5

(* A text that has a character has a width.                                *)
LEMMA TextIsWide ==
  ASSUME NEW t \in Seq(Typed \cup {EndOfLine}), NEW j \in 1 .. Len(t), t[j] # EndOfLine
  PROVE  Widest(t) \in Nat /\ Widest(t) > 0
<1>0. Len(t) \in Nat /\ LineCount(t) \in Nat /\ j \in Nat /\ j \in 0 .. Len(t)
  BY AllCounted
<1>1. \A n \in 0 .. LineCount(t) - 1 : LineLength(t, n) \in 0 .. Len(t)
  BY LineBegins, LineIsMeasured
<1>2. \E n \in 0 .. LineCount(t) - 1 : LineLength(t, n) > 0
  <2> DEFINE n == Cardinality(EndsTo(t, j))
  <2>1. n \in 0 .. LineCount(t) - 1
    <3>1. n \in Nat /\ n =< Cardinality(EndsTo(t, Len(t))) /\ Cardinality(EndsTo(t, Len(t))) \in Nat
      <4>1. Len(t) \in j .. Len(t) /\ Len(t) \in 0 .. Len(t)
        BY <1>0
      <4> QED
        BY <1>0, <4>1, EndsCounted, CountMonotonic
    <3> QED
      BY <3>1, AllCounted
  <2>2. PICK i \in 0 .. Len(t) : /\ LineFrom(t, n) = i + 1 /\ Cardinality(EndsTo(t, i)) = n
                                 /\ i # 0 => t[i] = EndOfLine
    <3> HIDE DEF n
    <3> QED
      BY <2>1, LineBegins
  <2>3. i < j
    <3> SUFFICES ASSUME ~(i < j) PROVE FALSE
      OBVIOUS
    <3>1. i # 0 /\ t[i] = EndOfLine /\ j < i /\ i \in j .. Len(t)
      BY <1>0, <2>2
    <3>2. Cardinality(EndsTo(t, j)) < Cardinality(EndsTo(t, i))
      BY <1>0, <3>1, CountMonotonic
    <3>3. Cardinality(EndsTo(t, j)) \in Nat
      BY <1>0, EndsCounted
    <3> QED
      BY <2>2, <3>2, <3>3
  <2>4. i + 1 \in 1 .. Len(t) /\ i < Len(t) /\ i + 1 \in 0 .. Len(t) /\ j \in i + 1 .. Len(t)
    BY <1>0, <2>3
  <2>5. t[i + 1] # EndOfLine
    <3> SUFFICES ASSUME t[i + 1] = EndOfLine PROVE FALSE
      OBVIOUS
    <3>1. Cardinality(EndsTo(t, i + 1)) = Cardinality(EndsTo(t, i)) + 1
      <4>1. (i + 1) - 1 = i
        BY <1>0, <2>4
      <4> QED
        BY <2>4, <4>1, CountGrows
    <3>2. Cardinality(EndsTo(t, i + 1)) =< Cardinality(EndsTo(t, j))
      BY <2>4, CountMonotonic
    <3>3. Cardinality(EndsTo(t, j)) \in Nat
      BY <1>0, EndsCounted
    <3> QED
      BY <2>2, <3>1, <3>2, <3>3
  <2>6. LineLength(t, n) > 0
    <3> HIDE DEF n
    <3> QED
      BY <2>1, <2>2, <2>4, <2>5, LineIsMeasured
  <2> QED
    BY <2>1, <2>6
<1>3. PICK n \in 0 .. LineCount(t) - 1 : LineLength(t, n) > 0
  BY <1>2
<1> DEFINE W == {LineLength(t, k) : k \in 0 .. LineCount(t) - 1}
<1>4. W \subseteq 0 .. Len(t) /\ LineLength(t, n) \in W
  BY <1>1
<1>5. \E w \in W : \A k \in 0 .. LineCount(t) - 1 : LineLength(t, k) =< w
  <2>1. PICK w \in W : \A v \in W : v =< w
    <3> HIDE DEF W
    <3>1. LineLength(t, n) \in 0 .. Len(t)
      BY <1>4
    <3>2. PICK m \in 0 .. Len(t) : m \in W /\ \A v \in m + 1 .. Len(t) : v \notin W
      BY <1>0, <1>4, <3>1, GreatestUpTo
    <3>3. ASSUME NEW v \in W PROVE v =< m
      <4>1. v \in 0 .. Len(t) /\ v \notin m + 1 .. Len(t)
        BY <1>4, <3>2
      <4> QED
        BY <1>0, <4>1
    <3> QED
      BY <3>2, <3>3
  <2> QED
    BY <2>1
<1>6. Widest(t) \in W /\ \A k \in 0 .. LineCount(t) - 1 : LineLength(t, k) =< Widest(t)
  BY <1>5 DEF Widest
<1> QED
  BY <1>0, <1>1, <1>3, <1>4, <1>6

-----------------------------------------------------------------------------
(* show_scroll_win: the pane is never beyond the text.                     *)
PaneOnText ==
  shownBox = "scroll" =>
    /\ LineCount(letter) \in Nat
    /\ pane.lines \in 0 .. LineCount(letter) /\ startY \in 0 .. LineCount(letter) - pane.lines

LEMMA HeldOnText ==
  ASSUME NEW total \in Nat, NEW seen \in 0 .. total, NEW y \in Int
  PROVE  Held(y, total, seen) \in 0 .. total - seen
BY DEF Held, Shorter, Longer

LEMMA PaneInit == NconfBoxesInit => PaneOnText
<1> SUFFICES ASSUME NconfBoxesInit, shownBox = "scroll" PROVE PaneOnText
  BY DEF PaneOnText
<1>1. PICK t \in Pages, d \in Displays : OpenScroll(t, d)
  BY DEF NconfBoxesInit
<1>2. t \in Seq(Typed \cup {EndOfLine}) /\ d.lines \in Nat
  BY NconfBoxesAssumption
<1>3. LineCount(t) \in Nat
  BY <1>2, AllCounted
<1>4. letter = t /\ pane.lines = Longer(Shorter(LineCount(t) + 4, d.lines - 2) - 4, 0) /\ startY = 0
  BY <1>1 DEF OpenScroll, PaneOf
<1>5. pane.lines \in 0 .. LineCount(t)
  BY <1>2, <1>3, <1>4 DEF Longer, Shorter
<1> QED
  BY <1>3, <1>4, <1>5 DEF PaneOnText

LEMMA PaneStep == PaneOnText /\ [NconfBoxesNext]_nconfBoxVars => PaneOnText'
<1> SUFFICES ASSUME PaneOnText, [NconfBoxesNext]_nconfBoxVars, shownBox' = "scroll"
             PROVE  PaneOnText'
  BY DEF PaneOnText
<1>1. CASE UNCHANGED <<shownBox, letter, pane, startY>>
  BY <1>1 DEF PaneOnText
<1>2. ASSUME NEW y \in Int, ScrollKey, ToLine(y) PROVE PaneOnText'
  <2>1. /\ LineCount(letter) \in Nat /\ pane.lines \in 0 .. LineCount(letter)
        /\ letter' = letter /\ pane' = pane /\ startY' = Held(y, LineCount(letter), pane.lines)
    BY <1>2 DEF PaneOnText, ScrollKey, Asked, ToLine, TotalLines
  <2>2. startY' \in 0 .. LineCount(letter) - pane.lines
    BY <2>1, HeldOnText
  <2> QED
    BY <2>1, <2>2 DEF PaneOnText
<1>3. CASE PageForward \/ PageBackward \/ ScrollHome \/ ScrollEnd \/ LineForward \/ LineBackward
  <2>1. ScrollKey
    BY <1>3 DEF PageForward, PageBackward, ScrollHome, ScrollEnd, LineForward, LineBackward
  <2>2. LineCount(letter) \in Nat /\ pane.lines \in Int /\ startY \in Int
    BY <2>1 DEF PaneOnText, ScrollKey, Asked
  <2>3. \E y \in Int : ToLine(y)
    <3>1. CASE PageForward
      <4>1. startY + Ahead \in Int
        BY <2>2 DEF Ahead
      <4> QED
        BY <3>1, <4>1 DEF PageForward
    <3>2. CASE PageBackward
      <4>1. startY - (pane.lines + 2) \in Int
        BY <2>2
      <4> QED
        BY <3>2, <4>1 DEF PageBackward
    <3>3. CASE ScrollEnd
      <4>1. TotalLines - pane.lines \in Int
        BY <2>2 DEF TotalLines
      <4> QED
        BY <3>3, <4>1 DEF ScrollEnd
    <3>4. CASE ScrollHome \/ LineForward \/ LineBackward
      <4>1. 0 \in Int /\ startY + 1 \in Int /\ startY - 1 \in Int
        BY <2>2
      <4> QED
        BY <3>4, <4>1 DEF ScrollHome, LineForward, LineBackward
    <3> QED
      BY <1>3, <3>1, <3>2, <3>3, <3>4
  <2> QED
    BY <1>2, <2>1, <2>3
<1>4. CASE ScrollSideways \/ CloseScroll \/ MoveButton \/ PressButton \/ AnswerEntry
  <2>1. UNCHANGED <<shownBox, letter, pane, startY>>
    BY <1>4 DEF ScrollSideways, CloseScroll, MoveButton, PressButton, AnswerEntry, ScrollKey,
                ToColumn, scrollVars
  <2> QED
    BY <1>1, <2>1
<1>5. CASE TypeChar \/ RubOut \/ CutNext \/ GoRight \/ GoLeft \/ GoHome \/ GoToEnd \/ AskAgain
  <2>1. shownBox' = "entry"
    BY <1>5 DEF TypeChar, RubOut, CutNext, GoRight, GoLeft, GoHome, GoToEnd, AskAgain, EntryKey,
                Asked
  <2> QED
    BY <2>1
<1>6. CASE UNCHANGED nconfBoxVars
  BY <1>1, <1>6 DEF nconfBoxVars, scrollVars
<1> QED
  BY <1>3, <1>4, <1>5, <1>6 DEF NconfBoxesNext

NoLineIsPassed ==
  /\ (PageForward \/ LineForward) /\ pane.lines >= Shorter(3, TotalLines) =>
       \/ startY' = startY /\ LastLineSeen
       \/ startY' \in startY + 1 .. startY + pane.lines - 1
  /\ ScrollEnd => LastLineSeen'

LEMMA NothingPassedStep == PaneOnText => NoLineIsPassed
<1> SUFFICES ASSUME PaneOnText PROVE NoLineIsPassed
  OBVIOUS
<1> DEFINE total == LineCount(letter)
           seen == pane.lines
<1>1. ASSUME ScrollKey
      PROVE  total \in Nat /\ seen \in 0 .. total /\ startY \in 0 .. total - seen
  BY <1>1 DEF PaneOnText, ScrollKey, Asked
<1>2. ASSUME PageForward \/ LineForward, seen >= Shorter(3, TotalLines)
      PROVE  \/ startY' = startY /\ LastLineSeen
             \/ startY' \in startY + 1 .. startY + seen - 1
  <2>1. ScrollKey
    BY <1>2 DEF PageForward, LineForward
  <2>2. total \in Nat /\ seen \in 0 .. total /\ startY \in 0 .. total - seen
    BY <1>1, <2>1
  <2>3. \/ startY' = Held(startY + seen - 2, total, seen)
        \/ startY' = Held(startY + 1, total, seen)
    <3>1. startY + (seen - 2) = startY + seen - 2
      BY <2>2
    <3> QED
      BY <1>2, <3>1 DEF PageForward, LineForward, ToLine, Ahead, TotalLines
  <2>4. seen >= Shorter(3, total)
    BY <1>2 DEF TotalLines
  <2>5. LastLineSeen <=> (seen > 1 => total - 2 \in startY .. startY + seen - 2)
    BY DEF LastLineSeen, RowsSeen, TotalLines
  <2> HIDE DEF total, seen
  <2> QED
    BY <2>2, <2>3, <2>4, <2>5 DEF Held, Shorter, Longer
<1>3. ASSUME ScrollEnd PROVE LastLineSeen'
  <2>1. ScrollKey
    BY <1>3 DEF ScrollEnd
  <2>2. total \in Nat /\ seen \in 0 .. total /\ startY \in 0 .. total - seen
    BY <1>1, <2>1
  <2>3. startY' = Held(total - seen, total, seen) /\ letter' = letter /\ pane' = pane
    BY <1>3 DEF ScrollEnd, ScrollKey, ToLine, TotalLines
  <2>4. startY' = total - seen
    <3> HIDE DEF total, seen
    <3> QED
      BY <2>2, <2>3 DEF Held, Shorter, Longer
  <2>5. LastLineSeen' <=> (seen > 1 => total - 2 \in startY' .. startY' + seen - 2)
    BY <2>3 DEF LastLineSeen, RowsSeen, TotalLines
  <2> HIDE DEF total, seen
  <2> QED
    BY <2>2, <2>4, <2>5
<1> QED
  BY <1>2, <1>3 DEF NoLineIsPassed

(* Page Down, the Down key and End of show_scroll_win pass no line, on     *)
(* every display and every text.                                           *)
THEOREM NoLinePassed == NconfBoxesSpec => NothingIsPassed
<1>1. NconfBoxesInit => PaneOnText
  BY PaneInit
<1>2. PaneOnText /\ [NconfBoxesNext]_nconfBoxVars => PaneOnText'
  BY PaneStep
<1>3. PaneOnText => [NoLineIsPassed]_nconfBoxVars
  BY NothingPassedStep
<1> QED
  BY <1>1, <1>2, <1>3, PTL DEF NconfBoxesSpec, NothingIsPassed, NoLineIsPassed

-----------------------------------------------------------------------------
(* dialog_inputbox: the field, its cursor and its buffer.                  *)
EntryTypes ==
  /\ draft \in Seq(Typed) /\ Len(draft) =< MaxDraft
  /\ promptWidth \in Nat \ {0} /\ room \in Nat
EntryInv == EntryTypes /\ CaretIsInField

LEMMA WidthOfEntry ==
  ASSUME NEW p \in Prompts, NEW d \in Displays
  PROVE  EntryWidth(p, d) \in Nat \ {0}
<1>1. p \in Seq(Typed \cup {EndOfLine}) /\ d.columns \in Nat /\ d.columns > 9
  BY NconfBoxesAssumption
<1>2. PICK j \in 1 .. Len(p) : p[j] # EndOfLine
  BY NconfBoxesAssumption
<1>3. Widest(p) \in Nat /\ Widest(p) > 0
  BY <1>1, <1>2, TextIsWide
<1> DEFINE wide == Widest(p)
           columns == d.columns
<1>4. EntryWidth(p, d) = Longer(Shorter(wide + 7, columns - 2) - 7, 0)
  BY DEF EntryWidth
<1>5. wide \in Nat \ {0} /\ columns \in Nat /\ columns > 9
  BY <1>1, <1>3
<1> HIDE DEF wide, columns
<1>6. Shorter(wide + 7, columns - 2) \in Nat /\ Shorter(wide + 7, columns - 2) > 7
  BY ONLY <1>5 DEF Shorter
<1> QED
  BY <1>4, <1>6 DEF Longer

LEMMA OpenedIsRight ==
  ASSUME NEW t \in Drafts, NEW w \in Nat \ {0}, NEW r \in Nat, r > Len(t)
  PROVE  /\ t \in Seq(Typed) /\ Len(t) =< MaxDraft
         /\ Len(t) \in 0 .. Len(t) /\ Len(t) \in Nat
         /\ Shorter(Len(t), w - 1) \in 0 .. w - 1 /\ Shorter(Len(t), w - 1) =< Len(t)
<1>1. t \in Seq(Typed) /\ Len(t) =< MaxDraft
  BY NconfBoxesAssumption
<1>2. Len(t) \in Nat
  BY <1>1
<1> QED
  BY <1>1, <1>2 DEF Shorter

LEMMA EntryInit == NconfBoxesInit => EntryInv
<1> SUFFICES ASSUME NconfBoxesInit PROVE EntryInv
  OBVIOUS
<1>1. ASSUME NEW t \in Drafts, NEW p \in Prompts, NEW d \in Displays, FirstEntry(t, p, d)
      PROVE  EntryInv
  <2> DEFINE w == EntryWidth(p, d)
  <2>1. w \in Nat \ {0}
    BY WidthOfEntry
  <2>2. /\ draft = t /\ room = Len(t) + 1 /\ promptWidth = w
        /\ caret = Len(t) /\ caretColumn = Shorter(Len(t), w - 1)
    BY <1>1 DEF FirstEntry
  <2>3. Len(t) \in Nat
    BY NconfBoxesAssumption
  <2> HIDE DEF w
  <2>4. /\ t \in Seq(Typed) /\ Len(t) =< MaxDraft /\ Len(t) \in 0 .. Len(t)
        /\ Shorter(Len(t), w - 1) \in 0 .. w - 1 /\ Shorter(Len(t), w - 1) =< Len(t)
    <3>1. Len(t) + 1 \in Nat /\ Len(t) + 1 > Len(t)
      BY <2>3
    <3> QED
      BY <2>1, <3>1, OpenedIsRight
  <2> QED
    BY <2>1, <2>2, <2>3, <2>4 DEF EntryInv, EntryTypes, CaretIsInField
<1>2. CASE EntryIdle
  <2>1. <<>> \in Seq(Typed) /\ Len(<<>>) = 0
    OBVIOUS
  <2>2. MaxDraft \in Nat
    BY NconfBoxesAssumption
  <2>3. draft = <<>> /\ room = 1 /\ promptWidth = 1 /\ caret = 0 /\ caretColumn = 0
    BY <1>2 DEF EntryIdle
  <2>4. EntryTypes
    BY <2>1, <2>2, <2>3 DEF EntryTypes
  <2>5. CaretIsInField
    <3>1. Len(draft) = 0
      BY <2>1, <2>3
    <3> QED
      BY <2>3, <3>1 DEF CaretIsInField
  <2> QED
    BY <2>4, <2>5 DEF EntryInv
<1> QED
  BY <1>1, <1>2 DEF NconfBoxesInit

(* What the keys do to the text.                                           *)
LEMMA WithIsLonger ==
  ASSUME EntryInv, NEW c \in Typed
  PROVE  With(c) \in Seq(Typed) /\ Len(With(c)) = Len(draft) + 1
<1> DEFINE a == SubSeq(draft, 1, caret)
           b == SubSeq(draft, caret + 1, Len(draft))
<1>0. draft \in Seq(Typed) /\ caret \in 0 .. Len(draft) /\ Len(draft) \in Nat
  BY DEF EntryInv, EntryTypes, CaretIsInField
<1>1. \A i \in 1 .. Len(draft) : draft[i] \in Typed
  BY <1>0
<1>2. a \in Seq(Typed) /\ Len(a) = caret
  <2>1. \A i \in 1 .. caret : draft[i] \in Typed
    BY <1>0, <1>1
  <2> QED
    BY <1>0, <2>1, SubSeqProperties
<1>3. b \in Seq(Typed) /\ Len(b) = Len(draft) - caret
  <2>1. \A i \in caret + 1 .. Len(draft) : draft[i] \in Typed
    BY <1>0, <1>1
  <2> QED
    BY <1>0, <2>1, SubSeqProperties
<1>4. <<c>> \in Seq(Typed) /\ Len(<<c>>) = 1
  OBVIOUS
<1>5. With(c) = a \o <<c>> \o b
  BY DEF With
<1> HIDE DEF a, b
<1>6. a \o <<c>> \in Seq(Typed) /\ Len(a \o <<c>>) = caret + 1
  BY <1>0, <1>2, <1>4, ConcatProperties
<1> QED
  BY <1>0, <1>3, <1>5, <1>6, ConcatProperties

LEMMA CutIsShorter ==
  ASSUME EntryInv, NEW i \in 1 .. Len(draft)
  PROVE  Cut(i) \in Seq(Typed) /\ Len(Cut(i)) = Len(draft) - 1
<1> DEFINE a == SubSeq(draft, 1, i - 1)
           b == SubSeq(draft, i + 1, Len(draft))
<1>0. draft \in Seq(Typed) /\ Len(draft) \in Nat /\ i \in Nat
  BY DEF EntryInv, EntryTypes
<1>1. \A k \in 1 .. Len(draft) : draft[k] \in Typed
  BY <1>0
<1>2. a \in Seq(Typed) /\ Len(a) = i - 1
  <2>1. \A k \in 1 .. i - 1 : draft[k] \in Typed
    BY <1>0, <1>1
  <2>2. i - 1 \in Nat
    BY <1>0
  <2> QED
    BY <1>0, <2>1, <2>2, SubSeqProperties
<1>3. b \in Seq(Typed) /\ Len(b) = Len(draft) - i
  <2>1. \A k \in i + 1 .. Len(draft) : draft[k] \in Typed
    BY <1>0, <1>1
  <2> QED
    BY <1>0, <2>1, SubSeqProperties
<1>4. Cut(i) = a \o b
  BY DEF Cut
<1> HIDE DEF a, b
<1> QED
  BY <1>0, <1>2, <1>3, <1>4, ConcatProperties

(* The cursor on the screen never overtakes the one on the text.           *)
LEMMA ClampedInField ==
  ASSUME EntryInv, NEW by \in {-1, 1}, caret + by >= 0
  PROVE  Clamped(caretColumn + by) \in 0 .. promptWidth - 1
         /\ Clamped(caretColumn + by) =< caret + by
BY DEF EntryInv, EntryTypes, CaretIsInField, Clamped, Shorter

LEMMA EntryMoved ==
  ASSUME EntryInv, NEW by \in {-1, 1}, MovedBy(by), UNCHANGED promptWidth,
         draft' \in Seq(Typed), Len(draft') =< MaxDraft,
         room' \in Nat, caret + by \in 0 .. Len(draft'), Len(draft') < room'
  PROVE  EntryInv'
<1>1. Len(draft') \in Nat
  OBVIOUS
<1>2. EntryTypes'
  BY DEF EntryInv, EntryTypes
<1>3. caret' = caret + by /\ caretColumn' = Clamped(caretColumn + by)
  BY DEF MovedBy
<1>4. Clamped(caretColumn + by) \in 0 .. promptWidth - 1 /\ Clamped(caretColumn + by) =< caret + by
  BY <1>1, ClampedInField
<1> QED
  BY <1>2, <1>3, <1>4 DEF EntryInv, CaretIsInField

LEMMA EntryFacts ==
  ASSUME EntryInv
  PROVE  /\ draft \in Seq(Typed) /\ Len(draft) \in Nat /\ Len(draft) =< MaxDraft
         /\ promptWidth \in Nat \ {0} /\ room \in Nat /\ Len(draft) < room
         /\ caret \in 0 .. Len(draft) /\ caretColumn \in 0 .. promptWidth - 1
         /\ caretColumn =< caret /\ MaxDraft \in Nat
BY NconfBoxesAssumption DEF EntryInv, EntryTypes, CaretIsInField

LEMMA EntryStep == EntryInv /\ [NconfBoxesNext]_nconfBoxVars => EntryInv'
<1> SUFFICES ASSUME EntryInv, [NconfBoxesNext]_nconfBoxVars PROVE EntryInv'
  OBVIOUS
<1>0. /\ draft \in Seq(Typed) /\ Len(draft) \in Nat /\ Len(draft) =< MaxDraft
      /\ promptWidth \in Nat \ {0} /\ room \in Nat /\ Len(draft) < room
      /\ caret \in 0 .. Len(draft) /\ caretColumn \in 0 .. promptWidth - 1
      /\ caretColumn =< caret /\ MaxDraft \in Nat
  BY EntryFacts
<1>1. CASE UNCHANGED entryVars
  BY <1>1 DEF EntryInv, EntryTypes, CaretIsInField, entryVars
<1>2. CASE TypeChar
  <2>1. PICK c \in Typed : draft' = With(c)
    BY <1>2 DEF TypeChar
  <2>2. With(c) \in Seq(Typed) /\ Len(With(c)) = Len(draft) + 1
    BY WithIsLonger
  <2>3. Len(draft) < MaxDraft /\ room' = Longer(room, Len(draft) + 2) /\ MovedBy(1)
        /\ UNCHANGED promptWidth
    BY <1>2 DEF TypeChar, EntryKey
  <2>4. room' \in Nat /\ Len(draft') < room' /\ caret + 1 \in 0 .. Len(draft')
        /\ Len(draft') =< MaxDraft
    BY <1>0, <2>1, <2>2, <2>3 DEF Longer
  <2> QED
    BY <2>1, <2>2, <2>3, <2>4, EntryMoved
<1>3. CASE RubOut
  <2>1. caret \in 1 .. Len(draft)
    BY <1>0, <1>3 DEF RubOut
  <2>2. Cut(caret) \in Seq(Typed) /\ Len(Cut(caret)) = Len(draft) - 1
    BY <2>1, CutIsShorter
  <2>3. draft' = Cut(caret) /\ MovedBy(-1) /\ room' = room /\ UNCHANGED promptWidth
    BY <1>3 DEF RubOut, EntryKey
  <2>4. caret + (-1) \in 0 .. Len(draft') /\ Len(draft') < room' /\ Len(draft') =< MaxDraft
    BY <1>0, <2>1, <2>2, <2>3
  <2> QED
    BY <1>0, <2>2, <2>3, <2>4, EntryMoved
<1>4. CASE CutNext
  <2>1. caret + 1 \in 1 .. Len(draft)
    BY <1>0, <1>4 DEF CutNext
  <2>2. Cut(caret + 1) \in Seq(Typed) /\ Len(Cut(caret + 1)) = Len(draft) - 1
    BY <2>1, CutIsShorter
  <2>3. /\ draft' = Cut(caret + 1) /\ room' = room /\ caret' = caret
        /\ caretColumn' = caretColumn /\ promptWidth' = promptWidth
    BY <1>4 DEF CutNext, EntryKey
  <2>4. caret \in 0 .. Len(draft') /\ Len(draft') < room' /\ Len(draft') =< MaxDraft
    BY <1>0, <2>1, <2>2, <2>3
  <2> QED
    BY <1>0, <2>2, <2>3, <2>4 DEF EntryInv, EntryTypes, CaretIsInField
<1>5. CASE GoRight
  <2>1. MovedBy(1) /\ draft' = draft /\ room' = room /\ promptWidth' = promptWidth
        /\ caret < Len(draft)
    BY <1>5 DEF GoRight, EntryKey, Unedited
  <2>2. caret + 1 \in 0 .. Len(draft)
    BY <1>0, <2>1
  <2> QED
    BY <1>0, <2>1, <2>2, EntryMoved
<1>6. CASE GoLeft
  <2>1. MovedBy(-1) /\ draft' = draft /\ room' = room /\ promptWidth' = promptWidth /\ caret > 0
    BY <1>6 DEF GoLeft, EntryKey, Unedited
  <2>2. caret + (-1) \in 0 .. Len(draft)
    BY <1>0, <2>1
  <2> QED
    BY <1>0, <2>1, <2>2, EntryMoved
<1>7. CASE GoHome
  <2>1. /\ draft' = draft /\ room' = room /\ promptWidth' = promptWidth
        /\ caret' = 0 /\ caretColumn' = 0
    BY <1>7 DEF GoHome, EntryKey, Unedited
  <2> QED
    BY <1>0, <2>1 DEF EntryInv, EntryTypes, CaretIsInField
<1>8. CASE GoToEnd
  <2>1. /\ draft' = draft /\ room' = room /\ promptWidth' = promptWidth
        /\ caret' = Len(draft) /\ caretColumn' = Shorter(Len(draft), promptWidth - 1)
    BY <1>8 DEF GoToEnd, EntryKey, Unedited
  <2>2. Shorter(Len(draft), promptWidth - 1) \in 0 .. promptWidth - 1
        /\ Shorter(Len(draft), promptWidth - 1) =< Len(draft)
    BY <1>0 DEF Shorter
  <2> QED
    BY <1>0, <2>1, <2>2 DEF EntryInv, EntryTypes, CaretIsInField
<1>9. CASE AskAgain
  <2>1. PICK t \in Drafts, p \in Prompts, d \in Displays : OpenEntry(t, p, d, room)
    BY <1>9 DEF AskAgain
  <2> DEFINE w == EntryWidth(p, d)
  <2>2. w \in Nat \ {0}
    BY WidthOfEntry
  <2>3. /\ draft' = t /\ room' = Longer(room, Len(t) + 1) /\ promptWidth' = w
        /\ caret' = Len(t) /\ caretColumn' = Shorter(Len(t), w - 1)
    BY <2>1 DEF OpenEntry
  <2> HIDE DEF w
  <2>4. Len(t) \in Nat
    BY NconfBoxesAssumption
  <2>5. room' \in Nat /\ room' > Len(t)
    BY <1>0, <2>3, <2>4 DEF Longer
  <2>6. /\ t \in Seq(Typed) /\ Len(t) =< MaxDraft /\ Len(t) \in 0 .. Len(t)
        /\ Shorter(Len(t), w - 1) \in 0 .. w - 1 /\ Shorter(Len(t), w - 1) =< Len(t)
    <3>1. Len(t) + 1 \in Nat /\ Len(t) + 1 > Len(t)
      BY <2>4
    <3> QED
      BY <2>2, <3>1, OpenedIsRight
  <2> QED
    BY <2>2, <2>3, <2>4, <2>5, <2>6 DEF EntryInv, EntryTypes, CaretIsInField
<1>10. CASE AnswerEntry \/ PageForward \/ PageBackward \/ ScrollHome \/ ScrollEnd \/ LineForward
            \/ LineBackward \/ ScrollSideways \/ CloseScroll \/ MoveButton \/ PressButton
  <2>1. UNCHANGED entryVars
    BY <1>10 DEF AnswerEntry, PageForward, PageBackward, ScrollHome, ScrollEnd, LineForward,
                 LineBackward, ScrollSideways, CloseScroll, MoveButton, PressButton, ScrollKey
  <2> QED
    BY <1>1, <2>1
<1>11. CASE UNCHANGED nconfBoxVars
  BY <1>1, <1>11 DEF nconfBoxVars
<1> QED
  BY <1>2, <1>3, <1>4, <1>5, <1>6, <1>7, <1>8, <1>9, <1>10, <1>11 DEF NconfBoxesNext

-----------------------------------------------------------------------------
(* The keys of dialog_inputbox are those of the editor.                    *)
EntryStepIsEdit == EntryEditor!LineNext \/ (reply # Unanswered /\ EntryEditor!LineInit')

LEMMA KeysEdit ==
  EntryInv /\ [NconfBoxesNext]_nconfBoxVars => [EntryStepIsEdit]_<<draft, caret>>
<1> SUFFICES ASSUME EntryInv, [NconfBoxesNext]_nconfBoxVars
             PROVE  EntryStepIsEdit \/ UNCHANGED <<draft, caret>>
  OBVIOUS
<1>0. /\ draft \in Seq(Typed) /\ Len(draft) \in Nat /\ Len(draft) =< MaxDraft
      /\ caret \in 0 .. Len(draft)
  BY EntryFacts
<1>1. CASE TypeChar
  <2>1. PICK c \in Typed : draft' = With(c)
    BY <1>1 DEF TypeChar
  <2>2. Len(draft) < MaxDraft /\ caret' = caret + 1
    BY <1>1 DEF TypeChar, MovedBy
  <2>3. SubSeq(draft, 1, caret) \in Seq(Typed)
    <3>1. \A i \in 1 .. caret : draft[i] \in Typed
      BY <1>0
    <3> QED
      BY <1>0, <3>1, SubSeqProperties
  <2>4. Append(SubSeq(draft, 1, caret), c) = SubSeq(draft, 1, caret) \o <<c>>
    BY <2>3, AppendIsConcat
  <2>5. EntryEditor!Insert(c)
    BY <2>1, <2>2, <2>4 DEF With, EntryEditor!Insert, EntryEditor!Before, EntryEditor!After
  <2> QED
    BY <2>5 DEF EntryStepIsEdit, EntryEditor!LineNext
<1>2. CASE RubOut
  <2>1. EntryEditor!Delete
    <3>1. caret > 0 /\ draft' = Cut(caret) /\ caret' = caret + (-1)
      BY <1>2 DEF RubOut, MovedBy
    <3>2. caret + (-1) = caret - 1
      BY <1>0
    <3> QED
      BY <3>1, <3>2 DEF Cut, EntryEditor!Delete, EntryEditor!After
  <2> QED
    BY <2>1 DEF EntryStepIsEdit, EntryEditor!LineNext
<1>3. CASE CutNext
  <2>1. caret < Len(draft) /\ draft' = Cut(caret + 1) /\ UNCHANGED caret
    BY <1>3 DEF CutNext
  <2>2. EntryEditor!DeleteNext
    <3> DEFINE i == caret + 1
    <3>1. i - 1 = caret /\ i + 1 = caret + 2
      BY <1>0
    <3> HIDE DEF i
    <3>2. Cut(i) = SubSeq(draft, 1, caret) \o SubSeq(draft, caret + 2, Len(draft))
      BY <3>1 DEF Cut
    <3>3. draft' = Cut(i)
      BY <2>1 DEF i
    <3> QED
      BY <2>1, <3>2, <3>3 DEF EntryEditor!DeleteNext, EntryEditor!Before
  <2> QED
    BY <2>2 DEF EntryStepIsEdit, EntryEditor!LineNext
<1>4. CASE GoRight
  <2>1. EntryEditor!MoveRight
    BY <1>4 DEF GoRight, MovedBy, Unedited, EntryEditor!MoveRight
  <2> QED
    BY <2>1 DEF EntryStepIsEdit, EntryEditor!LineNext
<1>5. CASE GoLeft
  <2>1. caret + (-1) = caret - 1
    BY <1>0
  <2>2. EntryEditor!MoveLeft
    BY <1>5, <2>1 DEF GoLeft, MovedBy, Unedited, EntryEditor!MoveLeft
  <2> QED
    BY <2>2 DEF EntryStepIsEdit, EntryEditor!LineNext
<1>6. CASE GoHome
  BY <1>6 DEF GoHome, Unedited, EntryEditor!ToStart, EntryStepIsEdit, EntryEditor!LineNext
<1>7. CASE GoToEnd
  BY <1>7 DEF GoToEnd, Unedited, EntryEditor!ToEnd, EntryStepIsEdit, EntryEditor!LineNext
<1>8. CASE AskAgain
  <2>1. PICK t \in Drafts, p \in Prompts, d \in Displays : OpenEntry(t, p, d, room)
    BY <1>8 DEF AskAgain
  <2>2. draft' = t /\ caret' = Len(t) /\ t \in Seq(Typed) /\ Len(t) =< MaxDraft
    BY <2>1, NconfBoxesAssumption DEF OpenEntry
  <2>3. EntryEditor!LineInit'
    BY <2>2 DEF EntryEditor!LineInit
  <2>4. reply # Unanswered
    BY <1>8 DEF AskAgain
  <2> QED
    BY <2>3, <2>4 DEF EntryStepIsEdit
<1>9. CASE AnswerEntry \/ PageForward \/ PageBackward \/ ScrollHome \/ ScrollEnd \/ LineForward
           \/ LineBackward \/ ScrollSideways \/ CloseScroll \/ MoveButton \/ PressButton
  BY <1>9 DEF AnswerEntry, PageForward, PageBackward, ScrollHome, ScrollEnd, LineForward,
              LineBackward, ScrollSideways, CloseScroll, MoveButton, PressButton, ScrollKey, entryVars
<1>10. CASE UNCHANGED nconfBoxVars
  BY <1>10 DEF nconfBoxVars, entryVars
<1> QED
  BY <1>1, <1>2, <1>3, <1>4, <1>5, <1>6, <1>7, <1>8, <1>9, <1>10 DEF NconfBoxesNext

LEMMA EditorStarts == NconfBoxesInit => EntryEditor!LineInit
<1> SUFFICES ASSUME NconfBoxesInit PROVE EntryEditor!LineInit
  OBVIOUS
<1>1. ASSUME NEW t \in Drafts, NEW p \in Prompts, NEW d \in Displays, FirstEntry(t, p, d)
      PROVE  EntryEditor!LineInit
  BY <1>1, NconfBoxesAssumption DEF FirstEntry, EntryEditor!LineInit
<1>2. CASE EntryIdle
  <2>1. <<>> \in Seq(Typed) /\ Len(<<>>) = 0 /\ 0 =< MaxDraft
    BY NconfBoxesAssumption
  <2>2. draft = <<>> /\ caret = 0
    BY <1>2 DEF EntryIdle
  <2> QED
    BY <2>1, <2>2 DEF EntryEditor!LineInit
<1> QED
  BY <1>1, <1>2 DEF NconfBoxesInit

(* dialog_inputbox of nconf is an editor of a line, and its field is right *)
(* however wide it is and whatever is typed.                               *)
THEOREM EntryAlwaysRight == NconfBoxesSpec => EntryIsRight
<1>1. NconfBoxesInit => EntryInv
  BY EntryInit
<1>2. EntryInv /\ [NconfBoxesNext]_nconfBoxVars => EntryInv'
  BY EntryStep
<1>3. EntryInv => CaretIsInField
  BY DEF EntryInv
<1>4. NconfBoxesInit => EntryEditor!LineInit
  BY EditorStarts
<1>5. EntryInv /\ [NconfBoxesNext]_nconfBoxVars => [EntryStepIsEdit]_<<draft, caret>>
  BY KeysEdit
<1> QED
  BY <1>1, <1>2, <1>3, <1>4, <1>5, PTL DEF NconfBoxesSpec, EntryIsRight, EntryStepIsEdit

-----------------------------------------------------------------------------
(***************************************************************************)
(* The search in the menus of nconf ends with the nearest item that has    *)
(* the pattern, and says that there is none only where there is none.  The *)
(* invariant is that no item between the start of the search and the one   *)
(* looked at has the pattern.                                              *)
(***************************************************************************)
Directions == {"tinker down", "tinker up", "next down", "next up"}
SearchTypes ==
  /\ listing \in Seq(Seq(Glyphs)) /\ lines \in Nat \ {0}
  /\ search \in [on : BOOLEAN, dir : Directions, pattern : Seq(Glyphs)]
  /\ look \in [on : BOOLEAN, index : Int, start : Int]
  /\ Count # 0 => spot.current \in Positions

\* Where the search starts; -1 and the number of items are no items.
StartOfSearch == spot.current + Offset[search.dir]
PassedHasNone ==
  look.on =>
    /\ Count # 0 /\ look.index \in Positions /\ look.start = StartOfSearch
    /\ \A item \in Positions : Distance(item) < Distance(look.index) => ~Has(Text(item), search.pattern)
SearchInv == SearchTypes /\ PassedHasNone

LEMMA Remainder ==
  ASSUME NEW n \in Nat \ {0}, NEW x \in Nat, x < 3 * n
  PROVE  x % n = IF x < n THEN x ELSE IF x < 2 * n THEN x - n ELSE x - 2 * n
OBVIOUS

LEMMA WrappedIs ==
  ASSUME Count \in Nat \ {0}, NEW a \in -1 .. Count
  PROVE  Wrapped(a) = IF a = -1 THEN Count - 1 ELSE IF a = Count THEN 0 ELSE a
<1> DEFINE n == Count
           x == a + n
<1>1. n \in Nat \ {0} /\ x \in Nat /\ x < 3 * n /\ Wrapped(a) = x % n
  BY DEF Wrapped
<1> HIDE DEF n
<1>2. x % n = IF x < n THEN x ELSE IF x < 2 * n THEN x - n ELSE x - 2 * n
  <2> HIDE DEF x
  <2> QED
    BY <1>1, Remainder
<1>3. a \in -1 .. n
  BY DEF n
<1>4. (IF x < n THEN x ELSE IF x < 2 * n THEN x - n ELSE x - 2 * n)
      = IF a = -1 THEN n - 1 ELSE IF a = n THEN 0 ELSE a
  BY ONLY <1>1, <1>3
<1> QED
  BY <1>1, <1>2, <1>4 DEF n

LEMMA OffsetIs ==
  ASSUME search.dir \in Directions
  PROVE  Offset[search.dir] \in IF Upwards THEN {-1, 0} ELSE {0, 1}
BY DEF Directions, Offset, Upwards

(* How far an item is, without a remainder.                                  *)
LEMMA DistanceIs ==
  ASSUME SearchTypes, Count # 0
  PROVE  /\ Count \in Nat \ {0}
         /\ StartOfSearch \in IF Upwards THEN -1 .. Count - 1 ELSE 0 .. Count
         /\ \A item \in Positions :
              Distance(item) =
                IF Upwards
                THEN IF item =< StartOfSearch THEN StartOfSearch - item ELSE StartOfSearch - item + Count
                ELSE IF item >= StartOfSearch THEN item - StartOfSearch ELSE item - StartOfSearch + Count
<1> DEFINE n == Count
           s == StartOfSearch
           c == spot.current
           o == Offset[search.dir]
<1>1. n \in Nat \ {0} /\ c \in 0 .. n - 1 /\ o \in (IF Upwards THEN {-1, 0} ELSE {0, 1}) /\ s = c + o
  <2>1. search.dir \in Directions
    BY DEF SearchTypes
  <2>2. o \in (IF Upwards THEN {-1, 0} ELSE {0, 1})
    BY <2>1, OffsetIs
  <2>3. n \in Nat
    BY DEF SearchTypes, Count
  <2> QED
    BY <2>2, <2>3 DEF SearchTypes, Positions, StartOfSearch
<1>2. \A item : Distance(item) = (IF Upwards THEN c + o - item + 2 * n ELSE item - c - o + 2 * n) % n
  BY DEF Distance
<1> HIDE DEF n, s, c, o
<1>3. s \in IF Upwards THEN -1 .. n - 1 ELSE 0 .. n
  BY ONLY <1>1
<1>4. ASSUME NEW item \in 0 .. n - 1
      PROVE  Distance(item) =
                IF Upwards
                THEN IF item =< s THEN s - item ELSE s - item + n
                ELSE IF item >= s THEN item - s ELSE item - s + n
  <2>1. CASE Upwards
    <3> DEFINE x == c + o - item + 2 * n
    <3>1. x = s - item + 2 * n /\ x \in Nat /\ x < 3 * n /\ x >= n
      BY <1>1, <1>3, <1>4, <2>1
    <3>2. Distance(item) = x % n
      BY <1>2, <2>1
    <3> HIDE DEF x
    <3>3. x % n = IF x < n THEN x ELSE IF x < 2 * n THEN x - n ELSE x - 2 * n
      BY <1>1, <3>1, Remainder
    <3>4. x % n = IF item =< s THEN s - item ELSE s - item + n
      BY <1>1, <1>3, <1>4, <2>1, <3>1, <3>3
    <3> QED
      BY <2>1, <3>2, <3>4
  <2>2. CASE ~Upwards
    <3> DEFINE x == item - c - o + 2 * n
    <3>1. x = item - s + 2 * n /\ x \in Nat /\ x < 3 * n /\ x >= n
      BY <1>1, <1>3, <1>4, <2>2
    <3>2. Distance(item) = x % n
      BY <1>2, <2>2
    <3> HIDE DEF x
    <3>3. x % n = IF x < n THEN x ELSE IF x < 2 * n THEN x - n ELSE x - 2 * n
      BY <1>1, <3>1, Remainder
    <3>4. x % n = IF item >= s THEN item - s ELSE item - s + n
      BY <1>1, <1>3, <1>4, <2>2, <3>1, <3>3
    <3> QED
      BY <2>2, <3>2, <3>4
  <2> QED
    BY <2>1, <2>2
<1> QED
  BY <1>1, <1>3, <1>4 DEF n, s, Positions

(* The loop goes from an item to the next one, around the ends.              *)
LEMMA DistanceFacts ==
  ASSUME SearchTypes, Count # 0
  PROVE  /\ Wrapped(StartOfSearch) \in Positions /\ Distance(Wrapped(StartOfSearch)) = 0
         /\ \A item \in Positions :
              /\ Distance(item) \in Positions /\ Onwards(item) \in Positions
              /\ Distance(Onwards(item)) = IF Distance(item) = Count - 1 THEN 0 ELSE Distance(item) + 1
              /\ Onwards(item) = StartOfSearch => Distance(item) = Count - 1
              /\ \A other \in Positions : Distance(item) = Distance(other) => item = other
<1> DEFINE n == Count
           s == StartOfSearch
           D(item) == IF Upwards
                      THEN IF item =< s THEN s - item ELSE s - item + n
                      ELSE IF item >= s THEN item - s ELSE item - s + n
           W(a) == IF a = -1 THEN n - 1 ELSE IF a = n THEN 0 ELSE a
           O(item) == W(IF Upwards THEN item - 1 ELSE item + 1)
<1>1. /\ n \in Nat \ {0} /\ s \in (IF Upwards THEN -1 .. n - 1 ELSE 0 .. n)
      /\ \A item \in Positions : Distance(item) = D(item)
  BY DistanceIs
<1>2. \A a \in -1 .. n : Wrapped(a) = W(a)
  BY <1>1, WrappedIs
<1>3. Positions = 0 .. n - 1
  BY DEF Positions
<1>4. \A item \in Positions : Onwards(item) = O(item)
  <2> TAKE item \in Positions
  <2>1. item - 1 \in -1 .. n /\ item + 1 \in -1 .. n
    BY <1>1, <1>3
  <2> QED
    BY <1>2, <2>1 DEF Onwards
<1>5. Wrapped(s) = W(s)
  BY <1>1, <1>2
<1> HIDE DEF n, s
<1>6. W(s) \in 0 .. n - 1 /\ D(W(s)) = 0
  BY ONLY <1>1
<1>7. \A item \in 0 .. n - 1 : D(item) \in 0 .. n - 1 /\ O(item) \in 0 .. n - 1
  BY ONLY <1>1
<1>8. \A item \in 0 .. n - 1 :
         /\ D(O(item)) = IF D(item) = n - 1 THEN 0 ELSE D(item) + 1
         /\ O(item) = s => D(item) = n - 1
  BY ONLY <1>1
<1>9. \A item, other \in 0 .. n - 1 : D(item) = D(other) => item = other
  BY ONLY <1>1
<1> HIDE DEF D, W, O
<1>10. Wrapped(s) \in Positions /\ Distance(Wrapped(s)) = 0
  BY <1>1, <1>3, <1>5, <1>6
<1>11. \A item \in Positions : Distance(item) \in Positions /\ Onwards(item) \in Positions
  BY <1>1, <1>3, <1>4, <1>7
<1>12. \A item \in Positions :
         /\ Distance(Onwards(item)) = IF Distance(item) = n - 1 THEN 0 ELSE Distance(item) + 1
         /\ Onwards(item) = s => Distance(item) = n - 1
  <2> TAKE item \in Positions
  <2>1. /\ Onwards(item) = O(item) /\ O(item) \in Positions
        /\ Distance(item) = D(item) /\ Distance(O(item)) = D(O(item))
    BY <1>1, <1>4, <1>11
  <2>2. /\ D(O(item)) = IF D(item) = n - 1 THEN 0 ELSE D(item) + 1
        /\ O(item) = s => D(item) = n - 1
    BY <1>3, <1>8
  <2> QED
    BY <2>1, <2>2
<1>13. \A item, other \in Positions : Distance(item) = Distance(other) => item = other
  BY <1>1, <1>3, <1>9
<1> QED
  BY <1>10, <1>11, <1>12, <1>13 DEF n, s

(* center_item keeps the highlighted item among the items.                   *)
LEMMA CentredOnItem ==
  ASSUME NEW n \in Nat \ {0}, NEW h \in Nat \ {0}, NEW s, s.current \in 0 .. n - 1, NEW a, NEW last
  PROVE  LET c == CenterItem(s, a, last, n, h)
         IN  /\ c.spot.current \in 0 .. n - 1 /\ (a \in 0 .. n - 1 => c.spot.current = a)
             /\ a \in 0 .. n - 1 /\ last = s.top /\ ~Outside(a, s.top, h) => c.spot.top = s.top
<1>1. LastTop(n, h) \in 0 .. n - 1
  BY DEF LastTop, Larger
<1>2. ASSUME NEW z, NEW row, z.current \in 0 .. n - 1
      PROVE  /\ SetTop(z, row, n, h).current \in 0 .. n - 1
             /\ row = z.top => SetTop(z, row, n, h) = z
  BY <1>1, <1>2 DEF SetTop
<1>3. ASSUME NEW z, z.current \in 0 .. n - 1
      PROVE  /\ SetCurrent(z, a, n, h).current \in 0 .. n - 1
             /\ a \in 0 .. n - 1 => SetCurrent(z, a, n, h).current = a
             /\ a \in 0 .. n - 1 /\ ~Outside(a, z.top, h) => SetCurrent(z, a, n, h).top = z.top
  BY <1>3 DEF SetCurrent, Outside
<1> DEFINE z == SetTop(s, last, n, h)
           top == IF Outside(a, z.top, h) THEN Middle(a, n, h) ELSE z.top
           y == SetTop(z, top, n, h)
<1>4. CenterItem(s, a, last, n, h).spot = SetCurrent(y, a, n, h)
  BY DEF CenterItem, Centre
<1>5. z.current \in 0 .. n - 1 /\ (last = s.top => z = s)
  BY <1>2
<1> HIDE DEF z
<1>6. y.current \in 0 .. n - 1 /\ (top = z.top => y = z)
  <2> HIDE DEF top
  <2> QED
    BY <1>2, <1>5
<1>7. ~Outside(a, z.top, h) => top = z.top
  OBVIOUS
<1> HIDE DEF y, top
<1> QED
  BY <1>3, <1>4, <1>5, <1>6, <1>7

LEMMA NotSearching == NoSearch \in [on : BOOLEAN, dir : Directions, pattern : Seq(Glyphs)]
<1>1. <<>> \in Seq(Glyphs)
  OBVIOUS
<1> QED
  BY <1>1 DEF NoSearch, Directions

LEMMA SearchInit == NconfMenuInit => SearchInv
<1> SUFFICES ASSUME NconfMenuInit PROVE SearchInv
  OBVIOUS
<1>1. listing \in Seq(Seq(Glyphs)) /\ lines \in Nat \ {0}
  BY NconfMenuAssumption DEF NconfMenuInit
<1>2. Count # 0 => spot.current = 0 /\ Count \in Nat
  BY <1>1 DEF NconfMenuInit, Count
<1>3. search \in [on : BOOLEAN, dir : Directions, pattern : Seq(Glyphs)]
  BY NotSearching DEF NconfMenuInit
<1>4. look \in [on : BOOLEAN, index : Int, start : Int] /\ ~look.on
  BY DEF NconfMenuInit, NotLooking
<1> QED
  BY <1>1, <1>2, <1>3, <1>4 DEF SearchInv, SearchTypes, PassedHasNone, Positions

(* What shows a menu anew.                                                   *)
LEMMA ShownMenu ==
  ASSUME SearchInv, NEW m \in Menus, NEW h \in MenuLines, NEW a, NEW last, ShowMenu(m, h, a, last),
         search' = NoSearch, UNCHANGED look, ~look.on
  PROVE  SearchInv'
<1>1. m \in Seq(Seq(Glyphs)) /\ h \in Nat \ {0} /\ Len(m) \in Nat
  BY NconfMenuAssumption
<1>2. listing' = m /\ lines' = h
      /\ spot' = CenterItem([top |-> 0, current |-> IF m = <<>> THEN -1 ELSE 0], a, last, Len(m), h).spot
  BY DEF ShowMenu
<1>3. Len(m) # 0 => spot'.current \in 0 .. Len(m) - 1
  <2> SUFFICES ASSUME Len(m) # 0 PROVE spot'.current \in 0 .. Len(m) - 1
    OBVIOUS
  <2> DEFINE first == [top |-> 0, current |-> IF m = <<>> THEN -1 ELSE 0]
  <2>1. first.current \in 0 .. Len(m) - 1
    BY <1>1
  <2> HIDE DEF first
  <2>2. Len(m) \in Nat \ {0}
    BY <1>1
  <2>3. CenterItem(first, a, last, Len(m), h).spot.current \in 0 .. Len(m) - 1
    BY <1>1, <2>1, <2>2, CentredOnItem
  <2> QED
    BY <1>2, <2>3 DEF first
<1>4. search' \in [on : BOOLEAN, dir : Directions, pattern : Seq(Glyphs)]
  BY NotSearching
<1> QED
  BY <1>1, <1>2, <1>3, <1>4 DEF SearchInv, SearchTypes, PassedHasNone, Count, Positions

(* A search that begins has passed no item.                                  *)
LEMMA FromStart ==
  SearchTypes /\ Count # 0 /\ look.start = StartOfSearch /\ look.index = Wrapped(StartOfSearch) =>
    PassedHasNone
<1> SUFFICES ASSUME SearchTypes, Count # 0, look.start = StartOfSearch, look.index = Wrapped(StartOfSearch)
             PROVE  PassedHasNone
  OBVIOUS
<1>1. /\ Wrapped(StartOfSearch) \in Positions /\ Distance(Wrapped(StartOfSearch)) = 0
      /\ \A item \in Positions : Distance(item) \in Positions
  BY DistanceFacts
<1>2. \A d \in Positions : ~ d < 0
  BY DEF Positions
<1> QED
  BY <1>1, <1>2 DEF PassedHasNone

LEMMA FindKeeps ==
  ASSUME SearchInv, NEW pattern \in Seq(Glyphs), NEW dir \in Directions, Find(pattern, dir), ~look.on
  PROVE  SearchInv'
<1>1. /\ search' = [on |-> TRUE, dir |-> dir, pattern |-> pattern]
      /\ UNCHANGED <<listing, lines, spot>>
  BY DEF Find, onScreen
<1>2. Count' = Count /\ Positions' = Positions
  BY <1>1 DEF Count, Positions
<1>3. CASE Count = 0
  BY <1>1, <1>2, <1>3 DEF Find, SearchInv, SearchTypes, PassedHasNone
<1>4. CASE Count # 0
  <2> DEFINE s == spot.current + Offset[dir]
  <2>1. look' = [on |-> TRUE, index |-> Wrapped(s), start |-> s]
    BY <1>4 DEF Find
  <2>2. StartOfSearch' = s /\ s \in Int
    <3>1. search'.dir = dir
      BY <1>1
    <3>2. Offset[dir] \in {-1, 0, 1}
      BY DEF Offset, Directions
    <3>3. spot.current \in Int
      BY <1>4 DEF SearchInv, SearchTypes, Positions
    <3> QED
      BY <1>1, <3>1, <3>2, <3>3 DEF StartOfSearch
  <2>3. Wrapped(s) \in Int
    <3>1. Count \in Nat \ {0} /\ s + Count \in Int
      BY <1>4, <2>2 DEF SearchInv, SearchTypes, Count
    <3> HIDE DEF s
    <3> QED
      BY <3>1 DEF Wrapped
  <2> HIDE DEF s
  <2>4. SearchTypes'
    BY <1>1, <1>2, <1>4, <2>1, <2>2, <2>3 DEF SearchInv, SearchTypes
  <2>5. (Count # 0)' /\ (look.start = StartOfSearch)'
    BY <1>2, <1>4, <2>1, <2>2
  <2>6. (look.index = Wrapped(StartOfSearch))'
    <3>1. Wrapped(StartOfSearch)' = Wrapped(s)
      BY <1>2, <2>2 DEF Wrapped
    <3> QED
      BY <2>1, <3>1
  <2>7. PassedHasNone'
    BY <2>4, <2>5, <2>6, FromStart, PTL
  <2> QED
    BY <2>4, <2>7 DEF SearchInv
<1> QED
  BY <1>3, <1>4

-----------------------------------------------------------------------------
(* A round of the loop.                                                      *)
LEMMA LookKeeps ==
  ASSUME SearchInv, Look
  PROVE  SearchInv' /\ HitIsNearest
<1> DEFINE here == look.index
<1>1. /\ look.on /\ Count # 0 /\ SearchTypes /\ here \in Positions /\ look.start = StartOfSearch
      /\ \A item \in Positions : Distance(item) < Distance(here) => ~Has(Text(item), search.pattern)
  BY DEF SearchInv, PassedHasNone, Look
<1>2. Count \in Nat \ {0} /\ Positions = 0 .. Count - 1
  BY <1>1 DEF SearchTypes, Count, Positions
<1>3. UNCHANGED <<listing, lines, search>>
  BY DEF Look, onScreen
<1>4. Count' = Count /\ Positions' = Positions
  BY <1>3 DEF Count, Positions
<1>5. \A item \in Positions :
        /\ Distance(item) \in Positions /\ Onwards(item) \in Positions
        /\ Distance(Onwards(item)) = IF Distance(item) = Count - 1 THEN 0 ELSE Distance(item) + 1
        /\ Onwards(item) = StartOfSearch => Distance(item) = Count - 1
        /\ \A other \in Positions : Distance(item) = Distance(other) => item = other
  BY <1>1, DistanceFacts
<1> HIDE DEF here
<1>6. ASSUME Has(Text(here), search.pattern)
      PROVE  SearchInv' /\ HitIsNearest
  <2>1. Concluded(here)
    BY <1>6 DEF Look, here
  <2>2. look' = NotLooking /\ selected' = here /\ spot' = CenterItem(spot, here, lastTop, Count, lines).spot
    BY <1>1, <1>2, <2>1 DEF Concluded
  <2>3. /\ spot'.current = here
        /\ lastTop = spot.top /\ ~Outside(here, spot.top, lines) => spot'.top = spot.top
    <3>1. lines \in Nat \ {0} /\ spot.current \in 0 .. Count - 1
      BY <1>1, <1>2 DEF SearchTypes
    <3> QED
      BY <1>1, <1>2, <2>2, <3>1, CentredOnItem
  <2>4. SearchInv'
    <3>1. look' \in [on : BOOLEAN, index : Int, start : Int] /\ ~look'.on
      BY <2>2 DEF NotLooking
    <3> QED
      BY <1>1, <1>3, <1>4, <2>3, <3>1 DEF SearchInv, SearchTypes, PassedHasNone
  <2>5. here \in Hits /\ \A item \in Hits : Distance(here) =< Distance(item)
    <3>1. here \in Hits
      BY <1>1, <1>6 DEF Hits
    <3>2. ASSUME NEW item \in Hits PROVE Distance(here) =< Distance(item)
      <4>1. item \in Positions /\ Has(Text(item), search.pattern)
        BY <3>2 DEF Hits
      <4>2. ~ Distance(item) < Distance(here) /\ Distance(item) \in Int /\ Distance(here) \in Int
        BY <1>1, <1>2, <1>5, <4>1
      <4> QED
        BY <4>2
    <3> QED
      BY <3>1, <3>2
  <2>6. here # -1
    BY <1>1, <1>2
  <2>7. HitIsNearest
    BY <2>2, <2>3, <2>5, <2>6 DEF HitIsNearest
  <2> QED
    BY <2>4, <2>7
<1>7. ASSUME ~Has(Text(here), search.pattern), Onwards(here) = look.start
      PROVE  SearchInv' /\ HitIsNearest
  <2>1. Concluded(-1)
    BY <1>7 DEF Look, here
  <2>2. look' = NotLooking /\ selected' = -1 /\ UNCHANGED spot
    BY <2>1 DEF Concluded
  <2>3. Hits = {}
    <3>1. Distance(here) = Count - 1
      BY <1>1, <1>5, <1>7
    <3>2. ASSUME NEW item \in Positions PROVE ~Has(Text(item), search.pattern)
      <4>1. Distance(item) \in 0 .. Count - 1
        BY <1>2, <1>5
      <4>2. CASE Distance(item) = Count - 1
        <5>1. item = here
          BY <1>1, <1>5, <3>1, <4>2
        <5> QED
          BY <1>7, <5>1
      <4>3. CASE Distance(item) < Count - 1
        BY <1>1, <3>1, <4>3
      <4> QED
        BY <1>2, <4>1, <4>2, <4>3
    <3> QED
      BY <3>2 DEF Hits
  <2>4. SearchInv'
    <3>1. look' \in [on : BOOLEAN, index : Int, start : Int] /\ ~look'.on
      BY <2>2 DEF NotLooking
    <3> QED
      BY <1>1, <1>3, <1>4, <2>2, <3>1 DEF SearchInv, SearchTypes, PassedHasNone
  <2> QED
    BY <2>2, <2>3, <2>4 DEF HitIsNearest
<1>8. ASSUME ~Has(Text(here), search.pattern), Onwards(here) # look.start
      PROVE  SearchInv' /\ HitIsNearest
  <2>1. look' = [look EXCEPT !.index = Onwards(here)] /\ UNCHANGED spot
    BY <1>8 DEF Look, here
  <2>2. look' \in [on : BOOLEAN, index : Int, start : Int] /\ look'.on
        /\ look'.index = Onwards(here) /\ look'.start = look.start
    <3>1. Onwards(here) \in Int
      BY <1>1, <1>2, <1>5
    <3> QED
      BY <1>1, <2>1, <3>1 DEF SearchTypes
  <2>3. /\ StartOfSearch' = StartOfSearch /\ \A item : Distance(item)' = Distance(item)
        /\ Distance(look.index)' = Distance(Onwards(here)) /\ \A item : Text(item)' = Text(item)
    BY <1>3, <1>4, <2>1, <2>2 DEF StartOfSearch, Distance, Upwards, Text
  <2>4. ASSUME NEW item \in Positions, Distance(item) < Distance(Onwards(here))
        PROVE  ~Has(Text(item), search.pattern)
    <3>1. Distance(item) \in 0 .. Count - 1 /\ Distance(here) \in 0 .. Count - 1
      BY <1>1, <1>2, <1>5
    <3>2. Distance(Onwards(here)) = Distance(here) + 1
      BY <1>1, <1>2, <1>5, <2>4, <3>1
    <3>3. CASE Distance(item) = Distance(here)
      <4>1. item = here
        BY <1>1, <1>5, <3>3
      <4> QED
        BY <1>8, <4>1
    <3>4. CASE Distance(item) < Distance(here)
      BY <1>1, <3>4
    <3> QED
      BY <1>2, <2>4, <3>1, <3>2, <3>3, <3>4
  <2>5. PassedHasNone'
    BY <1>1, <1>3, <1>4, <1>5, <2>2, <2>3, <2>4 DEF PassedHasNone
  <2>6. SearchTypes'
    BY <1>1, <1>3, <1>4, <2>1, <2>2 DEF SearchTypes
  <2> QED
    BY <2>2, <2>5, <2>6 DEF SearchInv, HitIsNearest
<1> QED
  BY <1>6, <1>7, <1>8

(* While there is no search under way, any key keeps the invariant that      *)
(* leaves the menu and a highlighted item.                                   *)
LEMMA IdleKeeps ==
  ASSUME SearchInv, ~look.on, UNCHANGED <<listing, lines, look>>,
         search' \in [on : BOOLEAN, dir : Directions, pattern : Seq(Glyphs)],
         Count # 0 => spot'.current \in Positions
  PROVE  SearchInv'
<1>1. Count' = Count /\ Positions' = Positions
  BY DEF Count, Positions
<1> QED
  BY <1>1 DEF SearchInv, SearchTypes, PassedHasNone

LEMMA KeysKeep ==
  ASSUME SearchInv, Slash \/ TypeGlyph \/ NextHit \/ Rub \/ Drive \/ Act \/ ActInChoice
  PROVE  SearchInv' /\ ~look.on
<1>1. ~look.on
  BY DEF Slash, TypeGlyph, NextHit, Rub, Drive, Act, ActInChoice, Searching, Waiting
<1>2. /\ search.dir \in Directions /\ search.pattern \in Seq(Glyphs) /\ search.on \in BOOLEAN
      /\ search \in [on : BOOLEAN, dir : Directions, pattern : Seq(Glyphs)]
      /\ Count # 0 => spot.current \in Positions
  BY DEF SearchInv, SearchTypes
<1>3. Adjusted(search.dir) \in Directions
  BY <1>2 DEF Adjusted, Directions
<1>4. CASE Slash
  <2>1. search' \in [on : BOOLEAN, dir : Directions, pattern : Seq(Glyphs)]
    BY <1>2, <1>4, NotSearching DEF Slash
  <2>2. UNCHANGED <<listing, lines, spot, look>>
    BY <1>4 DEF Slash, onScreen
  <2> QED
    BY <1>1, <1>2, <2>1, <2>2, IdleKeeps
<1>5. CASE TypeGlyph
  <2>1. PICK g \in Glyphs : Find(Append(search.pattern, g), Adjusted(search.dir))
    BY <1>5 DEF TypeGlyph
  <2>2. Append(search.pattern, g) \in Seq(Glyphs)
    BY <1>2
  <2> QED
    BY <1>1, <1>3, <2>1, <2>2, FindKeeps
<1>6. CASE NextHit
  <2>1. PICK dir \in {"next down", "next up"} : Find(search.pattern, dir)
    BY <1>6 DEF NextHit
  <2>2. dir \in Directions
    BY DEF Directions
  <2> QED
    BY <1>1, <1>2, <2>1, <2>2, FindKeeps
<1>7. CASE Rub
  <2> DEFINE shorter == SubSeq(search.pattern, 1, Len(search.pattern) - 1)
  <2>1. shorter \in Seq(Glyphs)
    <3>1. CASE search.pattern = <<>>
      BY <3>1
    <3>2. CASE search.pattern # <<>>
      <4>1. 1 \in 1 .. Len(search.pattern) + 1
            /\ Len(search.pattern) - 1 \in 1 - 1 .. Len(search.pattern)
        BY <1>2, <3>2
      <4> QED
        BY <1>2, <4>1, SubSeqProperties
    <3> QED
      BY <3>1, <3>2
  <2> HIDE DEF shorter
  <2>2. search' = [search EXCEPT !.pattern = shorter, !.dir = Adjusted(search.dir)]
    BY <1>7 DEF Rub, shorter
  <2>3. search' \in [on : BOOLEAN, dir : Directions, pattern : Seq(Glyphs)]
    BY <1>2, <1>3, <2>1, <2>2
  <2>4. UNCHANGED <<listing, lines, spot, look>>
    BY <1>7 DEF Rub, onScreen
  <2> QED
    BY <1>1, <1>2, <2>3, <2>4, IdleKeeps
<1>8. CASE Drive
  <2>1. spot'.current \in Positions /\ search' = NoSearch /\ UNCHANGED <<listing, lines, look>>
    BY <1>8 DEF Drive, onScreen
  <2> QED
    BY <1>1, <2>1, NotSearching, IdleKeeps
<1>9. CASE Act
  <2>1. PICK m \in Menus, h \in MenuLines : ShowMenu(m, h, spot.current, spot.top)
    BY <1>9 DEF Act
  <2>2. search' = NoSearch /\ UNCHANGED look
    BY <1>9 DEF Act
  <2> QED
    BY <1>1, <2>1, <2>2, ShownMenu
<1>10. CASE ActInChoice
  <2>1. PICK m \in Menus, h \in MenuLines, active \in -1 .. 3 :
          ShowMenu(m, h, active, IF active = -1 THEN lastTop ELSE spot.top)
    BY <1>10 DEF ActInChoice
  <2>2. search' = NoSearch /\ UNCHANGED look
    BY <1>10 DEF ActInChoice
  <2> QED
    BY <1>1, <2>1, <2>2, ShownMenu
<1> QED
  BY <1>1, <1>4, <1>5, <1>6, <1>7, <1>8, <1>9, <1>10

LEMMA SearchStep == SearchInv /\ [NconfMenuNext]_nconfMenuVars => SearchInv' /\ HitIsNearest
<1> SUFFICES ASSUME SearchInv, [NconfMenuNext]_nconfMenuVars
             PROVE  SearchInv' /\ HitIsNearest
  OBVIOUS
<1>1. CASE Look
  BY <1>1, LookKeeps
<1>2. CASE Slash \/ TypeGlyph \/ NextHit \/ Rub \/ Drive \/ Act \/ ActInChoice
  BY <1>2, KeysKeep DEF HitIsNearest
<1>3. CASE UNCHANGED nconfMenuVars
  BY <1>3 DEF nconfMenuVars, SearchInv, SearchTypes, PassedHasNone, StartOfSearch, Upwards, Count,
       Positions, Text, Distance, HitIsNearest
<1> QED
  BY <1>1, <1>2, <1>3 DEF NconfMenuNext

(* What a search highlights is the nearest item with the pattern, in its     *)
(* direction and around the ends of the menu, and a search that finds none   *)
(* has passed them all (get_mext_match).                                     *)
THEOREM SearchFindsNearest == NconfMenuSpec => FoundIsNearest
<1>1. SearchInv /\ [NconfMenuNext]_nconfMenuVars => HitIsNearest
  BY SearchStep
<1> QED
  BY <1>1, SearchInit, SearchStep, PTL DEF NconfMenuSpec, FoundIsNearest

-----------------------------------------------------------------------------
(* dialog_textbox: a place in the text is the start of a line, or the end  *)
(* of the text, and is known by the number of its line.                    *)
LineStarts == {0} \cup {i + 1 : i \in Newlines}
lineOf == [p \in 0 .. End |-> LinesUpTo(p)]
LastLine == lineOf[End]
OnStart(v) == v.page \in LineStarts /\ v.begin \in BOOLEAN /\ v.end \in BOOLEAN
            /\ v = Place(v.page, v.begin, v.end)

BufferIsText == buf \in DOMAIN TextsShown /\ jumps = TextsShown[buf]

LEMMA LeastIs ==
  ASSUME NEW S \in SUBSET Nat, S # {}
  PROVE  Smallest(S) \in S /\ \A i \in S : Smallest(S) =< i
BY LeastNatural DEF Smallest

LEMMA GreatestIs ==
  ASSUME NEW S \in SUBSET Nat, S # {}, NEW n \in Nat, \A i \in S : i =< n
  PROVE  Largest(S) \in S /\ \A i \in S : i =< Largest(S)
<1>1. PICK a \in S : TRUE
  OBVIOUS
<1>2. a \in 0 .. n
  BY <1>1
<1>3. PICK m \in 0 .. n : m \in S /\ \A i \in m + 1 .. n : i \notin S
  BY <1>1, <1>2, GreatestUpTo
<1>4. \A i \in S : i =< m
  BY <1>3
<1> QED
  BY <1>3, <1>4 DEF Largest

LEMMA NewlinesAre ==
  ASSUME BufferIsText
  PROVE  /\ End \in Nat \ {0} /\ (\A i \in Newlines : i \in Nat) /\ End - 1 \in Newlines
         /\ \A i \in Newlines : i < End
         /\ LineStarts \in SUBSET (0 .. End) /\ 0 \in LineStarts /\ End \in LineStarts
         /\ \A i \in Newlines : i + 1 \in LineStarts
         /\ \A p \in LineStarts : p = 0 \/ (p - 1 \in Newlines /\ p - 1 \in Nat)
<1>1. Len(buf) \in Nat \ {0} /\ buf[Len(buf)] = Newline
  BY TextBoxAssumption DEF BufferIsText
<1>2. End \in Nat \ {0} /\ buf[End] = Newline
  BY <1>1 DEF End
<1>3. End - 1 \in Newlines
  <2>1. End - 1 \in 0 .. End - 1 /\ (End - 1) + 1 = End
    BY <1>2
  <2> QED
    BY <1>2, <2>1 DEF Newlines, CharAt
<1>4. \A i \in Newlines : i \in Nat /\ i < End
  BY <1>2 DEF Newlines
<1>5. LineStarts \in SUBSET (0 .. End) /\ 0 \in LineStarts
  BY <1>2, <1>4 DEF LineStarts
<1>6. \A i \in Newlines : i + 1 \in LineStarts
  BY DEF LineStarts
<1>7. End \in LineStarts
  BY <1>2, <1>3, <1>6
<1>8. \A p \in LineStarts : p = 0 \/ (p - 1 \in Newlines /\ p - 1 \in Nat)
  <2> SUFFICES ASSUME NEW p \in LineStarts, p # 0
               PROVE  p - 1 \in Newlines /\ p - 1 \in Nat
    OBVIOUS
  <2>1. PICK i \in Newlines : p = i + 1
    BY DEF LineStarts
  <2>2. i \in Nat /\ p - 1 = i
    BY <1>4, <2>1
  <2> QED
    BY <2>1, <2>2
<1> QED
  BY <1>2, <1>3, <1>4, <1>5, <1>6, <1>7, <1>8

(* The lines before a newline, and before the start that follows it.       *)
LEMMA LinesAreCounted ==
  ASSUME BufferIsText
  PROVE  /\ \A p \in 0 .. End : lineOf[p] \in Nat
         /\ lineOf[0] = 0
         /\ \A i \in Newlines : lineOf[i + 1] = lineOf[i] + 1
         /\ \A p, q \in 0 .. End : p =< q => lineOf[p] =< lineOf[q]
         /\ \A p, q \in 0 .. End : p =< q /\ (\A i \in Newlines : i < p \/ i >= q) => lineOf[p] = lineOf[q]
<1> DEFINE Before(p) == {i \in Newlines : i < p}
<1>1. End \in Nat \ {0} /\ (\A i \in Newlines : i \in Nat) /\ \A i \in Newlines : i < End
  BY NewlinesAre
<1>2. \A p \in 0 .. End : lineOf[p] = Cardinality(Before(p))
  BY DEF lineOf, LinesUpTo
<1>3. IsFiniteSet(Newlines)
  <2>1. \A i \in Newlines : i =< End
    BY <1>1
  <2> QED
    BY <1>1, <2>1, FS_BoundedSetOfNaturals
<1>4. \A p \in 0 .. End : IsFiniteSet(Before(p))
  <2> SUFFICES ASSUME NEW p \in 0 .. End PROVE IsFiniteSet(Before(p))
    OBVIOUS
  <2>1. Before(p) \in SUBSET Newlines
    OBVIOUS
  <2> HIDE DEF Before
  <2> QED
    BY <1>3, <2>1, FS_Subset
<1>5. \A p \in 0 .. End : lineOf[p] \in Nat
  <2> HIDE DEF Before
  <2> QED
    BY <1>2, <1>4, FS_CardinalityType
<1>6. lineOf[0] = 0
  <2>1. Before(0) = {} /\ 0 \in 0 .. End
    BY <1>1
  <2> HIDE DEF Before
  <2> QED
    BY <1>2, <2>1, FS_EmptySet
<1>7. \A i \in Newlines : lineOf[i + 1] = lineOf[i] + 1
  <2> SUFFICES ASSUME NEW i \in Newlines PROVE lineOf[i + 1] = lineOf[i] + 1
    OBVIOUS
  <2>1. i \in 0 .. End /\ i + 1 \in 0 .. End
    BY <1>1
  <2>2. Before(i + 1) = Before(i) \cup {i} /\ i \notin Before(i)
    BY <1>1
  <2> HIDE DEF Before
  <2>3. Cardinality(Before(i) \cup {i}) = Cardinality(Before(i)) + 1
    BY <1>4, <2>1, <2>2, FS_AddElement
  <2> QED
    BY <1>2, <2>1, <2>2, <2>3
<1>8. \A p, q \in 0 .. End : p =< q => lineOf[p] =< lineOf[q]
  <2> SUFFICES ASSUME NEW p \in 0 .. End, NEW q \in 0 .. End, p =< q PROVE lineOf[p] =< lineOf[q]
    OBVIOUS
  <2>1. Before(p) \in SUBSET Before(q)
    BY <1>1
  <2> HIDE DEF Before
  <2> QED
    BY <1>2, <1>4, <2>1, FS_Subset
<1>9. \A p, q \in 0 .. End : p =< q /\ (\A i \in Newlines : i < p \/ i >= q) => lineOf[p] = lineOf[q]
  <2> SUFFICES ASSUME NEW p \in 0 .. End, NEW q \in 0 .. End, p =< q, \A i \in Newlines : i < p \/ i >= q
               PROVE  lineOf[p] = lineOf[q]
    OBVIOUS
  <2>1. Before(p) = Before(q)
    BY <1>1
  <2> HIDE DEF Before
  <2> QED
    BY <1>2, <2>1
<1> QED
  BY <1>5, <1>6, <1>7, <1>8, <1>9

(* The number of its line tells a start from the others.                   *)
LEMMA StartsAreOrdered ==
  ASSUME BufferIsText
  PROVE  /\ \A p \in LineStarts : lineOf[p] \in 0 .. LastLine
         /\ LastLine \in Nat \ {0}
         /\ \A p, q \in LineStarts : p < q => lineOf[p] < lineOf[q]
         /\ \A p, q \in LineStarts : lineOf[p] =< lineOf[q] <=> p =< q
         /\ \A p, q \in LineStarts : lineOf[p] = lineOf[q] => p = q
         /\ \A p \in LineStarts : (lineOf[p] = 0 <=> p = 0) /\ (lineOf[p] = LastLine <=> p = End)
<1>1. /\ End \in Nat \ {0} /\ (\A i \in Newlines : i \in Nat) /\ \A i \in Newlines : i < End
      /\ LineStarts \in SUBSET (0 .. End) /\ 0 \in LineStarts /\ End \in LineStarts
      /\ \A p \in LineStarts : p = 0 \/ (p - 1 \in Newlines /\ p - 1 \in Nat)
  BY NewlinesAre
<1>2. /\ \A p \in 0 .. End : lineOf[p] \in Nat
      /\ lineOf[0] = 0
      /\ \A i \in Newlines : lineOf[i + 1] = lineOf[i] + 1
      /\ \A p, q \in 0 .. End : p =< q => lineOf[p] =< lineOf[q]
  BY LinesAreCounted
<1>3. \A p, q \in LineStarts : p < q => lineOf[p] < lineOf[q]
  <2> SUFFICES ASSUME NEW p \in LineStarts, NEW q \in LineStarts, p < q PROVE lineOf[p] < lineOf[q]
    OBVIOUS
  <2>1. p \in 0 .. End /\ q \in 0 .. End
    BY <1>1
  <2>2. q - 1 \in Newlines /\ q - 1 \in Nat
    BY <1>1, <2>1
  <2>3. q - 1 \in 0 .. End /\ p =< q - 1 /\ (q - 1) + 1 = q
    BY <1>1, <2>1, <2>2
  <2>4. lineOf[p] =< lineOf[q - 1] /\ lineOf[q] = lineOf[q - 1] + 1
    BY <1>2, <2>1, <2>2, <2>3
  <2> QED
    BY <1>2, <2>1, <2>3, <2>4
<1>4. LastLine \in Nat
  BY <1>1, <1>2 DEF LastLine
<1>5. \A p \in LineStarts : p \in 0 .. End /\ lineOf[p] \in Nat /\ lineOf[p] =< LastLine
  <2> SUFFICES ASSUME NEW p \in LineStarts
               PROVE  p \in 0 .. End /\ lineOf[p] \in Nat /\ lineOf[p] =< LastLine
    OBVIOUS
  <2>1. p \in 0 .. End /\ End \in 0 .. End /\ p =< End
    BY <1>1
  <2> QED
    BY <1>2, <2>1 DEF LastLine
<1>6. \A p, q \in LineStarts : lineOf[p] =< lineOf[q] <=> p =< q
  BY <1>1, <1>3, <1>5
<1>7. \A p, q \in LineStarts : lineOf[p] = lineOf[q] => p = q
  BY <1>1, <1>3, <1>5
<1>8. LastLine # 0
  BY <1>1, <1>2, <1>3, <1>4 DEF LastLine
<1>9. \A p \in LineStarts : (lineOf[p] = 0 <=> p = 0) /\ (lineOf[p] = LastLine <=> p = End)
  BY <1>1, <1>2, <1>7 DEF LastLine
<1> QED
  BY <1>3, <1>4, <1>5, <1>6, <1>7, <1>8, <1>9

LEMMA GetLineMoves ==
  ASSUME BufferIsText, NEW v, OnStart(v)
  PROVE  /\ OnStart(GetLine(v)) /\ GetLine(v).begin = v.begin
         /\ GetLine(v).end <=> lineOf[v.page] = LastLine
         /\ lineOf[GetLine(v).page] = IF lineOf[v.page] = LastLine THEN LastLine ELSE lineOf[v.page] + 1
<1> DEFINE ends == {i \in Newlines : i >= v.page}
<1>1. /\ End \in Nat \ {0} /\ (\A i \in Newlines : i \in Nat) /\ End - 1 \in Newlines
      /\ \A i \in Newlines : i < End
      /\ LineStarts \in SUBSET (0 .. End) /\ End \in LineStarts
      /\ \A i \in Newlines : i + 1 \in LineStarts
  BY NewlinesAre
<1>2. v.page \in LineStarts /\ v.page \in 0 .. End /\ v.begin \in BOOLEAN
  BY <1>1 DEF OnStart
<1>3. lineOf[v.page] = LastLine <=> v.page = End
  BY <1>2, StartsAreOrdered
<1>4. CASE v.page = End
  <2>1. ends = {}
    BY <1>1, <1>4
  <2>2. GetLine(v) = Place(End, v.begin, TRUE)
    BY <2>1 DEF GetLine
  <2> QED
    BY <1>1, <1>2, <1>3, <1>4, <2>2 DEF OnStart, Place, LastLine
<1>5. CASE v.page # End
  <2>1. End - 1 \in ends /\ ends \in SUBSET Nat
    BY <1>1, <1>2, <1>5
  <2>2. GetLine(v) = Place(Smallest(ends) + 1, v.begin, FALSE)
    BY <2>1 DEF GetLine
  <2>3. Smallest(ends) \in ends /\ \A i \in ends : Smallest(ends) =< i
    <3> HIDE DEF ends
    <3> QED
      BY <2>1, LeastIs
  <2>4. PICK s \in ends : s = Smallest(ends)
    BY <2>3
  <2>7. s \in ends /\ \A i \in ends : s =< i
    <3> HIDE DEF ends
    <3> QED
      BY <2>3, <2>4
  <2>5. s \in Newlines /\ s \in 0 .. End /\ v.page =< s /\ \A i \in Newlines : i < v.page \/ i >= s
    BY <1>1, <1>2, <2>7
  <2>6. lineOf[v.page] = lineOf[s] /\ lineOf[s + 1] = lineOf[s] + 1
    BY <1>2, <2>5, LinesAreCounted
  <2> HIDE DEF ends
  <2> QED
    BY <1>1, <1>2, <1>3, <1>5, <2>2, <2>4, <2>5, <2>6 DEF OnStart, Place
<1> QED
  BY <1>4, <1>5

LEMMA BackOneMoves ==
  ASSUME BufferIsText, NEW v, OnStart(v)
  PROVE  /\ OnStart(BackOne(v))
         /\ lineOf[v.page] = LastLine /\ v.end =>
              BackOne(v).page = v.page /\ ~BackOne(v).begin /\ ~BackOne(v).end
         /\ ~(lineOf[v.page] = LastLine /\ v.end) =>
              /\ lineOf[BackOne(v).page] = IF lineOf[v.page] = 0 THEN 0 ELSE lineOf[v.page] - 1
              /\ BackOne(v).begin <=> lineOf[v.page] =< 1
              /\ BackOne(v).end = v.end
<1> DEFINE ends == {i \in Newlines : i < v.page - 1}
<1>1. /\ End \in Nat \ {0} /\ (\A i \in Newlines : i \in Nat)
      /\ \A i \in Newlines : i < End
      /\ LineStarts \in SUBSET (0 .. End) /\ 0 \in LineStarts
      /\ \A i \in Newlines : i + 1 \in LineStarts
      /\ \A p \in LineStarts : p = 0 \/ (p - 1 \in Newlines /\ p - 1 \in Nat)
  BY NewlinesAre
<1>2. v.page \in LineStarts /\ v.page \in 0 .. End /\ v.begin \in BOOLEAN /\ v.end \in BOOLEAN
  BY <1>1 DEF OnStart
<1>3. (lineOf[v.page] = LastLine <=> v.page = End) /\ (lineOf[v.page] = 0 <=> v.page = 0)
  BY <1>2, StartsAreOrdered
<1>4. CASE v.page = End /\ v.end
  <2>1. BackOne(v) = Place(v.page, FALSE, FALSE)
    BY <1>4 DEF BackOne
  <2> QED
    BY <1>2, <1>3, <1>4, <2>1 DEF OnStart, Place
<1>5. CASE ~(v.page = End /\ v.end) /\ v.page = 0
  <2>1. BackOne(v) = Place(0, TRUE, v.end)
    BY <1>5 DEF BackOne
  <2> QED
    BY <1>1, <1>2, <1>3, <1>5, <2>1 DEF OnStart, Place
<1>6. CASE ~(v.page = End /\ v.end) /\ v.page # 0
  <2>1. PICK e \in Newlines : e = v.page - 1 /\ v.page = e + 1 /\ e \in 0 .. End
    BY <1>1, <1>2, <1>6
  <2>2. lineOf[v.page] = lineOf[e] + 1 /\ lineOf[e] \in Nat /\ lineOf[0] = 0
    BY <2>1, LinesAreCounted
  <2>3. CASE ends = {}
    <3>1. BackOne(v) = Place(0, TRUE, v.end)
      BY <1>6, <2>3 DEF BackOne
    <3>2. 0 =< e /\ 0 \in 0 .. End /\ \A i \in Newlines : i < 0 \/ i >= e
      BY <1>1, <2>1, <2>3
    <3>3. lineOf[0] = lineOf[e]
      BY <2>1, <3>2, LinesAreCounted
    <3> QED
      BY <1>1, <1>2, <1>3, <1>6, <2>2, <3>1, <3>3 DEF OnStart, Place
  <2>4. CASE ends # {}
    <3>1. BackOne(v) = Place(LineBefore(v.page), FALSE, v.end) /\ LineBefore(v.page) = Largest(ends) + 1
      BY <1>6, <2>4 DEF BackOne, LineBefore
    <3>2. ends \in SUBSET Nat /\ \A i \in ends : i =< End
      BY <1>1
    <3>3. Largest(ends) \in ends /\ \A i \in ends : i =< Largest(ends)
      <4> HIDE DEF ends
      <4> QED
        BY <1>1, <2>4, <3>2, GreatestIs
    <3>4. PICK s \in ends : s = Largest(ends)
      BY <3>3
    <3>9. s \in ends /\ \A i \in ends : i =< s
      <4> HIDE DEF ends
      <4> QED
        BY <3>3, <3>4
    <3>5. /\ s \in Newlines /\ s \in Nat /\ s + 1 =< e /\ s + 1 \in 0 .. End
          /\ \A i \in Newlines : i < s + 1 \/ i >= e
      BY <1>1, <2>1, <3>9
    <3>6. lineOf[s + 1] = lineOf[e]
      BY <2>1, <3>5, LinesAreCounted
    <3>7. s + 1 \in LineStarts /\ s + 1 # 0
      BY <1>1, <3>5
    <3>8. lineOf[s + 1] # 0
      BY <3>7, StartsAreOrdered
    <3> HIDE DEF ends
    <3> QED
      BY <1>2, <1>3, <1>6, <2>2, <3>1, <3>4, <3>6, <3>7, <3>8 DEF OnStart, Place
  <2> QED
    BY <2>3, <2>4
<1> QED
  BY <1>4, <1>5, <1>6

-----------------------------------------------------------------------------
(* get_line and back_lines, over and over.                                 *)
Places == [page : LineStarts, begin : BOOLEAN, end : BOOLEAN]

LEMMA PlacesAre == \A v : OnStart(v) <=> v \in Places
BY DEF OnStart, Places, Place

LinesFrom(v, n) ==
  {f \in [0 .. n -> Places] :
     f[0] = v /\ GetLines(v, n) = f[n] /\ \A m \in 1 .. n : f[m] = GetLine(f[m - 1])}

LEMMA GetLinesStep ==
  ASSUME BufferIsText, NEW v, OnStart(v), NEW n \in Nat
  PROVE  LinesFrom(v, n) # {}
<1> DEFINE Step == [w \in Places |-> GetLine(w)]
           Obeys(f) == f = [m \in 0 .. n |-> IF m = 0 THEN v ELSE GetLine(f[m - 1])]
           after == CHOOSE f : Obeys(f)
<1>1. Step \in [Places -> Places] /\ v \in Places
  BY GetLineMoves, PlacesAre
<1>2. PICK g \in IteratesOf(Places, Step, v, n) : TRUE
  <2> HIDE DEF Step
  <2> QED
    BY <1>1, Iterates
<1>11. g \in [0 .. n -> Places] /\ g[0] = v /\ \A m \in 1 .. n : g[m] = Step[g[m - 1]]
  <2> HIDE DEF Step
  <2> QED
    BY <1>2 DEF IteratesOf
<1>3. ASSUME NEW m \in 1 .. n PROVE g[m - 1] \in Places /\ g[m] = GetLine(g[m - 1])
  <2>1. m - 1 \in 0 .. n
    OBVIOUS
  <2> QED
    BY <1>11, <2>1
<1>4. \A m \in 0 .. n : g[m] = IF m = 0 THEN v ELSE GetLine(g[m - 1])
  BY <1>11, <1>3
<1>5. g = [m \in 0 .. n |-> g[m]]
  BY <1>11
<1>6. Obeys(g)
  BY <1>4, <1>5
<1>7. Obeys(after)
  <2> HIDE DEF Obeys
  <2> QED
    BY <1>6
<1>8. GetLines(v, n) = after[n]
  BY DEF GetLines
<1> HIDE DEF after
<1>9. /\ \A m \in 0 .. n : after[m] = IF m = 0 THEN v ELSE GetLine(after[m - 1])
      /\ after = [m \in 0 .. n |-> after[m]]
  BY <1>7
<1>10. after \in [0 .. n -> Places]
  <2> DEFINE S == {m \in Nat : after[m] \in Places}
  <2>1. 0 \in S
    <3>1. 0 \in 0 .. n /\ 0 \in Nat
      OBVIOUS
    <3>2. after[0] = v
      BY <1>9, <3>1
    <3> QED
      BY <1>1, <3>1, <3>2
  <2>2. ASSUME NEW m \in 0 .. n - 1, m \in S PROVE m + 1 \in S
    <3>1. m + 1 \in 0 .. n /\ m + 1 # 0 /\ (m + 1) - 1 = m
      OBVIOUS
    <3>2. after[m + 1] = GetLine(after[m])
      BY <1>9, <3>1
    <3>3. GetLine(after[m]) \in Places
      BY <2>2, GetLineMoves, PlacesAre
    <3> QED
      BY <3>1, <3>2, <3>3
  <2>3. 0 .. n \subseteq S
    <3> HIDE DEF S
    <3> QED
      BY <2>1, <2>2, InductionUpTo
  <2> QED
    BY <1>9, <2>3
<1>12. after[0] = v /\ \A m \in 1 .. n : after[m] = GetLine(after[m - 1])
  <2>1. ASSUME NEW m \in 1 .. n PROVE after[m] = GetLine(after[m - 1])
    <3>1. m \in 0 .. n /\ m # 0
      OBVIOUS
    <3> QED
      BY <1>9, <3>1
  <2>2. 0 \in 0 .. n
    OBVIOUS
  <2> QED
    BY <1>9, <2>1, <2>2
<1> QED
  BY <1>8, <1>10, <1>12 DEF LinesFrom

LinesBack(v, n) ==
  {f \in [0 .. n -> Places] :
     /\ f[0] = Place(v.page, FALSE, v.end) /\ BackLines(v, n) = f[n]
     /\ \A m \in 1 .. n : f[m] = BackUnlessBegun(f[m - 1])}

LEMMA BackLinesStep ==
  ASSUME BufferIsText, NEW v, OnStart(v), NEW n \in Nat
  PROVE  LinesBack(v, n) # {}
<1>0. PICK first : first = [v EXCEPT !.begin = FALSE]
  OBVIOUS
<1> DEFINE Step == [w \in Places |-> BackUnlessBegun(w)]
           Obeys(f) == f = [m \in 0 .. n |-> IF m = 0 THEN first ELSE BackUnlessBegun(f[m - 1])]
           back == CHOOSE f : Obeys(f)
<1>1. first = Place(v.page, FALSE, v.end) /\ first \in Places
  <2>1. v = [page |-> v.page, begin |-> v.begin, end |-> v.end] /\ v.page \in LineStarts /\ v.end \in BOOLEAN
    BY DEF OnStart, Place
  <2>2. first = [page |-> v.page, begin |-> FALSE, end |-> v.end]
    BY <1>0, <2>1
  <2> QED
    BY <2>1, <2>2 DEF Places, Place
<1>2. Step \in [Places -> Places]
  BY BackOneMoves, PlacesAre DEF BackUnlessBegun
<1>3. PICK g \in IteratesOf(Places, Step, first, n) : TRUE
  <2>1. first \in Places
    BY <1>1
  <2> HIDE DEF Step
  <2>2. Step \in [Places -> Places]
    BY <1>2
  <2> QED
    BY ONLY <2>1, <2>2, n \in Nat, Iterates
<1>12. g \in [0 .. n -> Places] /\ g[0] = first /\ \A m \in 1 .. n : g[m] = Step[g[m - 1]]
  <2> HIDE DEF Step
  <2> QED
    BY <1>3 DEF IteratesOf
<1>4. BackLines(v, n) = back[n]
  BY <1>0 DEF BackLines
<1>5. ASSUME NEW m \in 1 .. n PROVE g[m - 1] \in Places /\ g[m] = BackUnlessBegun(g[m - 1])
  <2>1. m - 1 \in 0 .. n
    OBVIOUS
  <2> QED
    BY <1>12, <2>1
<1>6. \A m \in 0 .. n : g[m] = IF m = 0 THEN first ELSE BackUnlessBegun(g[m - 1])
  BY <1>12, <1>5
<1>7. g = [m \in 0 .. n |-> g[m]]
  BY <1>12
<1>8. Obeys(g)
  BY <1>6, <1>7
<1>9. Obeys(back)
  <2> HIDE DEF Obeys
  <2> QED
    BY <1>8
<1> HIDE DEF back
<1>10. /\ \A m \in 0 .. n : back[m] = IF m = 0 THEN first ELSE BackUnlessBegun(back[m - 1])
       /\ back = [m \in 0 .. n |-> back[m]]
  BY <1>9
<1>11. back \in [0 .. n -> Places]
  <2> DEFINE S == {m \in Nat : back[m] \in Places}
  <2>1. 0 \in S
    <3>1. 0 \in 0 .. n /\ 0 \in Nat
      OBVIOUS
    <3>2. back[0] = first
      BY <1>10, <3>1
    <3> QED
      BY <1>1, <3>1, <3>2
  <2>2. ASSUME NEW m \in 0 .. n - 1, m \in S PROVE m + 1 \in S
    <3>1. m + 1 \in 0 .. n /\ m + 1 # 0 /\ (m + 1) - 1 = m
      OBVIOUS
    <3>2. back[m + 1] = BackUnlessBegun(back[m])
      BY <1>10, <3>1
    <3>3. BackUnlessBegun(back[m]) \in Places
      BY <2>2, BackOneMoves, PlacesAre DEF BackUnlessBegun
    <3> QED
      BY <3>1, <3>2, <3>3
  <2>3. 0 .. n \subseteq S
    <3> HIDE DEF S
    <3> QED
      BY <2>1, <2>2, InductionUpTo
  <2> QED
    BY <1>10, <2>3
<1>13. back[0] = first /\ \A m \in 1 .. n : back[m] = BackUnlessBegun(back[m - 1])
  <2>1. ASSUME NEW m \in 1 .. n PROVE back[m] = BackUnlessBegun(back[m - 1])
    <3>1. m \in 0 .. n /\ m # 0
      OBVIOUS
    <3> QED
      BY <1>10, <3>1
  <2>2. 0 \in 0 .. n
    OBVIOUS
  <2> QED
    BY <1>10, <2>1, <2>2
<1> QED
  BY <1>1, <1>4, <1>11, <1>13 DEF LinesBack

LEMMA GetLinesMoves ==
  ASSUME BufferIsText, NEW v, OnStart(v), NEW n \in Nat
  PROVE  /\ OnStart(GetLines(v, n)) /\ GetLines(v, n).begin = v.begin
         /\ n = 0 => GetLines(v, n) = v
         /\ n > 0 => (GetLines(v, n).end <=> lineOf[v.page] + n > LastLine)
         /\ lineOf[GetLines(v, n).page] =
              IF lineOf[v.page] + n =< LastLine THEN lineOf[v.page] + n ELSE LastLine
<1>0. PICK f \in LinesFrom(v, n) : TRUE
  BY GetLinesStep
<1>1. /\ f \in [0 .. n -> Places] /\ f[0] = v /\ GetLines(v, n) = f[n]
      /\ \A m \in 1 .. n : f[m] = GetLine(f[m - 1])
  BY <1>0 DEF LinesFrom
<1>2. lineOf[v.page] \in 0 .. LastLine /\ LastLine \in Nat
  BY StartsAreOrdered DEF OnStart
<1> DEFINE x == lineOf[v.page]
           Stands(w, m) == /\ w.begin = v.begin
                           /\ m > 0 => (w.end <=> x + m > LastLine)
                           /\ lineOf[w.page] = IF x + m =< LastLine THEN x + m ELSE LastLine
           S == {m \in Nat : Stands(f[m], m)}
<1>3. 0 \in S
  BY <1>1, <1>2
<1>4. ASSUME NEW m \in 0 .. n - 1, m \in S PROVE m + 1 \in S
  <2>1. m \in 0 .. n /\ m + 1 \in 1 .. n /\ (m + 1) - 1 = m
    OBVIOUS
  <2>2. f[m + 1] = GetLine(f[m]) /\ OnStart(f[m])
    BY <1>1, <2>1, PlacesAre
  <2>3. Stands(f[m], m)
    BY <1>4
  <2>4. /\ f[m + 1].begin = f[m].begin
        /\ f[m + 1].end <=> lineOf[f[m].page] = LastLine
        /\ lineOf[f[m + 1].page] = IF lineOf[f[m].page] = LastLine THEN LastLine ELSE lineOf[f[m].page] + 1
    BY <2>2, GetLineMoves
  <2> HIDE DEF x
  <2>5. x \in 0 .. LastLine
    BY <1>2 DEF x
  <2>6. Stands(f[m + 1], m + 1)
    BY <1>2, <2>1, <2>3, <2>4, <2>5
  <2> QED
    BY <2>1, <2>6
<1>5. 0 .. n \subseteq S
  <2> HIDE DEF S
  <2> QED
    BY <1>3, <1>4, InductionUpTo
<1>6. Stands(f[n], n) /\ f[n] \in Places
  BY <1>1, <1>5
<1> QED
  BY <1>1, <1>6, PlacesAre

(* A first step from the end leads only away from it.                      *)
Steps(v, n) == IF n > 0 /\ lineOf[v.page] = LastLine /\ v.end THEN n - 1 ELSE n

LEMMA BackLinesMoves ==
  ASSUME BufferIsText, NEW v, OnStart(v), NEW n \in Nat
  PROVE  /\ OnStart(BackLines(v, n))
         /\ lineOf[BackLines(v, n).page] =
              IF Steps(v, n) =< lineOf[v.page] THEN lineOf[v.page] - Steps(v, n) ELSE 0
         /\ BackLines(v, n).begin <=> Steps(v, n) > 0 /\ Steps(v, n) >= lineOf[v.page]
<1>0. PICK f \in LinesBack(v, n) : TRUE
  BY BackLinesStep
<1>1. /\ f \in [0 .. n -> Places] /\ f[0] = Place(v.page, FALSE, v.end) /\ BackLines(v, n) = f[n]
      /\ \A m \in 1 .. n : f[m] = BackUnlessBegun(f[m - 1])
  BY <1>0 DEF LinesBack
<1>2. lineOf[v.page] \in 0 .. LastLine /\ LastLine \in Nat \ {0}
  BY StartsAreOrdered DEF OnStart
<1> DEFINE x == lineOf[v.page]
           Stands(w, m) == /\ lineOf[w.page] = IF Steps(v, m) =< x THEN x - Steps(v, m) ELSE 0
                           /\ w.begin <=> Steps(v, m) > 0 /\ Steps(v, m) >= x
                           /\ IF m = 0 THEN w.end = v.end ELSE ~(w.end /\ lineOf[w.page] = LastLine)
           S == {m \in Nat : Stands(f[m], m)}
<1>3. 0 \in S
  BY <1>1, <1>2 DEF Place, Steps
<1>4. ASSUME NEW m \in 0 .. n - 1, m \in S PROVE m + 1 \in S
  <2>1. m \in 0 .. n /\ m + 1 \in 1 .. n /\ (m + 1) - 1 = m
    OBVIOUS
  <2>2. f[m + 1] = BackUnlessBegun(f[m]) /\ OnStart(f[m])
    BY <1>1, <2>1, PlacesAre
  <2>3. Stands(f[m], m)
    BY <1>4
  <2>4. CASE f[m].begin
    <3>1. f[m + 1] = f[m]
      BY <2>2, <2>4 DEF BackUnlessBegun
    <3> HIDE DEF x
    <3>2. x \in 0 .. LastLine
      BY <1>2 DEF x
    <3>3. Steps(v, m) \in Nat /\ Steps(v, m) > 0 /\ Steps(v, m + 1) = Steps(v, m) + 1 /\ m # 0
      BY <2>1, <2>3, <2>4 DEF Steps
    <3>4. Stands(f[m + 1], m + 1)
      BY <2>1, <2>3, <2>4, <1>2, <3>1, <3>2, <3>3
    <3> QED
      BY <2>1, <3>4
  <2>5. CASE ~f[m].begin
    <3>1. f[m + 1] = BackOne(f[m])
      BY <2>2, <2>5 DEF BackUnlessBegun
    <3>2. /\ lineOf[f[m].page] = LastLine /\ f[m].end =>
               f[m + 1].page = f[m].page /\ ~f[m + 1].begin /\ ~f[m + 1].end
          /\ ~(lineOf[f[m].page] = LastLine /\ f[m].end) =>
               /\ lineOf[f[m + 1].page] = IF lineOf[f[m].page] = 0 THEN 0 ELSE lineOf[f[m].page] - 1
               /\ f[m + 1].begin <=> lineOf[f[m].page] =< 1
               /\ f[m + 1].end = f[m].end
      BY <2>2, <3>1, BackOneMoves
    <3>3. x \in 0 .. LastLine /\ v.end \in BOOLEAN
      BY <1>2 DEF OnStart
    <3>4. CASE lineOf[f[m].page] = LastLine /\ f[m].end
      <4>1. m = 0 /\ x = LastLine /\ v.end
        <5>1. m = 0
          BY <2>3, <3>4
        <5>2. Steps(v, m) = 0
          BY <5>1 DEF Steps
        <5> HIDE DEF x
        <5>3. lineOf[f[m].page] = x /\ f[m].end = v.end
          BY <2>3, <3>3, <5>1, <5>2
        <5> QED
          BY <3>3, <3>4, <5>1, <5>3
      <4>2. Steps(v, m) = 0 /\ Steps(v, m + 1) = 0
        BY <4>1 DEF Steps
      <4> HIDE DEF x
      <4> QED
        BY <1>2, <2>1, <2>3, <3>2, <3>3, <3>4, <4>1, <4>2
    <3>5. CASE ~(lineOf[f[m].page] = LastLine /\ f[m].end)
      <4>1. Steps(v, m) \in Nat /\ Steps(v, m + 1) = Steps(v, m) + 1
        BY <1>2, <2>1, <2>3, <3>3, <3>5 DEF Steps
      <4> HIDE DEF x
      <4>2. lineOf[f[m].page] \in 0 .. LastLine
        BY <1>2, <2>3, <3>3, <4>1
      <4>3. Stands(f[m + 1], m + 1)
        BY <1>2, <2>1, <2>3, <2>5, <3>2, <3>3, <3>5, <4>1, <4>2
      <4> QED
        BY <2>1, <4>3
    <3> QED
      BY <3>4, <3>5
  <2> QED
    BY <2>4, <2>5
<1>5. 0 .. n \subseteq S
  <2> HIDE DEF S
  <2> QED
    BY <1>3, <1>4, InductionUpTo
<1>6. Stands(f[n], n) /\ f[n] \in Places
  BY <1>1, <1>5
<1> QED
  BY <1>1, <1>6, PlacesAre

-----------------------------------------------------------------------------
(* update_text: the keys of the results on the page.                       *)
LEMMA KeysGoRound ==
  ASSUME NEW n \in Nat \ {0}, NEW a \in Nat, NEW b \in Nat, a =< b, b < a + n, a % n = b % n
  PROVE  a = b
<1>1. PICK q \in Int, r \in Int : a = n * q + r /\ 0 =< r /\ r < n /\ r = a % n
  <2>1. a = n * (a \div n) + (a % n) /\ 0 =< a % n /\ a % n < n /\ a \div n \in Int /\ a % n \in Int
    OBVIOUS
  <2> QED
    BY <2>1
<1>2. PICK p \in Int, s \in Int : b = n * p + s /\ 0 =< s /\ s < n /\ s = b % n
  <2>1. b = n * (b \div n) + (b % n) /\ 0 =< b % n /\ b % n < n /\ b \div n \in Int /\ b % n \in Int
    OBVIOUS
  <2> QED
    BY <2>1
<1>3. b - a = n * (p - q)
  BY <1>1, <1>2
<1>4. p - q =< 0
  BY <1>3
<1>5. p - q >= 0
  BY <1>3
<1> QED
  BY <1>3, <1>4, <1>5

LEMMA ResultsAreInOrder ==
  ASSUME BufferIsText
  PROVE  /\ JumpKeys \in Nat \ {0}
         /\ \A j \in DOMAIN jumps : j \in Nat \ {0} /\ j =< Len(jumps) /\ jumps[j] \in Nat
         /\ Len(jumps) \in Nat
         /\ \A j \in DOMAIN jumps, k \in 1 .. Len(jumps) :
              k \in DOMAIN jumps /\ (j < k => jumps[j] =< jumps[k])
<1>1. /\ jumps \in Seq(Nat) /\ JumpKeys \in Nat \ {0}
      /\ \A j, k \in DOMAIN jumps : j < k => jumps[j] =< jumps[k]
  BY TextBoxAssumption DEF BufferIsText
<1> QED
  BY <1>1

LEMMA KeysAreRight ==
  ASSUME BufferIsText, NEW from \in Nat, NEW to \in Nat
  PROVE  /\ {k.jump : k \in UpdateText(from, to)} =
              {j \in Between(from, to) : Cardinality({i \in Between(from, to) : i < j}) < JumpKeys}
         /\ \A k, l \in UpdateText(from, to) : k.key = l.key => k = l
<1> DEFINE I == Between(from, to)
           first == Smallest(I)
           U == UpdateText(from, to)
<1>1. /\ JumpKeys \in Nat \ {0}
      /\ \A j \in DOMAIN jumps : j \in Nat \ {0} /\ j =< Len(jumps) /\ jumps[j] \in Nat
      /\ Len(jumps) \in Nat
      /\ \A j \in DOMAIN jumps, k \in 1 .. Len(jumps) :
           k \in DOMAIN jumps /\ (j < k => jumps[j] =< jumps[k])
  BY ResultsAreInOrder
<1>2. \A i \in I : i \in Nat /\ i >= 1
  BY <1>1 DEF Between
<1>3. \A i, j \in I : \A k \in i .. j : k \in I
  <2> SUFFICES ASSUME NEW i \in I, NEW j \in I, NEW k \in i .. j, k # i, k # j PROVE k \in I
    BY <1>2
  <2>1. i \in DOMAIN jumps /\ j \in DOMAIN jumps /\ from =< jumps[i] /\ jumps[j] < to
    BY DEF Between
  <2>2. i \in Nat /\ j \in Nat /\ k \in 1 .. Len(jumps) /\ i < k /\ k < j
    BY <1>1, <2>1
  <2>3. k \in DOMAIN jumps /\ jumps[i] =< jumps[k] /\ j \in 1 .. Len(jumps)
    BY <1>1, <2>1, <2>2
  <2>4. jumps[k] =< jumps[j]
    BY <1>1, <2>2, <2>3
  <2>5. from =< jumps[k] /\ jumps[k] < to
    BY <1>1, <2>1, <2>3, <2>4
  <2> QED
    BY <2>3, <2>5 DEF Between
<1>4. U = {[key |-> KeyOf(j), jump |-> j] : j \in {i \in I : i < first + JumpKeys}}
  BY DEF UpdateText
<1> HIDE DEF I
<1>5. {k.jump : k \in U} = {i \in I : i < first + JumpKeys}
  <2> DEFINE P == {i \in I : i < first + JumpKeys}
  <2>1. U = {[key |-> KeyOf(j), jump |-> j] : j \in P}
    BY <1>4
  <2> HIDE DEF P, U
  <2>3. ASSUME NEW k \in U PROVE k.jump \in P
    BY <2>1
  <2>4. ASSUME NEW j \in P PROVE \E k \in U : k.jump = j
    <3>1. [key |-> KeyOf(j), jump |-> j] \in U
      BY <2>1
    <3> QED
      BY <3>1
  <2>2. {k.jump : k \in U} = P
    BY <2>3, <2>4
  <2> QED
    BY <2>2 DEF P
<1> HIDE DEF U
<1>6. CASE I = {}
  <2>1. {i \in I : i < first + JumpKeys} = {} /\ U = {}
    BY <1>4, <1>6
  <2> QED
    BY <1>5, <1>6, <2>1 DEF I, U
<1>7. CASE I # {}
  <2>1. PICK f : f = first
    OBVIOUS
  <2>2. f \in I /\ \A i \in I : f =< i
    <3>1. I \in SUBSET Nat
      BY <1>2
    <3> QED
      BY <1>7, <2>1, <3>1, LeastIs
  <2>3. U = {[key |-> KeyOf(j), jump |-> j] : j \in {i \in I : i < f + JumpKeys}}
    BY <1>4, <2>1
  <2>4. ASSUME NEW j \in I PROVE Cardinality({i \in I : i < j}) = j - f
    <3>1. f \in Nat /\ j \in Nat /\ f =< j
      BY <1>2, <2>2
    <3>2. ASSUME NEW i \in f .. j - 1 PROVE i \in I /\ i < j
      <4>1. i \in f .. j
        BY <3>1
      <4> QED
        BY <1>3, <2>2, <3>1, <4>1
    <3>3. {i \in I : i < j} = f .. j - 1
      <4>1. ASSUME NEW i \in I, i < j PROVE i \in f .. j - 1
        BY <1>2, <2>2, <3>1, <4>1
      <4> QED
        BY <3>2, <4>1
    <3>4. Cardinality(f .. j - 1) = j - f
      <4>1. j - 1 \in Int
        BY <3>1
      <4>2. Cardinality(f .. j - 1) = IF f > j - 1 THEN 0 ELSE (j - 1) - f + 1
        BY <3>1, <4>1, FS_Interval
      <4> QED
        BY <3>1, <4>2
    <3> QED
      BY <3>3, <3>4
  <2>5. {j \in I : Cardinality({i \in I : i < j}) < JumpKeys} = {i \in I : i < f + JumpKeys}
    <3>1. ASSUME NEW j \in I PROVE Cardinality({i \in I : i < j}) < JumpKeys <=> j < f + JumpKeys
      <4>1. j \in Nat /\ f \in Nat /\ Cardinality({i \in I : i < j}) = j - f
        BY <1>2, <2>2, <2>4
      <4> QED
        BY <1>1, <4>1
    <3> QED
      BY <3>1
  <2>6. ASSUME NEW k \in U, NEW l \in U, k.key = l.key PROVE k = l
    <3>1. PICK a \in I : k = [key |-> KeyOf(a), jump |-> a] /\ a < f + JumpKeys
      BY <2>3
    <3>2. PICK b \in I : l = [key |-> KeyOf(b), jump |-> b] /\ b < f + JumpKeys
      BY <2>3
    <3>3. a - 1 \in Nat /\ b - 1 \in Nat /\ f \in Nat /\ f =< a /\ f =< b
      BY <1>2, <2>2
    <3>4. ((a - 1) % JumpKeys) + 1 = ((b - 1) % JumpKeys) + 1
      BY <2>6, <3>1, <3>2 DEF KeyOf
    <3>5. (a - 1) % JumpKeys = (b - 1) % JumpKeys
      <4>1. (a - 1) % JumpKeys \in Int /\ (b - 1) % JumpKeys \in Int
        BY <1>1, <3>3
      <4> QED
        BY <3>4, <4>1
    <3>6. PICK x \in Nat, y \in Nat : x = a - 1 /\ y = b - 1
      BY <3>3
    <3>7. x % JumpKeys = y % JumpKeys /\ x < y + JumpKeys /\ y < x + JumpKeys
      <4>1. a < f + JumpKeys /\ b < f + JumpKeys
        BY <3>1, <3>2
      <4>2. x % JumpKeys = y % JumpKeys
        BY <3>5, <3>6
      <4>3. a \in Nat /\ b \in Nat /\ JumpKeys \in Nat /\ x = a - 1 /\ y = b - 1
        BY <1>1, <1>2, <3>6
      <4>4. x < y + JumpKeys /\ y < x + JumpKeys
        BY <3>3, <4>1, <4>3
      <4> QED
        BY <4>2, <4>4
    <3>8. x = y
      <4>1. CASE x =< y
        BY <1>1, <3>7, <4>1, KeysGoRound
      <4>2. CASE y =< x
        BY <1>1, <3>7, <4>2, KeysGoRound
      <4> QED
        BY <4>1, <4>2
    <3>9. a = b
      <4>1. a \in Nat /\ b \in Nat
        BY <1>2
      <4> QED
        BY <3>6, <3>8, <4>1
    <3> QED
      BY <3>1, <3>2, <3>9
  <2>7. {k.jump : k \in U} = {j \in I : Cardinality({i \in I : i < j}) < JumpKeys}
    BY <1>5, <2>1, <2>5
  <2> QED
    BY <2>6, <2>7 DEF I, U
<1> QED
  BY <1>6, <1>7

-----------------------------------------------------------------------------
(* print_page.                                                             *)
Reached(line, h) == IF line + h =< LastLine THEN line + h ELSE LastLine
LinesShown(line, h) == IF line + h =< LastLine THEN h ELSE LastLine - line + 1

LEMMA SettledIs ==
  ASSUME BufferIsText, NEW v, OnStart(v), NEW h \in Nat \ {0}, v.begin => v.page = 0
  PROVE  /\ OnStart(Settled(v, h))
         /\ Settled(v, h).begin => Settled(v, h).page = 0
         /\ lineOf[Settled(v, h).page] =
              IF ~HasJumps \/ lineOf[v.page] + h =< LastLine THEN lineOf[v.page]
              ELSE IF h - 1 =< LastLine THEN LastLine - (h - 1) ELSE 0
         /\ GetLines(v, h).page = GetLines(Settled(v, h), h).page
<1>1. lineOf[v.page] \in 0 .. LastLine /\ LastLine \in Nat \ {0}
  BY StartsAreOrdered DEF OnStart
<1>2. CASE ~HasJumps
  BY <1>2 DEF Settled
<1>3. CASE HasJumps
  <2>1. PICK g : g = GetLines(v, h)
    OBVIOUS
  <2>2. PICK w : w = BackLines(g, h)
    OBVIOUS
  <2>3. Settled(v, h) = w
    BY <1>3, <2>1, <2>2 DEF Settled
  <2>4. /\ OnStart(g)
        /\ g.end <=> lineOf[v.page] + h > LastLine
        /\ lineOf[g.page] = IF lineOf[v.page] + h =< LastLine THEN lineOf[v.page] + h ELSE LastLine
    BY <2>1, GetLinesMoves
  <2>5. /\ OnStart(w)
        /\ lineOf[w.page] = IF Steps(g, h) =< lineOf[g.page] THEN lineOf[g.page] - Steps(g, h) ELSE 0
        /\ w.begin <=> Steps(g, h) > 0 /\ Steps(g, h) >= lineOf[g.page]
    BY <2>2, <2>4, BackLinesMoves
  <2>6. Steps(g, h) = IF lineOf[v.page] + h =< LastLine THEN h ELSE h - 1
    BY <1>1, <2>4 DEF Steps
  <2>7. lineOf[w.page] = IF lineOf[v.page] + h =< LastLine THEN lineOf[v.page]
                         ELSE IF h - 1 =< LastLine THEN LastLine - (h - 1) ELSE 0
    BY <1>1, <2>4, <2>5, <2>6
  <2>8. w.begin => lineOf[w.page] = 0
    BY <1>1, <2>4, <2>5, <2>6
  <2>9. w.begin => w.page = 0
    BY <2>5, <2>8, StartsAreOrdered DEF OnStart
  <2>10. PICK x : x = GetLines(w, h)
    OBVIOUS
  <2>11. /\ OnStart(x)
         /\ lineOf[x.page] = IF lineOf[w.page] + h =< LastLine THEN lineOf[w.page] + h ELSE LastLine
    BY <2>5, <2>10, GetLinesMoves
  <2>12. lineOf[x.page] = lineOf[g.page]
    BY <1>1, <2>4, <2>7, <2>11
  <2>13. x.page = g.page
    BY <2>4, <2>11, <2>12, StartsAreOrdered DEF OnStart
  <2> QED
    BY <1>3, <2>1, <2>3, <2>5, <2>7, <2>9, <2>10, <2>13
<1> QED
  BY <1>2, <1>3

LEMMA PassedLinesAre ==
  ASSUME BufferIsText, NEW v, OnStart(v), NEW h \in Nat \ {0}
  PROVE  PassedLines(v, h) = LinesShown(lineOf[v.page], h)
<1> DEFINE atEnd == {n \in 1 .. h : GetLines(v, n).end}
<1>1. PICK x \in Nat : x = lineOf[v.page] /\ x =< LastLine
  BY StartsAreOrdered DEF OnStart
<1>2. LastLine \in Nat
  BY StartsAreOrdered
<1>3. ASSUME NEW n \in 1 .. h PROVE n \in atEnd <=> x + n > LastLine
  <2>1. n \in Nat /\ n > 0
    OBVIOUS
  <2>2. GetLines(v, n).end <=> lineOf[v.page] + n > LastLine
    BY <2>1, GetLinesMoves
  <2> QED
    BY <1>1, <2>2
<1>4. PassedLines(v, h) = IF atEnd = {} THEN h ELSE Smallest(atEnd)
  BY DEF PassedLines
<1>5. atEnd \in SUBSET (1 .. h)
  OBVIOUS
<1> HIDE DEF atEnd
<1>6. CASE x + h =< LastLine
  <2>1. atEnd = {}
    BY <1>1, <1>2, <1>3, <1>5, <1>6
  <2> QED
    BY <1>1, <1>4, <1>6, <2>1 DEF LinesShown
<1>7. CASE x + h > LastLine
  <2>1. LastLine - x + 1 \in 1 .. h /\ x + (LastLine - x + 1) > LastLine
    BY <1>1, <1>2, <1>7
  <2>2. LastLine - x + 1 \in atEnd
    BY <1>3, <2>1
  <2>3. PICK s : s = Smallest(atEnd)
    OBVIOUS
  <2>4. atEnd \in SUBSET Nat
    BY <1>5
  <2>5. s \in atEnd /\ \A n \in atEnd : s =< n
    BY <2>2, <2>3, <2>4, LeastIs
  <2>6. s =< LastLine - x + 1 /\ s \in 1 .. h
    BY <1>5, <2>2, <2>5
  <2>7. x + s > LastLine
    BY <1>3, <2>5, <2>6
  <2>8. s = LastLine - x + 1
    BY <1>1, <1>2, <2>6, <2>7
  <2> QED
    BY <1>1, <1>2, <1>4, <1>7, <2>2, <2>3, <2>8 DEF LinesShown
<1> QED
  BY <1>1, <1>2, <1>6, <1>7

(* What is kept of the page that is shown, and of the place behind it.     *)
PageShown ==
  /\ printed.from \in LineStarts /\ printed.to \in LineStarts /\ boxh \in Nat \ {0}
  /\ lineOf[printed.to] = Reached(lineOf[printed.from], boxh)
  /\ HasJumps => lineOf[printed.from] + boxh =< LastLine + 1 \/ printed.from = 0

PlaceAfter ==
  /\ OnStart(place) /\ place.page = printed.to
  /\ place.end <=> lineOf[printed.from] + boxh > LastLine
  /\ place.begin => printed.from = 0
  /\ pageLength = LinesShown(lineOf[printed.from], boxh)

KeysShown ==
  /\ {k.jump : k \in keysOn} = {j \in OnScreen : Cardinality({i \in OnScreen : i < j}) < JumpKeys}
  /\ \A k, l \in keysOn : k.key = l.key => k = l

TextInv ==
  /\ BufferIsText /\ kept.lines \in Nat
  /\ result \in {"reading", "jump"} => PageShown
  /\ result = "reading" => PlaceAfter /\ KeysShown
  /\ result = "jump" => kept.lines = lineOf[printed.from]

LEMMA SameText ==
  ASSUME UNCHANGED textIs
  PROVE  /\ LineStarts' = LineStarts /\ lineOf' = lineOf /\ LastLine' = LastLine /\ End' = End
         /\ HasJumps' = HasJumps /\ BufferIsText' = BufferIsText
<1>1. buf' = buf /\ jumps' = jumps
  BY DEF textIs
<1>2. End' = End /\ Newlines' = Newlines
  BY <1>1 DEF Newlines, End, CharAt
<1>3. LineStarts' = LineStarts /\ lineOf' = lineOf
  BY <1>2 DEF LineStarts, lineOf, LinesUpTo
<1> QED
  BY <1>1, <1>2, <1>3 DEF LastLine, HasJumps, BufferIsText

LEMMA PrintPageShows ==
  ASSUME BufferIsText, UNCHANGED textIs, NEW v, OnStart(v), v.begin => v.page = 0,
         NEW h \in Nat \ {0}, NEW column, PrintPage(v, h, column), boxh' = h
  PROVE  /\ PageShown' /\ PlaceAfter' /\ KeysShown'
         /\ printed'.from \in LineStarts /\ printed'.to \in LineStarts
         /\ lineOf[printed'.from] =
              IF ~HasJumps \/ lineOf[v.page] + h =< LastLine THEN lineOf[v.page]
              ELSE IF h - 1 =< LastLine THEN LastLine - (h - 1) ELSE 0
         /\ lineOf[printed'.to] = Reached(lineOf[v.page], h)
<1>1. PICK w : w = Settled(v, h)
  OBVIOUS
<1>2. PICK x : x = GetLines(w, h)
  OBVIOUS
<1>3. /\ OnStart(w)
      /\ w.begin => w.page = 0
      /\ lineOf[w.page] =
           IF ~HasJumps \/ lineOf[v.page] + h =< LastLine THEN lineOf[v.page]
           ELSE IF h - 1 =< LastLine THEN LastLine - (h - 1) ELSE 0
      /\ GetLines(v, h).page = x.page
  BY <1>1, <1>2, SettledIs
<1>4. /\ OnStart(x) /\ x.begin = w.begin
      /\ x.end <=> lineOf[w.page] + h > LastLine
      /\ lineOf[x.page] = Reached(lineOf[w.page], h)
  BY <1>2, <1>3, GetLinesMoves DEF Reached
<1>5. lineOf[v.page] \in 0 .. LastLine /\ LastLine \in Nat \ {0} /\ lineOf[w.page] \in 0 .. LastLine
  BY <1>3, StartsAreOrdered DEF OnStart
<1>6. PassedLines(w, h) = LinesShown(lineOf[w.page], h)
  BY <1>3, PassedLinesAre
<1>7. /\ place' = x /\ pageLength' = LinesShown(lineOf[w.page], h)
      /\ printed' = [from |-> w.page, to |-> x.page, column |-> column]
      /\ keysOn' = IF HasJumps THEN UpdateText(w.page, x.page) ELSE {}
  BY <1>1, <1>2, <1>3, <1>6 DEF PrintPage, PrintFrom
<1>8. printed'.from = w.page /\ printed'.to = x.page
  BY <1>7
<1>9. /\ LineStarts' = LineStarts /\ lineOf' = lineOf /\ LastLine' = LastLine
      /\ HasJumps' = HasJumps
  BY SameText
<1>10. w.page \in LineStarts /\ x.page \in LineStarts
  BY <1>3, <1>4 DEF OnStart
<1>11. HasJumps => lineOf[w.page] + h =< LastLine + 1 \/ w.page = 0
  <2>1. HasJumps => lineOf[w.page] + h =< LastLine + 1 \/ lineOf[w.page] = 0
    BY <1>3, <1>5
  <2> QED
    BY <1>10, <2>1, StartsAreOrdered
<1>12. PageShown'
  BY <1>4, <1>8, <1>9, <1>10, <1>11 DEF PageShown, Reached
<1>13. PlaceAfter'
  <2>1. OnStart(place)'
    BY <1>4, <1>7, <1>9 DEF OnStart
  <2>2. x.begin => w.page = 0
    BY <1>3, <1>4
  <2> QED
    BY <1>4, <1>7, <1>8, <1>9, <2>1, <2>2 DEF PlaceAfter, LinesShown
<1>14. KeysShown'
  <2>1. w.page \in Nat /\ x.page \in Nat
    BY <1>10, NewlinesAre
  <2> DEFINE B == Between(w.page, x.page)
             U == UpdateText(w.page, x.page)
  <2>2. /\ {k.jump : k \in U} = {j \in B : Cardinality({i \in B : i < j}) < JumpKeys}
        /\ \A k, l \in U : k.key = l.key => k = l
    BY <2>1, KeysAreRight
  <2>3. OnScreen' = B
    BY <1>8 DEF OnScreen, Between, textIs
  <2>5. keysOn' = IF HasJumps THEN U ELSE {}
    BY <1>7
  <2>6. ~HasJumps => B = {}
    BY DEF Between, HasJumps
  <2> HIDE DEF B, U
  <2>4. /\ {k.jump : k \in keysOn'} = {j \in B : Cardinality({i \in B : i < j}) < JumpKeys}
        /\ \A k, l \in keysOn' : k.key = l.key => k = l
    <3>1. CASE HasJumps
      BY <2>2, <2>5, <3>1
    <3>2. CASE ~HasJumps
      BY <2>5, <2>6, <3>2
    <3> QED
      BY <3>1, <3>2
  <2> QED
    BY <2>3, <2>4 DEF KeysShown
<1>15. lineOf[x.page] = Reached(lineOf[v.page], h)
  BY <1>3, <1>4, <1>5 DEF Reached
<1> QED
  BY <1>3, <1>8, <1>10, <1>12, <1>13, <1>14, <1>15

LEMMA ShownPage ==
  ASSUME TextInv, result \in {"reading", "jump"}
  PROVE  /\ BufferIsText /\ LastLine \in Nat \ {0} /\ boxh \in Nat \ {0}
         /\ lineOf[printed.from] \in 0 .. LastLine /\ lineOf[printed.to] \in 0 .. LastLine
         /\ lineOf[printed.to] = Reached(lineOf[printed.from], boxh)
         /\ printed.from = 0 <=> lineOf[printed.from] = 0
         /\ printed.to = End <=> lineOf[printed.to] = LastLine
<1>1. BufferIsText /\ PageShown
  BY DEF TextInv
<1>2. printed.from \in LineStarts /\ printed.to \in LineStarts
  BY <1>1 DEF PageShown
<1> QED
  BY <1>1, <1>2, StartsAreOrdered DEF PageShown

(* A page that starts with the same line shows the same.                   *)
LEMMA SameLineSamePage ==
  ASSUME TextInv, result \in {"reading", "jump"}, UNCHANGED textIs,
         NEW v, OnStart(v), v.begin => v.page = 0, lineOf[v.page] = lineOf[printed.from],
         NEW column, PrintPage(v, boxh, column), boxh' = boxh
  PROVE  SamePage
<1>1. /\ BufferIsText /\ LastLine \in Nat \ {0} /\ boxh \in Nat \ {0}
      /\ lineOf[printed.from] \in 0 .. LastLine
      /\ lineOf[printed.to] = Reached(lineOf[printed.from], boxh)
      /\ printed.from = 0 <=> lineOf[printed.from] = 0
  BY ShownPage
<1>2. PICK h : h = boxh
  OBVIOUS
<1>3. h \in Nat \ {0} /\ PrintPage(v, h, column) /\ boxh' = h
  BY <1>1, <1>2
<1>4. /\ printed'.from \in LineStarts /\ printed'.to \in LineStarts
      /\ lineOf[printed'.from] =
           IF ~HasJumps \/ lineOf[v.page] + h =< LastLine THEN lineOf[v.page]
           ELSE IF h - 1 =< LastLine THEN LastLine - (h - 1) ELSE 0
      /\ lineOf[printed'.to] = Reached(lineOf[v.page], h)
  BY <1>1, <1>3, PrintPageShows
<1>5. PageShown
  BY DEF TextInv
<1>6. HasJumps => lineOf[printed.from] + h =< LastLine + 1 \/ lineOf[printed.from] = 0
  BY <1>1, <1>2, <1>5 DEF PageShown
<1>7. lineOf[printed'.from] = lineOf[printed.from]
  BY <1>1, <1>3, <1>4, <1>6
<1>8. lineOf[printed'.to] = lineOf[printed.to]
  BY <1>1, <1>2, <1>4
<1>9. printed.from \in LineStarts /\ printed.to \in LineStarts
  BY <1>5 DEF PageShown
<1> QED
  BY <1>1, <1>4, <1>7, <1>8, <1>9, StartsAreOrdered DEF SamePage

(* A page adjoins that which is shown if it starts no later than this ends *)
(* and reaches its start.                                                  *)
LEMMA PageAdjoins ==
  ASSUME TextInv, result = "reading", UNCHANGED textIs,
         NEW v, OnStart(v), v.begin => v.page = 0,
         NEW column, PrintPage(v, boxh, column), boxh' = boxh,
         \/ /\ lineOf[v.page] =< lineOf[printed.to]
            /\ lineOf[v.page] + boxh >= lineOf[printed.from]
         \/ lineOf[v.page] = 0
         \/ lineOf[v.page] + boxh >= LastLine
  PROVE  Adjoining
<1>1. /\ BufferIsText /\ LastLine \in Nat \ {0} /\ boxh \in Nat \ {0}
      /\ lineOf[printed.from] \in 0 .. LastLine /\ lineOf[printed.to] \in 0 .. LastLine
  BY ShownPage
<1>2. PICK h : h = boxh
  OBVIOUS
<1>3. h \in Nat \ {0} /\ PrintPage(v, h, column) /\ boxh' = h
  BY <1>1, <1>2
<1>4. /\ printed'.from \in LineStarts /\ printed'.to \in LineStarts
      /\ lineOf[printed'.from] =
           IF ~HasJumps \/ lineOf[v.page] + h =< LastLine THEN lineOf[v.page]
           ELSE IF h - 1 =< LastLine THEN LastLine - (h - 1) ELSE 0
      /\ lineOf[printed'.to] = Reached(lineOf[v.page], h)
  BY <1>1, <1>3, PrintPageShows
<1>5. PageShown
  BY DEF TextInv
<1>6. printed.from \in LineStarts /\ printed.to \in LineStarts
  BY <1>5 DEF PageShown
<1>7. lineOf[v.page] \in 0 .. LastLine
  BY <1>1, StartsAreOrdered DEF OnStart
<1>8. lineOf[printed'.from] =< lineOf[v.page] /\ lineOf[printed'.from] \in Nat
  BY <1>1, <1>3, <1>4, <1>7
<1>9. CASE /\ lineOf[v.page] =< lineOf[printed.to]
           /\ lineOf[v.page] + boxh >= lineOf[printed.from]
  <2>1. lineOf[printed'.from] =< lineOf[printed.to]
    BY <1>1, <1>7, <1>8, <1>9
  <2>2. lineOf[printed.from] =< lineOf[printed'.to]
    BY <1>1, <1>2, <1>4, <1>7, <1>9 DEF Reached
  <2> QED
    BY <1>1, <1>4, <1>6, <2>1, <2>2, StartsAreOrdered DEF Adjoining
<1>10. CASE lineOf[v.page] = 0
  <2>1. lineOf[printed'.from] = 0
    BY <1>8, <1>10
  <2> QED
    BY <1>1, <1>4, <2>1, StartsAreOrdered DEF Adjoining
<1>11. CASE lineOf[v.page] + boxh >= LastLine
  <2>1. lineOf[printed'.to] = LastLine
    BY <1>1, <1>2, <1>4, <1>7, <1>11 DEF Reached
  <2> QED
    BY <1>1, <1>4, <2>1, StartsAreOrdered DEF Adjoining
<1> QED
  BY <1>9, <1>10, <1>11

(* Back from behind the page.                                              *)
LEMMA BackFromPage ==
  ASSUME TextInv, result = "reading", NEW n \in Nat
  PROVE  /\ OnStart(BackLines(place, n))
         /\ BackLines(place, n).begin => BackLines(place, n).page = 0
         /\ pageLength \in Nat \ {0}
         /\ ~(n = 0 /\ place.end) =>
              lineOf[BackLines(place, n).page] =
                IF n =< lineOf[printed.from] + pageLength THEN lineOf[printed.from] + pageLength - n ELSE 0
<1>1. /\ BufferIsText /\ LastLine \in Nat \ {0} /\ boxh \in Nat \ {0}
      /\ lineOf[printed.from] \in 0 .. LastLine
      /\ lineOf[printed.to] = Reached(lineOf[printed.from], boxh)
  BY ShownPage
<1>2. PlaceAfter
  BY DEF TextInv
<1>3. /\ OnStart(place) /\ place.page = printed.to
      /\ place.end <=> lineOf[printed.from] + boxh > LastLine
      /\ pageLength = LinesShown(lineOf[printed.from], boxh)
  BY <1>2 DEF PlaceAfter
<1>4. PICK w : w = BackLines(place, n)
  OBVIOUS
<1>5. PICK v : v = place
  OBVIOUS
<1>6. /\ OnStart(w)
      /\ lineOf[w.page] = IF Steps(v, n) =< lineOf[v.page] THEN lineOf[v.page] - Steps(v, n) ELSE 0
      /\ w.begin <=> Steps(v, n) > 0 /\ Steps(v, n) >= lineOf[v.page]
  <2>1. OnStart(v) /\ w = BackLines(v, n)
    BY <1>3, <1>4, <1>5
  <2> QED
    BY <1>1, <2>1, BackLinesMoves
<1>7. pageLength \in Nat \ {0}
  BY <1>1, <1>3 DEF LinesShown
<1>8. w.begin => w.page = 0
  <2>1. w.begin => lineOf[w.page] = 0
    <3>1. Steps(v, n) \in Nat /\ lineOf[v.page] \in Nat
      BY <1>1, <1>3, <1>5 DEF Steps, Reached
    <3> QED
      BY <1>6, <3>1
  <2> QED
    BY <1>1, <1>6, <2>1, StartsAreOrdered DEF OnStart
<1>9. ~(n = 0 /\ place.end) =>
        lineOf[w.page] =
          IF n =< lineOf[printed.from] + pageLength THEN lineOf[printed.from] + pageLength - n ELSE 0
  <2>1. lineOf[v.page] = Reached(lineOf[printed.from], boxh)
    BY <1>1, <1>3, <1>5
  <2>2. CASE lineOf[printed.from] + boxh > LastLine
    <3>1. pageLength = LastLine - lineOf[printed.from] + 1 /\ lineOf[v.page] = LastLine /\ v.end
      BY <1>1, <1>3, <1>5, <2>1, <2>2 DEF LinesShown, Reached
    <3>2. n # 0 => Steps(v, n) = n - 1
      BY <3>1 DEF Steps
    <3> QED
      BY <1>1, <1>3, <1>6, <2>2, <3>1, <3>2
  <2>3. CASE ~(lineOf[printed.from] + boxh > LastLine)
    <3>1. pageLength = boxh /\ lineOf[v.page] = lineOf[printed.from] + boxh /\ ~v.end
      BY <1>1, <1>3, <1>5, <2>1, <2>3 DEF LinesShown, Reached
    <3>2. Steps(v, n) = n
      BY <3>1 DEF Steps
    <3> QED
      BY <1>1, <1>6, <3>1, <3>2
  <2> QED
    BY <2>2, <2>3
<1> QED
  BY <1>4, <1>6, <1>7, <1>8, <1>9

-----------------------------------------------------------------------------
LEMMA TextInvInit == TextInit => TextInv
<1> SUFFICES ASSUME TextInit PROVE TextInv
  OBVIOUS
<1> QED
  BY DEF TextInit, TextInv, BufferIsText

(* A page that is printed while one is read.                               *)
LEMMA GoToKeeps ==
  ASSUME TextInv, Reading, NEW v, OnStart(v), v.begin => v.page = 0, NEW h \in Nat \ {0}, NEW column,
         PrintPage(v, h, column), boxh' = h, result' = result
  PROVE  TextInv'
<1>1. BufferIsText /\ kept.lines \in Nat /\ result = "reading" /\ UNCHANGED textIs /\ kept' = kept
  BY DEF TextInv, Reading
<1>2. PageShown' /\ PlaceAfter' /\ KeysShown'
  BY <1>1, PrintPageShows
<1>3. BufferIsText'
  BY <1>1, SameText
<1> QED
  BY <1>1, <1>2, <1>3 DEF TextInv

LEMMA GoToReads ==
  ASSUME TextInv, Reading, NEW v, OnStart(v), v.begin => v.page = 0, GoTo(v),
         \/ /\ lineOf[v.page] =< lineOf[printed.to]
            /\ lineOf[v.page] + boxh >= lineOf[printed.from]
         \/ lineOf[v.page] = 0
         \/ lineOf[v.page] + boxh >= LastLine
  PROVE  TextInv' /\ NothingIsSkipped
<1>1. result = "reading" /\ UNCHANGED textIs
  BY DEF Reading
<1>2. PrintPage(v, boxh, hscroll) /\ hscroll' = hscroll /\ boxh' = boxh /\ result' = result
  BY DEF GoTo
<1>3. boxh \in Nat \ {0}
  BY <1>1, ShownPage
<1>4. TextInv'
  <2>1. PICK h, c : h = boxh /\ c = hscroll
    OBVIOUS
  <2>3. h \in Nat \ {0}
    BY <1>3, <2>1
  <2>2. PrintPage(v, h, c) /\ boxh' = h
    BY <1>2, <2>1
  <2> QED
    BY <1>2, <2>2, <2>3, GoToKeeps
<1>5. Adjoining
  <2>1. PICK c : c = hscroll
    OBVIOUS
  <2>2. PrintPage(v, boxh, c)
    BY <1>2, <2>1
  <2> QED
    BY <1>1, <1>2, <2>2, PageAdjoins
<1> QED
  BY <1>1, <1>2, <1>4, <1>5 DEF NothingIsSkipped

LEMMA MovesRead ==
  ASSUME TextInv,
         FirstPage \/ LastPage \/ PreviousLine \/ PreviousPage \/ NextLine \/ NextPage
  PROVE  TextInv' /\ NothingIsSkipped
<1>1. Reading /\ result = "reading" /\ UNCHANGED textIs
  BY DEF FirstPage, LastPage, PreviousLine, PreviousPage, NextLine, NextPage, Reading
<1>2. /\ BufferIsText /\ LastLine \in Nat \ {0} /\ boxh \in Nat \ {0}
      /\ lineOf[printed.from] \in 0 .. LastLine /\ lineOf[printed.to] \in 0 .. LastLine
      /\ lineOf[printed.to] = Reached(lineOf[printed.from], boxh)
  BY <1>1, ShownPage
<1>3. PlaceAfter
  BY <1>1 DEF TextInv
<1>4. /\ OnStart(place) /\ place.page = printed.to
      /\ place.end <=> lineOf[printed.from] + boxh > LastLine
      /\ pageLength = LinesShown(lineOf[printed.from], boxh)
  BY <1>3 DEF PlaceAfter
<1>5. place.begin \in BOOLEAN /\ place.end \in BOOLEAN
  BY <1>4 DEF OnStart
<1>6. CASE FirstPage
  <2>1. PICK v : v = Place(0, TRUE, place.end)
    OBVIOUS
  <2>2. v.page = 0 /\ GoTo(v)
    BY <1>6, <2>1 DEF FirstPage, Place
  <2>3. OnStart(v) /\ lineOf[v.page] = 0
    BY <1>2, <1>5, <2>1, <2>2, NewlinesAre, LinesAreCounted DEF OnStart, Place
  <2> QED
    BY <1>1, <2>2, <2>3, GoToReads
<1>7. CASE LastPage
  <2>1. PICK w, n : w = Place(End, place.begin, TRUE) /\ n = boxh
    OBVIOUS
  <2>2. PICK v : v = BackLines(w, n)
    OBVIOUS
  <2>3. GoTo(v) /\ n \in Nat
    BY <1>2, <1>7, <2>1, <2>2 DEF LastPage
  <2>4. OnStart(w) /\ lineOf[w.page] = LastLine /\ w.end
    BY <1>2, <1>5, <2>1, NewlinesAre DEF OnStart, Place, LastLine
  <2>5. /\ OnStart(v)
        /\ lineOf[v.page] = IF Steps(w, n) =< lineOf[w.page] THEN lineOf[w.page] - Steps(w, n) ELSE 0
        /\ v.begin <=> Steps(w, n) > 0 /\ Steps(w, n) >= lineOf[w.page]
    BY <1>2, <2>2, <2>3, <2>4, BackLinesMoves
  <2>6. Steps(w, n) = n - 1
    BY <1>2, <2>1, <2>4 DEF Steps
  <2>9. /\ lineOf[v.page] = IF n - 1 =< LastLine THEN LastLine - (n - 1) ELSE 0
        /\ v.begin => n - 1 >= LastLine
    BY <2>4, <2>5, <2>6
  <2>10. n \in Nat \ {0} /\ n = boxh
    BY <1>2, <2>1
  <2>7. lineOf[v.page] \in Nat /\ lineOf[v.page] + boxh >= LastLine /\ (v.begin => lineOf[v.page] = 0)
    BY <1>2, <2>9, <2>10
  <2>8. v.begin => v.page = 0
    BY <1>2, <2>5, <2>7, StartsAreOrdered DEF OnStart
  <2> QED
    BY <1>1, <2>3, <2>5, <2>7, <2>8, GoToReads
<1>8. ASSUME NEW n \in Nat, GoTo(BackLines(place, n)), ~(n = 0 /\ place.end),
             \/ n = pageLength + 1
             \/ n = pageLength + boxh
             \/ n = pageLength - 1 /\ ~place.end
      PROVE  TextInv' /\ NothingIsSkipped
  <2>1. PICK v : v = BackLines(place, n)
    OBVIOUS
  <2>2. /\ OnStart(v)
        /\ v.begin => v.page = 0
        /\ pageLength \in Nat \ {0}
        /\ lineOf[v.page] =
             IF n =< lineOf[printed.from] + pageLength THEN lineOf[printed.from] + pageLength - n ELSE 0
    BY <1>1, <1>8, <2>1, BackFromPage
  <2>3. GoTo(v)
    BY <1>8, <2>1
  <2>4. \/ /\ lineOf[v.page] =< lineOf[printed.to]
           /\ lineOf[v.page] + boxh >= lineOf[printed.from]
        \/ lineOf[v.page] = 0
    BY <1>2, <1>4, <1>8, <2>2 DEF Reached, LinesShown
  <2> QED
    BY <1>1, <2>2, <2>3, <2>4, GoToReads
<1>9. pageLength \in Nat \ {0}
  BY <1>2, <1>4 DEF LinesShown
<1>10. CASE PreviousLine
  <2>1. PICK n \in Nat : n = pageLength + 1 /\ n # 0
    BY <1>9
  <2>2. GoTo(BackLines(place, n))
    BY <1>10, <2>1 DEF PreviousLine
  <2> QED
    BY <1>8, <2>1, <2>2
<1>11. CASE PreviousPage
  <2>1. PICK n \in Nat : n = pageLength + boxh /\ n # 0
    BY <1>2, <1>9
  <2>2. GoTo(BackLines(place, n))
    BY <1>11, <2>1 DEF PreviousPage
  <2> QED
    BY <1>8, <2>1, <2>2
<1>12. CASE NextLine
  <2>1. PICK n \in Nat : n = pageLength - 1
    BY <1>9
  <2>2. GoTo(BackLines(place, n)) /\ ~place.end
    BY <1>12, <2>1 DEF NextLine
  <2> QED
    BY <1>8, <2>1, <2>2
<1>13. CASE NextPage
  <2>1. PICK v : v = [place EXCEPT !.begin = FALSE]
    OBVIOUS
  <2>2. PICK p, b, e : place = [page |-> p, begin |-> b, end |-> e]
    BY <1>4 DEF OnStart, Place
  <2>7. p = place.page /\ e = place.end
    BY <2>2
  <2>3. v = [page |-> p, begin |-> FALSE, end |-> e] /\ p = place.page /\ e = place.end
    BY <2>1, <2>2, <2>7
  <2>4. OnStart(v) /\ ~v.begin /\ lineOf[v.page] = lineOf[printed.to]
    BY <1>4, <1>5, <2>3 DEF OnStart, Place
  <2>5. GoTo(v)
    BY <1>13, <2>1 DEF NextPage
  <2>6. lineOf[v.page] =< lineOf[printed.to] /\ lineOf[v.page] + boxh >= lineOf[printed.from]
    BY <1>2, <2>4 DEF Reached
  <2> QED
    BY <1>1, <2>4, <2>5, <2>6, GoToReads
<1> QED
  BY <1>6, <1>7, <1>10, <1>11, <1>12, <1>13

LEMMA SidewaysReads == TextInv /\ Sideways => TextInv' /\ NothingIsSkipped
<1> SUFFICES ASSUME TextInv, Sideways PROVE TextInv' /\ NothingIsSkipped
  OBVIOUS
<1>1. /\ Reading /\ result = "reading" /\ UNCHANGED textIs /\ boxh' = boxh /\ result' = result
  BY DEF Sideways, Reading
<1>2. PICK c : PrintPage(BackLines(place, pageLength), boxh, c)
  BY DEF Sideways
<1>3. PICK h \in Nat \ {0} : h = boxh
  BY <1>1, ShownPage
<1>4. PlaceAfter
  BY <1>1 DEF TextInv
<1>5. lineOf[printed.from] \in Nat /\ pageLength \in Nat \ {0}
  BY <1>1, <1>4, ShownPage DEF PlaceAfter, LinesShown
<1>6. PICK n \in Nat : n = pageLength /\ n # 0
  BY <1>5
<1>7. PICK v : v = BackLines(place, n)
  OBVIOUS
<1>8. /\ OnStart(v)
      /\ v.begin => v.page = 0
      /\ lineOf[v.page] =
           IF n =< lineOf[printed.from] + pageLength THEN lineOf[printed.from] + pageLength - n ELSE 0
  BY <1>1, <1>6, <1>7, BackFromPage
<1>9. lineOf[v.page] = lineOf[printed.from]
  BY <1>5, <1>6, <1>8
<1>10. PrintPage(v, boxh, c) /\ PrintPage(v, h, c) /\ boxh' = h
  BY <1>1, <1>2, <1>3, <1>6, <1>7
<1>11. SamePage
  BY <1>1, <1>8, <1>9, <1>10, SameLineSamePage
<1>12. TextInv'
  BY <1>1, <1>8, <1>10, GoToKeeps
<1>13. Adjoining
  <2>1. lineOf[v.page] =< lineOf[printed.to] /\ lineOf[v.page] + boxh >= lineOf[printed.from]
    BY <1>1, <1>9, ShownPage DEF Reached
  <2> QED
    BY <1>1, <1>8, <1>10, <2>1, PageAdjoins
<1> QED
  BY <1>1, <1>11, <1>12, <1>13 DEF NothingIsSkipped

LEMMA ResizeReads == TextInv /\ ResizeText => TextInv' /\ NothingIsSkipped
<1> SUFFICES ASSUME TextInv, ResizeText PROVE TextInv' /\ NothingIsSkipped
  OBVIOUS
<1>1. /\ Reading /\ result = "reading" /\ UNCHANGED textIs /\ kept' = kept /\ hscroll' = hscroll
  BY DEF ResizeText, Reading
<1>2. BufferIsText /\ BufferIsText' /\ kept.lines \in Nat
  BY <1>1, SameText DEF TextInv
<1>3. NothingIsSkipped
  BY <1>1 DEF NothingIsSkipped
<1>4. PICK h \in Heights :
         IF h = 0 THEN result' = "too small"
         ELSE /\ boxh' = h /\ PrintPage(BackLines(place, boxh + 4), h, hscroll) /\ result' = result
  BY DEF ResizeText
<1>5. CASE h = 0
  BY <1>1, <1>2, <1>3, <1>4, <1>5 DEF TextInv
<1>6. CASE h # 0
  <2>1. h \in Nat \ {0}
    BY <1>6, TextBoxAssumption
  <2>2. PICK n \in Nat : n = boxh + 4 /\ n # 0
    BY <1>1, ShownPage
  <2>3. PICK v, c : v = BackLines(place, n) /\ c = hscroll
    OBVIOUS
  <2>4. OnStart(v) /\ (v.begin => v.page = 0)
    BY <1>1, <2>2, <2>3, BackFromPage
  <2>5. boxh' = h /\ PrintPage(v, h, c) /\ result' = result
    BY <1>4, <1>6, <2>2, <2>3
  <2>6. TextInv'
    BY <1>1, <2>1, <2>4, <2>5, GoToKeeps
  <2> QED
    BY <1>3, <2>6
<1> QED
  BY <1>5, <1>6

LEMMA ShowReads == TextInv /\ ShowText => TextInv' /\ NothingIsSkipped
<1> SUFFICES ASSUME TextInv, ShowText PROVE TextInv' /\ NothingIsSkipped
  OBVIOUS
<1>1. result \in {"not shown", "jump"} /\ UNCHANGED textIs /\ kept' = kept
  BY DEF ShowText
<1>2. BufferIsText /\ BufferIsText' /\ kept.lines \in Nat /\ LastLine \in Nat \ {0}
  BY <1>1, SameText, StartsAreOrdered DEF TextInv
<1>3. PICK h \in Heights : Start(h)
  BY DEF ShowText
<1>4. CASE h = 0
  <2>1. result' = "too small"
    BY <1>3, <1>4 DEF Start
  <2> QED
    BY <1>1, <1>2, <2>1 DEF TextInv, NothingIsSkipped
<1>5. CASE h # 0
  <2>1. h \in Nat \ {0}
    BY <1>5, TextBoxAssumption
  <2>2. PICK n \in Nat, c \in {kept.column} : n = kept.lines
    BY <1>2
  <2>3. PICK v : v = StartPlace(n)
    OBVIOUS
  <2>4. result' = "reading" /\ boxh' = h /\ PrintPage(v, h, c)
    BY <1>3, <1>5, <2>2, <2>3 DEF Start
  <2>5. PICK w : w = Place(0, FALSE, FALSE)
    OBVIOUS
  <2>6. OnStart(w) /\ OnStart(Place(0, TRUE, FALSE)) /\ lineOf[w.page] = 0 /\ w.page = 0 /\ ~w.begin
    BY <1>2, <2>5, NewlinesAre, LinesAreCounted DEF OnStart, Place
  <2>7. v = IF n = 0 THEN Place(0, TRUE, FALSE) ELSE GetLines(w, n)
    BY <2>3, <2>5 DEF StartPlace
  <2>8. OnStart(v) /\ (v.begin => v.page = 0) /\ lineOf[v.page] = IF n =< LastLine THEN n ELSE LastLine
    <3>1. CASE n = 0
      <4>1. v = Place(0, TRUE, FALSE) /\ v.page = 0
        BY <2>7, <3>1 DEF Place
      <4>2. OnStart(v)
        BY <2>6, <4>1
      <4>3. lineOf[v.page] = n
        BY <2>6, <3>1, <4>1
      <4>4. n =< LastLine
        BY <1>2, <3>1
      <4>5. v.page = 0
        BY <4>1
      <4> QED
        BY <4>2, <4>3, <4>4, <4>5
    <3>2. CASE n # 0
      <4>1. v = GetLines(w, n)
        BY <2>7, <3>2
      <4>2. /\ OnStart(v) /\ v.begin = w.begin
            /\ lineOf[v.page] = IF lineOf[w.page] + n =< LastLine THEN lineOf[w.page] + n ELSE LastLine
        BY <1>2, <2>6, <4>1, GetLinesMoves
      <4> QED
        BY <2>6, <4>2
    <3> QED
      BY <3>1, <3>2
  <2>9. PageShown' /\ PlaceAfter' /\ KeysShown'
    BY <1>1, <1>2, <2>1, <2>4, <2>8, PrintPageShows
  <2>10. TextInv'
    BY <1>1, <1>2, <2>4, <2>9 DEF TextInv
  <2>11. ASSUME result = "jump", boxh' = boxh PROVE SamePage
    <3>1. n = lineOf[printed.from] /\ lineOf[printed.from] \in 0 .. LastLine
      BY <2>2, <2>11, ShownPage DEF TextInv
    <3>2. lineOf[v.page] = lineOf[printed.from]
      BY <1>2, <2>8, <3>1
    <3>3. PrintPage(v, boxh, c)
      BY <2>4, <2>11
    <3> QED
      BY <1>1, <2>8, <2>11, <3>2, <3>3, SameLineSamePage
  <2> QED
    BY <1>1, <2>10, <2>11 DEF NothingIsSkipped
<1> QED
  BY <1>4, <1>5

LEMMA CloseReads == TextInv /\ CloseText => TextInv' /\ NothingIsSkipped
<1> SUFFICES ASSUME TextInv, CloseText PROVE TextInv' /\ NothingIsSkipped
  OBVIOUS
<1>1. /\ result = "reading" /\ result' \in {"closed", "jump"}
      /\ UNCHANGED textIs /\ printed' = printed /\ boxh' = boxh /\ hscroll' = hscroll
  BY DEF CloseText
<1>2. /\ BufferIsText /\ PageShown /\ PlaceAfter
  BY <1>1 DEF TextInv
<1>3. /\ LineStarts' = LineStarts /\ lineOf' = lineOf /\ LastLine' = LastLine
      /\ HasJumps' = HasJumps /\ BufferIsText'
  BY <1>1, <1>2, SameText
<1>4. PageShown'
  BY <1>1, <1>2, <1>3 DEF PageShown, Reached
<1>5. /\ lineOf[printed.from] \in 0 .. LastLine /\ LastLine \in Nat /\ boxh \in Nat \ {0}
      /\ lineOf[printed.to] = Reached(lineOf[printed.from], boxh)
  BY <1>1, ShownPage
<1>6. PICK n \in Nat : n = pageLength /\ n # 0
  BY <1>2, <1>5 DEF PlaceAfter, LinesShown
<1>7. PICK v : v = BackLines(place, n)
  OBVIOUS
<1>8. /\ OnStart(v)
      /\ lineOf[v.page] =
           IF n =< lineOf[printed.from] + pageLength THEN lineOf[printed.from] + pageLength - n ELSE 0
  BY <1>1, <1>6, <1>7, BackFromPage
<1>9. lineOf[v.page] = lineOf[printed.from]
  BY <1>5, <1>6, <1>8
<1>10. LinesUpTo(v.page) = lineOf[v.page]
  <2>1. v.page \in 0 .. End
    BY <1>2, <1>8, NewlinesAre DEF OnStart
  <2> QED
    BY <2>1 DEF lineOf
<1>11. kept'.lines = lineOf[printed.from]
  BY <1>6, <1>7, <1>9, <1>10 DEF CloseText
<1>12. TextInv'
  BY <1>1, <1>3, <1>4, <1>5, <1>11 DEF TextInv
<1>13. Adjoining
  <2>1. printed.from =< printed.to
    <3>1. lineOf[printed.from] =< lineOf[printed.to]
      BY <1>5 DEF Reached
    <3> QED
      BY <1>2, <3>1, StartsAreOrdered DEF PageShown
  <2> QED
    BY <1>1, <2>1 DEF Adjoining
<1> QED
  BY <1>1, <1>12, <1>13 DEF NothingIsSkipped

LEMMA TextInvStep == TextInv /\ [TextNext]_textVars => TextInv' /\ (TextNext => NothingIsSkipped)
<1> SUFFICES ASSUME TextInv, [TextNext]_textVars
             PROVE  TextInv' /\ (TextNext => NothingIsSkipped)
  OBVIOUS
<1>1. CASE TextNext
  BY <1>1, MovesRead, SidewaysReads, ResizeReads, ShowReads, CloseReads DEF TextNext
<1>2. CASE UNCHANGED textVars
  <2>1. /\ LineStarts' = LineStarts /\ lineOf' = lineOf /\ LastLine' = LastLine
        /\ HasJumps' = HasJumps /\ BufferIsText' = BufferIsText
    BY <1>2, SameText DEF textVars, textIs
  <2>2. OnScreen' = OnScreen
    BY <1>2 DEF textVars, OnScreen, Between
  <2>3. UNCHANGED <<place, pageLength, boxh, printed, keysOn, result, kept>>
    BY <1>2 DEF textVars
  <2>4. TextInv'
    BY <2>1, <2>2, <2>3 DEF TextInv, PageShown, PlaceAfter, KeysShown, OnStart, Reached, LinesShown
  <2> QED
    BY <1>1, <2>4, MovesRead, SidewaysReads, ResizeReads, ShowReads, CloseReads DEF TextNext
<1> QED
  BY <1>1, <1>2

LEMMA TextInvFits == TextInv => KeysFit
<1> SUFFICES ASSUME TextInv, result = "reading" PROVE KeysFit
  BY DEF KeysFit
<1>1. PlaceAfter /\ KeysShown
  BY DEF TextInv
<1>2. place.end => printed.to = End
  <2>1. /\ lineOf[printed.to] = Reached(lineOf[printed.from], boxh)
        /\ printed.to = End <=> lineOf[printed.to] = LastLine
        /\ LastLine \in Nat /\ boxh \in Nat /\ lineOf[printed.from] \in Nat
    BY ShownPage
  <2> QED
    BY <1>1, <2>1 DEF PlaceAfter, Reached
<1> QED
  BY <1>1, <1>2 DEF PlaceAfter, KeysShown, KeysFit

(* The results on the page have the keys that update_text was asked for    *)
(* before the page was printed; scrolling sideways, and coming back from a *)
(* jump, show the page that was shown, and no key but those for the first  *)
(* and the last page skips a line (dialog_textbox).                        *)
THEOREM ReadingAlwaysRight == TextSpec => ReadingIsRight
<1>1. TextInv /\ [TextNext]_textVars => [NothingIsSkipped]_textVars
  BY TextInvStep
<1> QED
  BY <1>1, TextInvInit, TextInvStep, TextInvFits, PTL DEF TextSpec, ReadingIsRight
=============================================================================
