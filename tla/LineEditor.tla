----------------------------- MODULE LineEditor ------------------------------
(***************************************************************************)
(* What a field for one line of text promises: a text, and a cursor that   *)
(* is between two of its characters or at one of its ends.                 *)
(***************************************************************************)
EXTENDS Sequences, Naturals

CONSTANTS Printable, Limit

VARIABLES text, cursor

LineInit == text \in Seq(Printable) /\ Len(text) =< Limit /\ cursor = Len(text)

Before == SubSeq(text, 1, cursor)
After == SubSeq(text, cursor + 1, Len(text))

Insert(c) == Len(text) < Limit /\ text' = Append(Before, c) \o After /\ cursor' = cursor + 1
Delete == cursor > 0 /\ text' = SubSeq(text, 1, cursor - 1) \o After /\ cursor' = cursor - 1
MoveLeft == cursor > 0 /\ cursor' = cursor - 1 /\ UNCHANGED text
MoveRight == cursor < Len(text) /\ cursor' = cursor + 1 /\ UNCHANGED text
DeleteNext ==
  cursor < Len(text) /\ text' = Before \o SubSeq(text, cursor + 2, Len(text)) /\ UNCHANGED cursor
ToStart == cursor' = 0 /\ UNCHANGED text
ToEnd == cursor' = Len(text) /\ UNCHANGED text

LineNext ==
  \/ \E c \in Printable : Insert(c)
  \/ Delete \/ DeleteNext
  \/ MoveLeft \/ MoveRight \/ ToStart \/ ToEnd

LineSpec == LineInit /\ [][LineNext]_<<text, cursor>>
=============================================================================
