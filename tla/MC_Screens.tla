----------------------------- MODULE MC_Screens ------------------------------
(***************************************************************************)
(* What the two user interfaces of a terminal show: each behaviour runs    *)
(* menuconfig as a whole on a small Kconfig file, or one of the dialogs of *)
(* lxdialog and nconf: a list of at most MaxItems items, a field of        *)
(* BoxWidth columns, three texts, menus that are searched, and the boxes   *)
(* of nconf, on displays of several sizes.                                 *)
(***************************************************************************)
EXTENDS MC_Menuconfig, ListBox, InputBox, TextBox, NconfMenu, NconfBoxes, TLC

VARIABLE screen     \* which of the modules runs

MCLetters == (0 :> "a") @@ (1 :> "s") @@ (2 :> "a") @@ (3 :> "b") @@ (4 :> "x")
MCGiven == {<<>>, <<"a">>, <<"a", "b", "a">>, <<"a", "b", "b", "a">>}

L == <<"c", Newline>>
Gap == <<Newline>>
HelpText == L \o Gap \o L \o L \o Gap \o L
Results == L \o L \o Gap \o L \o L \o L \o Gap \o Gap
MCTexts == (HelpText :> <<>>) @@ (Results :> <<2, 5, 7, 9>>) @@ (L :> <<>>)

MCMenus ==
  {<<>>, <<<<"a", "b">>, <<"b">>, <<"x", "a">>, <<"a", "b">>>>, <<<<"b">>, <<"a", "x">>, <<"b">>>>}

Word == <<"a", "b", "a", "b", "a", "b", "a", "b", "a">>
MCPrompts == {<<"a">>, <<"b", Newline>> \o Word}
Row == <<"b", Newline>>
MCPages ==
  {Row, Row \o Word \o Row \o Gap \o Row, Row \o Row \o Row \o Row \o Gap \o Row \o Row \o Row \o Row}
MCDisplays ==
  {[lines |-> 7, columns |-> 12], [lines |-> 8, columns |-> 12],
   [lines |-> 10, columns |-> 14], [lines |-> 20, columns |-> 12]}

\* No menuconfig.
MconfIdle ==
  /\ graph = <<>> /\ st = <<>> /\ disk = <<>> /\ stack = <<AMenu(0)>> /\ items = <<>>
  /\ single = FALSE /\ opened = {} /\ showAll = FALSE /\ drawn = FALSE /\ counted = FALSE
  /\ name = Config /\ quiet = FALSE /\ forgotten = FALSE /\ halfSaved = FALSE /\ ended = "no" /\ keys = 0
ListBoxIdle ==
  /\ box = "menu" /\ count = 0 /\ given = None /\ saved = 0 /\ height = ListHeight
  /\ scroll = 0 /\ choice = 0 /\ firstItem = 0 /\ button = 0 /\ mark = 0
  /\ window = Page(ListHeight, 0, 0, 0) /\ paging = NotPaging
  /\ answer = "called" /\ picked = None /\ skewed = FALSE
InputIdle ==
  /\ instr = Load(<<>>, Nul) /\ len = 0 /\ pos = 0 /\ showX = 0 /\ inputX = 0
  /\ field = DrawField(Load(<<>>, Nul), 0) /\ at = "field" /\ outcome = Asking
TextIdle == TextInit /\ buf = L
MenuIdle == NconfMenuInit /\ ~radio /\ listing = <<>> /\ lines = 1
BoxesIdle ==
  /\ reply = Unanswered /\ shownBox = "buttons" /\ EntryIdle /\ ScrollIdle
  /\ buttonCount = 0 /\ buttonAt = -1

Init ==
  \/ screen = "mconf" /\ MconfInit /\ ListBoxIdle /\ InputIdle /\ TextIdle /\ MenuIdle /\ BoxesIdle
  \/ screen = "list" /\ ListBoxInit /\ MconfIdle /\ InputIdle /\ TextIdle /\ MenuIdle /\ BoxesIdle
  \/ screen = "input" /\ InputInit /\ MconfIdle /\ ListBoxIdle /\ TextIdle /\ MenuIdle /\ BoxesIdle
  \/ screen = "text" /\ TextInit /\ MconfIdle /\ ListBoxIdle /\ InputIdle /\ MenuIdle /\ BoxesIdle
  \/ screen = "nconf menu" /\ NconfMenuInit /\ MconfIdle /\ ListBoxIdle /\ InputIdle /\ TextIdle /\ BoxesIdle
  \/ screen = "nconf box" /\ NconfBoxesInit /\ MconfIdle /\ ListBoxIdle /\ InputIdle /\ TextIdle /\ MenuIdle

RunMconf ==
  /\ screen = "mconf" /\ MconfNext
  /\ UNCHANGED <<listBoxVars, inputVars, textVars, nconfMenuVars, nconfBoxVars, screen>>
RunList ==
  /\ screen = "list" /\ ListBoxNext
  /\ UNCHANGED <<mconfVars, inputVars, textVars, nconfMenuVars, nconfBoxVars, screen>>
RunInput ==
  /\ screen = "input" /\ InputNext
  /\ UNCHANGED <<mconfVars, listBoxVars, textVars, nconfMenuVars, nconfBoxVars, screen>>
RunText ==
  /\ screen = "text" /\ TextNext
  /\ UNCHANGED <<mconfVars, listBoxVars, inputVars, nconfMenuVars, nconfBoxVars, screen>>
RunNconfMenu ==
  /\ screen = "nconf menu" /\ NconfMenuNext
  /\ UNCHANGED <<mconfVars, listBoxVars, inputVars, textVars, nconfBoxVars, screen>>
RunNconfBox ==
  /\ screen = "nconf box" /\ NconfBoxesNext
  /\ UNCHANGED <<mconfVars, listBoxVars, inputVars, textVars, nconfMenuVars, screen>>

Next == RunMconf \/ RunList \/ RunInput \/ RunText \/ RunNconfMenu \/ RunNconfBox

allVars == <<mconfVars, listBoxVars, inputVars, textVars, nconfMenuVars, nconfBoxVars, screen>>
Spec == Init /\ [][Next]_allVars

=============================================================================
