--------------------------- MODULE MC_NconfSearch ---------------------------
(* The menus of nconf alone, with the searches that begin at their ends.    *)
EXTENDS NconfMenu

MCMenus == {<<<<"a", "b">>, <<"b">>, <<"x", "a">>, <<"a", "b">>>>, <<<<"b">>, <<"a", "x">>, <<"b">>>>}
=============================================================================
