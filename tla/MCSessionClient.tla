--------------------------- MODULE MCSessionClient ---------------------------
(***************************************************************************)
(* SessionClient for TLC: every own key may be enqueued with content a, one *)
(* of them with a second content too.                                      *)
(***************************************************************************)
EXTENDS SessionClient

CONSTANTS a, b, o1, o2

OneMessage == {<<o1, a>>}
ClashingMessages == {<<o1, a>>, <<o1, b>>, <<o2, a>>}
==============================================================================
