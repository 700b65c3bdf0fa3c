--------------------------- MODULE MCChatSession ---------------------------
(* A finite instance of ChatSession for TLC: one session, a model value.    *)
EXTENDS ChatSession

CONSTANT s1

OneSession == {s1}
=============================================================================
