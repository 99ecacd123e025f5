------------------------- MODULE MCXingtuSessions --------------------------
(* Two instances with two accounts, one of them with a session in plain text. *)
EXTENDS XingtuSessions

CONSTANTS i1, i2
=============================================================================
