-------------------------- MODULE MC_ServerSession --------------------------
(* sq_get_time asks "time ?"; the answer to sq_set_time's "time 10" holds  *)
(* the same text.                                                          *)
EXTENDS ServerSession

MCCovers == {<<"time 10", "time">>}
=============================================================================
