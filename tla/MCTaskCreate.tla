----------------------------- MODULE MCTaskCreate -----------------------------
(* TimeObjects for TLC: every program, with memory and a stack that have   *)
(* anything in them.                                                       *)
EXTENDS TimeObjects

Any         == {"NULL", "garbage"}
AllPrograms == DOMAIN AllScripts

==============================================================================
