---------------------------- MODULE MCLocalEngine ----------------------------
(***************************************************************************)
(* Instance of LocalEngine: an approval gate that needs one agent step and *)
(* is listed before it.                                                    *)
(***************************************************************************)
EXTENDS LocalEngine

CommandOf(kind, target, id) == [kind |-> kind, target |-> target, id |-> id]
MCOrder == <<"gate", "fix">>
MCNeeds == [s \in {"gate", "fix"} |-> IF s = "gate" THEN {"fix"} ELSE {}]
MCCommands ==
    {CommandOf("cancel", "workflow", 0), CommandOf("approve", "workflow", 1),
     CommandOf("deny", "workflow", 1), CommandOf("reply", "workflow", 0),
     CommandOf("approve", "agent", 1), CommandOf("deny", "agent", 2),
     CommandOf("reply", "agent", 0)}
=============================================================================
