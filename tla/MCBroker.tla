----------------------------- MODULE MCBroker -----------------------------
(***************************************************************************)
(* Two concurrent requests, a read and a write tool, of which the write is *)
(* an edit tool with fixed arguments, and budgets that both exhaust.       *)
(***************************************************************************)
EXTENDS Broker, TLC

MCTools     == {"read", "write"}
MCMutating  == {"write"}
MCExplore   == {"read"}
MCEdit      == {"read", "write"}
MCExact     == {"read", "write"}
MCArguments == {"fixed", "other"}

\* Tool calls and model requests share no counter: a process serves one kind.
OneKind ==
    \/ budget.requests = 0
    \/ budget.tools = 0 /\ \A c \in Callers : req[c].call = NoCall

\* Requests are alike.
Symmetry == Permutations(Callers)
=============================================================================
