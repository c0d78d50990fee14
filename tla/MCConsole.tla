----------------------------- MODULE MCConsole -------------------------------
(* Console with the table's namespace and another, and two keys.           *)
EXTENDS Console, TLC

MCNamespaces == {"storage", "other"}
MCValues == {"short", "longer"}
MCSize == [short |-> 1, longer |-> 2]
Full(v) == [k \in Keys |-> v]
FullTable == {("storage" :> Full("short")) @@ ("other" :> Full("short"))}
=============================================================================
