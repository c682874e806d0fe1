-------------------------- MODULE MCAdministration --------------------------
(***************************************************************************)
(* Small instances of Administration.                                      *)
(***************************************************************************)
EXTENDS Administration, TLC

\* A name with a blank before it is another string for the same name.
StripBlank(n) == IF n = " a" THEN "a" ELSE n

AddIp(ip)      == [op |-> "add_blocked_ip", ip |-> ip]
DelIp(ip)      == [op |-> "del_blocked_ip", ip |-> ip]
AddPattern(n, body) == [op |-> "add_dpi_pattern", name |-> n, body |-> body]
DelPattern(n)  == [op |-> "del_dpi_pattern", name |-> n]

AllRequests == {AddIp(1), DelIp(1), AddPattern("a", "x"), AddPattern(" a", "x"),
                AddPattern("b", "("), AddPattern("b", "x"), DelPattern("a"), DelPattern("sql")}
NoRequests  == {}

\* The built-in patterns.
Builtin == <<"sql">>

\* No action and no property tells clients, or switches, apart.
Symmetry == Permutations(Clients) \cup Permutations(Switches)
=============================================================================
