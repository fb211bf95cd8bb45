---------------------------- MODULE MCCommandMap ----------------------------
(***************************************************************************)
(* Instances of CommandMap for TLC.                                        *)
(***************************************************************************)
EXTENDS CommandMap

CONSTANTS p1, p2

Command(n, as, us, o) == [name |-> n, aliases |-> as, usages |-> us, owner |-> o]

\* "/version", "/version ()[plugin: PluginName]" and "/reload"; one has an alias.
MCDefault ==
    <<Command("version", {"ver"}, <<<<"/", "version">>, <<"/", "version", "(", ")", "[", "x", ":", "PluginName", "]">>>>, Server),
      Command("reload", {}, <<>>, Server)>>

\* Usages of a plugin's command "home": well formed ones of every kind, and what one
\* wrong token makes of them.
Good == {
    <<"/", "home", "<", "x", ":", "int", ">", "[", "y", ":", "message", "]">>,
    <<"/", "home", "(", "x", "|", "y", ")", "<", "x", ":", "Mode", ">", "y">>,
    <<"/", "home", "[", "x", "|", "y", "]">>,
    <<"/", "home", "(", "x", ")", "[", "y", ":", "Mode", "]", "<", "y", ":", "bool", ">">>}
Token == {"/", "(", ")", "<", ">", "[", "]", "|", ":", "?", "x"}
Spoiled == {[u EXCEPT ![i] = t] : u \in Good, i \in 1 .. 7, t \in Token}
Cut == UNION {{SubSeq(u, 1, n) : n \in 0 .. Len(u)} : u \in Good}
MostUsages == Spoiled \cup Cut

\* A usage that is refused after its enum was registered.
Refused == <<"/", "home", "(", "x", ")", "<", "y", ":", "Mode", ">", "<", "x", ":", "nothing", ">">>
\* A usage whose type is an enum of the game.
Entity == <<"/", "home", "<", "x", ":", "entity_type", ">">>

\* p1 has one command with one of the usages, and possibly a second one; p2 wants names
\* that are taken.
Homes == {<<Command("home", {"h", "ver"}, <<u>>, p1)>> : u \in MostUsages}
    \cup {<<Command("home", {"h"}, <<u, v>>, p1)>> : u, v \in Good \cup {Refused, Entity}}
Others == {
    <<Command("h", {"home"}, <<<<"/", "h", "(", "x", ")", "<", "y", ":", "Mode", ">">>>>, p2)>>,
    <<Command("version", {"home"}, <<>>, p2), Command("spawn", {"ver", "sp", "spawn"}, <<>>, p2)>>}
MCDescribed == (p1 :> Homes) @@ (p2 :> Others)

\* Enough reloads to see names come back.
FewOrphans == Cardinality(map.orphans) <= 2
=============================================================================
