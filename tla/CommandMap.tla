----------------------------- MODULE CommandMap -----------------------------
(***************************************************************************)
(* EndstoneCommandMap: the server's and the plugins' commands, kept in     *)
(* custom_commands_ and, side by side, in the game's CommandRegistry       *)
(* (signatures, aliases, enums).  The map lives through reloads: commands  *)
(* are cleared, plugins disabled and destroyed, others loaded and their    *)
(* commands registered.  All of this happens on the server thread.         *)
(***************************************************************************)
EXTENDS CommandUsage, FiniteSets, SequencesExt

CONSTANTS
    Label,          \* command names and aliases, in lower case
    GameCommand,    \* labels of the game's own commands; "reload" is one
    GameEnum,       \* names of the game's own enums
    Default,        \* sequence of the server's commands
    Plugin,
    Server,         \* the owner of the server's commands
    Described,      \* the lists of commands each plugin's description may have
    MaxSuffix       \* bound: copies of one enum name

\* A command: its name, aliases, usages and owner.
Cmd == [name : Label, aliases : SUBSET Label, usages : Seq(Seq(Word \cup Mark)), owner : Plugin \cup {Server}]

ASSUME CommandAssumption ==
    /\ "reload" \in GameCommand /\ GameCommand \subseteq Label /\ Label \subseteq Word
    /\ {"Boolean", "Block", "EntityType"} \subseteq GameEnum
    /\ Server \notin Plugin /\ IsFiniteSet(Plugin)
    /\ Default \in Seq(Cmd) /\ \A i \in DOMAIN Default : Default[i].owner = Server
    /\ \A p \in Plugin : \A d \in Described[p] : d \in Seq(Cmd) /\ \A i \in DOMAIN d : d[i].owner = p
    /\ MaxSuffix \in Nat

VARIABLES
    map,        \* custom_commands_ and the game's registry
    loaded,     \* the plugins there are, each with the commands it describes
    pc          \* where starting up or reloading has come to

commandVars == <<map, loaded, pc>>

\* custom: label to command.  signatures: label to the enums of its overloads.
\* aliases: label to name.  full: the enums, as pairs of name and suffix, that have
\* values; an enum without values is as good as none.  orphans is history: enums of
\* usages that were then refused.
Enum == Seq(Word \cup GameEnum \cup {"PluginName"}) \X (0 .. MaxSuffix)
Game(e) == <<<<e>>, 0>>

CommandTypeOK ==
    /\ DOMAIN map.custom \subseteq Label /\ DOMAIN map.signatures \subseteq Label /\ DOMAIN map.aliases \subseteq Label
    /\ \A l \in DOMAIN map.custom : map.custom[l] \in Cmd
    /\ DOMAIN loaded \subseteq Plugin
    /\ pc \in {"up", "cleared", "bare", "loaded"}

-----------------------------------------------------------------------------
\* f with the labels in D mapped by g.
Over(f, D, g(_)) == [l \in DOMAIN f \cup D |-> IF l \in D THEN g(l) ELSE f[l]]
Less(f, D) == [l \in DOMAIN f \ D |-> f[l]]

\* getCommand finds custom commands, then the game's by name and by alias.
Known(m, l) == l \in DOMAIN m.custom \cup DOMAIN m.signatures \cup DOMAIN m.aliases

\* The types of parameters other than enums.
GameType == [bool |-> "Boolean", block |-> "Block", entity_type |-> "EntityType"]
BasicType == {"int", "str", "message"}

\* The name an enum is registered by: the first that has no values yet, or the bound.
FreeEnum(full, type) ==
    <<type, CHOOSE i \in 0 .. MaxSuffix :
        (<<type, i>> \notin full \/ i = MaxSuffix) /\ \A j \in 0 .. i - 1 : <<type, j>> \in full>>

\* Whether the i-th parameter of a usage is of a type there is, and no message before
\* the last.
Fits(out, i) ==
    LET p == out[i] IN
    \/ p.enum \/ p.type[1] \in DOMAIN GameType
    \/ p.type[1] \in BasicType /\ (p.type[1] = "message" => i = Len(out))
Accepted(out) == \A i \in DOMAIN out : Fits(out, i)
Usable(u) == Parsed(u) /\ Accepted(Parse(u).out)

\* The parameters before the first that is refused.
UpToRefused(out) ==
    SubSeq(out, 1, CHOOSE n \in 0 .. Len(out) :
        (n < Len(out) => ~Fits(out, n + 1)) /\ \A i \in 1 .. n : Fits(out, i))

\* What registering usages does to enums: those of the command's overloads, all that have
\* values, and those of refused usages.
EnumUse == [enums : SUBSET Enum, full : SUBSET Enum, orphans : SUBSET Enum]

\* One parameter: an enum is registered on the spot.
AddParameter(acc, p) ==
    IF p.enum THEN
        LET e == FreeEnum(acc.full, p.type) IN
        [acc EXCEPT !.enums = @ \cup {e}, !.full = IF p.values = <<>> THEN @ ELSE @ \cup {e}]
    ELSE IF p.type[1] \in DOMAIN GameType THEN [acc EXCEPT !.enums = @ \cup {Game(GameType[p.type[1]])}]
    ELSE acc
AddParameters(acc, ps) == Folded([p \in Parameter |-> [a \in EnumUse |-> AddParameter(a, p)]], acc, ps)

\* One usage: parsed, and if it is refused nothing is kept but the enums.
AddUsage(acc, u) ==
    LET out == Parse(u).out
        r == AddParameters(acc, UpToRefused(out)) IN
    IF ~Parsed(u) THEN acc
    ELSE IF Accepted(out) THEN r
    ELSE [acc EXCEPT !.full = r.full, !.orphans = @ \cup (r.full \ acc.full)]
AddUsages(acc, us) == Folded([u \in Seq(Word \cup Mark) |-> [a \in EnumUse |-> AddUsage(a, u)]], acc, us)

Usages(c) == IF c.usages = <<>> THEN <<<<"/", c.name>>>> ELSE c.usages

\* The server's commands have names that the game, but for reload, and one another do not
\* take, and usages that can be registered.
ASSUME DefaultAssumption ==
    \A i \in DOMAIN Default :
        /\ Default[i].name \notin GameCommand \ {"reload"}
        /\ \A j \in DOMAIN Default \ {i} : Default[i].name \notin Default[j].aliases \cup {Default[j].name}
        /\ \E k \in DOMAIN Usages(Default[i]) : Usable(Usages(Default[i])[k])

\* registerCommand: the name must be free, the aliases that are free are taken, and one
\* usage must be usable.  Enums of refused usages stay in the registry.
Registered(m, c) ==
    LET uses == AddUsages([enums |-> {}, full |-> m.full, orphans |-> m.orphans], Usages(c))
        taken == {a \in c.aliases : ~Known(m, a)} IN
    IF Known(m, c.name) THEN m
    ELSE IF \A i \in DOMAIN Usages(c) : ~Usable(Usages(c)[i]) THEN [m EXCEPT !.full = uses.full, !.orphans = uses.orphans]
    ELSE [custom |-> Over(m.custom, taken \cup {c.name}, LAMBDA l : c),
          signatures |-> Over(m.signatures, {c.name}, LAMBDA l : uses.enums),
          aliases |-> Over(m.aliases, taken, LAMBDA l : c.name),
          full |-> uses.full, orphans |-> uses.orphans]

\* One command after the other.
RegisteredAll(m, cs) ==
    LET acc[i \in 0 .. Len(cs)] == IF i = 0 THEN m ELSE Registered(acc[i - 1], cs[i]) IN acc[Len(cs)]

\* Mutants: what unregisterCommand leaves in the registry.
NoEnums(enums) == {}
AliasesLeft(aliases, names) == aliases
\* The enums that unregisterCommand empties: those of the signature but two.
EmptiedOf(enums) == enums \ {Game("Boolean"), Game("Block")}
\* The aliases of a command go with it.
AliasesOf(aliases, names) == Less(aliases, {l \in DOMAIN aliases : aliases[l] \in names})

\* unregisterCommand, for each of names; enums are emptied for custom commands.
Unregistered(m, names) ==
    LET ours == names \cap DOMAIN m.custom \cap DOMAIN m.signatures IN
    [m EXCEPT !.full = @ \ UNION {EmptiedOf(m.signatures[n]) : n \in ours},
              !.aliases = AliasesOf(@, names),
              !.signatures = Less(@, names)]

setDefaultCommands(m) == RegisteredAll(m, Default)

\* Mutants: aliases of cleared commands, or the game's own reload command, are kept.
NamesOnly(m) == Less(m.custom, {m.custom[l].name : l \in DOMAIN m.custom})
Untouched(m) == m
NoCustom(m) == <<>>
WithoutReload(m) == Unregistered(m, {"reload"})

\* The map as constructed over the game's registry.
Constructed ==
    setDefaultCommands(WithoutReload(
        [custom |-> <<>>, signatures |-> [l \in GameCommand |-> {}], aliases |-> <<>>,
         full |-> {Game(e) : e \in GameEnum}, orphans |-> {}]))

Cleared(m) ==
    setDefaultCommands([Unregistered(m, {m.custom[l].name : l \in DOMAIN m.custom}) EXCEPT !.custom = NoCustom(m)])

-----------------------------------------------------------------------------
\* The plugins found: any, each with any of the descriptions it may have.
Found == UNION {[P -> UNION {Described[p] : p \in P}] : P \in SUBSET Plugin}
Loadable == {f \in Found : \A p \in DOMAIN f : f[p] \in Described[p]}

\* Plugins are loaded before the map is constructed.
CommandInit ==
    /\ loaded \in Loadable
    /\ map = Constructed
    /\ pc = "loaded"

\* setPluginCommands, the first step of enabling plugins once the level is there; the
\* plugins come in the order they were loaded in, any order here.
setPluginCommands ==
    /\ pc = "loaded"
    /\ \E order \in SetToSeqs(DOMAIN loaded) :
         LET all == Joined([i \in DOMAIN order |-> loaded[order[i]]])
             m == RegisteredAll(map, all)
             names == <<<<"PluginName">>, 0>> IN
         map' = [m EXCEPT !.full = IF order = <<>> THEN @ \ {names} ELSE @ \cup {names}]
    /\ \A e \in map'.full : e[2] < MaxSuffix
    /\ pc' = "up"
    /\ UNCHANGED loaded

\* reload begins with clearCommands.
clearCommands ==
    /\ pc = "up"
    /\ map' = Cleared(map)
    /\ pc' = "cleared"
    /\ UNCHANGED loaded

\* Plugins are disabled, waited for and destroyed.
clearPlugins ==
    /\ pc = "cleared"
    /\ loaded' = <<>>
    /\ pc' = "bare"
    /\ UNCHANGED map

loadPlugins ==
    /\ pc = "bare"
    /\ loaded' \in Loadable
    /\ pc' = "loaded"
    /\ UNCHANGED map

CommandNext == setPluginCommands \/ clearCommands \/ clearPlugins \/ loadPlugins

CommandSpec == CommandInit /\ [][CommandNext]_commandVars

-----------------------------------------------------------------------------
\* The two tables agree: every custom label leads, in the registry, to the signature of
\* the same command, by name or by alias, and every alias there leads to a signature.
\* findCommand would throw on one that does not.
TablesAgree ==
    /\ \A l \in DOMAIN map.custom :
         LET n == map.custom[l].name IN
         n \in DOMAIN map.signatures /\ (l = n \/ (l \in DOMAIN map.aliases /\ map.aliases[l] = n))
    /\ \A l \in DOMAIN map.aliases : map.aliases[l] \in DOMAIN map.signatures

\* Whatever plugins have registered and however often the server was reloaded, the
\* server's own commands are there under their names.
DefaultsResolve ==
    \A i \in DOMAIN Default : Default[i].name \in DOMAIN map.custom /\ map.custom[Default[i].name] = Default[i]

\* dispatch never reaches a command whose plugin has been destroyed, not between the
\* steps of a reload either: PluginCommand holds its plugin by reference.
OwnersLoaded ==
    \A l \in DOMAIN map.custom : map.custom[l].owner \in DOMAIN loaded \cup {Server}

\* Reloading does not use up enum names: an enum that has values is the game's, belongs
\* to a registered command, or was left behind by a usage that was refused.
EnumsAccountedFor ==
    \A e \in map.full :
        \/ e[1] \in {<<g>> : g \in GameEnum \cup {"PluginName"}}
        \/ e \in map.orphans
        \/ \E l \in DOMAIN map.signatures : e \in map.signatures[l]

\* The parser accepts exactly the usages that can be cut into parameters, and in the
\* one way they can be.
ParsesUsages ==
    \A p \in DOMAIN loaded : \A i \in DOMAIN loaded[p] : \A u \in ToSet(loaded[p][i].usages) :
        Readings(u) = IF Parsed(u) THEN {Parse(u).out} ELSE {}
=============================================================================
