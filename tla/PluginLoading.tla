---------------------------- MODULE PluginLoading ----------------------------
(***************************************************************************)
(* EndstonePluginManager::loadPlugins and loadPlugin: in which order the   *)
(* plugins found in a directory are loaded, and which are turned away.     *)
(*                                                                         *)
(* A candidate is a Plugin object a loader has produced; desc holds what   *)
(* its PluginDescription says.  Everything runs on the main thread; a step *)
(* is one iteration of a loop.  The orders the code leaves open are left   *)
(* open here: the order of the candidates is the order of a directory      *)
(* listing, and plugins, an unordered_map, is walked in any order.         *)
(* Lists of names are sets, and a map entry with an empty list is no entry *)
(* (the code erases those).                                                *)
(***************************************************************************)
EXTENDS Naturals, Sequences, FiniteSets

CONSTANTS
    Candidate,     \* Plugin objects
    Name,          \* names of plugins and of the APIs they provide
    NoPlugin,      \* null Plugin*
    Descriptions   \* the possible descriptions of all candidates

Description == [name : Name, provides : SUBSET Name, depend : SUBSET Name,
                softDepend : SUBSET Name, loadBefore : SUBSET Name]

ASSUME LoadingAssumption ==
    /\ NoPlugin \notin Candidate
    /\ Descriptions \subseteq [Candidate -> Description]

VARIABLES
    desc,       \* Plugin::getDescription() of every candidate
    offered,    \* candidates not handed to the plugin manager yet
    order,      \* plugins_
    lookup,     \* lookup_names_: name -> plugin, NoPlugin where there is no entry
    \* locals of loadPlugins(std::vector<Plugin *>)
    pc,
    unread,     \* candidates the first loop has still to look at
    plugins,    \* plugins: name -> candidate still to be loaded
    provided,   \* keys of plugins_provided
    deps,       \* dependencies
    soft,       \* soft_dependencies
    loaded,     \* loaded_plugins
    result,
    todo,       \* names the walk over plugins has still to visit
    missing,    \* missing_dependency
    \* history
    needs,      \* hard dependencies registered for a name in this call
    turned      \* names turned away in this call without an attempt to load them

globals == <<desc, offered, order, lookup>>
maps    == <<plugins, provided, deps, soft>>
vars    == <<globals, pc, unread, maps, loaded, result, todo, missing, needs, turned>>

NoNames  == [n \in Name |-> {}]
NoneLeft == [n \in Name |-> NoPlugin]
Known(ps) == {n \in Name : ps[n] # NoPlugin}
\* The names a plugin is found under once it is loaded.
NamesOf(c) == {desc[c].name} \cup desc[c].provides

TypeOK ==
    /\ desc \in Descriptions
    /\ offered \subseteq Candidate
    /\ order \in Seq(Candidate) /\ result \in Seq(Candidate)
    /\ lookup \in [Name -> Candidate \cup {NoPlugin}]
    /\ plugins \in [Name -> Candidate \cup {NoPlugin}]
    /\ pc \in {"idle", "collect", "pass"}
    /\ unread \subseteq Candidate
    /\ provided \subseteq Name /\ loaded \subseteq Name /\ turned \subseteq Name
    /\ deps \in [Name -> SUBSET Name] /\ soft \in [Name -> SUBSET Name] /\ needs \in [Name -> SUBSET Name]
    /\ todo \subseteq Known(plugins)
    /\ missing \in BOOLEAN

Init ==
    /\ desc \in Descriptions
    /\ offered = Candidate
    /\ order = <<>> /\ result = <<>>
    /\ lookup = NoneLeft /\ plugins = NoneLeft
    /\ pc = "idle"
    /\ unread = {} /\ provided = {} /\ loaded = {} /\ todo = {} /\ turned = {}
    /\ deps = NoNames /\ soft = NoNames /\ needs = NoNames
    /\ missing = FALSE

-----------------------------------------------------------------------------
(***************************************************************************)
(* loadPlugin(Plugin &).  ok is what the plugin itself decides: its name   *)
(* is well formed and its onLoad does not throw.                           *)
(***************************************************************************)
\* Mutant: dependencies are not looked up.
AcceptsAnyDepend(c) == lookup[desc[c].name] = NoPlugin
\* The name is free and every dependency is found.
Accepts(c) ==
    /\ lookup[desc[c].name] = NoPlugin
    /\ \A d \in desc[c].depend : lookup[d] # NoPlugin

\* The plugin takes its own name; a name it provides stays with who has it.
LoadPlugin(c, ok) ==
    IF Accepts(c) /\ ok
    THEN /\ order' = Append(order, c)
         /\ lookup' = [n \in Name |-> IF n = desc[c].name \/ (n \in desc[c].provides /\ lookup[n] = NoPlugin)
                                      THEN c ELSE lookup[n]]
    ELSE UNCHANGED <<order, lookup>>

\* loadPlugin(std::string file): one plugin, without the ordering below.
LoadFile(c, ok) ==
    /\ pc = "idle"
    /\ c \in offered
    /\ offered' = offered \ {c}
    /\ LoadPlugin(c, ok)
    /\ UNCHANGED <<desc, pc, unread, maps, loaded, result, todo, missing, needs, turned>>

-----------------------------------------------------------------------------
(***************************************************************************)
(* loadPlugins: the candidates are collected ...                           *)
(***************************************************************************)
LoadPlugins(cs) ==
    /\ pc = "idle"
    /\ cs \subseteq offered /\ cs # {}
    /\ offered' = offered \ cs
    /\ unread' = cs
    /\ plugins' = NoneLeft /\ provided' = {} /\ loaded' = {} /\ result' = <<>>
    /\ deps' = NoNames /\ soft' = NoNames /\ todo' = {}
    /\ needs' = NoNames /\ turned' = {}
    /\ pc' = "collect"
    /\ UNCHANGED <<desc, order, lookup, missing>>

\* A later candidate of the same name replaces the earlier one.  A provided name
\* that is a plugin's name counts as the plugin's.
Provided(c) ==
    (provided \ {desc[c].name}) \cup {n \in desc[c].provides : n \notin Known(plugins) \cup {desc[c].name}}

\* Its own soft dependencies, then load_before: a target that has no soft
\* dependency yet gets this plugin, one that has some gets its own name.
SoftOf(c) ==
    LET own == [soft EXCEPT ![desc[c].name] = @ \cup desc[c].softDepend] IN
    [n \in Name |-> IF n \notin desc[c].loadBefore THEN own[n]
                    ELSE IF own[n] = {} THEN {desc[c].name} ELSE own[n] \cup {n}]

Collect(c) ==
    /\ pc = "collect"
    /\ c \in unread
    /\ unread' = unread \ {c}
    /\ plugins' = [plugins EXCEPT ![desc[c].name] = c]
    /\ provided' = Provided(c)
    /\ soft' = SoftOf(c)
    /\ deps' = [deps EXCEPT ![desc[c].name] = @ \cup desc[c].depend]
    /\ needs' = [needs EXCEPT ![desc[c].name] = @ \cup desc[c].depend]
    /\ UNCHANGED <<globals, pc, loaded, result, todo, missing, turned>>

-----------------------------------------------------------------------------
(***************************************************************************)
(* ... and the map is walked until it is empty.                            *)
(***************************************************************************)
\* while (!plugins.empty()): the walk starts again, or the call returns.
NextRound(ps) ==
    /\ plugins' = ps
    /\ todo' = Known(ps)
    /\ missing' = TRUE
    /\ pc' = IF Known(ps) = {} THEN "idle" ELSE "pass"

Collected ==
    /\ pc = "collect"
    /\ unread = {}
    /\ NextRound(plugins)
    /\ UNCHANGED <<globals, unread, provided, deps, soft, loaded, result, needs, turned>>

\* Hard dependencies that are not loaded yet, and soft ones still to come.
HardLeft(n) == deps[n] \ loaded
\* Mutant: soft dependencies are dropped.
SoftIgnored(n) == {}
SoftLeft(n) == soft[n] \cap (Known(plugins) \cup provided)
\* Mutant: an API that another plugin provides is unknown.
UnknownApi(n) == \E d \in HardLeft(n) : d \notin Known(plugins)
Unknown(n) == \E d \in HardLeft(n) : d \notin Known(plugins) \cup provided

\* Mutant: a plugin that could not be loaded counts as loaded.
AnnouncedAlways(c, ok) == NamesOf(c)
\* What loaded_plugins gains.
Announced(c, ok) == IF Accepts(c) /\ ok THEN NamesOf(c) ELSE {}

\* Mutant: a plugin that could not be loaded stays in the map.
ErasedIfLoaded(n, ok) == IF Accepts(plugins[n]) /\ ok THEN [plugins EXCEPT ![n] = NoPlugin] ELSE plugins
\* it = plugins.erase(it), whatever came of the attempt.
Erased(n, ok) == [plugins EXCEPT ![n] = NoPlugin]

\* loadPlugin is tried.
TryLoad(n, ok) ==
    LET c == plugins[n] IN
    /\ LoadPlugin(c, ok)
    /\ loaded' = loaded \cup Announced(c, ok)
    /\ result' = IF Accepts(c) /\ ok THEN Append(result, c) ELSE result

TurnAway(n) ==
    /\ pc = "pass" /\ n \in todo
    /\ Unknown(n)
    /\ plugins' = [plugins EXCEPT ![n] = NoPlugin]
    /\ deps' = [deps EXCEPT ![n] = {}]
    /\ soft' = [soft EXCEPT ![n] = {}]
    /\ todo' = todo \ {n}
    /\ turned' = turned \cup {n}
    /\ UNCHANGED <<globals, pc, unread, provided, loaded, result, missing, needs>>

Wait(n) ==
    /\ pc = "pass" /\ n \in todo
    /\ ~Unknown(n)
    /\ HardLeft(n) # {} \/ SoftLeft(n) # {}
    /\ deps' = [deps EXCEPT ![n] = HardLeft(n)]
    /\ soft' = [soft EXCEPT ![n] = SoftLeft(n)]
    /\ todo' = todo \ {n}
    /\ UNCHANGED <<globals, pc, unread, plugins, provided, loaded, result, missing, needs, turned>>

ClearToLoad(n, ok) ==
    /\ pc = "pass" /\ n \in todo
    /\ HardLeft(n) = {} /\ SoftLeft(n) = {}
    /\ TryLoad(n, ok)
    /\ plugins' = Erased(n, ok)
    /\ deps' = [deps EXCEPT ![n] = {}]
    /\ soft' = [soft EXCEPT ![n] = {}]
    /\ todo' = todo \ {n}
    /\ missing' = FALSE
    /\ UNCHANGED <<desc, offered, pc, unread, provided, needs, turned>>

EndOfPass ==
    /\ pc = "pass" /\ todo = {} /\ ~missing
    /\ NextRound(plugins)
    /\ UNCHANGED <<globals, unread, provided, deps, soft, loaded, result, needs, turned>>

\* Nothing was clear to load: one plugin without hard dependencies goes ahead of its
\* soft ones.
IgnoreSoft(n, ok) ==
    /\ pc = "pass" /\ todo = {} /\ missing
    /\ n \in Known(plugins)
    /\ deps[n] = {}
    /\ TryLoad(n, ok)
    /\ soft' = [soft EXCEPT ![n] = {}]
    /\ NextRound(Erased(n, ok))
    /\ UNCHANGED <<desc, offered, unread, provided, deps, needs, turned>>

\* No such plugin: what is left is given up as a circular dependency.
Circular ==
    /\ pc = "pass" /\ todo = {} /\ missing
    /\ \A n \in Known(plugins) : deps[n] # {}
    /\ NextRound(NoneLeft)
    /\ deps' = NoNames /\ soft' = NoNames
    /\ turned' = turned \cup Known(plugins)
    /\ UNCHANGED <<globals, unread, provided, loaded, result, needs>>

-----------------------------------------------------------------------------
\* The steps of a call that is under way.
Loading ==
    \/ \E c \in Candidate : Collect(c)
    \/ Collected
    \/ \E n \in Name : TurnAway(n) \/ Wait(n)
    \/ \E n \in Name, ok \in BOOLEAN : ClearToLoad(n, ok) \/ IgnoreSoft(n, ok)
    \/ EndOfPass
    \/ Circular

Next ==
    \/ \E c \in Candidate, ok \in BOOLEAN : LoadFile(c, ok)
    \/ \E cs \in SUBSET Candidate : LoadPlugins(cs)
    \/ Loading

Spec == Init /\ [][Next]_vars

LiveSpec == Spec /\ WF_vars(Loading)

-----------------------------------------------------------------------------
\* A plugin is loaded after every plugin it depends on: each name in its depend list
\* is the name of, or is provided by, a plugin that comes before it in plugins_.
DependenciesFirst ==
    \A k \in 1 .. Len(order) : \A d \in desc[order[k]].depend :
        \E j \in 1 .. (k - 1) : d \in NamesOf(order[j])

\* The two bookkeepings agree: a dependency that loadPlugins has crossed off is found
\* by the look-up in loadPlugin, so a plugin that is clear to load is never refused
\* for a dependency.
CrossedOffIsLoaded ==
    \A n \in Known(plugins) : \A d \in desc[plugins[n]].depend :
        d \in deps[n] \/ lookup[d] # NoPlugin

\* No provided name is also the name of a candidate.
Unambiguous == \A c1, c2 \in Candidate : desc[c1].name \notin desc[c2].provides

\* No plugin is turned away although everything it needs was loaded by the call: in
\* whatever order the map is walked, "unknown" and "circular" are never said too
\* early.  Where names are ambiguous the code warns, and no promise is made.
NoneLeftOut ==
    pc = "idle" /\ Unambiguous => \A n \in turned : needs[n] \ loaded # {}

\* What must come before what, and whether that is possible at all.
Before(a, b) ==
    \/ NamesOf(a) \cap (desc[b].depend \cup desc[b].softDepend) # {}
    \/ desc[b].name \in desc[a].loadBefore
Consistent ==
    \E rank \in [Candidate -> 1 .. Cardinality(Candidate)] :
        \A a, b \in Candidate : Before(a, b) => rank[a] < rank[b]

\* No name or API is that of two plugins.
Distinct == \A a, b \in Candidate : a # b => NamesOf(a) \cap NamesOf(b) = {}

\* Dependencies are on plugins by their own names, and nobody asks to go before another.
ByOwnName ==
    /\ \A c \in Candidate : desc[c].loadBefore = {}
    /\ \A a, b \in Candidate : desc[a].provides \cap (desc[b].depend \cup desc[b].softDepend) = {}

\* Where the call has turned nobody away, names are distinct, and the dependencies can be
\* met and are on plugins by their own names, hard and soft ones are met together: no
\* plugin is loaded before one it depends on, in whatever order the map is walked and
\* whoever fails.  The code does no more than that: a target of load_before may get its
\* own name for a soft dependency (plugin_manager.cpp:337), a soft dependency on an API
\* never clears (:392), and after a pass that only turns plugins away soft dependencies
\* are ignored (:427).
SoftOrder ==
    Distinct /\ Consistent /\ ByOwnName /\ turned = {} =>
        \A i, j \in 1 .. Len(result) : i < j => ~Before(result[j], result[i])

\* The walk over plugins comes to an end, also for circular and unknown dependencies.
LoadingEnds == pc # "idle" ~> pc = "idle"

-----------------------------------------------------------------------------
(***************************************************************************)
(* What the repository says of loading and the code does not do.           *)
(***************************************************************************)
\* "Process LoadBefore by adding this plugin as a soft dependency for each target".
LoadBeforeOrder ==
    Consistent => \A i, j \in 1 .. Len(result) :
        i < j => desc[result[i]].name \notin desc[result[j]].loadBefore
=============================================================================
