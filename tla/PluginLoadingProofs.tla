------------------------- MODULE PluginLoadingProofs -------------------------
(***************************************************************************)
(* Proofs about PluginLoading, for any plugins and any descriptions.       *)
(***************************************************************************)
EXTENDS PluginLoading, WellFoundedInduction, TLAPS

\* What the proofs need of the types.
LoadingTypeOK ==
    /\ desc \in [Candidate -> Description]
    /\ order \in Seq(Candidate)
    /\ lookup \in [Name -> Candidate \cup {NoPlugin}]
    /\ plugins \in [Name -> Candidate \cup {NoPlugin}]
    /\ deps \in [Name -> SUBSET Name]
    /\ loaded \subseteq Name
    /\ todo \subseteq Known(plugins)
    /\ unread \subseteq Candidate
    /\ offered \subseteq Candidate

\* A name in lookup_names_ belongs to a plugin in plugins_.
FoundIsListed ==
    \A n \in Name : lookup[n] # NoPlugin => \E j \in 1 .. Len(order) : n \in NamesOf(order[j])

\* A name in loaded_plugins is found by getPlugin.
LoadedIsFound == \A n \in loaded : lookup[n] # NoPlugin

LoadingInv ==
    LoadingTypeOK /\ FoundIsListed /\ LoadedIsFound /\ DependenciesFirst /\ CrossedOffIsLoaded

-----------------------------------------------------------------------------
\* loadPlugin keeps the global part of the invariant, and what was found stays found.
LEMMA LoadPluginKeeps ==
    ASSUME LoadingInv, NEW c \in Candidate, NEW ok \in BOOLEAN, LoadPlugin(c, ok), desc' = desc
    PROVE  /\ order' \in Seq(Candidate)
           /\ lookup' \in [Name -> Candidate \cup {NoPlugin}]
           /\ FoundIsListed'
           /\ DependenciesFirst'
           /\ \A n \in Name : lookup[n] # NoPlugin => lookup'[n] # NoPlugin
           /\ Accepts(c) /\ ok => \A n \in NamesOf(c) : lookup'[n] # NoPlugin
<1> USE LoadingAssumption DEF LoadingInv, LoadingTypeOK, NamesOf, Description
<1>1. CASE ~(Accepts(c) /\ ok)
  <2>1. order' = order /\ lookup' = lookup
    BY <1>1 DEF LoadPlugin
  <2> QED
    BY <1>1, <2>1 DEF FoundIsListed, DependenciesFirst
<1>2. CASE Accepts(c) /\ ok
  <2>1. /\ order' = Append(order, c)
        /\ lookup' = [n \in Name |-> IF n = desc[c].name \/ (n \in desc[c].provides /\ lookup[n] = NoPlugin)
                                     THEN c ELSE lookup[n]]
    BY <1>2 DEF LoadPlugin
  <2>2. /\ order' \in Seq(Candidate) /\ Len(order') = Len(order) + 1
        /\ order'[Len(order) + 1] = c
        /\ \A k \in 1 .. Len(order) : order'[k] = order[k]
    BY <2>1
  <2>3. Len(order) \in Nat
    OBVIOUS
  <2>4. lookup' \in [Name -> Candidate \cup {NoPlugin}]
    BY <2>1
  <2>5. \A n \in Name : lookup[n] # NoPlugin => lookup'[n] # NoPlugin
    BY <2>1
  <2>6. \A n \in NamesOf(c) : lookup'[n] # NoPlugin
    BY <2>1
  <2>7. FoundIsListed'
    <3> SUFFICES ASSUME NEW n \in Name, lookup'[n] # NoPlugin
                 PROVE  \E j \in 1 .. Len(order') : n \in NamesOf(order'[j])
      BY DEF FoundIsListed
    <3>1. CASE n \in NamesOf(c)
      BY <2>2, <2>3, <3>1
    <3>2. CASE n \notin NamesOf(c)
      <4>1. lookup[n] # NoPlugin
        BY <2>1, <3>2
      <4>2. PICK j \in 1 .. Len(order) : n \in NamesOf(order[j])
        BY <4>1 DEF FoundIsListed
      <4> QED
        BY <2>2, <2>3, <4>2
    <3> QED
      BY <3>1, <3>2
  <2>8. DependenciesFirst'
    <3> SUFFICES ASSUME NEW k \in 1 .. Len(order'), NEW d \in desc[order'[k]].depend
                 PROVE  \E j \in 1 .. (k - 1) : d \in NamesOf(order'[j])
      BY DEF DependenciesFirst
    <3>1. CASE k = Len(order) + 1
      <4>1. d \in desc[c].depend /\ d \in Name
        BY <2>2, <3>1
      <4>2. lookup[d] # NoPlugin
        BY <1>2, <4>1 DEF Accepts
      <4>3. PICK j \in 1 .. Len(order) : d \in NamesOf(order[j])
        BY <4>1, <4>2 DEF FoundIsListed
      <4> QED
        BY <2>2, <2>3, <3>1, <4>3
    <3>2. CASE k # Len(order) + 1
      <4>1. k \in 1 .. Len(order) /\ order'[k] = order[k]
        BY <2>2, <2>3, <3>2
      <4>2. PICK j \in 1 .. (k - 1) : d \in NamesOf(order[j])
        BY <4>1 DEF DependenciesFirst
      <4>3. j \in 1 .. Len(order)
        BY <2>3, <4>1, <4>2
      <4> QED
        BY <2>2, <4>2, <4>3
    <3> QED
      BY <3>1, <3>2
  <2> QED
    BY <2>2, <2>4, <2>5, <2>6, <2>7, <2>8
<1> QED
  BY <1>1, <1>2

\* Trying to load the plugin of a name, as both passes do, keeps the whole invariant:
\* what is crossed off later was loaded now.
LEMMA TryLoadKeeps ==
    ASSUME LoadingInv, NEW n \in Name, NEW ok \in BOOLEAN, plugins[n] # NoPlugin, TryLoad(n, ok),
           desc' = desc, plugins' = [plugins EXCEPT ![n] = NoPlugin],
           deps' \in [Name -> SUBSET Name], \A m \in Name : m # n => deps'[m] = deps[m],
           todo' \subseteq Known(plugins'), unread' = unread, offered' = offered
    PROVE  LoadingInv'
<1> DEFINE c == plugins[n]
<1>1. c \in Candidate
  BY DEF LoadingInv, LoadingTypeOK
<1>2. LoadPlugin(c, ok)
  BY DEF TryLoad
<1> HIDE DEF c
<1>3. /\ order' \in Seq(Candidate)
      /\ lookup' \in [Name -> Candidate \cup {NoPlugin}]
      /\ FoundIsListed'
      /\ DependenciesFirst'
      /\ \A m \in Name : lookup[m] # NoPlugin => lookup'[m] # NoPlugin
      /\ Accepts(c) /\ ok => \A m \in NamesOf(c) : lookup'[m] # NoPlugin
  BY <1>1, <1>2, LoadPluginKeeps
<1>4. NamesOf(c) \subseteq Name
  BY <1>1 DEF LoadingInv, LoadingTypeOK, NamesOf, Description
<1>5. loaded' \subseteq Name /\ LoadedIsFound'
  <2>1. loaded' = loaded \cup Announced(c, ok)
    BY DEF TryLoad, c
  <2>2. CASE Accepts(c) /\ ok
    BY <1>3, <1>4, <2>1, <2>2 DEF Announced, LoadingInv, LoadingTypeOK, LoadedIsFound
  <2>3. CASE ~(Accepts(c) /\ ok)
    BY <1>3, <2>1, <2>3 DEF Announced, LoadingInv, LoadingTypeOK, LoadedIsFound
  <2> QED
    BY <2>2, <2>3
<1>6. plugins' \in [Name -> Candidate \cup {NoPlugin}]
  BY DEF LoadingInv, LoadingTypeOK
<1>7. CrossedOffIsLoaded'
  <2> SUFFICES ASSUME NEW m \in Name, plugins'[m] # NoPlugin, NEW d \in desc[plugins'[m]].depend
               PROVE  d \in deps'[m] \/ lookup'[d] # NoPlugin
    BY DEF CrossedOffIsLoaded, Known
  <2>1. m # n /\ plugins'[m] = plugins[m]
    BY DEF LoadingInv, LoadingTypeOK
  <2>2. d \in Name
    BY <2>1, LoadingAssumption DEF LoadingInv, LoadingTypeOK, Description
  <2> QED
    BY <1>3, <2>1, <2>2 DEF LoadingInv, CrossedOffIsLoaded, Known
<1> QED
  BY <1>3, <1>5, <1>6, <1>7 DEF LoadingInv, LoadingTypeOK

-----------------------------------------------------------------------------
\* The plugin manager starts empty.
LEMMA LoadingInvInit == Init => LoadingInv
  BY LoadingAssumption
     DEF Init, LoadingInv, LoadingTypeOK, FoundIsListed, LoadedIsFound, DependenciesFirst,
         CrossedOffIsLoaded, NoneLeft, NoNames, Known

\* Every step of loadPlugin and loadPlugins keeps the invariant.
LEMMA LoadingInvNext == LoadingInv /\ [Next]_vars => LoadingInv'
<1> SUFFICES ASSUME LoadingInv, [Next]_vars PROVE LoadingInv'
  OBVIOUS
<1> USE LoadingAssumption
<1>1. ASSUME NEW c \in Candidate, NEW ok \in BOOLEAN, LoadFile(c, ok) PROVE LoadingInv'
  <2>1. /\ LoadPlugin(c, ok) /\ desc' = desc
        /\ plugins' = plugins /\ deps' = deps /\ loaded' = loaded /\ todo' = todo /\ unread' = unread
        /\ offered' \subseteq Candidate
    BY <1>1 DEF LoadFile, maps, LoadingInv, LoadingTypeOK
  <2>2. /\ order' \in Seq(Candidate)
        /\ lookup' \in [Name -> Candidate \cup {NoPlugin}]
        /\ FoundIsListed'
        /\ DependenciesFirst'
        /\ \A n \in Name : lookup[n] # NoPlugin => lookup'[n] # NoPlugin
    BY <2>1, LoadPluginKeeps
  <2>3. \A n \in Name : plugins[n] # NoPlugin => desc[plugins[n]].depend \subseteq Name
    BY DEF LoadingInv, LoadingTypeOK, Description
  <2> QED
    BY <2>1, <2>2, <2>3 DEF LoadingInv, LoadingTypeOK, LoadedIsFound, CrossedOffIsLoaded, Known
<1>2. ASSUME NEW cs \in SUBSET Candidate, LoadPlugins(cs) PROVE LoadingInv'
  <2>1. /\ plugins' = [n \in Name |-> NoPlugin] /\ deps' = [n \in Name |-> {}] /\ loaded' = {}
        /\ desc' = desc /\ order' = order /\ lookup' = lookup
        /\ unread' \subseteq Candidate /\ offered' \subseteq Candidate
    BY <1>2 DEF LoadPlugins, NoneLeft, NoNames, LoadingInv, LoadingTypeOK
  <2>2. todo' = {}
    BY <1>2 DEF LoadPlugins
  <2>3. FoundIsListed' /\ DependenciesFirst'
    BY <2>1 DEF LoadingInv, FoundIsListed, DependenciesFirst, NamesOf
  <2>4. LoadedIsFound' /\ CrossedOffIsLoaded'
    BY <2>1 DEF LoadedIsFound, CrossedOffIsLoaded, Known
  <2> QED
    BY <2>1, <2>2, <2>3, <2>4 DEF LoadingInv, LoadingTypeOK, Known
<1>3. ASSUME NEW c \in Candidate, Collect(c) PROVE LoadingInv'
  BY <1>3 DEF Collect, globals, LoadingInv, LoadingTypeOK, FoundIsListed, LoadedIsFound, DependenciesFirst,
              CrossedOffIsLoaded, Known, NamesOf, Description
<1>4. CASE Collected
  BY <1>4 DEF Collected, NextRound, globals, LoadingInv, LoadingTypeOK, FoundIsListed, LoadedIsFound,
              DependenciesFirst, CrossedOffIsLoaded, Known, NamesOf
<1>5. ASSUME NEW n \in Name, TurnAway(n) PROVE LoadingInv'
  BY <1>5 DEF TurnAway, globals, LoadingInv, LoadingTypeOK, FoundIsListed, LoadedIsFound,
              DependenciesFirst, CrossedOffIsLoaded, Known, NamesOf
<1>6. ASSUME NEW n \in Name, Wait(n) PROVE LoadingInv'
  BY <1>6 DEF Wait, HardLeft, globals, LoadingInv, LoadingTypeOK, FoundIsListed, LoadedIsFound,
              DependenciesFirst, CrossedOffIsLoaded, Known, NamesOf
<1>7. ASSUME NEW n \in Name, NEW ok \in BOOLEAN, ClearToLoad(n, ok) PROVE LoadingInv'
  <2>1. /\ plugins[n] # NoPlugin /\ TryLoad(n, ok) /\ desc' = desc
        /\ plugins' = [plugins EXCEPT ![n] = NoPlugin]
        /\ deps' \in [Name -> SUBSET Name] /\ \A m \in Name : m # n => deps'[m] = deps[m]
        /\ todo' \subseteq Known(plugins') /\ unread' = unread /\ offered' = offered
    BY <1>7 DEF ClearToLoad, Erased, LoadingInv, LoadingTypeOK, Known
  <2> QED
    BY <2>1, TryLoadKeeps
<1>8. ASSUME NEW n \in Name, NEW ok \in BOOLEAN, IgnoreSoft(n, ok) PROVE LoadingInv'
  <2>1. /\ plugins[n] # NoPlugin /\ TryLoad(n, ok) /\ desc' = desc
        /\ plugins' = [plugins EXCEPT ![n] = NoPlugin]
        /\ deps' \in [Name -> SUBSET Name] /\ \A m \in Name : m # n => deps'[m] = deps[m]
        /\ todo' \subseteq Known(plugins') /\ unread' = unread /\ offered' = offered
    BY <1>8 DEF IgnoreSoft, Erased, NextRound, LoadingInv, LoadingTypeOK, Known
  <2> QED
    BY <2>1, TryLoadKeeps
<1>9. CASE EndOfPass
  BY <1>9 DEF EndOfPass, NextRound, globals, LoadingInv, LoadingTypeOK, FoundIsListed, LoadedIsFound,
              DependenciesFirst, CrossedOffIsLoaded, Known, NamesOf
<1>10. CASE Circular
  BY <1>10 DEF Circular, NoneLeft, NoNames, NextRound, globals, LoadingInv, LoadingTypeOK,
               FoundIsListed, LoadedIsFound, DependenciesFirst, CrossedOffIsLoaded, Known, NamesOf
<1>11. CASE UNCHANGED vars
  BY <1>11 DEF vars, globals, maps, LoadingInv, LoadingTypeOK, FoundIsListed, LoadedIsFound,
               DependenciesFirst, CrossedOffIsLoaded, Known, NamesOf
<1> QED
  BY <1>1, <1>2, <1>3, <1>4, <1>5, <1>6, <1>7, <1>8, <1>9, <1>10, <1>11 DEF Next, Loading

\* loadPlugins and loadPlugin never load a plugin before one it depends on, for any
\* set of plugins, whatever order the directory and the map are walked in, and
\* whichever plugins fail.
THEOREM LoadingRespectsDependencies == Spec => []DependenciesFirst
<1>1. LoadingInv => DependenciesFirst
  BY DEF LoadingInv
<1> QED
  BY <1>1, LoadingInvInit, LoadingInvNext, PTL DEF Spec

\* The loop's own record of what is loaded never runs ahead of lookup_names_: a plugin
\* that loadPlugins finds clear to load is not refused for a dependency.
THEOREM LoadingBookkeeping == Spec => []CrossedOffIsLoaded
<1>1. LoadingInv => CrossedOffIsLoaded
  BY DEF LoadingInv
<1> QED
  BY <1>1, LoadingInvInit, LoadingInvNext, PTL DEF Spec

-----------------------------------------------------------------------------
(***************************************************************************)
(* Nothing is turned away too early.  A name that is turned away lacks a   *)
(* dependency that no plugin still to be loaded bears or provides, so that *)
(* nothing loaded later in the call brings it.                             *)
(***************************************************************************)
LeftOutTypeOK ==
    /\ needs \in [Name -> SUBSET Name]
    /\ provided \subseteq Name /\ turned \subseteq Name
    /\ pc = "collect" => turned = {}

\* The map holds each candidate under its own name.
Named == \A m \in Known(plugins) : desc[plugins[m]].name = m

\* plugins_provided has every API of the plugins still in the map.
ApisKnown == \A m \in Known(plugins) : desc[plugins[m]].provides \subseteq provided

\* Dependencies are crossed off, never added, once the candidates are collected.
OnlyCrossedOff == \A n \in Name : deps[n] \subseteq needs[n]

\* While nothing has been loaded in this pass, the lists of the names already visited
\* are up to date.
VisitedIsFresh ==
    pc = "pass" /\ missing => \A n \in Known(plugins) \ todo : deps[n] \cap loaded = {}

\* d is out of reach: not loaded, and nobody left would bring it.
OutOfReach(d) == d \notin loaded /\ \A m \in Known(plugins) : d \notin NamesOf(plugins[m])
LacksOne(n) == \E d \in needs[n] : OutOfReach(d)
TurnedLacks == \A n \in turned : LacksOne(n)

LeftOutInv ==
    /\ LeftOutTypeOK /\ Named /\ OnlyCrossedOff /\ VisitedIsFresh
    /\ Unambiguous => ApisKnown /\ TurnedLacks

\* Nothing is in the map yet.
LEMMA LeftOutInit == Init => LeftOutInv
  BY DEF Init, LeftOutInv, LeftOutTypeOK, Named, OnlyCrossedOff, VisitedIsFresh, ApisKnown, TurnedLacks,
         NoneLeft, NoNames, Known

\* The walk takes plugins from the map and loads what was in it: what was out of reach
\* stays so.
LEMMA WalkKeepsLacking ==
    ASSUME LoadingTypeOK, Named, desc' = desc, needs' = needs, provided' = provided,
           \A m \in Name : plugins'[m] # NoPlugin => plugins'[m] = plugins[m],
           \A d \in loaded' : d \in loaded \/ \E m \in Known(plugins) : d \in NamesOf(plugins[m])
    PROVE  /\ Named'
           /\ ApisKnown => ApisKnown'
           /\ \A n \in Name : LacksOne(n) => LacksOne(n)'
<1>1. Named'
  BY DEF Named, Known
<1>2. ApisKnown => ApisKnown'
  BY DEF ApisKnown, Known
<1>3. \A d : OutOfReach(d) => OutOfReach(d)'
  BY DEF OutOfReach, NamesOf, Known
<1>4. ASSUME NEW n \in Name, LacksOne(n) PROVE LacksOne(n)'
  BY <1>3, <1>4 DEF LacksOne
<1> QED
  BY <1>1, <1>2, <1>4

\* What an attempt to load the plugin of a name adds to loaded_plugins.
LEMMA TryLoadAnnounces ==
    ASSUME LoadingTypeOK, NEW n \in Known(plugins), NEW ok \in BOOLEAN, TryLoad(n, ok)
    PROVE  \A d \in loaded' : d \in loaded \/ \E m \in Known(plugins) : d \in NamesOf(plugins[m])
  BY DEF TryLoad, Announced

\* A candidate's names when it is collected: where names are unambiguous, plugins_provided
\* keeps the APIs of the others and gains all of its own.
LEMMA CollectKnowsApis ==
    ASSUME LoadingTypeOK, Named, Unambiguous, ApisKnown, NEW c \in Candidate, Collect(c)
    PROVE  ApisKnown'
<1>1. /\ desc' = desc
      /\ plugins' = [plugins EXCEPT ![desc[c].name] = c]
      /\ provided' = (provided \ {desc[c].name}) \cup
                     {n \in desc[c].provides : n \notin Known(plugins) \cup {desc[c].name}}
  BY DEF Collect, globals, Provided
<1> SUFFICES ASSUME NEW m \in Name, plugins'[m] # NoPlugin, NEW d \in desc[plugins'[m]].provides
             PROVE  d \in provided'
  BY <1>1 DEF ApisKnown, Known
<1>2. desc[c].name \in Name /\ \A x \in Candidate : \A n \in desc[x].provides : n \in Name
  BY DEF LoadingTypeOK, Description
<1>3. plugins'[m] \in Candidate /\ (plugins'[m] = c \/ plugins'[m] = plugins[m])
  BY <1>1, <1>2 DEF LoadingTypeOK
<1>4. d # desc[c].name /\ d \notin Known(plugins)
  BY <1>3 DEF Unambiguous, Named, Known, LoadingTypeOK
<1>5. CASE plugins'[m] = c
  BY <1>1, <1>4, <1>5
<1>6. CASE plugins'[m] = plugins[m]
  <2>1. m \in Known(plugins)
    BY <1>6 DEF Known
  <2> QED
    BY <1>1, <1>4, <1>6, <2>1 DEF ApisKnown
<1> QED
  BY <1>3, <1>5, <1>6

\* A name turned away as unknown lacks a dependency.
LEMMA UnknownLacks ==
    ASSUME LoadingTypeOK, Named, ApisKnown, OnlyCrossedOff, NEW n \in Name, Unknown(n)
    PROVE  LacksOne(n)
<1>1. PICK d \in HardLeft(n) : d \notin Known(plugins) \cup provided
  BY DEF Unknown
<1>2. d \in needs[n] /\ d \notin loaded
  BY <1>1 DEF HardLeft, OnlyCrossedOff
<1>3. \A m \in Known(plugins) : d \notin NamesOf(plugins[m])
  BY <1>1 DEF Named, ApisKnown, NamesOf
<1> QED
  BY <1>2, <1>3 DEF LacksOne, OutOfReach

\* A name given up as circular lacks a dependency: the pass visited every name, and
\* loaded nothing since.
LEMMA CircularLacks ==
    ASSUME LoadingTypeOK, OnlyCrossedOff, VisitedIsFresh, Circular, NEW n \in Known(plugins)
    PROVE  LacksOne(n)'
<1>1. /\ todo = {} /\ missing /\ pc = "pass" /\ deps[n] # {}
      /\ plugins' = NoneLeft /\ needs' = needs /\ loaded' = loaded
  BY DEF Circular, NextRound
<1>2. PICK d : d \in deps[n]
  BY <1>1
<1>3. n \in Name /\ deps[n] \cap loaded = {}
  BY <1>1 DEF VisitedIsFresh, Known
<1>4. d \in needs'[n] /\ d \notin loaded'
  BY <1>1, <1>2, <1>3 DEF OnlyCrossedOff
<1>5. Known(plugins)' = {}
  BY <1>1 DEF Known, NoneLeft
<1> QED
  BY <1>4, <1>5 DEF LacksOne, OutOfReach

\* Every step of loadPlugin and loadPlugins keeps what LeftOutInv says.
LEMMA LeftOutNext == LoadingInv /\ LeftOutInv /\ [Next]_vars => LeftOutInv'
<1> SUFFICES ASSUME LoadingInv, LeftOutInv, [Next]_vars PROVE LeftOutInv'
  OBVIOUS
<1> USE LoadingAssumption
<1>0. /\ LoadingTypeOK /\ LeftOutTypeOK /\ Named /\ OnlyCrossedOff /\ VisitedIsFresh
      /\ Unambiguous => ApisKnown /\ TurnedLacks
  BY DEF LoadingInv, LeftOutInv
<1>t. plugins \in [Name -> Candidate \cup {NoPlugin}] /\ deps \in [Name -> SUBSET Name] /\ todo \subseteq Known(plugins)
  BY <1>0 DEF LoadingTypeOK
<1>1. ASSUME NEW c \in Candidate, NEW ok \in BOOLEAN, LoadFile(c, ok) PROVE LeftOutInv'
  BY <1>0, <1>1 DEF LoadFile, maps, LeftOutInv, LeftOutTypeOK, Named, OnlyCrossedOff, VisitedIsFresh,
                    Unambiguous, ApisKnown, TurnedLacks, LacksOne, OutOfReach, NamesOf, Known
<1>2. ASSUME NEW cs \in SUBSET Candidate, LoadPlugins(cs) PROVE LeftOutInv'
  BY <1>2 DEF LoadPlugins, LeftOutInv, LeftOutTypeOK, Named, OnlyCrossedOff, VisitedIsFresh, ApisKnown,
              TurnedLacks, NoneLeft, NoNames, Known
<1>3. ASSUME NEW c \in Candidate, Collect(c) PROVE LeftOutInv'
  <2>1. desc[c].name \in Name /\ desc[c].provides \subseteq Name /\ desc[c].depend \subseteq Name
    BY <1>0 DEF LoadingTypeOK, Description
  <2>2. /\ desc' = desc /\ pc = "collect" /\ pc' = pc /\ turned' = turned /\ loaded' = loaded
        /\ plugins' = [plugins EXCEPT ![desc[c].name] = c]
        /\ deps' = [deps EXCEPT ![desc[c].name] = @ \cup desc[c].depend]
        /\ needs' = [needs EXCEPT ![desc[c].name] = @ \cup desc[c].depend]
    BY <1>3 DEF Collect, globals
  <2>3. provided' \subseteq Name
    BY <1>0, <1>3, <2>1 DEF Collect, Provided, LeftOutTypeOK
  <2>4. LeftOutTypeOK'
    BY <1>0, <2>1, <2>2, <2>3 DEF LeftOutTypeOK
  <2>5. Named'
    BY <1>0, <1>t, <2>1, <2>2 DEF Named, Known
  <2>6. OnlyCrossedOff'
    BY <1>0, <1>t, <2>1, <2>2 DEF OnlyCrossedOff, LeftOutTypeOK
  <2>7. VisitedIsFresh'
    BY <2>2 DEF VisitedIsFresh
  <2>8. Unambiguous' => ApisKnown'
    BY <1>0, <1>3, <2>2, CollectKnowsApis DEF Unambiguous
  <2>9. TurnedLacks'
    BY <1>0, <2>2 DEF LeftOutTypeOK, TurnedLacks
  <2> QED
    BY <2>4, <2>5, <2>6, <2>7, <2>8, <2>9 DEF LeftOutInv
<1>4. CASE Collected
  BY <1>0, <1>4 DEF Collected, NextRound, globals, LeftOutInv, LeftOutTypeOK, Named, OnlyCrossedOff,
                    VisitedIsFresh, Unambiguous, ApisKnown, TurnedLacks, LacksOne, OutOfReach, NamesOf, Known
<1>5. ASSUME NEW n \in Name, TurnAway(n) PROVE LeftOutInv'
  <2>1. /\ desc' = desc /\ needs' = needs /\ provided' = provided /\ loaded' = loaded
        /\ pc = "pass" /\ pc' = pc /\ missing' = missing /\ Unknown(n)
        /\ plugins' = [plugins EXCEPT ![n] = NoPlugin] /\ deps' = [deps EXCEPT ![n] = {}]
        /\ todo' = todo \ {n} /\ turned' = turned \cup {n}
    BY <1>5 DEF TurnAway, globals
  <2>2. \A m \in Name : plugins'[m] # NoPlugin => plugins'[m] = plugins[m]
    BY <1>t, <2>1
  <2>3. /\ Named'
        /\ ApisKnown => ApisKnown'
        /\ \A m \in Name : LacksOne(m) => LacksOne(m)'
    BY <1>0, <2>1, <2>2, WalkKeepsLacking
  <2>4. LeftOutTypeOK' /\ OnlyCrossedOff'
    BY <1>0, <1>t, <2>1 DEF LeftOutTypeOK, OnlyCrossedOff
  <2>5. VisitedIsFresh'
    BY <1>0, <1>t, <2>1 DEF VisitedIsFresh, Known
  <2>6. Unambiguous => TurnedLacks'
    <3> SUFFICES ASSUME Unambiguous, NEW m \in turned' PROVE LacksOne(m)'
      BY DEF TurnedLacks
    <3>1. m \in Name /\ LacksOne(m)
      BY <1>0, <2>1, UnknownLacks DEF TurnedLacks, LeftOutTypeOK
    <3> QED
      BY <2>3, <3>1
  <2>7. Unambiguous' => Unambiguous
    BY <2>1 DEF Unambiguous
  <2> QED
    BY <1>0, <2>3, <2>4, <2>5, <2>6, <2>7 DEF LeftOutInv
<1>6. ASSUME NEW n \in Name, Wait(n) PROVE LeftOutInv'
  <2>1. /\ desc' = desc /\ needs' = needs /\ provided' = provided /\ loaded' = loaded /\ plugins' = plugins
        /\ pc = "pass" /\ pc' = pc /\ missing' = missing /\ turned' = turned
        /\ deps' = [deps EXCEPT ![n] = deps[n] \ loaded] /\ todo' = todo \ {n}
    BY <1>6 DEF Wait, HardLeft, globals
  <2>2. OnlyCrossedOff' /\ VisitedIsFresh'
    BY <1>0, <1>t, <2>1 DEF OnlyCrossedOff, VisitedIsFresh, Known
  <2> QED
    BY <1>0, <2>1, <2>2 DEF LeftOutInv, LeftOutTypeOK, Named, Unambiguous, ApisKnown, TurnedLacks, LacksOne,
                            OutOfReach, NamesOf, Known
\* Both passes try to load a name and take it from the map.
<1>a. ASSUME NEW n \in Known(plugins), NEW ok \in BOOLEAN, TryLoad(n, ok), desc' = desc,
             needs' = needs, provided' = provided, turned' = turned, pc' # "collect",
             missing' => pc' # "pass" \/ todo' = Known(plugins'),
             plugins' = [plugins EXCEPT ![n] = NoPlugin],
             \A m \in Name : deps'[m] \subseteq deps[m]
      PROVE  LeftOutInv'
  <2>1. /\ Named'
        /\ ApisKnown => ApisKnown'
        /\ \A m \in Name : LacksOne(m) => LacksOne(m)'
    <3>1. \A m \in Name : plugins'[m] # NoPlugin => plugins'[m] = plugins[m]
      BY <1>t, <1>a
    <3>2. \A d \in loaded' : d \in loaded \/ \E m \in Known(plugins) : d \in NamesOf(plugins[m])
      BY <1>0, <1>a, TryLoadAnnounces
    <3> QED
      BY <1>0, <1>a, <3>1, <3>2, WalkKeepsLacking
  <2>2. OnlyCrossedOff'
    BY <1>0, <1>a DEF OnlyCrossedOff
  <2>3. VisitedIsFresh'
    BY <1>a DEF VisitedIsFresh, Known
  <2>4. Unambiguous' => ApisKnown' /\ TurnedLacks'
    BY <1>0, <1>a, <2>1 DEF Unambiguous, TurnedLacks, LeftOutTypeOK
  <2>5. LeftOutTypeOK'
    BY <1>0, <1>a DEF LeftOutTypeOK
  <2> QED
    BY <2>1, <2>2, <2>3, <2>4, <2>5 DEF LeftOutInv
<1>7. ASSUME NEW n \in Name, NEW ok \in BOOLEAN, ClearToLoad(n, ok) PROVE LeftOutInv'
  <2>1. /\ n \in Known(plugins) /\ TryLoad(n, ok) /\ desc' = desc /\ needs' = needs /\ provided' = provided
        /\ turned' = turned /\ pc = "pass" /\ pc' = pc /\ missing' = FALSE
        /\ plugins' = [plugins EXCEPT ![n] = NoPlugin] /\ deps' = [deps EXCEPT ![n] = {}]
    BY <1>t, <1>7 DEF ClearToLoad, Erased
  <2>2. \A m \in Name : deps'[m] \subseteq deps[m]
    BY <1>t, <2>1
  <2>3. LeftOutTypeOK'
    BY <1>0, <2>1 DEF LeftOutTypeOK
  <2> QED
    BY <1>a, <2>1, <2>2, <2>3
<1>8. ASSUME NEW n \in Name, NEW ok \in BOOLEAN, IgnoreSoft(n, ok) PROVE LeftOutInv'
  <2>1. /\ n \in Known(plugins) /\ TryLoad(n, ok) /\ desc' = desc /\ needs' = needs /\ provided' = provided
        /\ turned' = turned /\ pc = "pass" /\ pc' # "collect" /\ missing' = TRUE
        /\ plugins' = [plugins EXCEPT ![n] = NoPlugin] /\ deps' = deps /\ todo' = Known(plugins')
    BY <1>8 DEF IgnoreSoft, Erased, NextRound
  <2> QED
    BY <1>a, <2>1
<1>9. CASE EndOfPass
  BY <1>0, <1>9 DEF EndOfPass, NextRound, globals, LeftOutInv, LeftOutTypeOK, Named, OnlyCrossedOff,
                    VisitedIsFresh, Unambiguous, ApisKnown, TurnedLacks, LacksOne, OutOfReach, NamesOf, Known
<1>10. CASE Circular
  <2>1. /\ desc' = desc /\ needs' = needs /\ provided' = provided /\ loaded' = loaded
        /\ plugins' = NoneLeft /\ deps' = NoNames /\ turned' = turned \cup Known(plugins)
        /\ pc' = "idle"
    BY <1>10 DEF Circular, NextRound, globals, Known, NoneLeft
  <2>2. \A m \in Name : plugins'[m] # NoPlugin => plugins'[m] = plugins[m]
    BY <2>1 DEF NoneLeft
  <2>3. /\ Named'
        /\ ApisKnown => ApisKnown'
        /\ \A m \in Name : LacksOne(m) => LacksOne(m)'
    BY <1>0, <2>1, <2>2, WalkKeepsLacking
  <2>4. LeftOutTypeOK' /\ OnlyCrossedOff' /\ VisitedIsFresh'
    BY <1>0, <2>1 DEF LeftOutTypeOK, OnlyCrossedOff, VisitedIsFresh, NoNames, Known
  <2>5. \A m \in Known(plugins) : LacksOne(m)'
    BY <1>0, <1>10, CircularLacks
  <2>6. Unambiguous' => ApisKnown' /\ TurnedLacks'
    <3> SUFFICES ASSUME Unambiguous' PROVE ApisKnown' /\ TurnedLacks'
      OBVIOUS
    <3>1. ApisKnown /\ TurnedLacks
      BY <1>0, <2>1 DEF Unambiguous
    <3>2. \A m \in turned' : LacksOne(m)'
      BY <1>0, <2>1, <2>3, <2>5, <3>1 DEF TurnedLacks, LeftOutTypeOK
    <3> QED
      BY <2>3, <3>1, <3>2 DEF TurnedLacks
  <2> QED
    BY <2>3, <2>4, <2>6 DEF LeftOutInv
<1>11. CASE UNCHANGED vars
  BY <1>0, <1>11 DEF vars, globals, maps, LeftOutInv, LeftOutTypeOK, Named, OnlyCrossedOff, VisitedIsFresh,
                     Unambiguous, ApisKnown, TurnedLacks, LacksOne, OutOfReach, NamesOf, Known
<1> QED
  BY <1>1, <1>2, <1>3, <1>4, <1>5, <1>6, <1>7, <1>8, <1>9, <1>10, <1>11 DEF Next, Loading

\* "Unknown dependencies" and "circular dependencies" are never said too early: a plugin
\* that loadPlugins turns away without trying lacks, when the call returns, a dependency
\* that the call did not load, for any descriptions in which no API has a plugin's name
\* and whatever order the map is walked in.
THEOREM LoadingTurnsAwayRightly == Spec => []NoneLeftOut
<1>1. LoadingInv /\ LeftOutInv => NoneLeftOut
  BY DEF LeftOutInv, NoneLeftOut, TurnedLacks, LacksOne, OutOfReach
<1>2. Init => LoadingInv /\ LeftOutInv
  BY LoadingInvInit, LeftOutInit
<1>3. LoadingInv /\ LeftOutInv /\ [Next]_vars => (LoadingInv /\ LeftOutInv)'
  BY LoadingInvNext, LeftOutNext
<1> QED
  BY <1>1, <1>2, <1>3, PTL DEF Spec

-----------------------------------------------------------------------------
(***************************************************************************)
(* Orders, the soft ones included.  That they are kept is not true of all  *)
(* descriptions: load_before and a soft dependency on an API defeat it,    *)
(* and so does a plugin turned away in the middle of a pass, which leaves  *)
(* the lists of those visited before it out of date.  Of all others it is. *)
(***************************************************************************)
Wanted(c) == desc[c].depend \cup desc[c].softDepend

\* plugins_provided has only APIs of candidates.
ApisProvided == \A d \in provided : \E c \in Candidate : d \in desc[c].provides

\* The lists of a name hold only what its candidate asked for; a name without a
\* candidate has none.
ListsOwn ==
    \A n \in Name :
        /\ deps[n] \subseteq (IF n \in Known(plugins) THEN desc[plugins[n]].depend ELSE {})
        /\ soft[n] \subseteq (IF n \in Known(plugins) THEN desc[plugins[n]].softDepend ELSE {})

\* What a candidate asked for is in its lists until it is loaded, or until nobody is
\* left who bears the name.
ListsWhole ==
    \A n \in Known(plugins) :
        /\ desc[plugins[n]].depend \subseteq deps[n] \cup loaded
        /\ \A d \in desc[plugins[n]].softDepend : d \in soft[n] \/ (pc = "pass" /\ d \notin Known(plugins))

\* A loaded name is not that of a candidate still in the map.
LoadedIsGone == (pc = "collect" => loaded = {}) /\ loaded \cap Known(plugins) = {}

\* While nothing has been loaded in this pass, who was visited waits for one in the map.
VisitedWaits ==
    pc = "pass" /\ missing => \A n \in Known(plugins) \ todo : Wanted(plugins[n]) \cap Known(plugins) # {}

\* No one in the map should have gone before a loaded one, and the loaded are in order.
NoneOvertaken ==
    /\ \A k \in 1 .. Len(result) : \A m \in Known(plugins) : ~Before(plugins[m], result[k])
    /\ \A i, j \in 1 .. Len(result) : i < j => ~Before(result[j], result[i])

SoftTypeOK ==
    /\ result \in Seq(Candidate)
    /\ soft \in [Name -> SUBSET Name]
    /\ provided \subseteq Name
    /\ pc = "collect" => result = <<>> /\ turned = {}

SoftParts ==
    /\ ApisProvided /\ ListsOwn /\ ListsWhole /\ LoadedIsGone /\ NoneOvertaken
    /\ VisitedWaits

SoftInv ==
    SoftTypeOK /\ (Distinct /\ Consistent /\ ByOwnName /\ turned = {} => SoftParts)

-----------------------------------------------------------------------------
\* A set of natural numbers has a least one.
LEMMA LeastOne == ASSUME NEW T \in SUBSET Nat, T # {} PROVE \E x \in T : \A y \in T : ~(y < x)
<1>1. \E x \in T : \A y \in T : <<y, x>> \notin OpToRel(<, Nat)
  BY NatLessThanWellFounded, WFMin, Zenon
<1> QED
  BY <1>1 DEF OpToRel

\* Where orders can be met, some candidate in the map waits for none in the map: the
\* one that ranks lowest.
LEMMA SomeoneIsFirst ==
    ASSUME LoadingTypeOK, Named, Consistent, Known(plugins) # {}
    PROVE  \E n \in Known(plugins) : Wanted(plugins[n]) \cap Known(plugins) = {}
<1>1. PICK rank \in [Candidate -> 1 .. Cardinality(Candidate)] :
        \A a, b \in Candidate : Before(a, b) => rank[a] < rank[b]
  BY DEF Consistent
<1>2. \A n \in Known(plugins) : plugins[n] \in Candidate /\ desc[plugins[n]].name = n
  BY DEF LoadingTypeOK, Named, Known
<1> DEFINE T == {rank[plugins[n]] : n \in Known(plugins)}
<1>3. T \in SUBSET Nat /\ T # {}
  BY <1>1, <1>2
<1> HIDE DEF T
<1>4. PICK x \in T : \A y \in T : ~(y < x)
  BY <1>3, LeastOne
<1>5. PICK n \in Known(plugins) : x = rank[plugins[n]]
  BY <1>4 DEF T
<1>6. ASSUME NEW m \in Known(plugins), m \in Wanted(plugins[n]) PROVE FALSE
  <2>1. Before(plugins[m], plugins[n])
    BY <1>2, <1>6 DEF Before, NamesOf, Wanted
  <2>2. rank[plugins[m]] < x /\ rank[plugins[m]] \in T
    BY <1>1, <1>2, <1>5, <2>1 DEF T
  <2> QED
    BY <1>4, <2>2
<1> QED
  BY <1>6

\* Who goes before another is decided by the other's lists of names.
LEMMA BeforeByName ==
    ASSUME ByOwnName, LoadingTypeOK, NEW a \in Candidate, NEW b \in Candidate, Before(a, b)
    PROVE  desc[a].name \in Wanted(b)
  BY DEF ByOwnName, Before, NamesOf, Wanted

-----------------------------------------------------------------------------
\* A candidate is collected under its own name, where no other has been.
LEMMA CollectKeepsLists ==
    ASSUME LoadingTypeOK, Named, SoftTypeOK, Distinct, ByOwnName, SoftParts, NEW c \in Candidate, Collect(c)
    PROVE  SoftTypeOK' /\ SoftParts'
<1>1. /\ desc' = desc /\ pc = "collect" /\ pc' = pc /\ turned' = turned /\ loaded' = loaded /\ result' = result
      /\ plugins' = [plugins EXCEPT ![desc[c].name] = c]
      /\ deps' = [deps EXCEPT ![desc[c].name] = @ \cup desc[c].depend]
      /\ soft' = SoftOf(c) /\ provided' = Provided(c)
  BY DEF Collect, globals
<1>2. desc[c].name \in Name /\ desc[c].provides \subseteq Name /\ desc[c].depend \subseteq Name /\ desc[c].softDepend \subseteq Name
  BY DEF LoadingTypeOK, Description
<1>3. /\ plugins \in [Name -> Candidate \cup {NoPlugin}] /\ deps \in [Name -> SUBSET Name]
      /\ soft \in [Name -> SUBSET Name]
  BY DEF LoadingTypeOK, SoftTypeOK
<1>4. soft' = [soft EXCEPT ![desc[c].name] = @ \cup desc[c].softDepend]
  <2>1. desc[c].loadBefore = {}
    BY DEF ByOwnName
  <2>2. \A n \in Name : soft'[n] = [soft EXCEPT ![desc[c].name] = @ \cup desc[c].softDepend][n]
    BY <1>1, <2>1 DEF SoftOf
  <2>3. soft' = [n \in Name |-> soft'[n]]
    BY <1>1 DEF SoftOf
  <2> QED
    BY <1>3, <2>2, <2>3
<1>5. desc[c].name \in Known(plugins) => plugins[desc[c].name] = c
  BY <1>3 DEF Named, Known, Distinct, NamesOf
<1>6. SoftTypeOK'
  BY <1>1, <1>2, <1>3, <1>4 DEF SoftTypeOK, Provided
<1>7. ApisProvided'
  BY <1>1 DEF SoftParts, ApisProvided, Provided
<1>k. Known(plugins)' = Known(plugins) \cup {desc[c].name}
  BY <1>1, <1>2, <1>3, LoadingAssumption DEF Known
<1>8. ListsOwn'
  <2> SUFFICES ASSUME NEW n \in Name
               PROVE  /\ deps'[n] \subseteq (IF n \in Known(plugins)' THEN desc[plugins'[n]].depend ELSE {})
                      /\ soft'[n] \subseteq (IF n \in Known(plugins)' THEN desc[plugins'[n]].softDepend ELSE {})
    BY <1>1 DEF ListsOwn
  <2>0. /\ deps[n] \subseteq (IF n \in Known(plugins) THEN desc[plugins[n]].depend ELSE {})
        /\ soft[n] \subseteq (IF n \in Known(plugins) THEN desc[plugins[n]].softDepend ELSE {})
    BY DEF SoftParts, ListsOwn
  <2>1. CASE n = desc[c].name
    <3>1. plugins'[n] = c /\ deps'[n] = deps[n] \cup desc[c].depend /\ soft'[n] = soft[n] \cup desc[c].softDepend
      BY <1>1, <1>2, <1>3, <1>4, <2>1
    <3> QED
      BY <1>5, <1>k, <2>0, <2>1, <3>1
  <2>2. CASE n # desc[c].name
    <3>1. plugins'[n] = plugins[n] /\ deps'[n] = deps[n] /\ soft'[n] = soft[n]
      BY <1>1, <1>2, <1>3, <1>4, <2>2
    <3> QED
      BY <1>k, <2>0, <2>2, <3>1
  <2> QED
    BY <2>1, <2>2
<1>9. ListsWhole'
  BY <1>1, <1>2, <1>3, <1>4, <1>k DEF SoftParts, ListsWhole
<1>10. LoadedIsGone' /\ VisitedWaits'
  BY <1>1 DEF SoftParts, LoadedIsGone, VisitedWaits
<1>11. NoneOvertaken'
  BY <1>1 DEF SoftTypeOK, NoneOvertaken
<1> QED
  BY <1>6, <1>7, <1>8, <1>9, <1>10, <1>11 DEF SoftParts

\* A name that waits, waits for one in the map.
LEMMA WaitKeepsLists ==
    ASSUME LoadingTypeOK, SoftTypeOK, ByOwnName, SoftParts, NEW n \in Name, Wait(n)
    PROVE  SoftTypeOK' /\ SoftParts'
<1>1. /\ desc' = desc /\ pc = "pass" /\ pc' = pc /\ turned' = turned /\ loaded' = loaded /\ result' = result
      /\ plugins' = plugins /\ provided' = provided /\ missing' = missing
      /\ n \in todo /\ todo' = todo \ {n} /\ ~Unknown(n) /\ (HardLeft(n) # {} \/ SoftLeft(n) # {})
      /\ deps' = [deps EXCEPT ![n] = deps[n] \ loaded]
      /\ soft' = [soft EXCEPT ![n] = soft[n] \cap (Known(plugins) \cup provided)]
  BY DEF Wait, globals, HardLeft, SoftLeft
<1>2. /\ plugins \in [Name -> Candidate \cup {NoPlugin}] /\ deps \in [Name -> SUBSET Name]
      /\ soft \in [Name -> SUBSET Name] /\ n \in Known(plugins)
  BY <1>1 DEF LoadingTypeOK, SoftTypeOK
<1>k. Known(plugins)' = Known(plugins)
  BY <1>1 DEF Known
<1>3. SoftTypeOK'
  BY <1>1, <1>2 DEF SoftTypeOK
<1>4. ApisProvided' /\ LoadedIsGone' /\ NoneOvertaken'
  BY <1>1, <1>k DEF SoftParts, ApisProvided, LoadedIsGone, NoneOvertaken, Before, NamesOf
<1>5. ListsOwn'
  BY <1>1, <1>2, <1>k DEF SoftParts, ListsOwn
<1>6. ListsWhole'
  BY <1>1, <1>2, <1>k DEF SoftParts, ListsWhole
<1>7. Wanted(plugins[n]) \cap Known(plugins) # {}
  <2>1. plugins[n] \in Candidate /\ deps[n] \subseteq desc[plugins[n]].depend /\ soft[n] \subseteq desc[plugins[n]].softDepend
    BY <1>2 DEF SoftParts, ListsOwn, Known
  <2>2. Wanted(plugins[n]) \cap provided = {}
    BY <2>1 DEF SoftParts, ApisProvided, ByOwnName, Wanted
  <2>3. CASE HardLeft(n) # {}
    BY <1>1, <2>1, <2>2, <2>3 DEF Unknown, HardLeft, Wanted
  <2>4. CASE SoftLeft(n) # {}
    BY <2>1, <2>2, <2>4 DEF SoftLeft, Wanted
  <2> QED
    BY <1>1, <2>3, <2>4
<1>8. VisitedWaits'
  BY <1>1, <1>7, <1>k DEF SoftParts, VisitedWaits, Wanted
<1> QED
  BY <1>3, <1>4, <1>5, <1>6, <1>8 DEF SoftParts

\* A plugin that is clear to load overtakes none in the map.
LEMMA ClearKeepsOrder ==
    ASSUME LoadingTypeOK, Named, SoftTypeOK, Distinct, ByOwnName, SoftParts, NEW n \in Name, NEW ok \in BOOLEAN,
           ClearToLoad(n, ok)
    PROVE  SoftTypeOK' /\ SoftParts'
<1> DEFINE c == plugins[n]
<1>1. /\ desc' = desc /\ pc = "pass" /\ pc' = pc /\ turned' = turned /\ provided' = provided /\ missing' = FALSE
      /\ n \in todo /\ HardLeft(n) = {} /\ SoftLeft(n) = {}
      /\ plugins' = [plugins EXCEPT ![n] = NoPlugin]
      /\ deps' = [deps EXCEPT ![n] = {}] /\ soft' = [soft EXCEPT ![n] = {}]
      /\ (loaded' = loaded /\ result' = result) \/ (loaded' = loaded \cup NamesOf(c) /\ result' = Append(result, c))
  BY DEF ClearToLoad, Erased, TryLoad, Announced
<1>2. /\ plugins \in [Name -> Candidate \cup {NoPlugin}] /\ deps \in [Name -> SUBSET Name]
      /\ soft \in [Name -> SUBSET Name] /\ n \in Known(plugins) /\ c \in Candidate
      /\ desc[c].name = n /\ result \in Seq(Candidate)
  BY <1>1 DEF LoadingTypeOK, SoftTypeOK, Named, Known
<1>k. Known(plugins)' = Known(plugins) \ {n}
  BY <1>1, <1>2 DEF Known
<1>p. \A m \in Known(plugins)' : plugins'[m] = plugins[m] /\ plugins[m] \in Candidate /\ plugins[m] # c
                                 /\ desc[plugins[m]].name = m
  BY <1>1, <1>2, <1>k DEF Named, Known
<1> HIDE DEF c
<1>3. SoftTypeOK'
  BY <1>1, <1>2 DEF SoftTypeOK
<1>4. ApisProvided' /\ VisitedWaits'
  BY <1>1 DEF SoftParts, ApisProvided, VisitedWaits
<1>5. ListsOwn'
  BY <1>1, <1>2, <1>k, <1>p DEF SoftParts, ListsOwn
<1>6. ListsWhole'
  <2> SUFFICES ASSUME NEW m \in Known(plugins)'
               PROVE  /\ desc'[plugins'[m]].depend \subseteq deps'[m] \cup loaded'
                      /\ \A d \in desc'[plugins'[m]].softDepend : d \in soft'[m] \/ (pc' = "pass" /\ d \notin Known(plugins)')
    BY DEF ListsWhole
  <2>1. m \in Known(plugins) /\ m # n /\ m \in Name
    BY <1>k DEF Known
  <2>2. plugins'[m] = plugins[m] /\ deps'[m] = deps[m] /\ soft'[m] = soft[m] /\ loaded \subseteq loaded'
    BY <1>1, <1>2, <1>p, <2>1
  <2> QED
    BY <1>1, <1>k, <2>1, <2>2 DEF SoftParts, ListsWhole
<1>7. NamesOf(c) \cap Known(plugins)' = {}
  <2>1. ASSUME NEW m \in Known(plugins)' PROVE m \notin NamesOf(c)
    <3>1. m \in NamesOf(plugins[m]) /\ NamesOf(plugins[m]) \cap NamesOf(c) = {}
      BY <1>2, <1>p DEF Distinct, NamesOf
    <3> QED
      BY <3>1
  <2> QED
    BY <2>1
<1>8. LoadedIsGone'
  BY <1>1, <1>k, <1>7 DEF SoftParts, LoadedIsGone
<1>9. Wanted(c) \cap Known(plugins) = {}
  <2>1. desc[c].depend \subseteq deps[n] \cup loaded
    BY <1>2 DEF SoftParts, ListsWhole, c
  <2>2. desc[c].depend \cap Known(plugins) = {}
    BY <1>1, <2>1 DEF HardLeft, SoftParts, LoadedIsGone
  <2>3. \A d \in desc[c].softDepend : d \in soft[n] \/ d \notin Known(plugins)
    BY <1>2 DEF SoftParts, ListsWhole, c
  <2> QED
    BY <1>1, <2>2, <2>3 DEF SoftLeft, Wanted
<1>10. NoneOvertaken'
  <2>1. \A m \in Known(plugins)' : ~Before(plugins[m], c)
    BY <1>2, <1>9, <1>k, <1>p, BeforeByName
  <2>2. NoneOvertaken
    BY DEF SoftParts
  <2>3. \A k \in 1 .. Len(result) : ~Before(c, result[k])
    BY <1>2, <2>2 DEF NoneOvertaken, c
  <2>4. \A a, b : Before(a, b)' <=> Before(a, b)
    BY <1>1 DEF Before, NamesOf
  <2>5. CASE result' = result
    BY <1>k, <1>p, <2>2, <2>4, <2>5 DEF NoneOvertaken
  <2>6. CASE result' = Append(result, c)
    <3>1. /\ Len(result) \in Nat /\ Len(result') = Len(result) + 1 /\ result'[Len(result) + 1] = c
          /\ \A k \in 1 .. Len(result) : result'[k] = result[k]
      BY <1>2, <2>6
    <3>2. \A k \in 1 .. Len(result') : k \in 1 .. Len(result) \/ k = Len(result) + 1
      BY <3>1
    <3>3. \A k \in 1 .. Len(result') : \A m \in Known(plugins)' : ~Before(plugins'[m], result'[k])
      BY <1>k, <1>p, <2>1, <2>2, <3>1, <3>2 DEF NoneOvertaken
    <3>4. ASSUME NEW i \in 1 .. Len(result'), NEW j \in 1 .. Len(result'), i < j
          PROVE  ~Before(result'[j], result'[i])
      <4>1. i \in 1 .. Len(result) /\ result'[i] = result[i]
        BY <3>1, <3>4
      <4>2. CASE j = Len(result) + 1
        BY <2>3, <3>1, <4>1, <4>2
      <4>3. CASE j \in 1 .. Len(result)
        BY <2>2, <3>1, <3>4, <4>1, <4>3 DEF NoneOvertaken
      <4> QED
        BY <3>2, <4>2, <4>3
    <3> QED
      BY <2>4, <3>3, <3>4 DEF NoneOvertaken
  <2> QED
    BY <1>1, <2>5, <2>6
<1> QED
  BY <1>3, <1>4, <1>5, <1>6, <1>8, <1>10 DEF SoftParts

\* After a pass that loaded nothing, somebody would have been clear to load.
LEMMA NeverStuck ==
    ASSUME LoadingTypeOK, Named, Consistent, VisitedWaits, pc = "pass", missing, todo = {}
    PROVE  Known(plugins) = {}
  BY SomeoneIsFirst DEF VisitedWaits

-----------------------------------------------------------------------------
\* Nothing has been collected.
LEMMA SoftInit == Init => SoftInv
  BY DEF Init, SoftInv, SoftTypeOK, SoftParts, ApisProvided, ListsOwn, ListsWhole, LoadedIsGone, VisitedWaits,
         NoneOvertaken, NoneLeft, NoNames, Known

\* Every step of loadPlugin and loadPlugins keeps what SoftInv says.
LEMMA SoftNext == LoadingInv /\ LeftOutInv /\ SoftInv /\ [Next]_vars => SoftInv'
<1> SUFFICES ASSUME LoadingInv, LeftOutInv, SoftInv, [Next]_vars PROVE SoftInv'
  OBVIOUS
<1> USE LoadingAssumption
<1>0. LoadingTypeOK /\ Named /\ SoftTypeOK /\ (Distinct /\ Consistent /\ ByOwnName /\ turned = {} => SoftParts)
  BY DEF LoadingInv, LeftOutInv, SoftInv
<1>t. /\ plugins \in [Name -> Candidate \cup {NoPlugin}] /\ deps \in [Name -> SUBSET Name]
      /\ todo \subseteq Known(plugins) /\ soft \in [Name -> SUBSET Name] /\ desc \in [Candidate -> Description]
  BY <1>0 DEF LoadingTypeOK, SoftTypeOK
<1>d. desc' = desc => /\ Distinct' <=> Distinct
                      /\ Consistent' <=> Consistent
                      /\ ByOwnName' <=> ByOwnName
  BY DEF Distinct, Consistent, ByOwnName, Before, NamesOf
\* Nothing but the place in the walk changes.
<1>s. ASSUME desc' = desc, plugins' = plugins, deps' = deps, soft' = soft, provided' = provided, loaded' = loaded,
             result' = result, turned' = turned,
             \/ pc' = pc /\ todo' = todo /\ missing' = missing
             \/ pc' # "collect" /\ (pc' = "pass" => todo' = Known(plugins)) /\ (pc' = "idle" => Known(plugins) = {})
                /\ (pc' = "idle" \/ pc' = "pass")
      PROVE  SoftInv'
  <2>1. Known(plugins)' = Known(plugins) /\ SoftTypeOK'
    BY <1>0, <1>s DEF Known, SoftTypeOK
  <2>2. SoftParts => SoftParts'
    <3> SUFFICES ASSUME SoftParts PROVE SoftParts'
      OBVIOUS
    <3>1. ApisProvided' /\ ListsOwn' /\ LoadedIsGone' /\ NoneOvertaken'
      BY <1>s, <2>1 DEF SoftParts, ApisProvided, ListsOwn, LoadedIsGone, NoneOvertaken, Before, NamesOf
    <3>2. ListsWhole'
      BY <1>s, <2>1 DEF SoftParts, ListsWhole
    <3>3. VisitedWaits'
      BY <1>s, <2>1 DEF SoftParts, VisitedWaits, Wanted
    <3> QED
      BY <3>1, <3>2, <3>3 DEF SoftParts
  <2> QED
    BY <1>0, <1>d, <1>s, <2>1, <2>2 DEF SoftInv
<1>1. ASSUME NEW c \in Candidate, NEW ok \in BOOLEAN, LoadFile(c, ok) PROVE SoftInv'
  BY <1>1, <1>s DEF LoadFile, maps
<1>2. ASSUME NEW cs \in SUBSET Candidate, LoadPlugins(cs) PROVE SoftInv'
  BY <1>2 DEF LoadPlugins, SoftInv, SoftTypeOK, SoftParts, ApisProvided, ListsOwn, ListsWhole, LoadedIsGone,
              VisitedWaits, NoneOvertaken, NoneLeft, NoNames, Known
<1>3. ASSUME NEW c \in Candidate, Collect(c) PROVE SoftInv'
  <2>1. desc' = desc /\ turned' = turned
    BY <1>3 DEF Collect, globals
  <2>2. SoftTypeOK'
    <3>1. desc[c].name \in Name /\ desc[c].provides \subseteq Name /\ desc[c].softDepend \subseteq Name
      BY <1>t DEF Description
    <3>2. soft' = SoftOf(c) /\ provided' = Provided(c) /\ result' = result /\ pc' = pc
      BY <1>3 DEF Collect
    <3>3. SoftOf(c) \in [Name -> SUBSET Name]
      BY <1>t, <3>1 DEF SoftOf
    <3> QED
      BY <1>0, <2>1, <3>1, <3>2, <3>3 DEF SoftTypeOK, Provided
  <2> QED
    BY <1>0, <1>3, <1>d, <2>1, <2>2, CollectKeepsLists DEF SoftInv
<1>4. CASE Collected
  BY <1>4, <1>s DEF Collected, NextRound, globals
<1>5. ASSUME NEW n \in Name, TurnAway(n) PROVE SoftInv'
  BY <1>0, <1>5, <1>t DEF TurnAway, SoftInv, SoftTypeOK
<1>6. ASSUME NEW n \in Name, Wait(n) PROVE SoftInv'
  <2>1. desc' = desc /\ turned' = turned /\ SoftTypeOK'
    BY <1>0, <1>6, <1>t DEF Wait, globals, SoftTypeOK, SoftLeft
  <2> QED
    BY <1>0, <1>6, <1>d, <2>1, WaitKeepsLists DEF SoftInv
<1>7. ASSUME NEW n \in Name, NEW ok \in BOOLEAN, ClearToLoad(n, ok) PROVE SoftInv'
  <2>1. desc' = desc /\ turned' = turned /\ SoftTypeOK'
    <3>1. plugins[n] \in Candidate
      BY <1>7, <1>t DEF ClearToLoad, Known
    <3>2. result' = result \/ result' = Append(result, plugins[n])
      BY <1>7 DEF ClearToLoad, TryLoad
    <3> QED
      BY <1>0, <1>7, <1>t, <3>1, <3>2 DEF ClearToLoad, SoftTypeOK
  <2> QED
    BY <1>0, <1>7, <1>d, <2>1, ClearKeepsOrder DEF SoftInv
<1>8. ASSUME NEW n \in Name, NEW ok \in BOOLEAN, IgnoreSoft(n, ok) PROVE SoftInv'
  <2>1. /\ desc' = desc /\ turned' = turned /\ n \in Known(plugins) /\ pc = "pass" /\ missing /\ todo = {}
    BY <1>8 DEF IgnoreSoft
  <2>2. SoftTypeOK'
    <3>1. plugins[n] \in Candidate
      BY <1>t, <2>1 DEF Known
    <3>2. result' = result \/ result' = Append(result, plugins[n])
      BY <1>8 DEF IgnoreSoft, TryLoad
    <3> QED
      BY <1>0, <1>8, <1>t, <3>1, <3>2 DEF IgnoreSoft, NextRound, SoftTypeOK
  <2>3. ~(Distinct /\ Consistent /\ ByOwnName /\ turned = {})
    BY <1>0, <2>1, NeverStuck DEF SoftParts
  <2> QED
    BY <1>d, <2>1, <2>2, <2>3 DEF SoftInv
<1>9. CASE EndOfPass
  BY <1>9, <1>s DEF EndOfPass, NextRound, globals
<1>10. CASE Circular
  <2>1. /\ desc' = desc /\ pc = "pass" /\ missing /\ todo = {} /\ result' = result /\ loaded' = loaded
        /\ plugins' = NoneLeft /\ deps' = NoNames /\ soft' = NoNames /\ provided' = provided
        /\ turned' = turned \cup Known(plugins) /\ pc' = "idle"
    BY <1>10 DEF Circular, NextRound, globals, NoneLeft, Known
  <2>2. Known(plugins)' = {}
    BY <2>1 DEF NoneLeft, Known
  <2>3. SoftTypeOK'
    BY <1>0, <2>1 DEF SoftTypeOK, NoNames
  <2>4. SoftParts => SoftParts'
    BY <2>1, <2>2 DEF SoftParts, ApisProvided, ListsOwn, ListsWhole, LoadedIsGone, VisitedWaits, NoneOvertaken,
                      Before, NamesOf, NoNames
  <2> QED
    BY <1>0, <1>d, <2>1, <2>3, <2>4 DEF SoftInv
<1>11. CASE UNCHANGED vars
  BY <1>11, <1>s DEF vars, globals, maps
<1> QED
  BY <1>1, <1>2, <1>3, <1>4, <1>5, <1>6, <1>7, <1>8, <1>9, <1>10, <1>11 DEF Next, Loading

\* Hard and soft dependencies are respected together, for any plugins whose orders can
\* be met and who depend on one another by name, whatever order the map is walked in and
\* whichever of them fail, as long as the call has turned nobody away: the rule that
\* sends a plugin ahead of its soft dependencies is then never used.
THEOREM LoadingSoftOrder == Spec => []SoftOrder
<1>1. SoftInv => SoftOrder
  BY DEF SoftInv, SoftParts, NoneOvertaken, SoftOrder
<1>2. Init => LoadingInv /\ LeftOutInv /\ SoftInv
  BY LoadingInvInit, LeftOutInit, SoftInit
<1>3. LoadingInv /\ LeftOutInv /\ SoftInv /\ [Next]_vars => (LoadingInv /\ LeftOutInv /\ SoftInv)'
  BY LoadingInvNext, LeftOutNext, SoftNext
<1> QED
  BY <1>1, <1>2, <1>3, PTL DEF Spec

=============================================================================
