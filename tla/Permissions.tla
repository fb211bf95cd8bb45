----------------------------- MODULE Permissions -----------------------------
(***************************************************************************)
(* Permissions: the registry of EndstonePluginManager (permissions_,       *)
(* default_perms_, perm_subs_, def_subs_), Permission, PermissionAttachment*)
(* and PermissibleBase with its cache of effective permissions.            *)
(*                                                                         *)
(* Every operation runs on the server thread and calls no plugin code, so  *)
(* each is one step.  A recalculation changes the cache and the            *)
(* subscriptions of its own permissible only; an operation that            *)
(* recalculates several is modelled by the set of them.                    *)
(***************************************************************************)
EXTENDS Integers, Sequences, FiniteSets, SequencesExt, Vectors

CONSTANTS
    Name,           \* permission names, in lower case
    NameOrder,      \* the order an unordered_map of them is walked in
    Perm,           \* Permission objects
    PermName,       \* their names
    Player, Console,
    Attachment,     \* PermissionAttachment objects
    Defaults,       \* the values of PermissionDefault a permission may have
    Links           \* the children a permission may be constructed with

Level == {"Default", "Operator", "Console"}
Value == {"unset", "true", "false"}
PermissionDefault == {"True", "False", "Operator", "NotOperator", "Console"}
Permissible == Player \cup {Console}
Values == [Name -> Value]
None == [n \in Name |-> "unset"]

ASSUME PermissionsAssumption ==
    /\ NameOrder \in Seq(Name) /\ ToSet(NameOrder) = Name /\ Len(NameOrder) = Cardinality(Name)
    /\ PermName \in [Perm -> Name]
    /\ Console \notin Player
    /\ Defaults \subseteq PermissionDefault
    /\ Links \subseteq Values

VARIABLES
    registered,     \* permissions_, as a set of objects
    freed,          \* objects that have been destroyed
    default,        \* Permission::default_value_
    children,       \* Permission::children_
    tables,         \* default_perms_, by level
    permSubs,       \* perm_subs_, as pairs
    defSubs,        \* def_subs_, as pairs
    alive,          \* permissibles that exist
    op,             \* what the game says of a player
    lastOp,         \* EndstonePlayer::last_op_status_
    attachments,    \* PermissibleBase::attachments_
    given,          \* PermissionAttachment::permissions_
    cache,          \* PermissibleBase::permissions_
    undefined,      \* a destroyed permission has been read: anything may follow
    stale,          \* history: permissibles an operation has left behind
    changed,        \* history: players whose op the game has changed unnoticed
    hot             \* history: players recalculated before their change of op was noticed

registry == <<registered, freed, default, children, tables>>
people == <<alive, op, lastOp, changed, attachments, given>>
derived == <<permSubs, defSubs, cache, undefined, stale, hot>>
vars == <<registry, people, derived>>

TypeOK ==
    /\ registered \subseteq Perm /\ freed \subseteq Perm
    /\ default \in [Perm -> PermissionDefault]
    /\ children \in [Perm -> Values]
    /\ tables \in [Level -> Seq(Perm)]
    /\ permSubs \subseteq Name \X Permissible
    /\ defSubs \subseteq Level \X Permissible
    /\ alive \subseteq Permissible
    /\ op \in [Player -> BOOLEAN] /\ lastOp \in [Player -> BOOLEAN]
    /\ attachments \in [Permissible -> Seq(Attachment)]
    /\ given \in [Attachment -> Values]
    /\ cache \in [Permissible -> Values]
    /\ undefined \in BOOLEAN
    /\ stale \subseteq Permissible /\ changed \subseteq Player /\ hot \subseteq Player

-----------------------------------------------------------------------------
\* hasPermission(default_value, level).
HasByDefault(d, l) ==
    \/ d = "True"
    \/ d = "Operator" /\ l \in {"Operator", "Console"}
    \/ d = "NotOperator" /\ l = "Default"
    \/ d = "Console" /\ l = "Console"

getPermissionLevel(p) == IF p = Console THEN "Console" ELSE IF op[p] THEN "Operator" ELSE "Default"

\* getPermission, as the set of at most one object.
getPermission(n) == {m \in registered : PermName[m] = n}

\* The children a name has: those of the permission registered under it, none without one.
Kin == [n \in Name |-> IF getPermission(n) = {} THEN None ELSE children[CHOOSE m \in getPermission(n) : TRUE]]

\* calculateChildPermissions, one child: what it makes of a cache if n is among kids.
\* kin are the children of every name, deeper is the recursion.
Child(kin, kids, invert, deeper) ==
    [n \in Name |-> [c \in Values |->
        IF kids[n] = "unset" THEN c
        ELSE LET value == (kids[n] = "true") # invert IN
             deeper[kin[n]][~value][[c EXCEPT ![n] = IF value THEN "true" ELSE "false"]]]]

\* All children, and their children to a depth of d, which is bound to suffice: children
\* form no cycle (see Acyclic).
Children(kin, deeper) ==
    [kids \in Values |-> [invert \in BOOLEAN |-> [c \in Values |->
        Folded(Child(kin, kids, invert, deeper), c, NameOrder)]]]
NoChildren == [kids \in Values |-> [invert \in BOOLEAN |-> [c \in Values |-> c]]]
Calculate(kin) ==
    LET upTo[d \in Nat] == IF d = 0 THEN NoChildren ELSE Children(kin, upTo[d - 1]) IN upTo

\* recalculatePermissions: the permissions of the level, each with its children, and what
\* the attachments give, with its children.
Calculated(kin, kidsOf, defaults, gives, atts) ==
    LET walk == Calculate(kin)[Cardinality(Name)]
        fromDefault == [m \in Perm |-> [c \in Values |-> walk[kidsOf[m]][FALSE][[c EXCEPT ![PermName[m]] = "true"]]]]
        fromAttachment == [a \in Attachment |-> [c \in Values |-> walk[gives[a]][FALSE][c]]]
    IN Folded(fromAttachment, Folded(fromDefault, None, defaults), atts)

\* What the cache becomes.
Effective(p) == Calculated(Kin, children, tables[getPermissionLevel(p)], given, attachments[p])

\* Whether that reads a permission that has been destroyed.
ReadsFreed(p) == ToSet(tables[getPermissionLevel(p)]) \cap freed # {}

\* Mutant: clearPermissions forgets one level.
AllButOperator == Level \ {"Operator"}
ClearedLevels == Level

\* clearPermissions and recalculatePermissions of the permissibles in rs, after the
\* operation's other changes; the others named in left are not recalculated though
\* they should be.
Recalculate(rs, left) ==
    /\ cache' = [p \in Permissible |-> IF p \in rs THEN Effective(p)' ELSE cache[p]]
    /\ permSubs' = {s \in permSubs : s[2] \notin rs \/ cache[s[2]][s[1]] = "unset"}
                     \cup {s \in Name \X rs : cache'[s[2]][s[1]] # "unset"}
    /\ defSubs' = {s \in defSubs : s[2] \notin rs \/ s[1] \notin ClearedLevels}
                     \cup {<<getPermissionLevel(p)', p>> : p \in rs}
    /\ undefined' = (\E p \in rs : ReadsFreed(p)')
    /\ stale' = (stale \cup left) \ rs
    /\ hot' = {p \in Player : IF p \in rs THEN p \in changed' ELSE p \in hot}

Subscribers(n) == {p \in Permissible : <<n, p>> \in permSubs}
DefaultSubscribers(ls) == {p \in Permissible : \E l \in ls : <<l, p>> \in defSubs}

\* A cycle of children makes calculateChildPermissions recurse until the stack is
\* exhausted; such graphs are left out.
Edge(ch, r, a, b) == \E m \in r : PermName[m] = a /\ ch[m][b] # "unset"
Acyclic(ch, r) ==
    ~\E C \in (SUBSET Name) \ {{}} : \A a \in C : \E b \in C : Edge(ch, r, a, b)

-----------------------------------------------------------------------------
(* The registry *)

\* calculatePermissionDefault: the tables a permission goes into, whose subscribers
\* are then recalculated.
TablesFor(d) == {l \in Level : HasByDefault(d, l)}
\* Mutant: an operator's permission is thought of as one for operators alone.
DirtiesOne(d) == IF d = "Operator" THEN {"Operator"} ELSE TablesFor(d)
Dirties(d) == TablesFor(d)

Inserted(tb, m, d) == [l \in Level |-> IF l \in TablesFor(d) THEN Append(tb[l], m) ELSE tb[l]]

\* Mutant: one of the three tables is forgotten.
ErasedButConsole(tb, m) ==
    [l \in Level |-> IF l = "Console" THEN tb[l] ELSE OnlyIn(tb[l], Perm \ {m})]
Erased(tb, m) == [l \in Level |-> OnlyIn(tb[l], Perm \ {m})]

\* The changes of addPermission(perm): refused if the name is taken.
Add(m, d, kids) ==
    /\ m \notin registered \cup freed
    /\ getPermission(PermName[m]) = {}
    /\ registered' = registered \cup {m}
    /\ default' = [default EXCEPT ![m] = d]
    /\ children' = [children EXCEPT ![m] = kids]
    /\ Acyclic(children', registered')
    /\ tables' = Inserted(tables, m, d)
    /\ UNCHANGED freed

addPermission(m, d, kids) ==
    /\ Add(m, d, kids)
    /\ UNCHANGED people
    /\ Recalculate(DefaultSubscribers(Dirties(d)), Subscribers(PermName[m]))

\* EndstoneServer::enablePlugin, for a permission of the description: everyone is
\* recalculated.
addDescribed(m, d, kids) ==
    /\ Add(m, d, kids)
    /\ UNCHANGED people
    /\ Recalculate(DefaultSubscribers(Level), {})

\* DefaultPermissions::registerPermission under a parent, and the recalculation of the
\* parent that ends the registration.
registerUnder(m, d, parent) ==
    /\ parent \in registered
    /\ m \notin registered \cup freed
    /\ getPermission(PermName[m]) = {}
    /\ registered' = registered \cup {m}
    /\ default' = [default EXCEPT ![m] = d]
    /\ children' = [children EXCEPT ![m] = None, ![parent][PermName[m]] = "true"]
    /\ Acyclic(children', registered')
    /\ tables' = Inserted(Erased(Inserted(tables, m, d), parent), parent, default[parent])
    /\ UNCHANGED <<freed, people>>
    /\ Recalculate(DefaultSubscribers(Dirties(d) \cup Dirties(default[parent])) \cup Subscribers(PermName[parent]),
                   Subscribers(PermName[m]))

\* Objects ms are destroyed: their fields are gone.
Free(ms) ==
    /\ freed' = freed \cup ms
    /\ default' = [m \in Perm |-> IF m \in ms THEN "Operator" ELSE default[m]]
    /\ children' = [m \in Perm |-> IF m \in ms THEN None ELSE children[m]]

\* removePermission: the object is destroyed, the tables keep its address.
removePermission(n) ==
    /\ getPermission(n) # {}
    /\ registered' = registered \ getPermission(n)
    /\ Free(getPermission(n))
    /\ UNCHANGED <<tables, people>>
    /\ Recalculate({}, Subscribers(n))

\* recalculatePermissibles: the subscribers are read first, then the tables are brought
\* up to date, then the subscribers are recalculated.
recalculatePermissibles(m) ==
    /\ tables' = Inserted(Erased(tables, m), m, default'[m])
    /\ Recalculate(DefaultSubscribers(Dirties(default'[m])) \cup Subscribers(PermName[m]), {})

setDefault(m, d) ==
    /\ m \in registered
    /\ default' = [default EXCEPT ![m] = d]
    /\ UNCHANGED <<registered, freed, children, people>>
    /\ recalculatePermissibles(m)

\* addParent(perm, value): this becomes a child of perm.
addParent(m, parent, v) ==
    /\ {m, parent} \subseteq registered
    /\ children' = [children EXCEPT ![parent][PermName[m]] = v]
    /\ Acyclic(children', registered)
    /\ UNCHANGED <<registered, freed, default, people>>
    /\ recalculatePermissibles(parent)

\* The part of clearPlugins about permissions.
clearPermissionRegistry ==
    /\ registered' = {}
    /\ Free(registered)
    /\ tables' = [l \in Level |-> <<>>]
    /\ UNCHANGED people
    /\ Recalculate({}, alive)

-----------------------------------------------------------------------------
(* Permissibles *)

\* Mutant: a player is taken for no operator until the first tick.
AssumedNoOp(o) == FALSE
InitialOp(o) == o

\* A player is constructed, with the op status the game gives it.
Join(p, o) ==
    /\ p \in Player \ alive
    /\ alive' = alive \cup {p}
    /\ op' = [op EXCEPT ![p] = o]
    /\ lastOp' = [lastOp EXCEPT ![p] = InitialOp(o)]
    /\ UNCHANGED <<registry, changed, attachments, given>>
    /\ Recalculate({p}, {})

\* ~PermissibleBase: attachments go with it, clearPermissions unsubscribes.
Destroy(p) ==
    /\ p \in Player \cap alive
    /\ alive' = alive \ {p}
    /\ attachments' = [attachments EXCEPT ![p] = <<>>]
    /\ cache' = [cache EXCEPT ![p] = None]
    /\ permSubs' = {s \in permSubs : s[2] # p \/ cache[p][s[1]] = "unset"}
    /\ defSubs' = {s \in defSubs : s[2] # p \/ s[1] \notin ClearedLevels}
    /\ stale' = stale \ {p}
    /\ changed' = changed \ {p} /\ hot' = hot \ {p}
    /\ op' = [op EXCEPT ![p] = FALSE] /\ lastOp' = [lastOp EXCEPT ![p] = FALSE]
    /\ given' = [a \in Attachment |-> IF a \in ToSet(attachments[p]) THEN None ELSE given[a]]
    /\ UNCHANGED <<registry, undefined>>

\* The game makes a player an operator, or no longer one, on its own.
GameSetsOp(p) ==
    /\ p \in Player \cap alive
    /\ op' = [op EXCEPT ![p] = ~@]
    /\ changed' = (changed \cup {p}) \ (changed \cap {p})
    /\ UNCHANGED <<registry, alive, lastOp, attachments, given>>
    /\ Recalculate({}, {p})

\* setOp: nothing if the game says so already.
setOp(p, value) ==
    /\ p \in Player \cap alive
    /\ value # op[p]
    /\ op' = [op EXCEPT ![p] = value]
    /\ lastOp' = [lastOp EXCEPT ![p] = value]
    /\ changed' = changed \ {p}
    /\ UNCHANGED <<registry, alive, attachments, given>>
    /\ Recalculate({p}, {})

\* checkOpStatus, once per tick and player.
checkOpStatus(p) ==
    /\ p \in Player \cap alive
    /\ lastOp[p] # op[p]
    /\ lastOp' = [lastOp EXCEPT ![p] = op[p]]
    /\ changed' = changed \ {p}
    /\ UNCHANGED <<registry, alive, op, attachments, given>>
    /\ Recalculate({p}, {})

recalculatePermissions(p) ==
    /\ p \in alive
    /\ UNCHANGED <<registry, people>>
    /\ Recalculate({p}, {})

\* addAttachment(plugin, name, value).
addAttachment(p, a, n, v) ==
    /\ p \in alive
    /\ \A q \in Permissible : a \notin ToSet(attachments[q])
    /\ attachments' = [attachments EXCEPT ![p] = Append(@, a)]
    /\ given' = [given EXCEPT ![a] = [None EXCEPT ![n] = v]]
    /\ UNCHANGED <<registry, alive, op, lastOp, changed>>
    /\ Recalculate({p}, {})

\* setPermission, and unsetPermission with v = "unset".
setPermission(p, a, n, v) ==
    /\ a \in ToSet(attachments[p])
    /\ given' = [given EXCEPT ![a][n] = v]
    /\ UNCHANGED <<registry, alive, op, lastOp, changed, attachments>>
    /\ Recalculate({p}, {})

removeAttachment(p, a) ==
    /\ a \in ToSet(attachments[p])
    /\ attachments' = [attachments EXCEPT ![p] = OnlyIn(@, Attachment \ {a})]
    /\ given' = [given EXCEPT ![a] = None]
    /\ UNCHANGED <<registry, alive, op, lastOp, changed>>
    /\ Recalculate({p}, {})

-----------------------------------------------------------------------------
\* The console exists from the start and has been recalculated.
Init ==
    /\ registered = {} /\ freed = {}
    /\ default = [m \in Perm |-> "Operator"]
    /\ children = [m \in Perm |-> None]
    /\ tables = [l \in Level |-> <<>>]
    /\ permSubs = {} /\ defSubs = {<<"Console", Console>>}
    /\ alive = {Console}
    /\ op = [p \in Player |-> FALSE] /\ lastOp = [p \in Player |-> FALSE]
    /\ attachments = [p \in Permissible |-> <<>>]
    /\ given = [a \in Attachment |-> None]
    /\ cache = [p \in Permissible |-> None]
    /\ undefined = FALSE
    /\ stale = {} /\ changed = {} /\ hot = {}

RegistryStep ==
    \/ \E m \in Perm, d \in Defaults, kids \in Links : addPermission(m, d, kids) \/ addDescribed(m, d, kids)
    \/ \E m, parent \in Perm, d \in Defaults : registerUnder(m, d, parent)
    \/ \E n \in Name : removePermission(n)
    \/ \E m \in Perm, d \in Defaults : setDefault(m, d)
    \/ \E m, parent \in Perm, v \in Value \ {"unset"} : addParent(m, parent, v)
    \/ clearPermissionRegistry

PermissibleStep ==
    \/ \E p \in Player, o \in BOOLEAN : Join(p, o) \/ setOp(p, o)
    \/ \E p \in Player : Destroy(p) \/ GameSetsOp(p) \/ checkOpStatus(p)
    \/ \E p \in Permissible : recalculatePermissions(p)
    \/ \E p \in Permissible, a \in Attachment, n \in Name, v \in Value \ {"unset"} : addAttachment(p, a, n, v)
    \/ \E p \in Permissible, a \in Attachment, n \in Name, v \in Value : setPermission(p, a, n, v)
    \/ \E p \in Permissible, a \in Attachment : removeAttachment(p, a)

Next == ~undefined /\ (RegistryStep \/ PermissibleStep)

Spec == Init /\ [][Next]_vars

-----------------------------------------------------------------------------
\* Whatever defaults were set in between, a registered permission is in the table of a
\* level exactly when the level has it by default; whatever else a table holds has been
\* destroyed by removePermission.
TablesExact ==
    \A l \in Level :
        /\ \A m \in registered : m \in ToSet(tables[l]) <=> HasByDefault(default[m], l)
        /\ ToSet(tables[l]) \subseteq registered \cup freed

\* The manager's subscriptions are the caches': it knows of a permissible for exactly
\* the names in its cache, under exactly one level, and of no permissible that has been
\* destroyed.  broadcast and every recalculation follow these pointers.
SubscriptionsExact ==
    \A p \in Permissible :
        /\ \A n \in Name : <<n, p>> \in permSubs <=> cache[p][n] # "unset"
        /\ p \in alive => \E l \in Level : \A k \in Level : <<k, p>> \in defSubs <=> k = l
        /\ p \notin alive => cache[p] = None /\ \A k \in Level : <<k, p>> \notin defSubs

\* The cache is what a recalculation would give now: setDefault, addParent, addPermission
\* and the rest recalculate everyone they concern.  Left out are those who hold a name
\* that addPermission or removePermission has just given or taken a meaning, everyone
\* after clearPlugins, and players whose op status the game has changed, each until the
\* next recalculation.
CacheFresh ==
    ~undefined => \A p \in alive \ stale : cache[p] = Effective(p)

\* A change of op made by the game reaches the cache at the next tick: a player whose
\* permissions are those of the other level is noticed by checkOpStatus, unless a
\* recalculation came between the change and the tick.
OpChangeIsNoticed ==
    \A p \in (Player \cap alive) \ hot :
        <<getPermissionLevel(p), p>> \in defSubs \/ lastOp[p] # op[p]
=============================================================================
