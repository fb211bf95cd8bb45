--------------------------- MODULE RegistryProofs ---------------------------
(***************************************************************************)
(* Proofs about the two registries that plugins' descriptions fill, and    *)
(* that a reload empties again: Permissions and CommandMap.  They share no *)
(* state; each part is about one.                                          *)
(*                                                                         *)
(* Permissions: for any set of permissions, players and attachments, and   *)
(* any order the children of a permission are walked in.  That a           *)
(* recalculation gives a name no value it does not reach is a fact about   *)
(* folds over folds: see SetInduction in VectorsProofs.                    *)
(*                                                                         *)
(* CommandMap: for any plugins, commands and usages, and any number of     *)
(* reloads.  What a list of commands makes of the map is shown along the   *)
(* course of its registrations, what a usage makes of the enums along the  *)
(* folds over its tokens and parameters.                                   *)
(***************************************************************************)
EXTENDS Permissions, CommandMap, VectorsProofs

-----------------------------------------------------------------------------
(* The tables of defaults *)

RegistryTypes ==
    /\ registered \subseteq Perm /\ freed \subseteq Perm
    /\ default \in [Perm -> PermissionDefault]
    /\ tables \in [Level -> Seq(Perm)]

\* An object is destroyed once and for all: addresses are not reused.
RegistryInv == RegistryTypes /\ registered \cap freed = {} /\ TablesExact

LEMMA ElementTypes ==
    ASSUME NEW A, NEW s \in Seq(A)
    PROVE  ToSet(s) \subseteq A
  BY DEF ToSet

LEMMA InsertedFacts ==
    ASSUME NEW tb \in [Level -> Seq(Perm)], NEW m \in Perm, NEW d
    PROVE  /\ Inserted(tb, m, d) \in [Level -> Seq(Perm)]
           /\ \A l \in Level : \A x \in Perm :
                 x \in ToSet(Inserted(tb, m, d)[l]) <=> x \in ToSet(tb[l]) \/ (x = m /\ HasByDefault(d, l))
           /\ \A l \in Level : ToSet(Inserted(tb, m, d)[l]) \subseteq Perm
  <1>1. \A l \in Level : /\ ToSet(Append(tb[l], m)) = ToSet(tb[l]) \cup {m}
                         /\ Append(tb[l], m) \in Seq(Perm)
    <2> SUFFICES ASSUME NEW l \in Level
                 PROVE  ToSet(Append(tb[l], m)) = ToSet(tb[l]) \cup {m} /\ Append(tb[l], m) \in Seq(Perm)
      OBVIOUS
    <2>1. tb[l] \in Seq(Perm)
      OBVIOUS
    <2> QED
      BY <2>1, AppendElements
  <1>2. Inserted(tb, m, d) \in [Level -> Seq(Perm)]
    BY <1>1 DEF Inserted, TablesFor
  <1>3. \A l \in Level : ToSet(Inserted(tb, m, d)[l]) \subseteq Perm
    BY <1>2, ElementTypes
  <1> QED
    BY <1>1, <1>2, <1>3 DEF Inserted, TablesFor

LEMMA ErasedFacts ==
    ASSUME NEW tb \in [Level -> Seq(Perm)], NEW m \in Perm
    PROVE  /\ Erased(tb, m) \in [Level -> Seq(Perm)]
           /\ \A l \in Level : \A x \in Perm :
                 x \in ToSet(Erased(tb, m)[l]) <=> x \in ToSet(tb[l]) /\ x # m
           /\ \A l \in Level : ToSet(Erased(tb, m)[l]) \subseteq ToSet(tb[l])
  BY OnlyInSet DEF Erased

\* Tables that do not hold m and are exact for all the others.
ExactBut(tb, m) ==
    \A l \in Level :
        /\ \A x \in registered \ {m} : x \in ToSet(tb[l]) <=> HasByDefault(default[x], l)
        /\ ToSet(tb[l]) \subseteq (registered \cup freed) \ {m}

\* The same after m has been put where its default says.
ExactWith(tb, m, d) ==
    \A l \in Level :
        /\ \A x \in registered \ {m} : x \in ToSet(tb[l]) <=> HasByDefault(default[x], l)
        /\ m \in ToSet(tb[l]) <=> HasByDefault(d, l)
        /\ ToSet(tb[l]) \subseteq registered \cup freed \cup {m}

LEMMA InsertExact ==
    ASSUME RegistryTypes, NEW tb \in [Level -> Seq(Perm)], NEW m \in Perm, NEW d, ExactBut(tb, m)
    PROVE  ExactWith(Inserted(tb, m, d), m, d)
  <1>1. \A l \in Level : \A x \in Perm :
           x \in ToSet(Inserted(tb, m, d)[l]) <=> x \in ToSet(tb[l]) \/ (x = m /\ HasByDefault(d, l))
    BY InsertedFacts
  <1>2. \A l \in Level : ToSet(Inserted(tb, m, d)[l]) \subseteq Perm
    BY InsertedFacts
  <1> QED
    BY <1>1, <1>2 DEF ExactBut, ExactWith, RegistryTypes

\* Taking a permission out leaves tables that are exact for the others.
LEMMA EraseExact ==
    ASSUME RegistryInv, NEW m \in Perm
    PROVE  /\ Erased(tables, m) \in [Level -> Seq(Perm)]
           /\ ExactBut(Erased(tables, m), m)
  <1>1. tables \in [Level -> Seq(Perm)] /\ registered \subseteq Perm /\ freed \subseteq Perm
    BY DEF RegistryInv, RegistryTypes
  <1>2. Erased(tables, m) \in [Level -> Seq(Perm)]
    BY <1>1, ErasedFacts
  <1>3. \A l \in Level : \A x \in Perm : x \in ToSet(Erased(tables, m)[l]) <=> x \in ToSet(tables[l]) /\ x # m
    BY <1>1, ErasedFacts
  <1>4. \A l \in Level : ToSet(Erased(tables, m)[l]) \subseteq ToSet(tables[l])
    BY <1>1, ErasedFacts
  <1> QED
    BY <1>1, <1>2, <1>3, <1>4 DEF RegistryInv, TablesExact, ExactBut

LEMMA RegistryStays ==
    ASSUME RegistryInv, UNCHANGED registry
    PROVE  RegistryInv'
  BY DEF RegistryInv, RegistryTypes, TablesExact, registry

LEMMA AddRegistry ==
    ASSUME RegistryInv, NEW m \in Perm, NEW d \in PermissionDefault, NEW kids, Add(m, d, kids)
    PROVE  RegistryInv'
  <1>1. RegistryTypes'
    <2>1. Inserted(tables, m, d) \in [Level -> Seq(Perm)]
      BY InsertedFacts DEF RegistryInv, RegistryTypes
    <2> QED
      BY <2>1 DEF RegistryInv, RegistryTypes, Add
  <1>2. ExactBut(tables, m)
    BY DEF RegistryInv, TablesExact, Add, ExactBut
  <1>3. ExactWith(Inserted(tables, m, d), m, d)
    BY <1>2, InsertExact DEF RegistryInv, RegistryTypes
  <1>4. /\ registered' = registered \cup {m} /\ freed' = freed /\ m \notin registered \cup freed
        /\ tables' = Inserted(tables, m, d) /\ default' = [default EXCEPT ![m] = d]
    BY DEF Add
  <1>5. default'[m] = d /\ \A x \in Perm \ {m} : default'[x] = default[x]
    BY <1>4 DEF RegistryInv, RegistryTypes
  <1>6. TablesExact'
    BY <1>3, <1>4, <1>5 DEF TablesExact, RegistryInv, RegistryTypes, ExactWith
  <1> QED
    BY <1>1, <1>4, <1>6 DEF RegistryInv

\* A registered permission is taken out of the tables and put back where its new default says.
LEMMA ReplaceRegistry ==
    ASSUME RegistryInv, NEW m \in registered, NEW d \in PermissionDefault,
           registered' = registered, freed' = freed, default' = [default EXCEPT ![m] = d],
           tables' = Inserted(Erased(tables, m), m, d)
    PROVE  RegistryInv'
  <1>0. m \in Perm /\ Erased(tables, m) \in [Level -> Seq(Perm)]
    BY EraseExact DEF RegistryInv, RegistryTypes
  <1>1. RegistryTypes'
    <2>1. Inserted(Erased(tables, m), m, d) \in [Level -> Seq(Perm)]
      BY <1>0, InsertedFacts
    <2> QED
      BY <2>1 DEF RegistryInv, RegistryTypes
  <1>2. ExactBut(Erased(tables, m), m)
    BY <1>0, EraseExact
  <1>3. ExactWith(Inserted(Erased(tables, m), m, d), m, d)
    BY <1>0, <1>2, InsertExact DEF RegistryInv
  <1>5. default'[m] = d /\ \A x \in Perm \ {m} : default'[x] = default[x]
    BY <1>0 DEF RegistryInv, RegistryTypes
  <1>6. TablesExact'
    BY <1>0, <1>3, <1>5 DEF TablesExact, RegistryInv, RegistryTypes, ExactWith
  <1> QED
    BY <1>1, <1>6 DEF RegistryInv

\* A permission is added and its parent is taken out and put back.
LEMMA RegisterUnderRegistry ==
    ASSUME RegistryInv, NEW m \in Perm, NEW parent \in Perm, NEW d \in PermissionDefault,
           registerUnder(m, d, parent)
    PROVE  RegistryInv'
  <1> DEFINE t1 == Inserted(tables, m, d)
             t2 == Erased(t1, parent)
  <1>1. /\ registered' = registered \cup {m} /\ freed' = freed /\ m \notin registered \cup freed
        /\ parent \in registered
        /\ tables' = Inserted(t2, parent, default[parent]) /\ default' = [default EXCEPT ![m] = d]
    BY DEF registerUnder
  <1>2. /\ t1 \in [Level -> Seq(Perm)]
        /\ \A l \in Level : \A x \in Perm :
              x \in ToSet(t1[l]) <=> x \in ToSet(tables[l]) \/ (x = m /\ HasByDefault(d, l))
    BY InsertedFacts DEF RegistryInv, RegistryTypes
  <1>3. /\ t2 \in [Level -> Seq(Perm)]
        /\ \A l \in Level : \A x \in Perm : x \in ToSet(t2[l]) <=> x \in ToSet(t1[l]) /\ x # parent
    <2> HIDE DEF t1
    <2> QED
      BY <1>2, ErasedFacts
  <1>4. /\ tables' \in [Level -> Seq(Perm)]
        /\ \A l \in Level : ToSet(tables'[l]) \subseteq Perm
        /\ \A l \in Level : \A x \in Perm :
              x \in ToSet(tables'[l]) <=> x \in ToSet(t2[l]) \/ (x = parent /\ HasByDefault(default[parent], l))
    <2> HIDE DEF t2
    <2> QED
      BY <1>1, <1>3, InsertedFacts
  <1> HIDE DEF t1, t2
  <1>5. default'[m] = d /\ \A x \in Perm \ {m} : default'[x] = default[x]
    BY <1>1 DEF RegistryInv, RegistryTypes
  <1>6. RegistryTypes' /\ (registered \cap freed = {})'
    BY <1>1, <1>4 DEF RegistryInv, RegistryTypes
  <1>7. TablesExact'
    BY <1>1, <1>2, <1>3, <1>4, <1>5 DEF TablesExact, RegistryInv, RegistryTypes
  <1> QED
    BY <1>6, <1>7 DEF RegistryInv

\* removePermission and clearPlugins destroy registered permissions.
LEMMA FreeRegistry ==
    ASSUME RegistryInv, NEW ms, ms \subseteq registered, Free(ms), registered' = registered \ ms,
           \/ tables' = tables
           \/ ms = registered /\ tables' = [l \in Level |-> <<>>]
    PROVE  RegistryInv'
  <1>0. tables' \in [Level -> Seq(Perm)]
    <2>1. tables \in [Level -> Seq(Perm)] /\ <<>> \in Seq(Perm)
      BY DEF RegistryInv, RegistryTypes
    <2>2. [l \in Level |-> <<>>] \in [Level -> Seq(Perm)]
      BY <2>1
    <2> QED
      BY <2>1, <2>2
  <1>1. RegistryTypes' /\ (registered \cap freed = {})'
    <2>1. "Operator" \in PermissionDefault /\ default \in [Perm -> PermissionDefault]
      BY DEF RegistryInv, RegistryTypes, PermissionDefault
    <2>2. default' = [x \in Perm |-> IF x \in ms THEN "Operator" ELSE default[x]]
      BY DEF Free
    <2>3. default' \in [Perm -> PermissionDefault]
      BY <2>1, <2>2
    <2> QED
      BY <1>0, <2>3 DEF RegistryInv, RegistryTypes, Free
  <1>2. CASE tables' = tables
    BY <1>1, <1>2 DEF RegistryInv, RegistryTypes, TablesExact, Free
  <1>3. CASE tables' = [l \in Level |-> <<>>] /\ ms = registered
    <2>1. \A l \in Level : tables'[l] = <<>>
      BY <1>3
    <2>2. ToSet(<<>>) = {}
      BY DEF ToSet
    <2> QED
      BY <1>1, <1>3, <2>1, <2>2 DEF RegistryInv, TablesExact
  <1> QED
    BY <1>2, <1>3

LEMMA RegistryNext ==
    ASSUME RegistryInv, [Next]_vars
    PROVE  RegistryInv'
  <1>0. Defaults \subseteq PermissionDefault
    BY PermissionsAssumption
  <1>1. ASSUME NEW m \in Perm, NEW d \in Defaults, NEW kids \in Links,
               addPermission(m, d, kids) \/ addDescribed(m, d, kids)
        PROVE  RegistryInv'
    <2>1. Add(m, d, kids) /\ d \in PermissionDefault
      BY <1>0, <1>1 DEF addPermission, addDescribed
    <2> QED
      BY <2>1, AddRegistry
  <1>2. ASSUME NEW m \in Perm, NEW parent \in Perm, NEW d \in Defaults, registerUnder(m, d, parent)
        PROVE  RegistryInv'
    BY <1>0, <1>2, RegisterUnderRegistry
  <1>3. ASSUME NEW n \in Name, removePermission(n)
        PROVE  RegistryInv'
    <2> DEFINE ms == getPermission(n)
    <2>1. ms \subseteq registered /\ Free(ms) /\ registered' = registered \ ms /\ tables' = tables
      BY <1>3 DEF removePermission, getPermission
    <2> HIDE DEF ms
    <2> QED
      BY <2>1, FreeRegistry
  <1>4. ASSUME NEW m \in Perm, NEW d \in Defaults, setDefault(m, d)
        PROVE  RegistryInv'
    <2>1. /\ m \in registered /\ d \in PermissionDefault
          /\ registered' = registered /\ freed' = freed /\ default' = [default EXCEPT ![m] = d]
          /\ tables' = Inserted(Erased(tables, m), m, default'[m])
      BY <1>0, <1>4 DEF setDefault, recalculatePermissibles
    <2>2. default'[m] = d
      BY <2>1 DEF RegistryInv, RegistryTypes
    <2> QED
      BY <2>1, <2>2, ReplaceRegistry
  <1>5. ASSUME NEW m \in Perm, NEW parent \in Perm, NEW v, addParent(m, parent, v)
        PROVE  RegistryInv'
    <2>1. /\ parent \in registered /\ registered' = registered /\ freed' = freed /\ default' = default
          /\ tables' = Inserted(Erased(tables, parent), parent, default'[parent])
      BY <1>5 DEF addParent, recalculatePermissibles
    <2>2. default' = [default EXCEPT ![parent] = default[parent]] /\ default[parent] \in PermissionDefault
      BY <2>1 DEF RegistryInv, RegistryTypes
    <2> QED
      BY <2>1, <2>2, ReplaceRegistry
  <1>6. ASSUME clearPermissionRegistry
        PROVE  RegistryInv'
    <2>1. /\ registered \subseteq registered /\ Free(registered) /\ registered' = registered \ registered
          /\ tables' = [l \in Level |-> <<>>]
      BY <1>6 DEF clearPermissionRegistry
    <2> QED
      BY <2>1, FreeRegistry
  <1>7. ASSUME PermissibleStep \/ UNCHANGED vars
        PROVE  RegistryInv'
    <2>1. UNCHANGED registry
      BY <1>7 DEF PermissibleStep, Join, setOp, Destroy, GameSetsOp, checkOpStatus, recalculatePermissions,
                  addAttachment, setPermission, removeAttachment, vars
    <2> QED
      BY <2>1, RegistryStays
  <1> QED
    BY <1>1, <1>2, <1>3, <1>4, <1>5, <1>6, <1>7 DEF Next, RegistryStep

LEMMA RegistryInit ==
    ASSUME Init
    PROVE  RegistryInv
  <1>1. <<>> \in Seq(Perm) /\ ToSet(<<>>) = {} /\ "Operator" \in PermissionDefault
    BY DEF ToSet, PermissionDefault
  <1>2. tables = [l \in Level |-> <<>>] /\ registered = {} /\ freed = {} /\ default = [m \in Perm |-> "Operator"]
    BY DEF Init
  <1>3. tables \in [Level -> Seq(Perm)] /\ default \in [Perm -> PermissionDefault]
    BY <1>1, <1>2
  <1>4. \A l \in Level : ToSet(tables[l]) = {}
    BY <1>1, <1>2
  <1> QED
    BY <1>2, <1>3, <1>4 DEF RegistryInv, RegistryTypes, TablesExact

\* Whatever is added, removed, given another default or another parent, in any order, the
\* tables that recalculatePermissions reads hold a registered permission exactly when its
\* default says so.
THEOREM PermissionTablesExact == Spec => []TablesExact
  <1>1. Init => RegistryInv
    BY RegistryInit
  <1>2. RegistryInv /\ [Next]_vars => RegistryInv'
    BY RegistryNext
  <1>3. RegistryInv => TablesExact
    BY DEF RegistryInv
  <1> QED
    BY <1>1, <1>2, <1>3, PTL DEF Spec

-----------------------------------------------------------------------------
(* The subscriptions *)

SubscriptionTypes ==
    /\ permSubs \subseteq Name \X Permissible /\ defSubs \subseteq Level \X Permissible
    /\ alive \subseteq Permissible
    /\ attachments \in [Permissible -> Seq(Attachment)]
    /\ cache = [p \in Permissible |-> cache[p]]

\* Only who exists has attachments: whoever a plugin reaches through one may be recalculated.
DeadHaveNone == \A p \in Permissible \ alive : ToSet(attachments[p]) = {}

SubscriptionInv == SubscriptionTypes /\ DeadHaveNone /\ SubscriptionsExact

\* What a recalculation of rs does to the subscriptions, pair by pair.
LEMMA RecalculatedPairs ==
    ASSUME SubscriptionTypes, NEW rs, NEW left, rs \subseteq Permissible, Recalculate(rs, left)
    PROVE  /\ \A p \in Permissible \ rs : cache'[p] = cache[p]
           /\ \A n \in Name, p \in Permissible \ rs : <<n, p>> \in permSubs' <=> <<n, p>> \in permSubs
           /\ \A n \in Name, p \in rs :
                 <<n, p>> \in permSubs' <=> \/ <<n, p>> \in permSubs /\ cache[p][n] = "unset"
                                            \/ cache'[p][n] # "unset"
           /\ \A l \in Level, p \in Permissible \ rs : <<l, p>> \in defSubs' <=> <<l, p>> \in defSubs
           /\ \A l \in Level, p \in rs : <<l, p>> \in defSubs' <=> l = getPermissionLevel(p)'
           /\ cache' = [p \in Permissible |-> cache'[p]]
           /\ permSubs' \subseteq Name \X Permissible /\ defSubs' \subseteq Level \X Permissible
  <1>1. /\ permSubs' = {s \in permSubs : s[2] \notin rs \/ cache[s[2]][s[1]] = "unset"}
                        \cup {s \in Name \X rs : cache'[s[2]][s[1]] # "unset"}
        /\ defSubs' = {s \in defSubs : s[2] \notin rs \/ s[1] \notin Level}
                        \cup {<<getPermissionLevel(p)', p>> : p \in rs}
    BY DEF Recalculate, ClearedLevels
  <1>2. cache' = [p \in Permissible |-> IF p \in rs THEN Effective(p)' ELSE cache[p]]
    BY DEF Recalculate
  <1>3. /\ \A p \in Permissible \ rs : cache'[p] = cache[p]
        /\ cache' = [p \in Permissible |-> cache'[p]]
    BY <1>2
  <1>4. \A p : getPermissionLevel(p)' \in Level
    BY DEF getPermissionLevel, Level
  <1>5. permSubs' \subseteq Name \X Permissible /\ defSubs' \subseteq Level \X Permissible
    BY <1>1, <1>4 DEF SubscriptionTypes
  <1>6. /\ \A n \in Name, p \in Permissible \ rs : <<n, p>> \in permSubs' <=> <<n, p>> \in permSubs
        /\ \A n \in Name, p \in rs :
              <<n, p>> \in permSubs' <=> \/ <<n, p>> \in permSubs /\ cache[p][n] = "unset"
                                         \/ cache'[p][n] # "unset"
    BY <1>1
  <1>7. /\ \A l \in Level, p \in Permissible \ rs : <<l, p>> \in defSubs' <=> <<l, p>> \in defSubs
        /\ \A l \in Level, p \in rs : <<l, p>> \in defSubs' <=> l = getPermissionLevel(p)'
    BY <1>1, <1>4
  <1> QED
    BY <1>3, <1>5, <1>6, <1>7

\* A recalculation of permissibles that exist, whoever was constructed among them.
LEMMA RecalculateSubscriptions ==
    ASSUME SubscriptionInv, NEW rs, NEW left, Recalculate(rs, left), rs \subseteq alive',
           alive \subseteq alive', alive' \subseteq alive \cup rs, alive' \subseteq Permissible,
           attachments' \in [Permissible -> Seq(Attachment)], DeadHaveNone'
    PROVE  SubscriptionInv'
  <1>0. rs \subseteq Permissible /\ SubscriptionTypes
    BY DEF SubscriptionInv
  <1>1. /\ \A p \in Permissible \ rs : cache'[p] = cache[p]
        /\ \A n \in Name, p \in Permissible \ rs : <<n, p>> \in permSubs' <=> <<n, p>> \in permSubs
        /\ \A n \in Name, p \in rs :
              <<n, p>> \in permSubs' <=> \/ <<n, p>> \in permSubs /\ cache[p][n] = "unset"
                                         \/ cache'[p][n] # "unset"
        /\ \A l \in Level, p \in Permissible \ rs : <<l, p>> \in defSubs' <=> <<l, p>> \in defSubs
        /\ \A l \in Level, p \in rs : <<l, p>> \in defSubs' <=> l = getPermissionLevel(p)'
        /\ cache' = [p \in Permissible |-> cache'[p]]
        /\ permSubs' \subseteq Name \X Permissible /\ defSubs' \subseteq Level \X Permissible
    BY <1>0, RecalculatedPairs
  <1>2. SubscriptionTypes'
    BY <1>1 DEF SubscriptionTypes
  <1>3. ASSUME NEW p \in Permissible
        PROVE  \A n \in Name : <<n, p>> \in permSubs' <=> cache'[p][n] # "unset"
    BY <1>1 DEF SubscriptionInv, SubscriptionsExact
  <1>4. ASSUME NEW p \in alive'
        PROVE  \E l \in Level : \A k \in Level : <<k, p>> \in defSubs' <=> k = l
    <2>1. CASE p \in rs
      <3>1. getPermissionLevel(p)' \in Level
        BY DEF getPermissionLevel, Level
      <3> QED
        BY <1>1, <2>1, <3>1
    <2>2. CASE p \notin rs
      <3>1. PICK l \in Level : \A k \in Level : <<k, p>> \in defSubs <=> k = l
        BY <2>2 DEF SubscriptionInv, SubscriptionsExact
      <3> QED
        BY <1>1, <2>2, <3>1
    <2> QED
      BY <2>1, <2>2
  <1>5. ASSUME NEW p \in Permissible, p \notin alive'
        PROVE  cache'[p] = None /\ \A k \in Level : <<k, p>> \notin defSubs'
    BY <1>1, <1>5 DEF SubscriptionInv, SubscriptionsExact
  <1>6. SubscriptionsExact'
    BY <1>3, <1>4, <1>5 DEF SubscriptionsExact
  <1> QED
    BY <1>2, <1>6 DEF SubscriptionInv

\* Everyone who is subscribed exists.
LEMMA SubscribersExist ==
    ASSUME SubscriptionInv
    PROVE  /\ \A n \in Name : Subscribers(n) \subseteq alive
           /\ \A ls : ls \subseteq Level => DefaultSubscribers(ls) \subseteq alive
  <1>1. ASSUME NEW p \in Permissible, p \notin alive
        PROVE  /\ \A n \in Name : <<n, p>> \notin permSubs
               /\ \A l \in Level : <<l, p>> \notin defSubs
    <2>1. \A n \in Name : cache[p][n] = "unset"
      BY <1>1 DEF SubscriptionInv, SubscriptionsExact, None
    <2> QED
      BY <1>1, <2>1 DEF SubscriptionInv, SubscriptionsExact
  <1> QED
    BY <1>1 DEF Subscribers, DefaultSubscribers

LEMMA DestroySubscriptions ==
    ASSUME SubscriptionInv, NEW p \in Player, Destroy(p)
    PROVE  SubscriptionInv'
  <1>0. p \in Permissible /\ <<>> \in Seq(Attachment) /\ ToSet(<<>>) = {}
    BY DEF Permissible, ToSet
  <1>1. /\ alive' = alive \ {p} /\ attachments' = [attachments EXCEPT ![p] = <<>>]
        /\ cache' = [cache EXCEPT ![p] = None]
        /\ permSubs' = {s \in permSubs : s[2] # p \/ cache[p][s[1]] = "unset"}
        /\ defSubs' = {s \in defSubs : s[2] # p \/ s[1] \notin Level}
    BY DEF Destroy, ClearedLevels
  <1>2. cache'[p] = None /\ \A q \in Permissible \ {p} : cache'[q] = cache[q]
    BY <1>0, <1>1 DEF SubscriptionInv, SubscriptionTypes
  <1>3. SubscriptionTypes'
    BY <1>0, <1>1 DEF SubscriptionInv, SubscriptionTypes
  <1>4. DeadHaveNone'
    BY <1>0, <1>1 DEF SubscriptionInv, SubscriptionTypes, DeadHaveNone
  <1>5. /\ \A n \in Name : <<n, p>> \notin permSubs'
        /\ \A l \in Level : <<l, p>> \notin defSubs'
        /\ \A n \in Name, q \in Permissible \ {p} : <<n, q>> \in permSubs' <=> <<n, q>> \in permSubs
        /\ \A l \in Level, q \in Permissible \ {p} : <<l, q>> \in defSubs' <=> <<l, q>> \in defSubs
    BY <1>0, <1>1 DEF SubscriptionInv, SubscriptionsExact
  <1>6. SubscriptionsExact'
    <2>1. \A n \in Name : cache'[p][n] = "unset"
      BY <1>2 DEF None
    <2> SUFFICES ASSUME NEW q \in Permissible
                 PROVE  /\ \A n \in Name : <<n, q>> \in permSubs' <=> cache'[q][n] # "unset"
                        /\ q \in alive' => \E l \in Level : \A k \in Level : <<k, q>> \in defSubs' <=> k = l
                        /\ q \notin alive' => cache'[q] = None /\ \A k \in Level : <<k, q>> \notin defSubs'
      BY DEF SubscriptionsExact
    <2>2. CASE q = p
      BY <1>1, <1>2, <1>5, <2>1, <2>2
    <2>3. CASE q # p
      BY <1>1, <1>2, <1>5, <2>3 DEF SubscriptionInv, SubscriptionsExact
    <2> QED
      BY <2>2, <2>3
  <1> QED
    BY <1>3, <1>4, <1>6 DEF SubscriptionInv

LEMMA SubscriptionNext ==
    ASSUME SubscriptionInv, [Next]_vars
    PROVE  SubscriptionInv'
  <1>0. /\ alive \subseteq Permissible /\ attachments \in [Permissible -> Seq(Attachment)] /\ DeadHaveNone
        /\ \A n \in Name : Subscribers(n) \subseteq alive
        /\ \A ls : ls \subseteq Level => DefaultSubscribers(ls) \subseteq alive
        /\ \A d : Dirties(d) \subseteq Level
        /\ PermName \in [Perm -> Name]
    BY SubscribersExist, PermissionsAssumption
       DEF SubscriptionInv, SubscriptionTypes, Dirties, TablesFor
  <1>1. ASSUME RegistryStep
        PROVE  SubscriptionInv'
    <2>1. UNCHANGED people
      BY <1>1 DEF RegistryStep, addPermission, addDescribed, registerUnder, removePermission, setDefault,
                  addParent, clearPermissionRegistry
    <2>2. alive' = alive /\ attachments' = attachments /\ DeadHaveNone'
      BY <1>0, <2>1 DEF people, DeadHaveNone
    <2>3. \E rs, left : rs \subseteq alive /\ Recalculate(rs, left)
      <3>1. ASSUME NEW m \in Perm, NEW d, NEW kids, addPermission(m, d, kids)
            PROVE  \E rs, left : rs \subseteq alive /\ Recalculate(rs, left)
        BY <1>0, <3>1 DEF addPermission
      <3>2. ASSUME NEW m \in Perm, NEW d, NEW kids, addDescribed(m, d, kids)
            PROVE  \E rs, left : rs \subseteq alive /\ Recalculate(rs, left)
        BY <1>0, <3>2 DEF addDescribed
      <3>3. ASSUME NEW m \in Perm, NEW parent \in Perm, NEW d, registerUnder(m, d, parent)
            PROVE  \E rs, left : rs \subseteq alive /\ Recalculate(rs, left)
        <4>1. Dirties(d) \cup Dirties(default[parent]) \subseteq Level /\ PermName[parent] \in Name
          BY <1>0
        <4> QED
          BY <1>0, <3>3, <4>1 DEF registerUnder
      <3>4. ASSUME NEW n \in Name, removePermission(n)
            PROVE  \E rs, left : rs \subseteq alive /\ Recalculate(rs, left)
        BY <3>4 DEF removePermission
      <3>5. ASSUME NEW m \in Perm, recalculatePermissibles(m)
            PROVE  \E rs, left : rs \subseteq alive /\ Recalculate(rs, left)
        <4>1. Dirties(default'[m]) \subseteq Level /\ PermName[m] \in Name
          BY <1>0
        <4> QED
          BY <1>0, <3>5, <4>1 DEF recalculatePermissibles
      <3>6. ASSUME clearPermissionRegistry
            PROVE  \E rs, left : rs \subseteq alive /\ Recalculate(rs, left)
        BY <3>6 DEF clearPermissionRegistry
      <3> QED
        BY <1>1, <3>1, <3>2, <3>3, <3>4, <3>5, <3>6 DEF RegistryStep, setDefault, addParent
    <2> QED
      BY <1>0, <2>2, <2>3, RecalculateSubscriptions
  <1>2. ASSUME NEW p \in Player, NEW o, Join(p, o)
        PROVE  SubscriptionInv'
    <2>1. alive' = alive \cup {p} /\ attachments' = attachments /\ Recalculate({p}, {}) /\ p \in Permissible
      BY <1>2 DEF Join, Permissible
    <2>2. DeadHaveNone'
      BY <1>0, <2>1 DEF DeadHaveNone
    <2> QED
      BY <1>0, <2>1, <2>2, RecalculateSubscriptions
  <1>3. ASSUME NEW p \in Player, Destroy(p)
        PROVE  SubscriptionInv'
    BY <1>3, DestroySubscriptions
  <1>4. ASSUME NEW p \in Player, GameSetsOp(p)
        PROVE  SubscriptionInv'
    <2>1. alive' = alive /\ attachments' = attachments /\ Recalculate({}, {p})
      BY <1>4 DEF GameSetsOp
    <2>2. DeadHaveNone'
      BY <1>0, <2>1 DEF DeadHaveNone
    <2> QED
      BY <1>0, <2>1, <2>2, RecalculateSubscriptions
  <1>5. ASSUME NEW p \in Permissible, NEW o, setOp(p, o) \/ checkOpStatus(p) \/ recalculatePermissions(p)
        PROVE  SubscriptionInv'
    <2>1. p \in alive /\ alive' = alive /\ attachments' = attachments /\ Recalculate({p}, {})
      BY <1>5 DEF setOp, checkOpStatus, recalculatePermissions, people
    <2>2. DeadHaveNone'
      BY <1>0, <2>1 DEF DeadHaveNone
    <2> QED
      BY <1>0, <2>1, <2>2, RecalculateSubscriptions
  <1>6. ASSUME NEW p \in Permissible, NEW a \in Attachment, NEW n, NEW v, addAttachment(p, a, n, v)
        PROVE  SubscriptionInv'
    <2>1. /\ p \in alive /\ alive' = alive /\ attachments' = [attachments EXCEPT ![p] = Append(@, a)]
          /\ Recalculate({p}, {})
      BY <1>6 DEF addAttachment
    <2>2. attachments' \in [Permissible -> Seq(Attachment)] /\ DeadHaveNone'
      BY <1>0, <2>1 DEF DeadHaveNone
    <2> QED
      BY <1>0, <2>1, <2>2, RecalculateSubscriptions
  <1>7. ASSUME NEW p \in Permissible, NEW a \in Attachment, NEW n, NEW v, setPermission(p, a, n, v)
        PROVE  SubscriptionInv'
    <2>1. p \in alive /\ alive' = alive /\ attachments' = attachments /\ Recalculate({p}, {})
      BY <1>0, <1>7 DEF setPermission, DeadHaveNone
    <2>2. DeadHaveNone'
      BY <1>0, <2>1 DEF DeadHaveNone
    <2> QED
      BY <1>0, <2>1, <2>2, RecalculateSubscriptions
  <1>8. ASSUME NEW p \in Permissible, NEW a \in Attachment, removeAttachment(p, a)
        PROVE  SubscriptionInv'
    <2>1. p \in alive /\ alive' = alive /\ Recalculate({p}, {})
      BY <1>0, <1>8 DEF removeAttachment, DeadHaveNone
    <2>2. OnlyIn(attachments[p], Attachment \ {a}) \in Seq(Attachment)
      BY <1>0, OnlyInSet
    <2>3. attachments' \in [Permissible -> Seq(Attachment)] /\ DeadHaveNone'
      BY <1>0, <1>8, <2>1, <2>2 DEF DeadHaveNone, removeAttachment
    <2> QED
      BY <1>0, <2>1, <2>3, RecalculateSubscriptions
  <1>9. ASSUME UNCHANGED vars
        PROVE  SubscriptionInv'
    BY <1>9 DEF vars, people, derived, SubscriptionInv, SubscriptionTypes, DeadHaveNone, SubscriptionsExact
  <1>10. Player \subseteq Permissible
    BY DEF Permissible
  <1> QED
    BY <1>1, <1>2, <1>3, <1>4, <1>5, <1>6, <1>7, <1>8, <1>9, <1>10 DEF Next, PermissibleStep

LEMMA SubscriptionInit ==
    ASSUME Init
    PROVE  SubscriptionInv
  <1>1. <<>> \in Seq(Attachment) /\ ToSet(<<>>) = {} /\ Console \in Permissible /\ "Console" \in Level
    BY DEF ToSet, Permissible, Level
  <1>2. SubscriptionTypes /\ DeadHaveNone
    BY <1>1 DEF Init, SubscriptionTypes, DeadHaveNone
  <1>3. \A p \in Permissible : cache[p] = None /\ \A n \in Name : cache[p][n] = "unset"
    BY DEF Init, None
  <1>4. \A k \in Level, p \in Permissible : <<k, p>> \in defSubs <=> p = Console /\ k = "Console"
    BY DEF Init
  <1>5. alive = {Console} /\ permSubs = {}
    BY DEF Init
  <1> QED
    BY <1>1, <1>2, <1>3, <1>4, <1>5 DEF SubscriptionInv, SubscriptionsExact

\* The pointers that broadcast and every recalculation follow are those of permissibles
\* that exist, each under the one level and the names its own cache says: what
\* subscribeToPermission and unsubscribeFromPermission keep up from several places never
\* drifts from the caches.
THEOREM PermissionSubscriptionsExact == Spec => []SubscriptionsExact
  <1>1. Init => SubscriptionInv
    BY SubscriptionInit
  <1>2. SubscriptionInv /\ [Next]_vars => SubscriptionInv'
    BY SubscriptionNext
  <1>3. SubscriptionInv => SubscriptionsExact
    BY DEF SubscriptionInv
  <1> QED
    BY <1>1, <1>2, <1>3, PTL DEF Spec

-----------------------------------------------------------------------------
(* The op status of players *)

OpTypes == op \in [Player -> BOOLEAN] /\ lastOp \in [Player -> BOOLEAN]

\* changed is what checkOpStatus would find.
ChangesKnown ==
    /\ changed \subseteq alive
    /\ \A p \in Player \cap alive : (p \in changed => lastOp[p] # op[p]) /\ (p \notin changed => lastOp[p] = op[p])

LevelOf(b) == IF b THEN "Operator" ELSE "Default"

\* A player is subscribed to the level of the op status that was last noticed.
NoticedLevel == \A p \in (Player \cap alive) \ hot : <<LevelOf(lastOp[p]), p>> \in defSubs

OpInv == SubscriptionTypes /\ OpTypes /\ ChangesKnown /\ NoticedLevel

\* The players of rs are recalculated with what is known now; nothing is known anew of
\* the others.
LEMMA RecalculateLevels ==
    ASSUME OpInv, NEW rs, NEW left, Recalculate(rs, left), rs \subseteq Permissible,
           alive' \subseteq alive \cup rs, ChangesKnown',
           \A p \in Player \ rs : lastOp'[p] = lastOp[p]
    PROVE  NoticedLevel'
  <1>1. /\ \A l \in Level, p \in Permissible \ rs : <<l, p>> \in defSubs' <=> <<l, p>> \in defSubs
        /\ \A l \in Level, p \in rs : <<l, p>> \in defSubs' <=> l = getPermissionLevel(p)'
    BY RecalculatedPairs DEF OpInv
  <1>2. \A b : LevelOf(b) \in Level
    BY DEF LevelOf, Level
  <1>3. Player \subseteq Permissible /\ Console \notin Player
    BY PermissionsAssumption DEF Permissible
  <1> SUFFICES ASSUME NEW p \in Player, p \in alive', p \notin hot'
               PROVE  <<LevelOf(lastOp'[p]), p>> \in defSubs'
    BY DEF NoticedLevel
  <1>4. CASE p \in rs
    <2>1. p \notin changed'
      BY <1>4 DEF Recalculate
    <2>2. lastOp'[p] = op'[p]
      BY <2>1 DEF ChangesKnown
    <2>3. getPermissionLevel(p)' = LevelOf(op'[p])
      BY <1>3 DEF getPermissionLevel, LevelOf
    <2> QED
      BY <1>1, <1>2, <1>4, <2>2, <2>3
  <1>5. CASE p \notin rs
    <2>1. p \notin hot /\ p \in alive /\ lastOp'[p] = lastOp[p]
      BY <1>5 DEF Recalculate
    <2>2. <<LevelOf(lastOp[p]), p>> \in defSubs
      BY <2>1 DEF OpInv, NoticedLevel
    <2> QED
      BY <1>1, <1>2, <1>3, <1>5, <2>1, <2>2
  <1> QED
    BY <1>4, <1>5

LEMMA OpNext ==
    ASSUME OpInv, SubscriptionInv, SubscriptionInv', [Next]_vars
    PROVE  OpInv'
  <1>0. /\ Player \subseteq Permissible /\ alive \subseteq Permissible
        /\ SubscriptionTypes'
        /\ op \in [Player -> BOOLEAN] /\ lastOp \in [Player -> BOOLEAN] /\ ChangesKnown
    BY DEF Permissible, SubscriptionInv, SubscriptionTypes, OpInv, OpTypes
  <1>1. ASSUME UNCHANGED <<alive, op, lastOp, changed>>,
               \E rs, left : rs \subseteq Permissible /\ Recalculate(rs, left)
        PROVE  OpInv'
    <2>1. PICK rs, left : rs \subseteq Permissible /\ Recalculate(rs, left)
      BY <1>1
    <2>2. OpTypes' /\ ChangesKnown'
      BY <1>0, <1>1 DEF OpTypes, ChangesKnown
    <2>3. NoticedLevel'
      BY <1>1, <2>1, <2>2, RecalculateLevels
    <2> QED
      BY <1>0, <2>2, <2>3 DEF OpInv
  <1>2. ASSUME RegistryStep
        PROVE  OpInv'
    <2>1. UNCHANGED people
      BY <1>2 DEF RegistryStep, addPermission, addDescribed, registerUnder, removePermission, setDefault,
                  addParent, clearPermissionRegistry
    <2>2. \A n, ls : Subscribers(n) \subseteq Permissible /\ DefaultSubscribers(ls) \subseteq Permissible
      BY DEF Subscribers, DefaultSubscribers
    <2>3. ASSUME NEW m, recalculatePermissibles(m)
          PROVE  \E rs, left : rs \subseteq Permissible /\ Recalculate(rs, left)
      BY <2>2, <2>3 DEF recalculatePermissibles
    <2>4. \E rs, left : rs \subseteq Permissible /\ Recalculate(rs, left)
      BY <1>2, <2>2, <2>3 DEF RegistryStep, addPermission, addDescribed, registerUnder, removePermission,
                  setDefault, addParent, clearPermissionRegistry
    <2> QED
      BY <1>1, <2>1, <2>4 DEF people
  <1>3. ASSUME NEW p \in Player, NEW o \in BOOLEAN, Join(p, o)
        PROVE  OpInv'
    <2>1. /\ p \notin alive /\ alive' = alive \cup {p} /\ changed' = changed /\ Recalculate({p}, {})
          /\ op' = [op EXCEPT ![p] = o] /\ lastOp' = [lastOp EXCEPT ![p] = o]
      BY <1>3 DEF Join, InitialOp
    <2>2. OpTypes'
      BY <1>0, <2>1, Zenon DEF OpTypes
    <2>3. /\ op'[p] = lastOp'[p]
          /\ \A q \in Player \ {p} : op'[q] = op[q] /\ lastOp'[q] = lastOp[q]
      BY <1>0, <2>1
    <2>4. ChangesKnown'
      BY <1>0, <2>1, <2>3 DEF ChangesKnown
    <2> QED
      BY <1>0, <2>1, <2>2, <2>3, <2>4, RecalculateLevels DEF OpInv
  <1>4. ASSUME NEW p \in Player, Destroy(p)
        PROVE  OpInv'
    <2>1. /\ alive' = alive \ {p} /\ changed' = changed \ {p} /\ hot' = hot \ {p}
          /\ defSubs' = {s \in defSubs : s[2] # p \/ s[1] \notin Level}
          /\ op' = [op EXCEPT ![p] = FALSE] /\ lastOp' = [lastOp EXCEPT ![p] = FALSE]
      BY <1>4 DEF Destroy, ClearedLevels
    <2>2. OpTypes'
      BY <1>0, <2>1, Zenon DEF OpTypes
    <2>3. \A q \in Player \ {p} : op'[q] = op[q] /\ lastOp'[q] = lastOp[q]
      BY <1>0, <2>1
    <2>4. ChangesKnown'
      BY <1>0, <2>1, <2>3 DEF ChangesKnown
    <2>5. NoticedLevel'
      BY <2>1, <2>3 DEF OpInv, NoticedLevel
    <2> QED
      BY <1>0, <2>2, <2>4, <2>5 DEF OpInv
  <1>5. ASSUME NEW p \in Player, GameSetsOp(p)
        PROVE  OpInv'
    <2>1. /\ p \in alive /\ alive' = alive /\ changed' = (changed \cup {p}) \ (changed \cap {p})
          /\ op' = [op EXCEPT ![p] = ~op[p]] /\ lastOp' = lastOp /\ Recalculate({}, {p})
      BY <1>5 DEF GameSetsOp
    <2>2. OpTypes'
      BY <1>0, <2>1, Zenon DEF OpTypes
    <2>3. op'[p] = ~op[p] /\ \A q \in Player \ {p} : op'[q] = op[q]
      BY <1>0, <2>1
    <2>4. (lastOp[p] # op[p] => lastOp[p] = op'[p]) /\ (lastOp[p] = op[p] => lastOp[p] # op'[p])
      <3>1. lastOp[p] \in BOOLEAN /\ op[p] \in BOOLEAN
        BY <1>0
      <3> QED
        BY <2>3, <3>1, Zenon
    <2>5. ChangesKnown'
      <3>1. \A q \in Player \ {p} : q \in changed' <=> q \in changed
        BY <2>1
      <3>2. p \in changed' <=> p \notin changed
        BY <2>1
      <3>3. changed' \subseteq alive'
        BY <1>0, <2>1 DEF ChangesKnown
      <3> QED
        BY <1>0, <2>1, <2>3, <2>4, <3>1, <3>2, <3>3 DEF ChangesKnown
    <2> QED
      BY <1>0, <2>1, <2>2, <2>5, RecalculateLevels DEF OpInv
  <1>6. ASSUME NEW p \in Player, NEW o \in BOOLEAN, setOp(p, o) \/ checkOpStatus(p)
        PROVE  OpInv'
    <2>1. /\ p \in alive /\ alive' = alive /\ changed' = changed \ {p} /\ Recalculate({p}, {})
          /\ \E b \in BOOLEAN : op' = [op EXCEPT ![p] = b] /\ lastOp' = [lastOp EXCEPT ![p] = b]
      <3>1. op[p] \in BOOLEAN /\ op = [op EXCEPT ![p] = op[p]]
        BY <1>0
      <3> QED
        BY <1>6, <3>1 DEF setOp, checkOpStatus
    <2> PICK b \in BOOLEAN : op' = [op EXCEPT ![p] = b] /\ lastOp' = [lastOp EXCEPT ![p] = b]
      BY <2>1
    <2>2. OpTypes'
      BY <1>0, Zenon DEF OpTypes
    <2>3. /\ op'[p] = lastOp'[p]
          /\ \A q \in Player \ {p} : op'[q] = op[q] /\ lastOp'[q] = lastOp[q]
      BY <1>0
    <2>4. ChangesKnown'
      BY <1>0, <2>1, <2>3 DEF ChangesKnown
    <2> QED
      BY <1>0, <2>1, <2>2, <2>3, <2>4, RecalculateLevels DEF OpInv
  <1>7. ASSUME NEW p \in Permissible,
               \/ recalculatePermissions(p)
               \/ \E a \in Attachment, n \in Name, v \in Value : addAttachment(p, a, n, v) \/ setPermission(p, a, n, v)
               \/ \E a \in Attachment : removeAttachment(p, a)
        PROVE  OpInv'
    <2>1. UNCHANGED <<alive, op, lastOp, changed>> /\ Recalculate({p}, {})
      BY <1>7 DEF recalculatePermissions, addAttachment, setPermission, removeAttachment, people
    <2> QED
      BY <1>1, <2>1
  <1>8. ASSUME UNCHANGED vars
        PROVE  OpInv'
    <2>1. OpTypes' /\ ChangesKnown' /\ NoticedLevel'
      BY <1>8 DEF vars, people, derived, OpInv, OpTypes, ChangesKnown, NoticedLevel
    <2> QED
      BY <1>0, <2>1 DEF OpInv
  <1> QED
    BY <1>2, <1>3, <1>4, <1>5, <1>6, <1>7, <1>8 DEF Next, PermissibleStep

LEMMA OpInit ==
    ASSUME Init
    PROVE  OpInv
  <1>1. OpTypes /\ ChangesKnown /\ NoticedLevel
    BY PermissionsAssumption DEF Init, OpTypes, ChangesKnown, NoticedLevel
  <1> QED
    BY <1>1, SubscriptionInit DEF OpInv, SubscriptionInv

\* A change of op status that the game made behind the plugin manager's back is not lost:
\* while no recalculation has come between, either the player is subscribed to its real
\* level or the next checkOpStatus sees the difference.
THEOREM PermissionOpChangeIsNoticed == Spec => []OpChangeIsNoticed
  <1>1. Init => SubscriptionInv /\ OpInv
    BY SubscriptionInit, OpInit
  <1>2. SubscriptionInv /\ OpInv /\ [Next]_vars => (SubscriptionInv /\ OpInv)'
    BY SubscriptionNext, OpNext
  <1>3. OpInv => OpChangeIsNoticed
    <2> SUFFICES ASSUME OpInv, NEW p \in Player, p \in alive, p \notin hot, lastOp[p] = op[p]
                 PROVE  <<getPermissionLevel(p), p>> \in defSubs
      BY DEF OpChangeIsNoticed
    <2>1. <<LevelOf(lastOp[p]), p>> \in defSubs
      BY DEF OpInv, NoticedLevel
    <2>2. getPermissionLevel(p) = LevelOf(op[p])
      BY PermissionsAssumption DEF getPermissionLevel, LevelOf
    <2> QED
      BY <2>1, <2>2
  <1> QED
    BY <1>1, <1>2, <1>3, PTL DEF Spec

-----------------------------------------------------------------------------
(* The caches: what a recalculation computes *)

Walks == [Values -> [BOOLEAN -> [Values -> Values]]]
Steps == [Name -> [Values -> Values]]

\* A name that has a value keeps one, or gets one.
Grows(c, e) == \A n \in Name : c[n] # "unset" => e[n] # "unset"
WalkGrows(w) == \A kids \in Values, invert \in BOOLEAN, c \in Values : Grows(c, w[kids][invert][c])

\* The two caches are the same if the first has no value for the names in D.
SameOutside(D, c, e) == (\A n \in D : c[n] = "unset") => c = e
WalksAgree(D, w1, w2) ==
    \A kids \in Values, invert \in BOOLEAN, c \in Values :
        SameOutside(D, w1[kids][invert][c], w2[kids][invert][c])

\* A child's value is set.
WithValue(c, n, v) == [c EXCEPT ![n] = IF v THEN "true" ELSE "false"]

LEMMA WithValueFacts ==
    ASSUME NEW c \in Values, NEW n \in Name, NEW v
    PROVE  WithValue(c, n, v) \in Values /\ WithValue(c, n, v)[n] # "unset" /\ Grows(c, WithValue(c, n, v))
  BY DEF WithValue, Values, Value, Grows

LEMMA Negated ==
    ASSUME NEW v \in BOOLEAN
    PROVE  (~v) \in BOOLEAN
  OBVIOUS

\* One child: nothing, or its value and then its own children.
LEMMA ChildCases ==
    ASSUME NEW kin \in [Name -> Values], NEW kids \in Values, NEW invert \in BOOLEAN, NEW w \in Walks,
           NEW n \in Name, NEW c \in Values
    PROVE  /\ kids[n] = "unset" => Child(kin, kids, invert, w)[n][c] = c
           /\ kids[n] # "unset" => \E v \in BOOLEAN :
                 Child(kin, kids, invert, w)[n][c] = w[kin[n]][~v][WithValue(c, n, v)]
           /\ Child(kin, kids, invert, w)[n][c] \in Values
  <1> DEFINE v == (kids[n] = "true") # invert
  <1>1. v \in BOOLEAN
    OBVIOUS
  <1>2. Child(kin, kids, invert, w)[n][c] = IF kids[n] = "unset" THEN c ELSE w[kin[n]][~v][WithValue(c, n, v)]
    BY DEF Child, WithValue
  <1> HIDE DEF v
  <1>3. WithValue(c, n, v) \in Values /\ kin[n] \in Values
    BY WithValueFacts
  <1>4. w[kin[n]][~v][WithValue(c, n, v)] \in Values
    <2>1. \A x \in BOOLEAN : w[kin[n]][x][WithValue(c, n, v)] \in Values
      BY <1>3 DEF Walks
    <2>2. (~v) \in BOOLEAN
      BY <1>1, Negated
    <2> QED
      BY <2>1, <2>2, Zenon
  <1> QED
    BY <1>1, <1>2, <1>4

LEMMA ChildIsStep ==
    ASSUME NEW kin \in [Name -> Values], NEW kids \in Values, NEW invert \in BOOLEAN, NEW w \in Walks
    PROVE  Child(kin, kids, invert, w) \in Steps
  <1>1. \A n \in Name : \A c \in Values : Child(kin, kids, invert, w)[n][c] \in Values
    BY ChildCases
  <1>2. \A n \in Name : Child(kin, kids, invert, w)[n] = [c \in Values |-> Child(kin, kids, invert, w)[n][c]]
    BY DEF Child
  <1>3. Child(kin, kids, invert, w) = [n \in Name |-> Child(kin, kids, invert, w)[n]]
    BY DEF Child
  <1> HIDE DEF Child
  <1> QED
    BY <1>1, <1>2, <1>3 DEF Steps

\* All children: a walk, and one that grows if the recursion does.
LEMMA ChildrenFacts ==
    ASSUME NEW kin \in [Name -> Values], NEW w \in Walks
    PROVE  /\ Children(kin, w) \in Walks
           /\ WalkGrows(w) => WalkGrows(Children(kin, w))
           /\ \A kids \in Values, invert \in BOOLEAN, c \in Values :
                 Children(kin, w)[kids][invert][c] = Folded(Child(kin, kids, invert, w), c, NameOrder)
  <1>1. \A kids \in Values, invert \in BOOLEAN, c \in Values :
           Children(kin, w)[kids][invert][c] = Folded(Child(kin, kids, invert, w), c, NameOrder)
    BY DEF Children
  <1>2. NameOrder \in Seq(Name) /\ \A i \in 1 .. Len(NameOrder) : NameOrder[i] \in Name
    BY PermissionsAssumption
  <1>3. ASSUME NEW kids \in Values, NEW invert \in BOOLEAN, NEW c \in Values
        PROVE  /\ Folded(Child(kin, kids, invert, w), c, NameOrder) \in Values
               /\ WalkGrows(w) => Grows(c, Folded(Child(kin, kids, invert, w), c, NameOrder))
    <2> DEFINE f == Child(kin, kids, invert, w)
               I == {e \in Values : Grows(c, e)}
    <2>1. f \in [Name -> [Values -> Values]]
      BY ChildIsStep DEF Steps
    <2>2. c \in I
      BY DEF Grows
    <2>3. ASSUME WalkGrows(w), NEW n \in Name, NEW e \in Values, e \in I
          PROVE  f[n][e] \in I
      <3>1. CASE kids[n] = "unset"
        BY <2>3, <3>1, ChildCases
      <3>2. CASE kids[n] # "unset"
        <4>1. PICK v \in BOOLEAN : f[n][e] = w[kin[n]][~v][WithValue(e, n, v)]
          BY <3>2, ChildCases
        <4>2. Grows(e, WithValue(e, n, v)) /\ WithValue(e, n, v) \in Values /\ kin[n] \in Values
          BY WithValueFacts
        <4>3. Grows(WithValue(e, n, v), f[n][e])
          <5>1. \A x \in BOOLEAN : Grows(WithValue(e, n, v), w[kin[n]][x][WithValue(e, n, v)])
            BY <2>3, <4>2 DEF WalkGrows
          <5>2. (~v) \in BOOLEAN
            BY Negated
          <5>3. Grows(WithValue(e, n, v), w[kin[n]][~v][WithValue(e, n, v)])
            BY <5>1, <5>2, Zenon
          <5> QED
            BY <4>1, <5>3, Zenon
        <4>4. f[n][e] \in Values
          BY ChildCases
        <4> QED
          BY <2>3, <4>2, <4>3, <4>4 DEF Grows
      <3> QED
        BY <3>1, <3>2
    <2> HIDE DEF f, I
    <2>4. Folded(f, c, NameOrder) \in Values
      <3>1. \A i \in 1 .. Len(NameOrder) : \A e \in Values : e \in Values => f[NameOrder[i]][e] \in Values
        BY <1>2, <2>1
      <3> QED
        BY ONLY <1>2, <2>1, <3>1, c \in Values, FoldedKeeps
    <2>5. ASSUME WalkGrows(w) PROVE Folded(f, c, NameOrder) \in I
      <3>1. \A i \in 1 .. Len(NameOrder) : \A e \in Values : e \in I => f[NameOrder[i]][e] \in I
        BY <1>2, <2>3, <2>5
      <3> QED
        BY ONLY <1>2, <2>1, <2>2, <3>1, c \in Values, FoldedKeeps
    <2> QED
      BY <2>4, <2>5 DEF f, I
  <1>4. Children(kin, w) \in Walks
    BY <1>3 DEF Children, Walks
  <1>5. WalkGrows(w) => WalkGrows(Children(kin, w))
    BY <1>1, <1>3 DEF WalkGrows
  <1> QED
    BY <1>1, <1>4, <1>5

\* The recursion, depth by depth.
LEMMA CalculateFacts ==
    ASSUME NEW kin \in [Name -> Values]
    PROVE  /\ Calculate(kin)[0] = NoChildren
           /\ \A d \in Nat : Calculate(kin)[d + 1] = Children(kin, Calculate(kin)[d])
           /\ \A d \in Nat : Calculate(kin)[d] \in Walks
  <1> DEFINE F(u) == [d \in Nat |-> IF d = 0 THEN NoChildren ELSE Children(kin, u[d - 1])]
             G == [w \in Walks |-> Children(kin, w)]
  <1>1. NoChildren \in Walks
    BY DEF NoChildren, Walks
  <1>2. G \in [Walks -> Walks]
    BY ChildrenFacts
  <1>3. PICK h \in [Nat -> Walks] : h[0] = NoChildren /\ \A d \in Nat : h[d + 1] = G[h[d]]
    <2> HIDE DEF G
    <2>1. \E h \in [Nat -> Walks] : Leads(h, NoChildren, G)
      BY ONLY <1>1, <1>2, NatRecursion
    <2> QED
      BY <2>1 DEF Leads
  <1>4. \A d \in Nat : h[d + 1] = Children(kin, h[d])
    BY <1>3
  <1>5. h = F(h)
    <2> HIDE DEF G
    <2>1. \A d \in Nat : h[d] = IF d = 0 THEN NoChildren ELSE Children(kin, h[d - 1])
      <3> TAKE d \in Nat
      <3>1. CASE d = 0
        BY <1>3, <3>1
      <3>2. CASE d # 0
        <4>1. d - 1 \in Nat /\ (d - 1) + 1 = d
          BY <3>2
        <4> QED
          BY <1>4, <3>2, <4>1
      <3> QED
        BY <3>1, <3>2
    <2> QED
      BY <1>3, <2>1
  <1> DEFINE u == CHOOSE u : u = F(u)
  <1>6. u = F(u)
    BY <1>5
  <1>7. Calculate(kin) = u
    BY DEF Calculate
  <1>8. u[0] = NoChildren /\ \A d \in Nat : u[d + 1] = Children(kin, u[d])
    <2>1. \A d \in Nat : u[d] = IF d = 0 THEN NoChildren ELSE Children(kin, u[d - 1])
      <3> HIDE DEF u
      <3> QED
        BY <1>6
    <2> HIDE DEF u
    <2>2. \A d \in Nat : d + 1 \in Nat /\ d + 1 # 0 /\ (d + 1) - 1 = d
      OBVIOUS
    <2> QED
      BY <2>1, <2>2
  <1>9. \A d \in Nat : u[d] \in Walks
    <2> DEFINE S == {d \in Nat : u[d] \in Walks}
    <2> HIDE DEF u
    <2>1. 0 \in S
      BY <1>1, <1>8
    <2>2. \A d \in Nat : d \in S => d + 1 \in S
      BY <1>8, ChildrenFacts
    <2>3. \A d \in Nat : d \in S
      <3> HIDE DEF S
      <3> QED
        BY <2>1, <2>2, SetInduction
    <2> QED
      BY <2>3
  <1> HIDE DEF u
  <1> QED
    BY <1>7, <1>8, <1>9

LEMMA CalculateGrows ==
    ASSUME NEW kin \in [Name -> Values]
    PROVE  \A d \in Nat : WalkGrows(Calculate(kin)[d])
  <1> DEFINE S == {d \in Nat : WalkGrows(Calculate(kin)[d])}
  <1>1. 0 \in S
    <2>1. Calculate(kin)[0] = NoChildren
      BY CalculateFacts
    <2>2. WalkGrows(NoChildren)
      BY DEF NoChildren, WalkGrows, Grows
    <2> QED
      BY <2>1, <2>2
  <1>2. \A d \in Nat : d \in S => d + 1 \in S
    BY CalculateFacts, ChildrenFacts
  <1>3. \A d \in Nat : d \in S
    <2> HIDE DEF S
    <2> QED
      BY <1>1, <1>2, SetInduction
  <1> QED
    BY <1>3

\* Two recursions that agree but for caches with a value for a name in D, and kin that
\* differ for the names in D only: a name in D whose children were read has a value.
LEMMA ChildrenAgree ==
    ASSUME NEW D \in SUBSET Name, NEW kin \in [Name -> Values], NEW kin2 \in [Name -> Values],
           \A n \in Name \ D : kin[n] = kin2[n],
           NEW w1 \in Walks, NEW w2 \in Walks, WalkGrows(w1), WalksAgree(D, w1, w2)
    PROVE  WalksAgree(D, Children(kin, w1), Children(kin2, w2))
  <1>1. NameOrder \in Seq(Name) /\ \A i \in 1 .. Len(NameOrder) : NameOrder[i] \in Name
    BY PermissionsAssumption
  <1>2. ASSUME NEW kids \in Values, NEW invert \in BOOLEAN, NEW c \in Values
        PROVE  SameOutside(D, Folded(Child(kin, kids, invert, w1), c, NameOrder),
                              Folded(Child(kin2, kids, invert, w2), c, NameOrder))
    <2> DEFINE f == Child(kin, kids, invert, w1)
               g == Child(kin2, kids, invert, w2)
               R == {r \in Values \X Values : SameOutside(D, r[1], r[2])}
    <2>1. f \in [Name -> [Values -> Values]] /\ g \in [Name -> [Values -> Values]]
      BY ChildIsStep DEF Steps
    <2>2. ASSUME NEW n \in Name, NEW e1 \in Values, NEW e2 \in Values, SameOutside(D, e1, e2)
          PROVE  SameOutside(D, f[n][e1], g[n][e2])
      <3> SUFFICES ASSUME \A m \in D : f[n][e1][m] = "unset" PROVE f[n][e1] = g[n][e2]
        BY DEF SameOutside
      <3>1. CASE kids[n] = "unset"
        <4>1. f[n][e1] = e1 /\ g[n][e2] = e2
          BY <3>1, ChildCases
        <4> QED
          BY <2>2, <4>1 DEF SameOutside
      <3>2. CASE kids[n] # "unset"
        <4> DEFINE v == (kids[n] = "true") # invert
                   x == WithValue(e1, n, v)
                   y == WithValue(e2, n, v)
        <4>1. f[n][e1] = w1[kin[n]][~v][x] /\ g[n][e2] = w2[kin2[n]][~v][y]
          BY <3>2 DEF Child, WithValue
        <4>2. (~v) \in BOOLEAN
          OBVIOUS
        <4>3. x \in Values /\ x[n] # "unset" /\ Grows(e1, x) /\ y \in Values /\ kin[n] \in Values
          BY WithValueFacts
        <4> DEFINE i == ~v
        <4>4. i \in BOOLEAN /\ f[n][e1] = w1[kin[n]][i][x] /\ g[n][e2] = w2[kin2[n]][i][y]
          BY <4>1, <4>2
        <4> HIDE DEF f, g, v, i
        <4>5. Grows(x, f[n][e1])
          BY <4>3, <4>4 DEF WalkGrows
        <4>6. n \notin D
          BY <4>3, <4>5 DEF Grows
        <4>7. e1 = e2
          <5>1. \A m \in D : e1[m] = "unset"
            BY <4>3, <4>5 DEF Grows
          <5> QED
            BY <2>2, <5>1 DEF SameOutside
        <4>8. x = y /\ kin[n] = kin2[n]
          BY <4>6, <4>7
        <4>9. SameOutside(D, w1[kin[n]][i][x], w2[kin[n]][i][x])
          BY <4>3, <4>4 DEF WalksAgree
        <4> QED
          BY <4>4, <4>8, <4>9 DEF SameOutside
      <3> QED
        BY <3>1, <3>2
    <2>3. <<c, c>> \in R
      BY DEF SameOutside
    <2>4. StepsKeep(f, g, NameOrder, Values, R)
      <3> SUFFICES ASSUME NEW i \in 1 .. Len(NameOrder), NEW u \in Values, NEW v \in Values, <<u, v>> \in R
                   PROVE  <<f[NameOrder[i]][u], g[NameOrder[i]][v]>> \in R
        BY DEF StepsKeep
      <3>1. NameOrder[i] \in Name /\ SameOutside(D, u, v)
        BY <1>1
      <3>2. f[NameOrder[i]][u] \in Values /\ g[NameOrder[i]][v] \in Values
        BY <2>1, <3>1
      <3>3. SameOutside(D, f[NameOrder[i]][u], g[NameOrder[i]][v])
        BY <2>2, <3>1
      <3> HIDE DEF f, g
      <3> QED
        BY <3>2, <3>3
    <2>5. <<Folded(f, c, NameOrder), Folded(g, c, NameOrder)>> \in R
      <3> HIDE DEF f, g, R
      <3> QED
        BY ONLY <1>1, <2>1, <2>3, <2>4, c \in Values, FoldedRelated
    <2> QED
      BY <2>5
  <1> QED
    BY <1>2, ChildrenFacts DEF WalksAgree

LEMMA CalculateAgrees ==
    ASSUME NEW D \in SUBSET Name, NEW kin \in [Name -> Values], NEW kin2 \in [Name -> Values],
           \A n \in Name \ D : kin[n] = kin2[n]
    PROVE  \A d \in Nat : WalksAgree(D, Calculate(kin)[d], Calculate(kin2)[d])
  <1> DEFINE S == {d \in Nat : WalksAgree(D, Calculate(kin)[d], Calculate(kin2)[d])}
  <1>1. 0 \in S
    <2>1. Calculate(kin)[0] = Calculate(kin2)[0]
      BY CalculateFacts
    <2> QED
      BY <2>1 DEF WalksAgree, SameOutside
  <1>2. ASSUME NEW d \in Nat, d \in S PROVE d + 1 \in S
    <2>1. /\ Calculate(kin)[d] \in Walks /\ Calculate(kin2)[d] \in Walks
          /\ Calculate(kin)[d + 1] = Children(kin, Calculate(kin)[d])
          /\ Calculate(kin2)[d + 1] = Children(kin2, Calculate(kin2)[d])
          /\ WalkGrows(Calculate(kin)[d]) /\ WalksAgree(D, Calculate(kin)[d], Calculate(kin2)[d])
      BY <1>2, CalculateFacts, CalculateGrows
    <2>2. WalksAgree(D, Children(kin, Calculate(kin)[d]), Children(kin2, Calculate(kin2)[d]))
      BY <2>1, ChildrenAgree
    <2> QED
      BY <2>1, <2>2
  <1>3. \A d \in Nat : d \in S
    <2> HIDE DEF S
    <2> QED
      BY <1>1, <1>2, SetInduction
  <1> QED
    BY <1>3

-----------------------------------------------------------------------------
\* The two parts of Calculated.
FromDefault(kin, kidsOf) ==
    [m \in Perm |-> [c \in Values |->
        Calculate(kin)[Cardinality(Name)][kidsOf[m]][FALSE][[c EXCEPT ![PermName[m]] = "true"]]]]
FromAttachment(kin, gives) ==
    [a \in Attachment |-> [c \in Values |-> Calculate(kin)[Cardinality(Name)][gives[a]][FALSE][c]]]

LEMMA CalculatedIs ==
    ASSUME NEW kin, NEW kidsOf, NEW defaults, NEW gives, NEW atts
    PROVE  Calculated(kin, kidsOf, defaults, gives, atts) =
             Folded(FromAttachment(kin, gives), Folded(FromDefault(kin, kidsOf), None, defaults), atts)
  BY DEF Calculated, FromAttachment, FromDefault

LEMMA DepthIsNat == Cardinality(Name) \in Nat
  <1>1. NameOrder \in Seq(Name) /\ Len(NameOrder) = Cardinality(Name)
    BY PermissionsAssumption
  <1> QED
    BY <1>1

LEMMA NoneIsUnset == None \in Values /\ \A n \in Name : None[n] = "unset"
  BY DEF None, Values, Value

LEMMA WalkFacts ==
    ASSUME NEW w \in Walks, WalkGrows(w), NEW kids \in Values, NEW c \in Values
    PROVE  w[kids][FALSE][c] \in Values /\ Grows(c, w[kids][FALSE][c])
  <1>1. \A x \in BOOLEAN : w[kids][x][c] \in Values /\ Grows(c, w[kids][x][c])
    BY DEF Walks, WalkGrows
  <1> QED
    BY <1>1, Zenon

\* A default permission: its name gets a value, and what has one keeps one.
LEMMA FromDefaultFacts ==
    ASSUME NEW kin \in [Name -> Values], NEW kidsOf \in [Perm -> Values]
    PROVE  /\ FromDefault(kin, kidsOf) \in [Perm -> [Values -> Values]]
           /\ \A m \in Perm, c \in Values :
                 /\ Grows(c, FromDefault(kin, kidsOf)[m][c])
                 /\ FromDefault(kin, kidsOf)[m][c][PermName[m]] # "unset"
  <1> DEFINE w == Calculate(kin)[Cardinality(Name)]
  <1>1. w \in Walks /\ WalkGrows(w)
    BY CalculateFacts, CalculateGrows, DepthIsNat
  <1>2. FromDefault(kin, kidsOf) = [m \in Perm |-> [c \in Values |-> w[kidsOf[m]][FALSE][[c EXCEPT ![PermName[m]] = "true"]]]]
    BY DEF FromDefault
  <1> HIDE DEF w
  <1>3. ASSUME NEW m \in Perm, NEW c \in Values
        PROVE  /\ w[kidsOf[m]][FALSE][[c EXCEPT ![PermName[m]] = "true"]] \in Values
               /\ Grows(c, w[kidsOf[m]][FALSE][[c EXCEPT ![PermName[m]] = "true"]])
               /\ w[kidsOf[m]][FALSE][[c EXCEPT ![PermName[m]] = "true"]][PermName[m]] # "unset"
    <2> DEFINE e == [c EXCEPT ![PermName[m]] = "true"]
    <2>1. PermName[m] \in Name
      BY PermissionsAssumption
    <2>2. e \in Values /\ e[PermName[m]] # "unset" /\ Grows(c, e)
      BY <2>1 DEF Values, Value, Grows
    <2> HIDE DEF e
    <2>3. w[kidsOf[m]][FALSE][e] \in Values /\ Grows(e, w[kidsOf[m]][FALSE][e])
      BY <1>1, <2>2, WalkFacts
    <2>4. Grows(c, w[kidsOf[m]][FALSE][e]) /\ w[kidsOf[m]][FALSE][e][PermName[m]] # "unset"
      BY <2>1, <2>2, <2>3 DEF Grows
    <2> QED
      BY <2>3, <2>4 DEF e
  <1>4. \A m \in Perm, c \in Values :
           FromDefault(kin, kidsOf)[m][c] = w[kidsOf[m]][FALSE][[c EXCEPT ![PermName[m]] = "true"]]
    BY <1>2
  <1>5. FromDefault(kin, kidsOf) \in [Perm -> [Values -> Values]]
    <2>1. /\ FromDefault(kin, kidsOf) = [m \in Perm |-> FromDefault(kin, kidsOf)[m]]
          /\ \A m \in Perm : FromDefault(kin, kidsOf)[m] = [c \in Values |-> FromDefault(kin, kidsOf)[m][c]]
      BY <1>2
    <2>2. \A m \in Perm, c \in Values : FromDefault(kin, kidsOf)[m][c] \in Values
      BY <1>3, <1>4
    <2> QED
      BY <2>1, <2>2
  <1> QED
    BY <1>3, <1>4, <1>5

LEMMA FromAttachmentFacts ==
    ASSUME NEW kin \in [Name -> Values], NEW gives \in [Attachment -> Values]
    PROVE  /\ FromAttachment(kin, gives) \in [Attachment -> [Values -> Values]]
           /\ \A a \in Attachment, c \in Values : Grows(c, FromAttachment(kin, gives)[a][c])
  <1> DEFINE w == Calculate(kin)[Cardinality(Name)]
  <1>1. w \in Walks /\ WalkGrows(w)
    BY CalculateFacts, CalculateGrows, DepthIsNat
  <1>2. FromAttachment(kin, gives) = [a \in Attachment |-> [c \in Values |-> w[gives[a]][FALSE][c]]]
    BY DEF FromAttachment
  <1> HIDE DEF w
  <1>3. \A a \in Attachment, c \in Values : w[gives[a]][FALSE][c] \in Values /\ Grows(c, w[gives[a]][FALSE][c])
    BY <1>1, WalkFacts
  <1>4. \A a \in Attachment, c \in Values : FromAttachment(kin, gives)[a][c] = w[gives[a]][FALSE][c]
    BY <1>2
  <1>5. FromAttachment(kin, gives) \in [Attachment -> [Values -> Values]]
    BY <1>2, <1>3, Zenon
  <1> QED
    BY <1>3, <1>4, <1>5

\* What is calculated has a value for every default permission of the level.
LEMMA CalculatedFacts ==
    ASSUME NEW kin \in [Name -> Values], NEW kidsOf \in [Perm -> Values], NEW defaults \in Seq(Perm),
           NEW gives \in [Attachment -> Values], NEW atts \in Seq(Attachment)
    PROVE  /\ Calculated(kin, kidsOf, defaults, gives, atts) \in Values
           /\ \A m \in ToSet(defaults) : Calculated(kin, kidsOf, defaults, gives, atts)[PermName[m]] # "unset"
  <1> DEFINE f == FromDefault(kin, kidsOf)
             g == FromAttachment(kin, gives)
             N == Len(defaults)
             base == Folded(f, None, defaults)
             I == [i \in 0 .. N |-> {e \in Values : \A j \in 1 .. i : e[PermName[defaults[j]]] # "unset"}]
  <1>1. /\ f \in [Perm -> [Values -> Values]]
        /\ \A m \in Perm, c \in Values : Grows(c, f[m][c]) /\ f[m][c][PermName[m]] # "unset"
    BY FromDefaultFacts
  <1>2. g \in [Attachment -> [Values -> Values]] /\ \A a \in Attachment, c \in Values : Grows(c, g[a][c])
    BY FromAttachmentFacts
  <1>3. N \in Nat /\ None \in Values /\ PermName \in [Perm -> Name]
        /\ \A i \in 1 .. N : defaults[i] \in Perm
    BY NoneIsUnset, PermissionsAssumption
  <1> HIDE DEF f, g
  <1>4. base \in Values /\ base \in I[N]
    <2>1. None \in I[0]
      BY <1>3
    <2>2. ASSUME NEW i \in 1 .. N, NEW v \in Values, v \in I[i - 1] PROVE f[defaults[i]][v] \in I[i]
      <3> DEFINE e == f[defaults[i]][v]
      <3>1. e \in Values /\ Grows(v, e) /\ e[PermName[defaults[i]]] # "unset"
        BY <1>1, <1>3
      <3>2. i - 1 \in 0 .. N /\ i \in 0 .. N /\ \A j \in 1 .. i : j = i \/ j \in 1 .. i - 1
        BY <1>3
      <3>3. \A j \in 1 .. i - 1 : v[PermName[defaults[j]]] # "unset"
        BY <2>2, <3>2
      <3>4. \A j \in 1 .. i - 1 : PermName[defaults[j]] \in Name
        BY <1>3
      <3> HIDE DEF e
      <3>5. \A j \in 1 .. i : e[PermName[defaults[j]]] # "unset"
        BY <3>1, <3>2, <3>3, <3>4 DEF Grows
      <3>6. e \in I[i]
        BY <3>1, <3>2, <3>5
      <3> QED
        BY <3>6 DEF e
    <2> HIDE DEF I
    <2>3. \A i \in 1 .. Len(defaults) : \A v \in Values : v \in I[i - 1] => f[defaults[i]][v] \in I[i]
      BY <2>2
    <2> QED
      BY ONLY <1>1, <1>3, <2>1, <2>3, defaults \in Seq(Perm), FoldedPlaces
  <1>5. \A j \in 1 .. N : base[PermName[defaults[j]]] # "unset"
    BY <1>3, <1>4
  <1> DEFINE J == {e \in Values : Grows(base, e)}
  <1> HIDE DEF base
  <1>6. Folded(g, base, atts) \in Values /\ Folded(g, base, atts) \in J
    <2>1. base \in J
      BY <1>4 DEF Grows
    <2>2. \A i \in 1 .. Len(atts) : \A v \in Values : v \in J => g[atts[i]][v] \in J
      <3> SUFFICES ASSUME NEW i \in 1 .. Len(atts), NEW v \in Values, Grows(base, v) PROVE g[atts[i]][v] \in J
        OBVIOUS
      <3>1. atts[i] \in Attachment
        OBVIOUS
      <3>2. g[atts[i]][v] \in Values /\ Grows(v, g[atts[i]][v])
        BY <1>2, <3>1
      <3> QED
        BY <3>2 DEF Grows
    <2> HIDE DEF J
    <2> QED
      BY ONLY <1>2, <1>4, <2>1, <2>2, atts \in Seq(Attachment), FoldedKeeps
  <1>7. Calculated(kin, kidsOf, defaults, gives, atts) = Folded(g, base, atts)
    BY CalculatedIs DEF f, g, base
  <1>8. ASSUME NEW m \in ToSet(defaults)
        PROVE  Folded(g, base, atts)[PermName[m]] # "unset"
    <2>1. PICK j \in 1 .. N : m = defaults[j]
      BY DEF ToSet
    <2>2. PermName[m] \in Name /\ base[PermName[m]] # "unset"
      BY <1>3, <1>5, <2>1
    <2> QED
      BY <1>6, <2>2 DEF Grows
  <1> QED
    BY <1>6, <1>7, <1>8

\* A recalculation that gives the names in D no value does not depend on their children,
\* nor on permissions and attachments that are not the permissible's.
Indifferent(D, kin, kin2, kidsOf, kidsOf2, defaults, gives, gives2, atts) ==
    /\ \A n \in Name \ D : kin[n] = kin2[n]
    /\ \A m \in ToSet(defaults) : kidsOf[m] = kidsOf2[m]
    /\ \A a \in ToSet(atts) : gives[a] = gives2[a]
    /\ \A n \in D : Calculated(kin, kidsOf, defaults, gives, atts)[n] = "unset"

LEMMA CalculatedSame ==
    ASSUME NEW D \in SUBSET Name, NEW kin \in [Name -> Values], NEW kin2 \in [Name -> Values],
           NEW kidsOf \in [Perm -> Values], NEW kidsOf2 \in [Perm -> Values], NEW defaults \in Seq(Perm),
           NEW gives \in [Attachment -> Values], NEW gives2 \in [Attachment -> Values], NEW atts \in Seq(Attachment),
           Indifferent(D, kin, kin2, kidsOf, kidsOf2, defaults, gives, gives2, atts)
    PROVE  Calculated(kin2, kidsOf2, defaults, gives2, atts) = Calculated(kin, kidsOf, defaults, gives, atts)
  <1> DEFINE f == FromDefault(kin, kidsOf)
             g == FromAttachment(kin, gives)
             f2 == FromDefault(kin2, kidsOf2)
             g2 == FromAttachment(kin2, gives2)
             w == Calculate(kin)[Cardinality(Name)]
             w2 == Calculate(kin2)[Cardinality(Name)]
             R == {r \in Values \X Values : SameOutside(D, r[1], r[2])}
  <1>1. /\ f \in [Perm -> [Values -> Values]] /\ f2 \in [Perm -> [Values -> Values]]
        /\ \A m \in Perm, c \in Values : Grows(c, f[m][c])
    BY FromDefaultFacts
  <1>2. /\ g \in [Attachment -> [Values -> Values]] /\ g2 \in [Attachment -> [Values -> Values]]
        /\ \A a \in Attachment, c \in Values : Grows(c, g[a][c])
    BY FromAttachmentFacts
  <1>0. /\ \A n \in Name \ D : kin[n] = kin2[n]
        /\ \A m \in ToSet(defaults) : kidsOf[m] = kidsOf2[m]
        /\ \A a \in ToSet(atts) : gives[a] = gives2[a]
        /\ \A n \in D : Calculated(kin, kidsOf, defaults, gives, atts)[n] = "unset"
    BY DEF Indifferent
  <1>3. WalksAgree(D, w, w2)
    BY <1>0, CalculateAgrees, DepthIsNat
  <1>4. \A kids \in Values, c \in Values : SameOutside(D, w[kids][FALSE][c], w2[kids][FALSE][c])
    <2> HIDE DEF w, w2
    <2>1. \A kids \in Values, x \in BOOLEAN, c \in Values : SameOutside(D, w[kids][x][c], w2[kids][x][c])
      BY <1>3 DEF WalksAgree
    <2> QED
      BY <2>1, Zenon
  <1>5. /\ \A m \in Perm, c \in Values :
              /\ f[m][c] = w[kidsOf[m]][FALSE][[c EXCEPT ![PermName[m]] = "true"]]
              /\ f2[m][c] = w2[kidsOf2[m]][FALSE][[c EXCEPT ![PermName[m]] = "true"]]
        /\ \A a \in Attachment, c \in Values :
              /\ g[a][c] = w[gives[a]][FALSE][c]
              /\ g2[a][c] = w2[gives2[a]][FALSE][c]
    BY DEF FromDefault, FromAttachment
  <1> HIDE DEF f, f2, g, g2, w, w2
  \* What has a value for a name in D has one to the end: before that, the two agree.
  <1>a. ASSUME NEW u \in Values, NEW v \in Values, SameOutside(D, u, v),
               NEW x, NEW y, Grows(u, x), u = v => SameOutside(D, x, y)
        PROVE  SameOutside(D, x, y)
    <2> SUFFICES ASSUME \A n \in D : x[n] = "unset" PROVE x = y
      BY DEF SameOutside
    <2>1. u = v
      BY <1>a DEF SameOutside, Grows
    <2> QED
      BY <1>a, <2>1 DEF SameOutside
  <1>6. <<Folded(f, None, defaults), Folded(f2, None, defaults)>> \in R
    <2>0. f \in [Perm -> [Values -> Values]] /\ f2 \in [Perm -> [Values -> Values]]
      BY <1>1
    <2>1. None \in Values /\ <<None, None>> \in R
      BY NoneIsUnset DEF SameOutside
    <2>2. StepsKeep(f, f2, defaults, Values, R)
      <3> SUFFICES ASSUME NEW i \in 1 .. Len(defaults), NEW u \in Values, NEW v \in Values, SameOutside(D, u, v)
                   PROVE  <<f[defaults[i]][u], f2[defaults[i]][v]>> \in R
        BY DEF StepsKeep
      <3> DEFINE m == defaults[i]
                 x == f[m][u]
                 y == f2[m][v]
      <3>1. m \in Perm /\ kidsOf[m] = kidsOf2[m] /\ kidsOf[m] \in Values
        BY <1>0 DEF ToSet
      <3>2. x \in Values /\ y \in Values /\ Grows(u, x)
        BY <1>1, <3>1
      <3>3. SameOutside(D, f[m][u], f2[m][u])
        <4> DEFINE e == [u EXCEPT ![PermName[m]] = "true"]
        <4>1. e \in Values
          BY <3>1 DEF Values, Value
        <4> HIDE DEF m
        <4>2. f[m][u] = w[kidsOf[m]][FALSE][e] /\ f2[m][u] = w2[kidsOf2[m]][FALSE][e]
          BY <1>5, <3>1
        <4> HIDE DEF e
        <4>3. SameOutside(D, w[kidsOf[m]][FALSE][e], w2[kidsOf[m]][FALSE][e])
          BY <1>4, <3>1, <4>1
        <4> QED
          BY <3>1, <4>2, <4>3
      <3>4. u = v => SameOutside(D, x, y)
        BY <3>3
      <3> HIDE DEF x, y
      <3>6. SameOutside(D, x, y)
        BY <1>a, <3>2, <3>4
      <3>5. <<x, y>> \in R
        BY <3>2, <3>6
      <3> QED
        BY <3>5 DEF x, y
    <2> HIDE DEF R
    <2> QED
      BY ONLY <2>0, <2>1, <2>2, defaults \in Seq(Perm), FoldedRelated
  <1> DEFINE b == Folded(f, None, defaults)
             b2 == Folded(f2, None, defaults)
  <1>7. b \in Values /\ b2 \in Values
    BY <1>6
  <1> HIDE DEF b, b2
  <1>8. <<Folded(g, b, atts), Folded(g2, b2, atts)>> \in R
    <2>0. g \in [Attachment -> [Values -> Values]] /\ g2 \in [Attachment -> [Values -> Values]]
      BY <1>2
    <2>1. <<b, b2>> \in R
      BY <1>6 DEF b, b2
    <2>2. StepsKeep(g, g2, atts, Values, R)
      <3> SUFFICES ASSUME NEW i \in 1 .. Len(atts), NEW u \in Values, NEW v \in Values, SameOutside(D, u, v)
                   PROVE  <<g[atts[i]][u], g2[atts[i]][v]>> \in R
        BY DEF StepsKeep
      <3> DEFINE a == atts[i]
                 x == g[a][u]
                 y == g2[a][v]
      <3>1. a \in Attachment /\ gives[a] = gives2[a] /\ gives[a] \in Values
        BY <1>0 DEF ToSet
      <3>2. x \in Values /\ y \in Values /\ Grows(u, x)
        BY <1>2, <3>1
      <3>3. SameOutside(D, g[a][u], g2[a][u])
        <4> HIDE DEF a
        <4>1. g[a][u] = w[gives[a]][FALSE][u] /\ g2[a][u] = w2[gives2[a]][FALSE][u]
          BY <1>5, <3>1
        <4>2. SameOutside(D, w[gives[a]][FALSE][u], w2[gives[a]][FALSE][u])
          BY <1>4, <3>1
        <4> QED
          BY <3>1, <4>1, <4>2
      <3>4. u = v => SameOutside(D, x, y)
        BY <3>3
      <3> HIDE DEF x, y
      <3>6. SameOutside(D, x, y)
        BY <1>a, <3>2, <3>4
      <3>5. <<x, y>> \in R
        BY <3>2, <3>6
      <3> QED
        BY <3>5 DEF x, y
    <2> HIDE DEF R
    <2> QED
      BY ONLY <1>7, <2>0, <2>1, <2>2, atts \in Seq(Attachment), FoldedRelated
  <1>9. /\ Calculated(kin, kidsOf, defaults, gives, atts) = Folded(g, b, atts)
        /\ Calculated(kin2, kidsOf2, defaults, gives2, atts) = Folded(g2, b2, atts)
    BY CalculatedIs DEF f, g, f2, g2, b, b2
  <1>10. SameOutside(D, Folded(g, b, atts), Folded(g2, b2, atts))
    BY <1>8
  <1> QED
    BY <1>0, <1>9, <1>10 DEF SameOutside

-----------------------------------------------------------------------------
(* The caches: they are up to date *)

CacheTypes ==
    /\ children \in [Perm -> Values]
    /\ given \in [Attachment -> Values]

\* An attachment belongs to one permissible.
AttachedOnce ==
    \A p, q \in Permissible : p # q => ToSet(attachments[p]) \cap ToSet(attachments[q]) = {}

\* Who has not been left behind is subscribed to its level.
LevelKnown == \A p \in alive \ stale : <<getPermissionLevel(p), p>> \in defSubs

Fresh == \A p \in alive \ stale : cache[p] = Effective(p)

CacheInv == RegistryInv /\ SubscriptionInv /\ OpInv /\ CacheTypes /\ AttachedOnce /\ LevelKnown /\ Fresh

\* The types of all that goes into a recalculation.
Ingredients ==
    /\ Kin \in [Name -> Values]
    /\ children \in [Perm -> Values]
    /\ given \in [Attachment -> Values]
    /\ \A l \in Level : tables[l] \in Seq(Perm)
    /\ \A p \in Permissible : attachments[p] \in Seq(Attachment)

LEMMA IngredientTypes ==
    ASSUME RegistryInv, SubscriptionInv, CacheTypes
    PROVE  Ingredients
  <1>1. \A n \in Name : getPermission(n) \subseteq Perm
    BY DEF getPermission, RegistryInv, RegistryTypes
  <1>2. Kin \in [Name -> Values]
    <2>1. ASSUME NEW n \in Name
          PROVE  (IF getPermission(n) = {} THEN None ELSE children[CHOOSE m \in getPermission(n) : TRUE]) \in Values
      <3>1. CASE getPermission(n) = {}
        BY <3>1, NoneIsUnset
      <3>2. CASE getPermission(n) # {}
        <4>1. (CHOOSE m \in getPermission(n) : TRUE) \in Perm
          BY <1>1, <3>2
        <4> QED
          BY <3>2, <4>1 DEF CacheTypes
      <3> QED
        BY <3>1, <3>2
    <2> QED
      BY <2>1 DEF Kin
  <1> QED
    BY <1>2 DEF Ingredients, CacheTypes, RegistryInv, RegistryTypes, SubscriptionInv, SubscriptionTypes

LEMMA LevelsAreLevels == \A p : getPermissionLevel(p) \in Level
  BY DEF getPermissionLevel, Level

\* The names of a fresh cache are those its permissible is subscribed to, and the default
\* permissions of its level are among them.
LEMMA FreshNames ==
    ASSUME CacheInv, NEW p \in alive \ stale
    PROVE  /\ \A n \in Name : p \notin Subscribers(n) => Effective(p)[n] = "unset"
           /\ \A m \in ToSet(tables[getPermissionLevel(p)]) : p \in Subscribers(PermName[m])
           /\ \A ls : getPermissionLevel(p) \in ls => p \in DefaultSubscribers(ls)
  <1>1. p \in Permissible /\ cache[p] = Effective(p)
    BY DEF CacheInv, Fresh, SubscriptionInv, SubscriptionTypes
  <1>2. \A n \in Name : <<n, p>> \in permSubs <=> Effective(p)[n] # "unset"
    BY <1>1 DEF CacheInv, SubscriptionInv, SubscriptionsExact
  <1>3. \A n \in Name : p \in Subscribers(n) <=> Effective(p)[n] # "unset"
    BY <1>1, <1>2 DEF Subscribers
  <1>4. ASSUME NEW m \in ToSet(tables[getPermissionLevel(p)])
        PROVE  p \in Subscribers(PermName[m])
    <2>1. Ingredients
      BY IngredientTypes DEF CacheInv
    <2>2. tables[getPermissionLevel(p)] \in Seq(Perm) /\ attachments[p] \in Seq(Attachment)
      BY <1>1, <2>1, LevelsAreLevels DEF Ingredients
    <2>3. PermName[m] \in Name
      BY <2>2, ElementTypes, PermissionsAssumption
    <2>4. Calculated(Kin, children, tables[getPermissionLevel(p)], given, attachments[p])[PermName[m]] # "unset"
      BY <2>1, <2>2, CalculatedFacts DEF Ingredients
    <2> QED
      BY <1>3, <2>3, <2>4 DEF Effective
  <1>5. ASSUME NEW ls, getPermissionLevel(p) \in ls PROVE p \in DefaultSubscribers(ls)
    BY <1>1, <1>5 DEF CacheInv, LevelKnown, DefaultSubscribers
  <1> QED
    BY <1>3, <1>4, <1>5

\* A fresh cache stays what a recalculation would give if the change concerns names D
\* that are not in it, and neither its level's table nor its attachments.
LEMMA EffectiveStays ==
    ASSUME CacheInv, Ingredients', NEW p \in alive \ stale, NEW D \in SUBSET Name,
           \A n \in D : p \notin Subscribers(n),
           \A n \in Name \ D : Kin'[n] = Kin[n],
           \A m \in ToSet(tables[getPermissionLevel(p)]) : children'[m] = children[m],
           getPermissionLevel(p)' = getPermissionLevel(p),
           tables'[getPermissionLevel(p)] = tables[getPermissionLevel(p)],
           attachments'[p] = attachments[p],
           \A a \in ToSet(attachments[p]) : given'[a] = given[a]
    PROVE  Effective(p)' = Effective(p)
  <1>1. Ingredients /\ p \in Permissible
    BY IngredientTypes DEF CacheInv, SubscriptionInv, SubscriptionTypes
  <1> DEFINE tb == tables[getPermissionLevel(p)]
             at == attachments[p]
  <1>2. tb \in Seq(Perm) /\ at \in Seq(Attachment)
    BY <1>1, LevelsAreLevels DEF Ingredients
  <1>3. /\ Kin \in [Name -> Values] /\ Kin' \in [Name -> Values]
        /\ children \in [Perm -> Values] /\ children' \in [Perm -> Values]
        /\ given \in [Attachment -> Values] /\ given' \in [Attachment -> Values]
    BY <1>1 DEF Ingredients
  <1>4. Effective(p) = Calculated(Kin, children, tb, given, at)
    BY DEF Effective
  <1>5. Effective(p)' = Calculated(Kin', children', tb, given', at)
    BY DEF Effective
  <1>6. \A n \in D : Calculated(Kin, children, tb, given, at)[n] = "unset"
    BY <1>4, FreshNames
  <1>7. (\A m \in ToSet(tb) : children[m] = children'[m]) /\ (\A a \in ToSet(at) : given[a] = given'[a])
    OBVIOUS
  <1> HIDE DEF tb, at
  <1>8. \A n \in Name \ D : Kin[n] = Kin'[n]
    OBVIOUS
  <1>9. Calculated(Kin', children', tb, given', at) = Calculated(Kin, children, tb, given, at)
    <2>1. Indifferent(D, Kin, Kin', children, children', tb, given, given', at)
      BY <1>6, <1>7, <1>8 DEF Indifferent
    <2> QED
      BY ONLY D \in SUBSET Name, <1>2, <1>3, <2>1, CalculatedSame
  <1> QED
    BY <1>4, <1>5, <1>9

\* After a recalculation of rs everyone is fresh who was, and is not left behind, if those
\* whom the change concerns are recalculated or left behind.
LEMMA RecalculateFresh ==
    ASSUME CacheInv, NEW rs, NEW left, Recalculate(rs, left), rs \subseteq Permissible,
           alive' \subseteq alive \cup rs,
           \A p \in alive \ stale : p \notin rs \cup left =>
               getPermissionLevel(p)' = getPermissionLevel(p) /\ Effective(p)' = Effective(p)
    PROVE  LevelKnown' /\ Fresh'
  <1>1. /\ \A p \in Permissible \ rs : cache'[p] = cache[p]
        /\ \A l \in Level, p \in Permissible \ rs : <<l, p>> \in defSubs' <=> <<l, p>> \in defSubs
        /\ \A l \in Level, p \in rs : <<l, p>> \in defSubs' <=> l = getPermissionLevel(p)'
    BY RecalculatedPairs DEF CacheInv, SubscriptionInv
  <1>2. \A p \in rs : cache'[p] = Effective(p)'
    BY DEF Recalculate
  <1>3. stale' = (stale \cup left) \ rs
    BY DEF Recalculate
  <1>4. \A p : getPermissionLevel(p)' \in Level
    BY DEF getPermissionLevel, Level
  <1> SUFFICES ASSUME NEW p \in alive' \ stale'
               PROVE  <<getPermissionLevel(p)', p>> \in defSubs' /\ cache'[p] = Effective(p)'
    BY DEF LevelKnown, Fresh
  <1>5. CASE p \in rs
    BY <1>1, <1>2, <1>4, <1>5
  <1>6. CASE p \notin rs
    <2>1. p \in alive \ stale /\ p \notin rs \cup left /\ p \in Permissible \ rs
      BY <1>3, <1>6 DEF CacheInv, SubscriptionInv, SubscriptionTypes
    <2>2. <<getPermissionLevel(p), p>> \in defSubs /\ cache[p] = Effective(p)
      BY <2>1 DEF CacheInv, LevelKnown, Fresh
    <2>3. getPermissionLevel(p)' = getPermissionLevel(p) /\ Effective(p)' = Effective(p)
      BY <2>1
    <2> QED
      BY <1>1, <1>4, <2>1, <2>2, <2>3
  <1> QED
    BY <1>5, <1>6

LEMMA IngredientsNext == (RegistryInv /\ SubscriptionInv /\ CacheTypes)' => Ingredients'
  <1>1. RegistryInv /\ SubscriptionInv /\ CacheTypes => Ingredients
    BY IngredientTypes
  <1> QED
    BY <1>1, PTL

\* The children of a name change only with the permission registered under it.
LEMMA KinKept ==
    ASSUME RegistryTypes, NEW D \in SUBSET Name,
           \A n \in Name \ D : getPermission(n)' = getPermission(n),
           \A m \in Perm : PermName[m] \in D \/ children'[m] = children[m]
    PROVE  \A n \in Name \ D : Kin'[n] = Kin[n]
  <1> SUFFICES ASSUME NEW n \in Name \ D PROVE Kin'[n] = Kin[n]
    OBVIOUS
  <1>1. /\ Kin[n] = IF getPermission(n) = {} THEN None ELSE children[CHOOSE m \in getPermission(n) : TRUE]
        /\ Kin'[n] = IF getPermission(n)' = {} THEN None ELSE children'[CHOOSE m \in getPermission(n)' : TRUE]
    BY DEF Kin
  <1> DEFINE g == getPermission(n)
             x == CHOOSE m \in g : TRUE
  <1>2. Kin'[n] = IF g = {} THEN None ELSE children'[x]
    BY <1>1, Zenon
  <1>3. \A m \in g : children'[m] = children[m]
    BY DEF getPermission, RegistryTypes
  <1>4. g # {} => x \in g
    OBVIOUS
  <1>5. Kin[n] = IF g = {} THEN None ELSE children[x]
    BY <1>1
  <1> HIDE DEF g, x
  <1> QED
    BY <1>2, <1>3, <1>4, <1>5

\* Who is fresh and neither recalculated nor left behind: the change of the names in D
\* does not concern it.
Unconcerned(D, rs, left) ==
    \A p \in alive \ stale : p \notin rs \cup left =>
        /\ \A n \in D : p \notin Subscribers(n)
        /\ tables'[getPermissionLevel(p)] = tables[getPermissionLevel(p)]

LEMMA RegistryFresh ==
    ASSUME CacheInv, Ingredients', UNCHANGED people, NEW D \in SUBSET Name,
           NEW rs, NEW left, Recalculate(rs, left), rs \subseteq Permissible,
           \A n \in Name \ D : getPermission(n)' = getPermission(n),
           \A m \in Perm : PermName[m] \in D \/ children'[m] = children[m],
           Unconcerned(D, rs, left)
    PROVE  LevelKnown' /\ Fresh'
  <1>1. \A n \in Name \ D : Kin'[n] = Kin[n]
    BY KinKept DEF CacheInv, RegistryInv
  <1>2. alive' = alive /\ attachments' = attachments /\ given' = given /\ op' = op
    BY DEF people
  <1>3. \A p : getPermissionLevel(p)' = getPermissionLevel(p)
    BY <1>2 DEF getPermissionLevel
  <1>4. ASSUME NEW p \in alive \ stale, p \notin rs \cup left
        PROVE  Effective(p)' = Effective(p)
    <2>1. /\ \A n \in D : p \notin Subscribers(n)
          /\ tables'[getPermissionLevel(p)] = tables[getPermissionLevel(p)]
      BY <1>4 DEF Unconcerned
    <2>2. ASSUME NEW m \in ToSet(tables[getPermissionLevel(p)])
          PROVE  children'[m] = children[m]
      <3>1. m \in Perm
        BY LevelsAreLevels, ElementTypes DEF CacheInv, RegistryInv, RegistryTypes
      <3>2. p \in Subscribers(PermName[m])
        BY FreshNames
      <3> QED
        BY <2>1, <3>1, <3>2
    <2>3. getPermissionLevel(p)' = getPermissionLevel(p)
      BY <1>3
    <2> QED
      BY <1>1, <1>2, <2>1, <2>2, <2>3, EffectiveStays
  <1> QED
    BY <1>2, <1>3, <1>4, RecalculateFresh

\* A permissible's own step: the registry is as it was, and so are those it does not
\* recalculate.
LEMMA PermissibleFresh ==
    ASSUME CacheInv, Ingredients', UNCHANGED registry,
           NEW rs, NEW left, Recalculate(rs, left), rs \subseteq Permissible,
           alive' \subseteq alive \cup rs,
           \A p \in alive \ stale : p \notin rs \cup left =>
               /\ getPermissionLevel(p)' = getPermissionLevel(p)
               /\ attachments'[p] = attachments[p]
               /\ \A a \in ToSet(attachments[p]) : given'[a] = given[a]
    PROVE  LevelKnown' /\ Fresh'
  <1>1. Kin' = Kin /\ children' = children /\ tables' = tables
    BY DEF registry, Kin, getPermission
  <1>2. ASSUME NEW p \in alive \ stale, p \notin rs \cup left
        PROVE  getPermissionLevel(p)' = getPermissionLevel(p) /\ Effective(p)' = Effective(p)
    <2>1. /\ getPermissionLevel(p)' = getPermissionLevel(p)
          /\ attachments'[p] = attachments[p]
          /\ \A a \in ToSet(attachments[p]) : given'[a] = given[a]
      BY <1>2
    <2>2. {} \in SUBSET Name /\ (\A n \in {} : p \notin Subscribers(n)) /\ \A n \in Name \ {} : Kin'[n] = Kin[n]
      BY <1>1
    <2>3. tables'[getPermissionLevel(p)] = tables[getPermissionLevel(p)]
      BY <1>1
    <2>4. \A m \in ToSet(tables[getPermissionLevel(p)]) : children'[m] = children[m]
      BY <1>1
    <2>5. Effective(p)' = Effective(p)
      BY <2>1, <2>2, <2>3, <2>4, EffectiveStays
    <2> QED
      BY <2>1, <2>5
  <1> QED
    BY <1>2, RecalculateFresh

\* A table that does not hold a permission is as it was after erasing it, and a table
\* that it does not go into after inserting it.
LEMMA TablesElsewhere ==
    ASSUME NEW tb \in [Level -> Seq(Perm)], NEW m \in Perm, NEW d, NEW l \in Level
    PROVE  /\ l \notin Dirties(d) => Inserted(tb, m, d)[l] = tb[l]
           /\ m \notin ToSet(tb[l]) => Erased(tb, m)[l] = tb[l]
  <1>1. l \notin Dirties(d) => Inserted(tb, m, d)[l] = tb[l]
    BY DEF Inserted, Dirties
  <1>2. ASSUME m \notin ToSet(tb[l])
        PROVE  Erased(tb, m)[l] = tb[l]
    <2>1. tb[l] \in Seq(Perm)
      OBVIOUS
    <2>2. \A i \in 1 .. Len(tb[l]) : tb[l][i] \in Perm \ {m}
      BY <1>2, <2>1 DEF ToSet
    <2>3. OnlyIn(tb[l], Perm \ {m}) = tb[l]
      BY <2>1, <2>2, OnlyInAll
    <2> QED
      BY <2>3 DEF Erased
  <1> QED
    BY <1>1, <1>2

\* Taking a permission out of the tables and putting it back moves it only in tables whose
\* permissibles it, or its new default, concerns.
LEMMA MovedTables ==
    ASSUME CacheInv, NEW p \in alive \ stale, NEW m \in Perm, NEW d,
           p \notin DefaultSubscribers(Dirties(d)) \cup Subscribers(PermName[m]),
           NEW tb \in [Level -> Seq(Perm)], tb[getPermissionLevel(p)] = tables[getPermissionLevel(p)]
    PROVE  Inserted(Erased(tb, m), m, d)[getPermissionLevel(p)] = tables[getPermissionLevel(p)]
  <1> DEFINE l == getPermissionLevel(p)
  <1>1. l \in Level
    BY LevelsAreLevels
  <1>2. l \notin Dirties(d) /\ m \notin ToSet(tables[l])
    BY FreshNames
  <1>3. Erased(tb, m) \in [Level -> Seq(Perm)]
    BY ErasedFacts
  <1> HIDE DEF l
  <1>4. Erased(tb, m)[l] = tb[l] /\ tb[l] = tables[l]
    BY <1>1, <1>2, TablesElsewhere DEF l
  <1>5. Inserted(Erased(tb, m), m, d)[l] = Erased(tb, m)[l]
    BY <1>1, <1>2, <1>3, TablesElsewhere
  <1> QED
    BY <1>4, <1>5 DEF l

LEMMA AddFresh ==
    ASSUME CacheInv, Ingredients', NEW m \in Perm, NEW d, NEW kids,
           addPermission(m, d, kids) \/ addDescribed(m, d, kids)
    PROVE  LevelKnown' /\ Fresh'
  <1>0. PermName[m] \in Name /\ tables \in [Level -> Seq(Perm)]
    BY PermissionsAssumption DEF CacheInv, RegistryInv, RegistryTypes
  <1> DEFINE D == {PermName[m]}
  <1>1. Add(m, d, kids) /\ UNCHANGED people
    BY DEF addPermission, addDescribed
  <1>2. PICK rs, left : /\ Recalculate(rs, left)
                        /\ \/ rs = DefaultSubscribers(Dirties(d)) /\ left = Subscribers(PermName[m])
                           \/ rs = DefaultSubscribers(Level) /\ left = {}
    BY DEF addPermission, addDescribed
  <1>3. rs \subseteq Permissible
    BY <1>2 DEF DefaultSubscribers
  <1>4. \A n \in Name \ D : getPermission(n)' = getPermission(n)
    BY <1>1 DEF Add, getPermission
  <1>5. \A x \in Perm : PermName[x] \in D \/ children'[x] = children[x]
    BY <1>1 DEF Add, CacheInv, CacheTypes
  <1>6. Unconcerned(D, rs, left)
    <2> SUFFICES ASSUME NEW p \in alive \ stale, p \notin rs \cup left
                 PROVE  /\ p \notin Subscribers(PermName[m])
                        /\ tables'[getPermissionLevel(p)] = tables[getPermissionLevel(p)]
      BY DEF Unconcerned
    <2>1. getPermissionLevel(p) \in Level /\ \A ls : getPermissionLevel(p) \in ls => p \in DefaultSubscribers(ls)
      BY LevelsAreLevels, FreshNames
    <2>2. rs = DefaultSubscribers(Dirties(d)) /\ left = Subscribers(PermName[m])
      BY <1>2, <2>1
    <2>3. getPermissionLevel(p) \notin Dirties(d)
      BY <2>1, <2>2
    <2>4. Inserted(tables, m, d)[getPermissionLevel(p)] = tables[getPermissionLevel(p)]
      BY <1>0, <2>1, <2>3, TablesElsewhere
    <2> QED
      BY <1>1, <2>2, <2>4 DEF Add
  <1>7. D \in SUBSET Name
    BY <1>0
  <1> HIDE DEF D
  <1> QED
    BY <1>1, <1>2, <1>3, <1>4, <1>5, <1>6, <1>7, RegistryFresh

LEMMA RegisterUnderFresh ==
    ASSUME CacheInv, Ingredients', NEW m \in Perm, NEW parent \in Perm, NEW d, registerUnder(m, d, parent)
    PROVE  LevelKnown' /\ Fresh'
  <1> DEFINE D == {PermName[m], PermName[parent]}
             rs == DefaultSubscribers(Dirties(d) \cup Dirties(default[parent])) \cup Subscribers(PermName[parent])
             left == Subscribers(PermName[m])
             t1 == Inserted(tables, m, d)
  <1>0. PermName[m] \in Name /\ PermName[parent] \in Name /\ tables \in [Level -> Seq(Perm)]
    BY PermissionsAssumption DEF CacheInv, RegistryInv, RegistryTypes
  <1>1. /\ UNCHANGED people /\ Recalculate(rs, left)
        /\ registered' = registered \cup {m}
        /\ children' = [children EXCEPT ![m] = None, ![parent][PermName[m]] = "true"]
        /\ tables' = Inserted(Erased(t1, parent), parent, default[parent])
    BY DEF registerUnder
  <1>2. t1 \in [Level -> Seq(Perm)]
    BY <1>0, InsertedFacts
  <1>3. rs \subseteq Permissible
    BY DEF DefaultSubscribers, Subscribers
  <1>4. \A n \in Name \ D : getPermission(n)' = getPermission(n)
    BY <1>1 DEF getPermission
  <1>5. \A x \in Perm : PermName[x] \in D \/ children'[x] = children[x]
    <2> SUFFICES ASSUME NEW x \in Perm, x # m, x # parent PROVE children'[x] = children[x]
      OBVIOUS
    <2> QED
      BY <1>1 DEF CacheInv, CacheTypes
  <1>6. Unconcerned(D, rs, left)
    <2> SUFFICES ASSUME NEW p \in alive \ stale, p \notin rs \cup left
                 PROVE  /\ \A n \in D : p \notin Subscribers(n)
                        /\ tables'[getPermissionLevel(p)] = tables[getPermissionLevel(p)]
      BY DEF Unconcerned
    <2> DEFINE l == getPermissionLevel(p)
    <2>1. l \in Level /\ \A ls : l \in ls => p \in DefaultSubscribers(ls)
      BY LevelsAreLevels, FreshNames
    <2>2. p \notin DefaultSubscribers(Dirties(d) \cup Dirties(default[parent])) /\ p \notin Subscribers(PermName[parent])
      OBVIOUS
    <2>3. l \notin Dirties(d) /\ l \notin Dirties(default[parent])
      <3>1. l \notin Dirties(d) \cup Dirties(default[parent])
        BY <2>1, <2>2
      <3> QED
        BY <3>1
    <2>4. t1[l] = tables[l]
      BY <1>0, <2>1, <2>3, TablesElsewhere
    <2>5. p \notin DefaultSubscribers(Dirties(default[parent])) \cup Subscribers(PermName[parent])
      BY <2>2 DEF DefaultSubscribers
    <2> HIDE DEF t1, rs, left
    <2>6. Inserted(Erased(t1, parent), parent, default[parent])[l] = tables[l]
      BY <1>2, <2>4, <2>5, MovedTables
    <2> QED
      BY <1>1, <2>2, <2>6 DEF left
  <1>7. D \in SUBSET Name
    BY <1>0
  <1> HIDE DEF D, rs, left, t1
  <1> QED
    BY <1>1, <1>3, <1>4, <1>5, <1>6, <1>7, RegistryFresh

LEMMA RemoveFresh ==
    ASSUME CacheInv, Ingredients', NEW n \in Name, removePermission(n)
    PROVE  LevelKnown' /\ Fresh'
  <1> DEFINE D == {n}
             left == Subscribers(n)
  <1>1. /\ UNCHANGED people /\ UNCHANGED tables /\ Recalculate({}, left)
        /\ registered' = registered \ getPermission(n)
        /\ children' = [m \in Perm |-> IF m \in getPermission(n) THEN None ELSE children[m]]
    BY DEF removePermission, Free
  <1>2. \A x \in Name \ D : getPermission(x)' = getPermission(x)
    BY <1>1 DEF getPermission
  <1>3. \A x \in Perm : PermName[x] \in D \/ children'[x] = children[x]
    BY <1>1 DEF getPermission
  <1>4. Unconcerned(D, {}, left)
    BY <1>1 DEF Unconcerned
  <1>5. D \in SUBSET Name /\ {} \subseteq Permissible
    OBVIOUS
  <1> HIDE DEF D, left
  <1> QED
    BY <1>1, <1>2, <1>3, <1>4, <1>5, RegistryFresh

\* setDefault and addParent end with recalculatePermissibles of a permission of which
\* they have changed nothing but the default and the children.
LEMMA RecalculateThemFresh ==
    ASSUME CacheInv, Ingredients', UNCHANGED <<registered, people>>, NEW m \in Perm,
           \A x \in Perm \ {m} : children'[x] = children[x],
           recalculatePermissibles(m)
    PROVE  LevelKnown' /\ Fresh'
  <1> DEFINE D == {PermName[m]}
             rs == DefaultSubscribers(Dirties(default'[m])) \cup Subscribers(PermName[m])
  <1>0. PermName[m] \in Name /\ tables \in [Level -> Seq(Perm)]
    BY PermissionsAssumption DEF CacheInv, RegistryInv, RegistryTypes
  <1>1. tables' = Inserted(Erased(tables, m), m, default'[m]) /\ Recalculate(rs, {})
    BY DEF recalculatePermissibles
  <1>2. rs \subseteq Permissible
    BY DEF DefaultSubscribers, Subscribers
  <1>3. \A n \in Name \ D : getPermission(n)' = getPermission(n)
    BY DEF getPermission
  <1>4. \A x \in Perm : PermName[x] \in D \/ children'[x] = children[x]
    OBVIOUS
  <1>5. Unconcerned(D, rs, {})
    <2> SUFFICES ASSUME NEW p \in alive \ stale, p \notin rs
                 PROVE  /\ p \notin Subscribers(PermName[m])
                        /\ tables'[getPermissionLevel(p)] = tables[getPermissionLevel(p)]
      BY DEF Unconcerned
    <2> QED
      BY <1>0, <1>1, MovedTables
  <1>6. D \in SUBSET Name
    BY <1>0
  <1>7. UNCHANGED people
    OBVIOUS
  <1> HIDE DEF D, rs
  <1> QED
    BY <1>1, <1>2, <1>3, <1>4, <1>5, <1>6, <1>7, RegistryFresh

LEMMA RegistryStepFresh ==
    ASSUME CacheInv, Ingredients', RegistryStep
    PROVE  LevelKnown' /\ Fresh'
  <1>1. ASSUME NEW m \in Perm, NEW d \in Defaults, NEW kids \in Links,
               addPermission(m, d, kids) \/ addDescribed(m, d, kids)
        PROVE  LevelKnown' /\ Fresh'
    BY <1>1, AddFresh
  <1>2. ASSUME NEW m \in Perm, NEW parent \in Perm, NEW d \in Defaults, registerUnder(m, d, parent)
        PROVE  LevelKnown' /\ Fresh'
    BY <1>2, RegisterUnderFresh
  <1>3. ASSUME NEW n \in Name, removePermission(n)
        PROVE  LevelKnown' /\ Fresh'
    BY <1>3, RemoveFresh
  <1>4. ASSUME NEW m \in Perm, NEW d \in Defaults, setDefault(m, d)
        PROVE  LevelKnown' /\ Fresh'
    BY <1>4, RecalculateThemFresh DEF setDefault
  <1>5. ASSUME NEW m \in Perm, NEW parent \in Perm, NEW v \in Value \ {"unset"}, addParent(m, parent, v)
        PROVE  LevelKnown' /\ Fresh'
    <2>1. \A x \in Perm \ {parent} : children'[x] = children[x]
      BY <1>5 DEF addParent, CacheInv, CacheTypes
    <2>2. UNCHANGED <<registered, people>> /\ recalculatePermissibles(parent)
      BY <1>5 DEF addParent
    <2> QED
      BY <2>1, <2>2, RecalculateThemFresh
  <1>6. ASSUME clearPermissionRegistry
        PROVE  LevelKnown' /\ Fresh'
    <2>1. UNCHANGED people /\ Recalculate({}, alive)
      BY <1>6 DEF clearPermissionRegistry
    <2>2. alive' = alive
      BY <2>1 DEF people
    <2> QED
      BY <2>1, <2>2, RecalculateFresh
  <1> QED
    BY <1>1, <1>2, <1>3, <1>4, <1>5, <1>6 DEF RegistryStep

\* The op status of a player decides on its own level only.
LEMMA OthersLevel ==
    ASSUME OpTypes, NEW p \in Player, NEW q \in Permissible \ {p}, NEW b, op' = [op EXCEPT ![p] = b]
    PROVE  getPermissionLevel(q)' = getPermissionLevel(q)
  <1>1. CASE q = Console
    BY <1>1 DEF getPermissionLevel
  <1>2. CASE q # Console
    <2>1. q \in Player
      BY <1>2 DEF Permissible
    <2>2. op'[q] = op[q]
      BY <2>1 DEF OpTypes
    <2> QED
      BY <1>2, <2>2 DEF getPermissionLevel
  <1> QED
    BY <1>1, <1>2

LEMMA DestroyFresh ==
    ASSUME CacheInv, Ingredients', NEW p \in Player, Destroy(p)
    PROVE  LevelKnown' /\ Fresh'
  <1>1. /\ alive' = alive \ {p} /\ stale' = stale \ {p} /\ p \in alive
        /\ attachments' = [attachments EXCEPT ![p] = <<>>]
        /\ cache' = [cache EXCEPT ![p] = None]
        /\ defSubs' = {s \in defSubs : s[2] # p \/ s[1] \notin Level}
        /\ op' = [op EXCEPT ![p] = FALSE]
        /\ given' = [a \in Attachment |-> IF a \in ToSet(attachments[p]) THEN None ELSE given[a]]
        /\ UNCHANGED registry
    BY DEF Destroy, ClearedLevels
  <1>2. Kin' = Kin /\ children' = children /\ tables' = tables
    BY <1>1 DEF registry, Kin, getPermission
  <1> SUFFICES ASSUME NEW q \in alive' \ stale'
               PROVE  <<getPermissionLevel(q)', q>> \in defSubs' /\ cache'[q] = Effective(q)'
    BY DEF LevelKnown, Fresh
  <1>3. q \in alive \ stale /\ q \in Permissible \ {p} /\ p \in Permissible
    BY <1>1 DEF CacheInv, SubscriptionInv, SubscriptionTypes, Permissible
  <1>4. attachments'[q] = attachments[q] /\ cache'[q] = cache[q]
    BY <1>1, <1>3 DEF CacheInv, SubscriptionInv, SubscriptionTypes
  <1>5. getPermissionLevel(q)' = getPermissionLevel(q)
    BY <1>1, <1>3, OthersLevel DEF CacheInv, OpInv
  <1>6. \A a \in ToSet(attachments[q]) : given'[a] = given[a]
    <2>1. ToSet(attachments[q]) \subseteq Attachment
      BY <1>3, ElementTypes DEF CacheInv, SubscriptionInv, SubscriptionTypes
    <2>2. ToSet(attachments[q]) \cap ToSet(attachments[p]) = {}
      BY <1>3 DEF CacheInv, AttachedOnce
    <2> QED
      BY <1>1, <2>1, <2>2
  <1>7. Effective(q)' = Effective(q)
    <2>1. {} \in SUBSET Name /\ (\A n \in {} : q \notin Subscribers(n)) /\ \A n \in Name \ {} : Kin'[n] = Kin[n]
      BY <1>2
    <2>2. tables'[getPermissionLevel(q)] = tables[getPermissionLevel(q)]
      BY <1>2
    <2>3. \A m \in ToSet(tables[getPermissionLevel(q)]) : children'[m] = children[m]
      BY <1>2
    <2> QED
      BY <1>3, <1>4, <1>5, <1>6, <2>1, <2>2, <2>3, EffectiveStays
  <1>8. <<getPermissionLevel(q), q>> \in defSubs /\ cache[q] = Effective(q)
    BY <1>3 DEF CacheInv, LevelKnown, Fresh
  <1> QED
    BY <1>1, <1>3, <1>4, <1>5, <1>7, <1>8

LEMMA OpStepFresh ==
    ASSUME CacheInv, Ingredients', NEW p \in Player, NEW o,
           Join(p, o) \/ setOp(p, o) \/ GameSetsOp(p) \/ checkOpStatus(p)
    PROVE  LevelKnown' /\ Fresh'
  <1>0. p \in Permissible /\ alive \subseteq Permissible /\ op \in [Player -> BOOLEAN] /\ OpTypes
    BY DEF Permissible, CacheInv, SubscriptionInv, SubscriptionTypes, OpInv, OpTypes
  <1>1. /\ UNCHANGED <<registry, attachments, given>> /\ alive' \subseteq alive \cup {p}
        /\ \E b : op' = [op EXCEPT ![p] = b]
    <2>1. op = [op EXCEPT ![p] = op[p]]
      BY <1>0
    <2> QED
      BY <2>1 DEF Join, setOp, GameSetsOp, checkOpStatus
  <1>2. \A q \in Permissible \ {p} : getPermissionLevel(q)' = getPermissionLevel(q)
    BY <1>0, <1>1, OthersLevel
  <1>3. CASE GameSetsOp(p)
    <2>1. Recalculate({}, {p}) /\ alive' \subseteq alive \cup {}
      BY <1>3 DEF GameSetsOp
    <2>2. \A q \in alive \ stale : q \notin {} \cup {p} => q \in Permissible \ {p}
      BY <1>0
    <2> QED
      BY <1>1, <1>2, <2>1, <2>2, PermissibleFresh
  <1>4. CASE ~GameSetsOp(p)
    <2>1. Recalculate({p}, {})
      BY <1>4 DEF Join, setOp, checkOpStatus
    <2>2. \A q \in alive \ stale : q \notin {p} \cup {} => q \in Permissible \ {p}
      BY <1>0
    <2> QED
      BY <1>0, <1>1, <1>2, <2>1, <2>2, PermissibleFresh
  <1> QED
    BY <1>3, <1>4

\* Only the permissible itself, its attachments, and what they give, change.
LEMMA OwnStepFresh ==
    ASSUME CacheInv, Ingredients', NEW p \in Permissible, UNCHANGED <<registry, alive, op>>, Recalculate({p}, {}),
           \A q \in alive \ {p} :
               attachments'[q] = attachments[q] /\ \A a \in ToSet(attachments[q]) : given'[a] = given[a]
    PROVE  LevelKnown' /\ Fresh'
  <1>1. \A q : getPermissionLevel(q)' = getPermissionLevel(q)
    BY DEF getPermissionLevel
  <1>2. UNCHANGED registry /\ alive' \subseteq alive \cup {p} /\ {p} \subseteq Permissible
    OBVIOUS
  <1> QED
    BY <1>1, <1>2, PermissibleFresh

LEMMA AttachmentStepFresh ==
    ASSUME CacheInv, Ingredients', NEW p \in Permissible, NEW a \in Attachment, NEW n \in Name, NEW v,
           addAttachment(p, a, n, v) \/ setPermission(p, a, n, v)
    PROVE  LevelKnown' /\ Fresh'
  <1>0. /\ alive \subseteq Permissible /\ attachments \in [Permissible -> Seq(Attachment)]
        /\ given \in [Attachment -> Values]
        /\ \A q \in alive : ToSet(attachments[q]) \subseteq Attachment
    BY ElementTypes DEF CacheInv, SubscriptionInv, SubscriptionTypes, CacheTypes
  <1>1. UNCHANGED <<registry, alive, op>> /\ Recalculate({p}, {})
    BY DEF addAttachment, setPermission
  <1>2. ASSUME NEW q \in alive \ {p}
        PROVE  attachments'[q] = attachments[q] /\ \A x \in ToSet(attachments[q]) : given'[x] = given[x]
    <2>1. a \notin ToSet(attachments[q])
      BY <1>0 DEF addAttachment, setPermission, CacheInv, AttachedOnce
    <2>2. \A x \in Attachment \ {a} : given'[x] = given[x]
      BY <1>0 DEF addAttachment, setPermission
    <2>3. attachments'[q] = attachments[q]
      BY <1>0 DEF addAttachment, setPermission
    <2> QED
      BY <1>0, <2>1, <2>2, <2>3
  <1> QED
    BY <1>1, <1>2, OwnStepFresh

LEMMA PermissibleStepFresh ==
    ASSUME CacheInv, Ingredients', PermissibleStep
    PROVE  LevelKnown' /\ Fresh'
  <1>1. ASSUME NEW p \in Player, NEW o \in BOOLEAN, Join(p, o) \/ setOp(p, o) \/ GameSetsOp(p) \/ checkOpStatus(p)
        PROVE  LevelKnown' /\ Fresh'
    BY <1>1, OpStepFresh
  <1>2. ASSUME NEW p \in Player, Destroy(p)
        PROVE  LevelKnown' /\ Fresh'
    BY <1>2, DestroyFresh
  <1>3. ASSUME NEW p \in Permissible, recalculatePermissions(p)
        PROVE  LevelKnown' /\ Fresh'
    <2>1. UNCHANGED <<registry, alive, op, attachments, given>> /\ Recalculate({p}, {})
      BY <1>3 DEF recalculatePermissions, people
    <2> QED
      BY <2>1, OwnStepFresh
  <1>4. ASSUME NEW p \in Permissible, NEW a \in Attachment, NEW n \in Name, NEW v \in Value,
               addAttachment(p, a, n, v) \/ setPermission(p, a, n, v)
        PROVE  LevelKnown' /\ Fresh'
    BY <1>4, AttachmentStepFresh
  <1>5. ASSUME NEW p \in Permissible, NEW a \in Attachment, removeAttachment(p, a)
        PROVE  LevelKnown' /\ Fresh'
    <2>1. UNCHANGED <<registry, alive, op>> /\ Recalculate({p}, {})
      BY <1>5 DEF removeAttachment
    <2>2. /\ alive \subseteq Permissible /\ attachments \in [Permissible -> Seq(Attachment)]
          /\ \A q \in alive : ToSet(attachments[q]) \subseteq Attachment
      BY ElementTypes DEF CacheInv, SubscriptionInv, SubscriptionTypes
    <2>3. \A q \in alive \ {p} : a \notin ToSet(attachments[q])
      BY <1>5, <2>2 DEF removeAttachment, CacheInv, AttachedOnce
    <2>4. \A q \in alive \ {p} :
             attachments'[q] = attachments[q] /\ \A x \in ToSet(attachments[q]) : given'[x] = given[x]
      BY <1>5, <2>2, <2>3 DEF removeAttachment, CacheInv, CacheTypes
    <2> QED
      BY <2>1, <2>4, OwnStepFresh
  <1> QED
    BY <1>1, <1>2, <1>3, <1>4, <1>5 DEF PermissibleStep

LEMMA CacheTypesNext ==
    ASSUME CacheTypes, RegistryInv, [Next]_vars
    PROVE  CacheTypes'
  <1>0. /\ children \in [Perm -> Values] /\ given \in [Attachment -> Values]
        /\ PermName \in [Perm -> Name] /\ Links \subseteq Values /\ None \in Values
        /\ \A x \in Values, n \in Name, v \in Value : [x EXCEPT ![n] = v] \in Values
        /\ "true" \in Value /\ "unset" \in Value
    BY PermissionsAssumption, NoneIsUnset DEF CacheTypes, Values, Value
  <1>1. ASSUME NEW m \in Perm, NEW d, NEW kids \in Links, addPermission(m, d, kids) \/ addDescribed(m, d, kids)
        PROVE  CacheTypes'
    BY <1>0, <1>1 DEF addPermission, addDescribed, Add, people, CacheTypes
  <1>2. ASSUME NEW m \in Perm, NEW parent \in Perm, NEW d, registerUnder(m, d, parent)
        PROVE  CacheTypes'
    <2>1. /\ children' = [children EXCEPT ![m] = None, ![parent][PermName[m]] = "true"]
          /\ UNCHANGED people
      BY <1>2 DEF registerUnder
    <2> DEFINE ch == [children EXCEPT ![m] = None]
    <2>2. ch \in [Perm -> Values]
      BY <1>0
    <2>3. children' = [ch EXCEPT ![parent][PermName[m]] = "true"]
      BY <2>1
    <2> HIDE DEF ch
    <2>4. [ch[parent] EXCEPT ![PermName[m]] = "true"] \in Values
      BY <1>0, <2>2
    <2>5. children' \in [Perm -> Values]
      BY <2>2, <2>3, <2>4
    <2> QED
      BY <1>0, <2>1, <2>5 DEF people, CacheTypes
  <1>3. ASSUME NEW ms, Free(ms), UNCHANGED people
        PROVE  CacheTypes'
    BY <1>0, <1>3 DEF Free, people, CacheTypes
  <1>4. ASSUME NEW m \in Perm, NEW parent \in Perm, NEW v \in Value, addParent(m, parent, v)
        PROVE  CacheTypes'
    <2>1. [children[parent] EXCEPT ![PermName[m]] = v] \in Values
      BY <1>0
    <2> QED
      BY <1>0, <1>4, <2>1 DEF addParent, people, CacheTypes
  <1>5. ASSUME UNCHANGED <<children, given>>
        PROVE  CacheTypes'
    BY <1>5 DEF CacheTypes
  <1>6. ASSUME RegistryStep
        PROVE  CacheTypes'
    BY <1>1, <1>2, <1>3, <1>4, <1>5, <1>6
       DEF RegistryStep, removePermission, clearPermissionRegistry, setDefault, people
  <1>7. ASSUME NEW p \in Permissible, NEW a \in Attachment, NEW n \in Name, NEW v \in Value,
               addAttachment(p, a, n, v) \/ setPermission(p, a, n, v)
        PROVE  CacheTypes'
    <2>1. [None EXCEPT ![n] = v] \in Values /\ [given[a] EXCEPT ![n] = v] \in Values
      BY <1>0
    <2>2. children' = children
      BY <1>7 DEF addAttachment, setPermission, registry
    <2>3. given' \in [Attachment -> Values]
      BY <1>0, <1>7, <2>1 DEF addAttachment, setPermission
    <2> QED
      BY <1>0, <2>2, <2>3 DEF CacheTypes
  <1>8. ASSUME NEW p \in Permissible, NEW a \in Attachment, removeAttachment(p, a)
        PROVE  CacheTypes'
    BY <1>0, <1>8 DEF removeAttachment, registry, CacheTypes
  <1>9. ASSUME NEW p \in Player, Destroy(p)
        PROVE  CacheTypes'
    BY <1>0, <1>9 DEF Destroy, registry, CacheTypes
  <1>10. ASSUME PermissibleStep
         PROVE  CacheTypes'
    <2>1. Value \ {"unset"} \subseteq Value
      OBVIOUS
    <2> QED
      BY <1>5, <1>7, <1>8, <1>9, <1>10, <2>1
         DEF PermissibleStep, Join, setOp, GameSetsOp, checkOpStatus, recalculatePermissions, registry, people
  <1>11. ASSUME UNCHANGED vars
         PROVE  CacheTypes'
    BY <1>5, <1>11 DEF vars, registry, people
  <1> QED
    BY <1>6, <1>10, <1>11 DEF Next

LEMMA AttachedOnceNext ==
    ASSUME AttachedOnce, SubscriptionTypes, [Next]_vars
    PROVE  AttachedOnce'
  <1>0. attachments \in [Permissible -> Seq(Attachment)] /\ Player \subseteq Permissible
    BY DEF SubscriptionTypes, Permissible
  <1>1. ASSUME NEW p \in Permissible, NEW a \in Attachment, NEW n, NEW v, addAttachment(p, a, n, v)
        PROVE  AttachedOnce'
    <2>1. ToSet(Append(attachments[p], a)) = ToSet(attachments[p]) \cup {a}
      BY <1>0, AppendElements
    <2>2. /\ attachments'[p] = Append(attachments[p], a)
          /\ \A q \in Permissible \ {p} : attachments'[q] = attachments[q]
          /\ \A q \in Permissible : a \notin ToSet(attachments[q])
      BY <1>0, <1>1 DEF addAttachment
    <2> SUFFICES ASSUME NEW q \in Permissible, NEW r \in Permissible, q # r
                 PROVE  ToSet(attachments'[q]) \cap ToSet(attachments'[r]) = {}
      BY DEF AttachedOnce
    <2>3. ToSet(attachments[q]) \cap ToSet(attachments[r]) = {}
      BY DEF AttachedOnce
    <2>4. CASE q = p
      BY <2>1, <2>2, <2>3, <2>4
    <2>5. CASE r = p
      BY <2>1, <2>2, <2>3, <2>5
    <2>6. CASE q # p /\ r # p
      BY <2>2, <2>3, <2>6
    <2> QED
      BY <2>4, <2>5, <2>6
  <1>2. ASSUME \A p \in Permissible : ToSet(attachments'[p]) \subseteq ToSet(attachments[p])
        PROVE  AttachedOnce'
    BY <1>2 DEF AttachedOnce
  <1>3. ASSUME NEW p \in Permissible, NEW a, removeAttachment(p, a)
        PROVE  AttachedOnce'
    <2>1. ToSet(OnlyIn(attachments[p], Attachment \ {a})) \subseteq ToSet(attachments[p])
      BY <1>0, OnlyInSet
    <2> QED
      BY <1>0, <1>2, <1>3, <2>1 DEF removeAttachment
  <1>4. ASSUME NEW p \in Permissible, Destroy(p)
        PROVE  AttachedOnce'
    <2>1. ToSet(<<>>) = {}
      BY DEF ToSet
    <2> QED
      BY <1>0, <1>2, <1>4, <2>1 DEF Destroy
  <1>5. ASSUME attachments' = attachments
        PROVE  AttachedOnce'
    BY <1>5 DEF AttachedOnce
  <1>6. ASSUME RegistryStep \/ UNCHANGED vars
        PROVE  AttachedOnce'
    <2>1. UNCHANGED people
      BY <1>6 DEF RegistryStep, addPermission, addDescribed, registerUnder, removePermission, setDefault,
                  addParent, clearPermissionRegistry, vars
    <2> QED
      BY <1>5, <2>1 DEF people
  <1> QED
    BY <1>0, <1>1, <1>3, <1>4, <1>5, <1>6
       DEF Next, PermissibleStep, Join, setOp, GameSetsOp, checkOpStatus, recalculatePermissions, setPermission, people

LEMMA CacheNext ==
    ASSUME CacheInv, [Next]_vars
    PROVE  CacheInv'
  <1>1. RegistryInv' /\ SubscriptionInv' /\ CacheTypes' /\ AttachedOnce'
    BY RegistryNext, SubscriptionNext, CacheTypesNext, AttachedOnceNext DEF CacheInv, SubscriptionInv
  <1>2. OpInv'
    BY <1>1, OpNext DEF CacheInv
  <1>3. Ingredients'
    BY <1>1, IngredientsNext
  <1>4. LevelKnown' /\ Fresh'
    <2>1. CASE UNCHANGED vars
      BY <2>1 DEF vars, registry, people, derived, CacheInv, LevelKnown, Fresh, Effective, Kin, getPermission,
                  getPermissionLevel
    <2>2. CASE RegistryStep
      BY <1>3, <2>2, RegistryStepFresh
    <2>3. CASE PermissibleStep
      BY <1>3, <2>3, PermissibleStepFresh
    <2> QED
      BY <2>1, <2>2, <2>3 DEF Next
  <1> QED
    BY <1>1, <1>2, <1>4 DEF CacheInv

\* Without default permissions and attachments nothing is calculated.
LEMMA NothingCalculated ==
    ASSUME NEW kin \in [Name -> Values], NEW kidsOf \in [Perm -> Values], NEW gives \in [Attachment -> Values]
    PROVE  Calculated(kin, kidsOf, <<>>, gives, <<>>) = None
  <1> DEFINE f == FromDefault(kin, kidsOf)
             g == FromAttachment(kin, gives)
             I == {None}
  <1>1. f \in [Perm -> [Values -> Values]] /\ g \in [Attachment -> [Values -> Values]] /\ None \in Values
    BY FromDefaultFacts, FromAttachmentFacts, NoneIsUnset
  <1>2. <<>> \in Seq(Perm) /\ <<>> \in Seq(Attachment) /\ None \in I /\ \A i : i \notin 1 .. Len(<<>>)
    OBVIOUS
  <1> HIDE DEF f, g, I
  <1>3. Folded(f, None, <<>>) \in I
    BY <1>1, <1>2, FoldedKeeps
  <1>4. Folded(g, None, <<>>) \in I
    BY <1>1, <1>2, FoldedKeeps
  <1> QED
    BY <1>3, <1>4, CalculatedIs DEF f, g, I

LEMMA CacheInit ==
    ASSUME Init, RegistryInv, SubscriptionInv, OpInv
    PROVE  CacheInv
  <1>1. CacheTypes
    BY NoneIsUnset DEF Init, CacheTypes
  <1>2. AttachedOnce
    <2>1. ToSet(<<>>) = {}
      BY DEF ToSet
    <2> QED
      BY <2>1 DEF Init, AttachedOnce
  <1>3. Console \in Permissible /\ getPermissionLevel(Console) = "Console" /\ "Console" \in Level
    BY DEF Permissible, getPermissionLevel, Level
  <1>4. LevelKnown
    BY <1>3 DEF Init, LevelKnown
  <1>5. Fresh
    <2>1. Ingredients
      BY <1>1, IngredientTypes
    <2>2. tables["Console"] = <<>> /\ attachments[Console] = <<>> /\ cache[Console] = None /\ alive = {Console}
      BY <1>3 DEF Init
    <2>3. Effective(Console) = Calculated(Kin, children, <<>>, given, <<>>)
      BY <1>3, <2>2 DEF Effective
    <2>4. Effective(Console) = None
      BY <2>1, <2>3, NothingCalculated DEF Ingredients
    <2> QED
      BY <2>2, <2>4 DEF Fresh
  <1> QED
    BY <1>1, <1>2, <1>4, <1>5 DEF CacheInv

\* Whatever order permissions, their defaults and children, attachments and op statuses
\* change in, the cache that hasPermission reads is what recalculatePermissions would make
\* it now, for everyone the code has not left behind: recalculating the subscribers of the
\* changed names and levels is enough, since who holds no value for a name is not
\* concerned by its children.
THEOREM PermissionCacheFresh == Spec => []CacheFresh
  <1>1. Init => CacheInv
    <2> SUFFICES ASSUME Init PROVE CacheInv
      OBVIOUS
    <2>1. RegistryInv /\ SubscriptionInv /\ OpInv
      BY RegistryInit, SubscriptionInit, OpInit
    <2> QED
      BY <2>1, CacheInit
  <1>2. CacheInv /\ [Next]_vars => CacheInv'
    BY CacheNext
  <1>3. CacheInv => CacheFresh
    BY DEF CacheInv, Fresh, CacheFresh
  <1> QED
    BY <1>1, <1>2, <1>3, PTL DEF Spec

-----------------------------------------------------------------------------
(* The command map: the parser of usages *)

LEMMA WordsOnly ==
    /\ <<>> \in Seq(Word)
    /\ \A t \in Word : <<t>> \in Seq(Word)
    /\ \A s \in Seq(Word), t \in Word : Append(s, t) \in Seq(Word)
    /\ \A s, t \in Seq(Word) : s \o t \in Seq(Word)
  OBVIOUS

LEMMA BlankTyped == Blank \in Parameter /\ \A b \in BOOLEAN : [Blank EXCEPT !.optional = b] \in Parameter
  BY WordsOnly, Zenon DEF Blank, Parameter

LEMMA StartTyped == Start \in ParserState /\ Error \in ParserState
  <1>1. <<>> \in Seq(Parameter) /\ "slash" \in Place /\ "error" \in Place
    BY DEF Place
  <1> QED
    BY <1>1, WordsOnly, BlankTyped DEF Start, Error, ParserState

LEMMA FieldsTyped ==
    ASSUME NEW s \in ParserState
    PROVE  /\ s.at \in Place /\ s.name \in Seq(Word) /\ s.out \in Seq(Parameter) /\ s.param \in Parameter
           /\ s.listed \in BOOLEAN /\ s.list \in Seq(Word)
           /\ s.param.optional \in BOOLEAN /\ s.param.enum \in BOOLEAN
           /\ s.param.values \in Seq(Word) /\ s.param.type \in Seq(Word)
  BY DEF ParserState, Parameter

LEMMA FinishTyped ==
    ASSUME NEW s \in ParserState
    PROVE  Finish(s) \in ParserState
  <1> DEFINE q == IF s.listed THEN [s.param EXCEPT !.enum = TRUE, !.values = s.list] ELSE s.param
  <1>1. q \in Parameter
    BY FieldsTyped DEF Parameter
  <1>2. Append(s.out, q) \in Seq(Parameter)
    BY <1>1, FieldsTyped
  <1>3. "params" \in Place
    BY DEF Place
  <1> HIDE DEF q
  <1>4. [s EXCEPT !.at = "params", !.out = Append(s.out, q), !.param = Blank, !.listed = FALSE, !.list = <<>>] \in ParserState
    BY <1>2, <1>3, FieldsTyped, BlankTyped, WordsOnly DEF ParserState
  <1> QED
    BY <1>4 DEF Finish, q

LEMMA UnnamedTyped ==
    ASSUME NEW s \in ParserState, NEW values \in Seq(Word), NEW b \in BOOLEAN
    PROVE  Unnamed(s, values, b) \in Parameter
  BY FieldsTyped, WordsOnly, Zenon DEF Unnamed, Parameter

LEMMA NamedTyped ==
    ASSUME NEW s \in ParserState
    PROVE  Named(s) \in ParserState
  <1>1. Unnamed(s, s.param.values, s.param.optional) \in Parameter
    BY FieldsTyped, UnnamedTyped
  <1> QED
    BY <1>1 DEF Named, ParserState

LEMMA StepTyped ==
    ASSUME NEW s \in ParserState, NEW t \in Word \cup Mark
    PROVE  Step(s, t) \in ParserState
  <1> DEFINE open == [s EXCEPT !.at = "name", !.param = [Blank EXCEPT !.optional = (t = "[")]]
             shut(u) == IF Closes(u, t) THEN Finish(u) ELSE Error
  <1>0. /\ s.at \in Place /\ s.name \in Seq(Word) /\ s.out \in Seq(Parameter) /\ s.param \in Parameter
        /\ s.list \in Seq(Word) /\ s.param.values \in Seq(Word)
    BY FieldsTyped
  <1>1. open \in ParserState
    <2>1. [Blank EXCEPT !.optional = (t = "[")] \in Parameter
      BY BlankTyped
    <2> QED
      BY <2>1 DEF ParserState, Place
  <1>2. \A u \in ParserState : shut(u) \in ParserState
    BY FinishTyped, StartTyped
  <1>3. \A at \in Place : [s EXCEPT !.at = at] \in ParserState
    BY DEF ParserState
  <1>4. shut(s) \in ParserState /\ shut(Named(s)) \in ParserState
    BY <1>2, NamedTyped
  <1>5. [s EXCEPT !.at = "first", !.listed = TRUE] \in ParserState
    BY DEF ParserState, Place
  <1>6. ASSUME t \in Word
        PROVE  /\ [s EXCEPT !.at = "params", !.name = <<t>>] \in ParserState
               /\ [s EXCEPT !.out = Append(s.out, Unnamed(s, <<t>>, FALSE))] \in ParserState
               /\ [s EXCEPT !.at = "next", !.list = Append(s.list, t)] \in ParserState
    <2>1. <<t>> \in Seq(Word) /\ Append(s.list, t) \in Seq(Word)
      BY <1>0, <1>6
    <2>2. Unnamed(s, <<t>>, FALSE) \in Parameter
      BY <2>1, UnnamedTyped
    <2>3. \A x \in Parameter : [s EXCEPT !.out = Append(s.out, x)] \in ParserState
      <3>1. \A x \in Parameter : Append(s.out, x) \in Seq(Parameter)
        BY <1>0
      <3> QED
        BY <3>1 DEF ParserState
    <2>4. [s EXCEPT !.out = Append(s.out, Unnamed(s, <<t>>, FALSE))] \in ParserState
      BY <2>2, <2>3, Zenon
    <2>5. /\ [s EXCEPT !.at = "params", !.name = <<t>>] \in ParserState
          /\ [s EXCEPT !.at = "next", !.list = Append(s.list, t)] \in ParserState
      BY <2>1 DEF ParserState, Place
    <2> QED
      BY <2>4, <2>5
  <1>7. ASSUME t \in Word
        PROVE  /\ [s EXCEPT !.at = "after", !.param.values = <<t>>] \in ParserState
               /\ [s EXCEPT !.at = "close", !.param.type = <<t>>] \in ParserState
               /\ [s EXCEPT !.at = "more", !.param.values = Append(s.param.values, t)] \in ParserState
    <2>1. <<t>> \in Seq(Word) /\ Append(s.param.values, t) \in Seq(Word)
      BY <1>0, <1>7
    <2>2. /\ [s.param EXCEPT !.values = <<t>>] \in Parameter
          /\ [s.param EXCEPT !.type = <<t>>] \in Parameter
          /\ [s.param EXCEPT !.values = Append(s.param.values, t)] \in Parameter
      BY <1>0, <2>1 DEF Parameter
    <2> QED
      BY <2>2 DEF ParserState, Place
  <1>8. [s EXCEPT !.at = "type", !.param.values = <<>>] \in ParserState
    <2>1. [s.param EXCEPT !.values = <<>>] \in Parameter
      BY <1>0, WordsOnly DEF Parameter
    <2> QED
      BY <2>1 DEF ParserState, Place
  <1>9. {"command", "bracket", "value", "alt"} \subseteq Place
    BY DEF Place
  <1>11. CASE s.at = "slash"
    <2>1. \/ Step(s, t) = Error
          \/ Step(s, t) = [s EXCEPT !.at = "command"]
      BY <1>11 DEF Step
    <2> HIDE DEF open, shut
    <2> QED
      BY <1>1, <1>3, <1>4, <1>5, <1>6, <1>7, <1>8, <1>9, <2>1, StartTyped, Zenon
  <1>12. CASE s.at = "command"
    <2>1. \/ Step(s, t) = Error
          \/ t \in Word /\ Step(s, t) = [s EXCEPT !.at = "params", !.name = <<t>>]
      BY <1>12 DEF Step
    <2> HIDE DEF open, shut
    <2> QED
      BY <1>1, <1>3, <1>4, <1>5, <1>6, <1>7, <1>8, <1>9, <2>1, StartTyped, Zenon
  <1>13. CASE s.at = "params"
    <2>1. \/ Step(s, t) = Error
          \/ t \in Word /\ Step(s, t) = [s EXCEPT !.out = Append(s.out, Unnamed(s, <<t>>, FALSE))]
          \/ Step(s, t) = [s EXCEPT !.at = "first", !.listed = TRUE]
          \/ Step(s, t) = open
      <3>1. CASE t \in Word
        BY <1>13, <3>1, UsageAssumption DEF Step, Mark
      <3>2. CASE t = "("
        BY <1>13, <3>2, UsageAssumption DEF Step, Mark
      <3>3. CASE t \in {"<", "["}
        BY <1>13, <3>3, UsageAssumption, Zenon DEF Step, Mark
      <3>4. CASE t \notin Word /\ t # "(" /\ t \notin {"<", "["}
        BY <1>13, <3>4 DEF Step
      <3> QED
        BY <3>1, <3>2, <3>3, <3>4
    <2> HIDE DEF open, shut
    <2> QED
      BY <1>1, <1>3, <1>4, <1>5, <1>6, <1>7, <1>8, <1>9, <2>1, StartTyped, Zenon
  <1>14. CASE s.at = "bracket"
    <2>1. \/ Step(s, t) = Error
          \/ Step(s, t) = open
      BY <1>14 DEF Step
    <2> HIDE DEF open, shut
    <2> QED
      BY <1>1, <1>3, <1>4, <1>5, <1>6, <1>7, <1>8, <1>9, <2>1, StartTyped, Zenon
  <1>15. CASE s.at = "first"
    <2>1. \/ Step(s, t) = Error
          \/ t \in Word /\ Step(s, t) = [s EXCEPT !.at = "next", !.list = Append(s.list, t)]
          \/ Step(s, t) = [s EXCEPT !.at = "bracket"]
      BY <1>15 DEF Step
    <2> HIDE DEF open, shut
    <2> QED
      BY <1>1, <1>3, <1>4, <1>5, <1>6, <1>7, <1>8, <1>9, <2>1, StartTyped, Zenon
  <1>16. CASE s.at = "value"
    <2>1. \/ Step(s, t) = Error
          \/ t \in Word /\ Step(s, t) = [s EXCEPT !.at = "next", !.list = Append(s.list, t)]
      BY <1>16 DEF Step
    <2> HIDE DEF open, shut
    <2> QED
      BY <1>1, <1>3, <1>4, <1>5, <1>6, <1>7, <1>8, <1>9, <2>1, StartTyped, Zenon
  <1>17. CASE s.at = "next"
    <2>1. \/ Step(s, t) = Error
          \/ Step(s, t) = [s EXCEPT !.at = "bracket"]
          \/ Step(s, t) = [s EXCEPT !.at = "value"]
      BY <1>17 DEF Step
    <2> HIDE DEF open, shut
    <2> QED
      BY <1>1, <1>3, <1>4, <1>5, <1>6, <1>7, <1>8, <1>9, <2>1, StartTyped, Zenon
  <1>18. CASE s.at = "name"
    <2>1. \/ Step(s, t) = Error
          \/ t \in Word /\ Step(s, t) = [s EXCEPT !.at = "after", !.param.values = <<t>>]
      BY <1>18 DEF Step
    <2> HIDE DEF open, shut
    <2> QED
      BY <1>1, <1>3, <1>4, <1>5, <1>6, <1>7, <1>8, <1>9, <2>1, StartTyped, Zenon
  <1>19. CASE s.at = "after"
    <2>1. \/ Step(s, t) = Error
          \/ Step(s, t) = [s EXCEPT !.at = "type", !.param.values = <<>>]
          \/ Step(s, t) = [s EXCEPT !.at = "alt"]
          \/ Step(s, t) = shut(Named(s))
      BY <1>19 DEF Step
    <2> HIDE DEF open, shut
    <2> QED
      BY <1>1, <1>3, <1>4, <1>5, <1>6, <1>7, <1>8, <1>9, <2>1, StartTyped, Zenon
  <1>20. CASE s.at = "type"
    <2>1. \/ Step(s, t) = Error
          \/ t \in Word /\ Step(s, t) = [s EXCEPT !.at = "close", !.param.type = <<t>>]
      BY <1>20 DEF Step
    <2> HIDE DEF open, shut
    <2> QED
      BY <1>1, <1>3, <1>4, <1>5, <1>6, <1>7, <1>8, <1>9, <2>1, StartTyped, Zenon
  <1>21. CASE s.at = "alt"
    <2>1. \/ Step(s, t) = Error
          \/ t \in Word /\ Step(s, t) = [s EXCEPT !.at = "more", !.param.values = Append(s.param.values, t)]
      BY <1>21 DEF Step
    <2> HIDE DEF open, shut
    <2> QED
      BY <1>1, <1>3, <1>4, <1>5, <1>6, <1>7, <1>8, <1>9, <2>1, StartTyped, Zenon
  <1>22. CASE s.at = "more"
    <2>1. \/ Step(s, t) = Error
          \/ Step(s, t) = [s EXCEPT !.at = "alt"]
          \/ Step(s, t) = shut(Named(s))
      BY <1>22 DEF Step
    <2> HIDE DEF open, shut
    <2> QED
      BY <1>1, <1>3, <1>4, <1>5, <1>6, <1>7, <1>8, <1>9, <2>1, StartTyped, Zenon
  <1>23. CASE s.at = "close"
    <2>1. \/ Step(s, t) = Error
          \/ Step(s, t) = shut(s)
      BY <1>23 DEF Step
    <2> HIDE DEF open, shut
    <2> QED
      BY <1>1, <1>3, <1>4, <1>5, <1>6, <1>7, <1>8, <1>9, <2>1, StartTyped, Zenon
  <1>24. CASE s.at = "error"
    <2>1. Step(s, t) = Error
      BY <1>24 DEF Step
    <2> HIDE DEF open, shut
    <2> QED
      BY <1>1, <1>3, <1>4, <1>5, <1>6, <1>7, <1>8, <1>9, <2>1, StartTyped, Zenon
  <1> HIDE DEF open, shut
  <1> QED
    BY <1>0, <1>11, <1>12, <1>13, <1>14, <1>15, <1>16, <1>17, <1>18, <1>19, <1>20, <1>21, <1>22, <1>23, <1>24 DEF Place

\* Whatever tokens come, the parser has a list of parameters or has given up.
LEMMA ParseTyped ==
    ASSUME NEW ts \in Seq(Word \cup Mark)
    PROVE  Parse(ts) \in ParserState
  <1> DEFINE f == [t \in Word \cup Mark |-> [s \in ParserState |-> Step(s, t)]]
             X == ParserState
  <1>1. f \in [Word \cup Mark -> [ParserState -> ParserState]]
    <2>1. \A t \in Word \cup Mark, s \in ParserState : Step(s, t) \in ParserState
      BY StepTyped
    <2> QED
      BY <2>1
  <1>2. \A i \in 1 .. Len(ts) : \A v \in X : v \in X => f[ts[i]][v] \in X
    <2>1. \A i \in 1 .. Len(ts) : ts[i] \in Word \cup Mark
      OBVIOUS
    <2> HIDE DEF f
    <2> QED
      BY <1>1, <2>1
  <1>3. Start \in X
    BY StartTyped
  <1> HIDE DEF f, X
  <1>4. Folded(f, Start, ts) \in X
    BY <1>1, <1>2, <1>3, FoldedKeeps DEF X
  <1> QED
    BY <1>4 DEF Parse, f, X

-----------------------------------------------------------------------------
(* The enums of usages *)

LEMMA LeastExists ==
    ASSUME NEW N \in Nat, NEW S, N \in S
    PROVE  \E i \in 0 .. N : i \in S /\ \A j \in 0 .. i - 1 : j \notin S
  <1> DEFINE T == {n \in Nat : (\A j \in 0 .. n : j \notin S) \/ \E i \in 0 .. n : i \in S /\ \A j \in 0 .. i - 1 : j \notin S}
  <1>1. 0 \in T
    OBVIOUS
  <1>2. ASSUME NEW n \in Nat, n \in T PROVE n + 1 \in T
    <2>1. CASE \A j \in 0 .. n : j \notin S
      <3>1. CASE n + 1 \in S
        <4>1. n + 1 \in 0 .. n + 1 /\ \A j \in 0 .. (n + 1) - 1 : j \notin S
          BY <2>1
        <4> QED
          BY <3>1, <4>1
      <3>2. CASE n + 1 \notin S
        <4>1. \A j \in 0 .. n + 1 : j \in 0 .. n \/ j = n + 1
          OBVIOUS
        <4> QED
          BY <2>1, <3>2, <4>1
      <3> QED
        BY <3>1, <3>2
    <2>2. CASE \E i \in 0 .. n : i \in S /\ \A j \in 0 .. i - 1 : j \notin S
      <3>1. \A i \in 0 .. n : i \in 0 .. n + 1
        OBVIOUS
      <3> QED
        BY <2>2, <3>1
    <2> QED
      BY <1>2, <2>1, <2>2
  <1>3. N \in T
    <2> HIDE DEF T
    <2> QED
      BY <1>1, <1>2, SetInduction
  <1> QED
    BY <1>3

LEMMA UpToRefusedTyped ==
    ASSUME NEW out \in Seq(Parameter)
    PROVE  UpToRefused(out) \in Seq(Parameter)
  <1> DEFINE N == Len(out)
             S == {n \in 0 .. N : n < N => ~Fits(out, n + 1)}
             Good(n) == (n < Len(out) => ~Fits(out, n + 1)) /\ \A i \in 1 .. n : Fits(out, i)
             k == CHOOSE n \in 0 .. Len(out) : Good(n)
  <1>1. N \in Nat /\ N \in S
    OBVIOUS
  <1>2. PICK n \in 0 .. N : n \in S /\ \A j \in 0 .. n - 1 : j \notin S
    <2> HIDE DEF N, S
    <2> QED
      BY <1>1, LeastExists
  <1>3. Good(n)
    <2>1. ASSUME NEW i \in 1 .. n PROVE Fits(out, i)
      <3>1. i - 1 \in 0 .. n - 1 /\ i - 1 \in 0 .. N /\ i - 1 < N /\ (i - 1) + 1 = i
        BY <1>1, <1>2
      <3>2. i - 1 \notin S
        BY <1>2, <3>1
      <3> HIDE DEF N
      <3> QED
        BY <3>1, <3>2
    <2>2. n < Len(out) => ~Fits(out, n + 1)
      BY <1>2
    <2> QED
      BY <2>1, <2>2
  <1>4. k \in 0 .. Len(out)
    <2> HIDE DEF Good
    <2> QED
      BY <1>2, <1>3
  <1>5. \A m \in 0 .. Len(out) : SubSeq(out, 1, m) \in Seq(Parameter)
    OBVIOUS
  <1>6. UpToRefused(out) = SubSeq(out, 1, k)
    BY DEF UpToRefused
  <1> HIDE DEF k
  <1> QED
    BY <1>4, <1>5, <1>6

LEMMA FreeEnumTyped ==
    ASSUME NEW full, NEW type \in Seq(Word)
    PROVE  FreeEnum(full, type) \in Enum
  <1> DEFINE S == {i \in 0 .. MaxSuffix : <<type, i>> \notin full \/ i = MaxSuffix}
             Good(i) == (<<type, i>> \notin full \/ i = MaxSuffix) /\ \A j \in 0 .. i - 1 : <<type, j>> \in full
             k == CHOOSE i \in 0 .. MaxSuffix : Good(i)
  <1>1. MaxSuffix \in Nat /\ MaxSuffix \in S
    BY CommandAssumption
  <1>2. PICK i \in 0 .. MaxSuffix : i \in S /\ \A j \in 0 .. i - 1 : j \notin S
    <2> HIDE DEF S
    <2> QED
      BY <1>1, LeastExists
  <1>3. Good(i)
    BY <1>1, <1>2
  <1>4. k \in 0 .. MaxSuffix
    <2> HIDE DEF Good
    <2> QED
      BY <1>2, <1>3
  <1>5. FreeEnum(full, type) = <<type, k>>
    BY DEF FreeEnum
  <1>6. type \in Seq(Word \cup GameEnum \cup {"PluginName"})
    OBVIOUS
  <1> HIDE DEF k
  <1> QED
    BY <1>4, <1>5, <1>6 DEF Enum

LEMMA GameTyped ==
    ASSUME NEW g \in GameEnum
    PROVE  Game(g) \in Enum
  <1>1. <<g>> \in Seq(Word \cup GameEnum \cup {"PluginName"}) /\ 0 \in 0 .. MaxSuffix
    BY CommandAssumption
  <1> QED
    BY <1>1 DEF Game, Enum

\* From a to r nothing is forgotten, and an enum that r has values for and a had none
\* belongs to an overload or was left behind.
Accounted(a, r) ==
    /\ a.enums \subseteq r.enums /\ a.orphans \subseteq r.orphans
    /\ r.full \subseteq a.full \cup r.enums \cup r.orphans

LEMMA AccountedOn ==
    ASSUME NEW a, NEW b, NEW c, Accounted(a, b), Accounted(b, c)
    PROVE  Accounted(a, c)
  BY DEF Accounted

LEMMA AddParameterFacts ==
    ASSUME NEW acc \in EnumUse, NEW p \in Parameter
    PROVE  AddParameter(acc, p) \in EnumUse /\ Accounted(acc, AddParameter(acc, p))
  <1>0. acc.enums \subseteq Enum /\ acc.full \subseteq Enum /\ acc.orphans \subseteq Enum
    BY DEF EnumUse
  <1>1. CASE p.enum
    <2> DEFINE e == FreeEnum(acc.full, p.type)
    <2>1. e \in Enum
      BY FreeEnumTyped DEF Parameter
    <2> HIDE DEF e
    <2>2. AddParameter(acc, p) = [acc EXCEPT !.enums = @ \cup {e}, !.full = IF p.values = <<>> THEN @ ELSE @ \cup {e}]
      BY <1>1 DEF AddParameter, e
    <2> DEFINE r == [acc EXCEPT !.enums = @ \cup {e}, !.full = IF p.values = <<>> THEN @ ELSE @ \cup {e}]
    <2>3. r.enums = acc.enums \cup {e} /\ r.orphans = acc.orphans /\ r.full \subseteq acc.full \cup {e}
      BY DEF EnumUse
    <2>4. r \in EnumUse
      BY <1>0, <2>1 DEF EnumUse
    <2> QED
      BY <2>2, <2>3, <2>4 DEF Accounted
  <1>2. CASE ~p.enum /\ p.type[1] \in DOMAIN GameType
    <2>1. GameType[p.type[1]] \in GameEnum
      BY <1>2, CommandAssumption DEF GameType
    <2> DEFINE g == Game(GameType[p.type[1]])
    <2>2. g \in Enum
      BY <2>1, GameTyped
    <2> HIDE DEF g
    <2>3. AddParameter(acc, p) = [acc EXCEPT !.enums = @ \cup {g}]
      BY <1>2 DEF AddParameter, g
    <2> QED
      BY <1>0, <2>2, <2>3 DEF Accounted, EnumUse
  <1>3. CASE ~p.enum /\ p.type[1] \notin DOMAIN GameType
    BY <1>3 DEF AddParameter, Accounted
  <1> QED
    BY <1>1, <1>2, <1>3

LEMMA AddParametersFacts ==
    ASSUME NEW acc \in EnumUse, NEW ps \in Seq(Parameter)
    PROVE  AddParameters(acc, ps) \in EnumUse /\ Accounted(acc, AddParameters(acc, ps))
  <1> DEFINE f == [p \in Parameter |-> [a \in EnumUse |-> AddParameter(a, p)]]
             I == {r \in EnumUse : Accounted(acc, r)}
  <1>1. f \in [Parameter -> [EnumUse -> EnumUse]] /\ \A p \in Parameter, a \in EnumUse : f[p][a] = AddParameter(a, p)
    BY AddParameterFacts
  <1>2. acc \in I
    BY DEF Accounted
  <1>3. \A i \in 1 .. Len(ps) : \A v \in EnumUse : v \in I => f[ps[i]][v] \in I
    <2> SUFFICES ASSUME NEW i \in 1 .. Len(ps), NEW v \in EnumUse, Accounted(acc, v) PROVE f[ps[i]][v] \in I
      OBVIOUS
    <2>1. ps[i] \in Parameter
      OBVIOUS
    <2> HIDE DEF f
    <2>2. f[ps[i]][v] \in EnumUse /\ Accounted(v, f[ps[i]][v])
      BY <1>1, <2>1, AddParameterFacts
    <2> QED
      BY <2>2, AccountedOn
  <1> HIDE DEF f, I
  <1>4. Folded(f, acc, ps) \in I
    BY <1>1, <1>2, <1>3, FoldedKeeps
  <1> QED
    BY <1>4 DEF AddParameters, f, I

LEMMA AddUsageFacts ==
    ASSUME NEW acc \in EnumUse, NEW u \in Seq(Word \cup Mark)
    PROVE  AddUsage(acc, u) \in EnumUse /\ Accounted(acc, AddUsage(acc, u))
  <1> DEFINE out == Parse(u).out
             r == AddParameters(acc, UpToRefused(out))
  <1>1. UpToRefused(out) \in Seq(Parameter)
    BY ParseTyped, FieldsTyped, UpToRefusedTyped
  <1>2. r \in EnumUse /\ Accounted(acc, r)
    BY <1>1, AddParametersFacts
  <1> HIDE DEF r
  <1>3. \/ AddUsage(acc, u) = acc \/ AddUsage(acc, u) = r
        \/ AddUsage(acc, u) = [acc EXCEPT !.full = r.full, !.orphans = @ \cup (r.full \ acc.full)]
    BY DEF AddUsage, r
  <1>4. Accounted(acc, acc)
    BY DEF Accounted
  <1> DEFINE left == [acc EXCEPT !.full = r.full, !.orphans = @ \cup (r.full \ acc.full)]
  <1>5. left \in EnumUse /\ Accounted(acc, left)
    BY <1>2 DEF EnumUse, Accounted
  <1> QED
    BY <1>2, <1>3, <1>4, <1>5

\* What a command's usages do to the enums.
LEMMA AddUsagesFacts ==
    ASSUME NEW acc \in EnumUse, NEW us \in Seq(Seq(Word \cup Mark))
    PROVE  AddUsages(acc, us) \in EnumUse /\ Accounted(acc, AddUsages(acc, us))
  <1> DEFINE U == Seq(Word \cup Mark)
             f == [u \in U |-> [a \in EnumUse |-> AddUsage(a, u)]]
             I == {r \in EnumUse : Accounted(acc, r)}
  <1>1. f \in [U -> [EnumUse -> EnumUse]] /\ \A u \in U, a \in EnumUse : f[u][a] = AddUsage(a, u)
    BY AddUsageFacts
  <1>2. acc \in I
    BY DEF Accounted
  <1>3. \A i \in 1 .. Len(us) : \A v \in EnumUse : v \in I => f[us[i]][v] \in I
    <2> SUFFICES ASSUME NEW i \in 1 .. Len(us), NEW v \in EnumUse, Accounted(acc, v) PROVE f[us[i]][v] \in I
      OBVIOUS
    <2>1. us[i] \in U
      OBVIOUS
    <2> HIDE DEF f
    <2>2. f[us[i]][v] \in EnumUse /\ Accounted(v, f[us[i]][v])
      BY <1>1, <2>1, AddUsageFacts
    <2> QED
      BY <2>2, AccountedOn
  <1>5. us \in Seq(U)
    OBVIOUS
  <1> HIDE DEF f, I, U
  <1>4. Folded(f, acc, us) \in I
    BY <1>1, <1>2, <1>3, <1>5, FoldedKeeps
  <1> QED
    BY <1>4 DEF AddUsages, f, I, U

LEMMA UnusableUsage ==
    ASSUME NEW acc \in EnumUse, NEW u \in Seq(Word \cup Mark), ~Usable(u)
    PROVE  AddUsage(acc, u).enums = acc.enums
  BY DEF AddUsage, Usable, EnumUse

\* A command without usable usages leaves enums behind, and no overload uses them.
LEMMA UnusableUsages ==
    ASSUME NEW acc \in EnumUse, NEW us \in Seq(Seq(Word \cup Mark)), \A i \in DOMAIN us : ~Usable(us[i])
    PROVE  AddUsages(acc, us).enums = acc.enums
  <1> DEFINE U == Seq(Word \cup Mark)
             f == [u \in U |-> [a \in EnumUse |-> AddUsage(a, u)]]
             I == {r \in EnumUse : r.enums = acc.enums}
  <1>1. f \in [U -> [EnumUse -> EnumUse]] /\ \A u \in U, a \in EnumUse : f[u][a] = AddUsage(a, u)
    BY AddUsageFacts
  <1>2. acc \in I
    OBVIOUS
  <1>3. \A i \in 1 .. Len(us) : \A v \in EnumUse : v \in I => f[us[i]][v] \in I
    <2> SUFFICES ASSUME NEW i \in 1 .. Len(us), NEW v \in EnumUse, v.enums = acc.enums PROVE f[us[i]][v] \in I
      OBVIOUS
    <2>1. us[i] \in U /\ ~Usable(us[i])
      OBVIOUS
    <2> HIDE DEF f
    <2>2. f[us[i]][v] \in EnumUse /\ f[us[i]][v].enums = v.enums
      BY <1>1, <2>1, AddUsageFacts, UnusableUsage
    <2> QED
      BY <2>2
  <1>5. us \in Seq(U)
    OBVIOUS
  <1> HIDE DEF f, I, U
  <1>4. Folded(f, acc, us) \in I
    BY <1>1, <1>2, <1>3, <1>5, FoldedKeeps
  <1> QED
    BY <1>4 DEF AddUsages, f, I, U

-----------------------------------------------------------------------------
(* Registering one command after the other *)

RegisterCourse(m, cs, n, acc) == acc[0] = m /\ \A i \in 1 .. n : acc[i] = Registered(acc[i - 1], cs[i])
OfLength(acc, n) == acc = [i \in 0 .. n |-> acc[i]]

LEMMA RegisterCourseExists ==
    ASSUME NEW m, NEW cs, NEW N \in Nat
    PROVE  \E acc : OfLength(acc, N) /\ RegisterCourse(m, cs, N, acc)
  <1> DEFINE S == {n \in Nat : \E acc : OfLength(acc, n) /\ RegisterCourse(m, cs, n, acc)}
  <1>1. 0 \in S
    <2> DEFINE g == [i \in 0 .. 0 |-> m]
    <2>1. OfLength(g, 0) /\ RegisterCourse(m, cs, 0, g)
      BY DEF OfLength, RegisterCourse
    <2> QED
      BY <2>1
  <1>2. ASSUME NEW n \in Nat, n \in S PROVE n + 1 \in S
    <2>1. PICK g : OfLength(g, n) /\ RegisterCourse(m, cs, n, g)
      BY <1>2
    <2> DEFINE v == Registered(g[n], cs[n + 1])
               h == [i \in 0 .. n + 1 |-> IF i = n + 1 THEN v ELSE g[i]]
    <2>2. h[0] = m
      BY <2>1 DEF RegisterCourse
    <2>3. ASSUME NEW i \in 1 .. n + 1 PROVE h[i] = Registered(h[i - 1], cs[i])
      <3>1. h[i - 1] = g[i - 1]
        OBVIOUS
      <3>2. CASE i = n + 1
        BY <3>1, <3>2
      <3>3. CASE i # n + 1
        <4>1. i \in 1 .. n
          BY <3>3
        <4>2. h[i] = g[i] /\ g[i] = Registered(g[i - 1], cs[i])
          BY <2>1, <4>1 DEF RegisterCourse
        <4> QED
          BY <3>1, <4>2
      <3> QED
        BY <3>2, <3>3
    <2>4. OfLength(h, n + 1)
      BY DEF OfLength
    <2> HIDE DEF h
    <2>5. RegisterCourse(m, cs, n + 1, h)
      BY <2>2, <2>3 DEF RegisterCourse
    <2> QED
      BY <2>4, <2>5
  <1>3. N \in S
    <2> HIDE DEF S
    <2> QED
      BY <1>1, <1>2, SetInduction
  <1> QED
    BY <1>3

LEMMA RegisteredAllCourse ==
    ASSUME NEW m, NEW cs \in Seq(Cmd)
    PROVE  \E acc : RegisterCourse(m, cs, Len(cs), acc) /\ RegisteredAll(m, cs) = acc[Len(cs)]
  <1> DEFINE N == Len(cs)
             D(acc) == [i \in 0 .. N |-> IF i = 0 THEN m ELSE Registered(acc[i - 1], cs[i])]
             a == CHOOSE acc : acc = D(acc)
  <1>1. N \in Nat
    OBVIOUS
  <1>2. PICK g : OfLength(g, N) /\ RegisterCourse(m, cs, N, g)
    BY <1>1, RegisterCourseExists
  <1>3. g = D(g)
    <2>1. \A i \in 0 .. N : g[i] = IF i = 0 THEN m ELSE Registered(g[i - 1], cs[i])
      <3> HIDE DEF N
      <3> QED
        BY <1>1, <1>2 DEF RegisterCourse
    <2> QED
      BY <1>2, <2>1 DEF OfLength
  <1>4. a = D(a)
    BY <1>3
  <1>5. RegisteredAll(m, cs) = a[N]
    BY DEF RegisteredAll
  <1>6. \A i \in 0 .. N : a[i] = IF i = 0 THEN m ELSE Registered(a[i - 1], cs[i])
    <2> HIDE DEF a
    <2> QED
      BY <1>4
  <1> HIDE DEF a, N
  <1>7. RegisterCourse(m, cs, N, a)
    BY <1>1, <1>6 DEF RegisterCourse
  <1> QED
    BY <1>5, <1>7 DEF N

-----------------------------------------------------------------------------
(* The two tables *)

Tables == [
    custom : UNION {[D -> Cmd] : D \in SUBSET Label},
    signatures : UNION {[D -> SUBSET Enum] : D \in SUBSET Label},
    aliases : UNION {[D -> Label] : D \in SUBSET Label},
    full : SUBSET Enum, orphans : SUBSET Enum]

\* The labels of one command lead to it, and every alias in the registry is one of them.
LabelsAgree(m) ==
    /\ \A l \in DOMAIN m.custom :
         LET n == m.custom[l].name IN
         /\ n \in DOMAIN m.custom /\ m.custom[n] = m.custom[l]
         /\ n \in DOMAIN m.signatures
         /\ l = n \/ (l \in DOMAIN m.aliases /\ m.aliases[l] = n)
    /\ \A l \in DOMAIN m.aliases : l \in DOMAIN m.custom /\ m.custom[l].name = m.aliases[l]

\* A signature is the game's or a custom command's.
Ours(m, l) == l \in DOMAIN m.custom /\ m.custom[l].name = l
SignaturesOwned(m) == \A l \in DOMAIN m.signatures : l \in GameCommand \ {"reload"} \/ Ours(m, l)

Basic(e) == e[1] \in {<<g>> : g \in GameEnum \cup {"PluginName"}}
InUse(m, e) == \E l \in DOMAIN m.signatures : e \in m.signatures[l]
EnumsUsed(m) == \A e \in m.full : Basic(e) \/ e \in m.orphans \/ InUse(m, e)

MapInv(m) == m \in Tables /\ LabelsAgree(m) /\ SignaturesOwned(m) /\ EnumsUsed(m)

LEMMA TableFields ==
    ASSUME NEW m \in Tables
    PROVE  /\ DOMAIN m.custom \subseteq Label /\ m.custom \in [DOMAIN m.custom -> Cmd]
           /\ DOMAIN m.signatures \subseteq Label /\ m.signatures \in [DOMAIN m.signatures -> SUBSET Enum]
           /\ DOMAIN m.aliases \subseteq Label /\ m.aliases \in [DOMAIN m.aliases -> Label]
           /\ m.full \subseteq Enum /\ m.orphans \subseteq Enum
  <1>1. /\ m.custom \in UNION {[D -> Cmd] : D \in SUBSET Label}
        /\ m.signatures \in UNION {[D -> SUBSET Enum] : D \in SUBSET Label}
        /\ m.aliases \in UNION {[D -> Label] : D \in SUBSET Label}
        /\ m.full \subseteq Enum /\ m.orphans \subseteq Enum
    BY DEF Tables
  <1>2. PICK D \in SUBSET Label : m.custom \in [D -> Cmd]
    BY <1>1
  <1>3. PICK E \in SUBSET Label : m.signatures \in [E -> SUBSET Enum]
    BY <1>1
  <1>4. PICK F \in SUBSET Label : m.aliases \in [F -> Label]
    BY <1>1
  <1> QED
    BY <1>1, <1>2, <1>3, <1>4

LEMMA MakeTables ==
    ASSUME NEW D \in SUBSET Label, NEW f \in [D -> Cmd],
           NEW E \in SUBSET Label, NEW g \in [E -> SUBSET Enum],
           NEW F \in SUBSET Label, NEW h \in [F -> Label],
           NEW full \in SUBSET Enum, NEW orphans \in SUBSET Enum
    PROVE  [custom |-> f, signatures |-> g, aliases |-> h, full |-> full, orphans |-> orphans] \in Tables
  <1>1. f \in UNION {[X -> Cmd] : X \in SUBSET Label}
    OBVIOUS
  <1>2. g \in UNION {[X -> SUBSET Enum] : X \in SUBSET Label}
    OBVIOUS
  <1>3. h \in UNION {[X -> Label] : X \in SUBSET Label}
    OBVIOUS
  <1> QED
    BY <1>1, <1>2, <1>3 DEF Tables

LEMMA UsagesTyped ==
    ASSUME NEW c \in Cmd
    PROVE  Usages(c) \in Seq(Seq(Word \cup Mark))
  <1>1. c.usages \in Seq(Seq(Word \cup Mark)) /\ c.name \in Word
    BY CommandAssumption DEF Cmd
  <1>2. <<"/", c.name>> \in Seq(Word \cup Mark)
    BY <1>1 DEF Mark
  <1>3. \A S : \A u \in S : <<u>> \in Seq(S)
    OBVIOUS
  <1>4. <<<<"/", c.name>>>> \in Seq(Seq(Word \cup Mark))
    BY <1>2, <1>3, Zenon
  <1> QED
    BY <1>1, <1>4 DEF Usages

\* What registering c makes of m: the commands there were are left alone, and what is
\* new is c, under labels of its own.
Keeps(m, r) == \A l \in DOMAIN m.custom : l \in DOMAIN r.custom /\ r.custom[l] = m.custom[l]
AddsOnly(m, r, c) == \A l \in DOMAIN r.custom : l \in DOMAIN m.custom \/ r.custom[l] = c
KnownOnly(m, r, c) == \A l : Known(r, l) => Known(m, l) \/ l \in c.aliases \cup {c.name}
There(r, c) == c.name \in DOMAIN r.custom /\ r.custom[c.name] = c

Registrable(m, c) == ~Known(m, c.name) /\ \E k \in DOMAIN Usages(c) : Usable(Usages(c)[k])

RegisterFacts(m, r, c) ==
    /\ MapInv(r) /\ Keeps(m, r) /\ AddsOnly(m, r, c) /\ KnownOnly(m, r, c)
    /\ Registrable(m, c) => There(r, c)

\* The enums that registering c makes.
LEMMA RegisterEnums ==
    ASSUME NEW m, MapInv(m), NEW c \in Cmd
    PROVE  LET uses == AddUsages([enums |-> {}, full |-> m.full, orphans |-> m.orphans], Usages(c)) IN
           /\ uses.enums \in SUBSET Enum /\ uses.full \in SUBSET Enum /\ uses.orphans \in SUBSET Enum
           /\ m.orphans \subseteq uses.orphans
           /\ uses.full \subseteq m.full \cup uses.enums \cup uses.orphans
           /\ (\A i \in DOMAIN Usages(c) : ~Usable(Usages(c)[i])) => uses.enums = {}
  <1> DEFINE acc == [enums |-> {}, full |-> m.full, orphans |-> m.orphans]
             uses == AddUsages(acc, Usages(c))
  <1>1. acc \in EnumUse
    BY TableFields DEF MapInv, EnumUse
  <1>2. acc.full = m.full /\ acc.orphans = m.orphans /\ acc.enums = {}
    OBVIOUS
  <1> HIDE DEF acc
  <1>3. uses \in EnumUse /\ Accounted(acc, uses)
    BY <1>1, UsagesTyped, AddUsagesFacts
  <1> HIDE DEF uses
  <1>4. /\ uses.enums \in SUBSET Enum /\ uses.full \in SUBSET Enum /\ uses.orphans \in SUBSET Enum
        /\ m.orphans \subseteq uses.orphans
        /\ uses.full \subseteq m.full \cup uses.enums \cup uses.orphans
    BY <1>2, <1>3 DEF EnumUse, Accounted
  <1>5. (\A i \in DOMAIN Usages(c) : ~Usable(Usages(c)[i])) => uses.enums = {}
    BY <1>1, <1>2, UsagesTyped, UnusableUsages DEF uses
  <1> QED
    BY <1>4, <1>5 DEF uses, acc

LEMMA RefusedFacts ==
    ASSUME NEW m, MapInv(m), NEW c \in Cmd, NEW full \in SUBSET Enum, NEW orphans \in SUBSET Enum,
           m.orphans \subseteq orphans, full \subseteq m.full \cup orphans,
           NEW r, r = [m EXCEPT !.full = full, !.orphans = orphans]
    PROVE  MapInv(r) /\ Keeps(m, r) /\ AddsOnly(m, r, c) /\ KnownOnly(m, r, c)
  <1>1. r \in Tables
    BY DEF MapInv, Tables
  <1>2. r.custom = m.custom /\ r.signatures = m.signatures /\ r.aliases = m.aliases /\ r.full = full /\ r.orphans = orphans
    BY DEF MapInv, Tables
  <1>3. LabelsAgree(r) /\ SignaturesOwned(r)
    BY <1>2 DEF MapInv, LabelsAgree, SignaturesOwned, Ours
  <1>4. EnumsUsed(r)
    BY <1>2 DEF MapInv, EnumsUsed, InUse
  <1>5. Keeps(m, r) /\ AddsOnly(m, r, c) /\ KnownOnly(m, r, c)
    BY <1>2 DEF Keeps, AddsOnly, KnownOnly, Known
  <1> QED
    BY <1>1, <1>3, <1>4, <1>5 DEF MapInv

\* A command whose name is free gets a signature, and its free labels lead to it.
LEMMA AcceptedFacts ==
    ASSUME NEW m, MapInv(m), NEW c \in Cmd, ~Known(m, c.name),
           NEW enums \in SUBSET Enum, NEW full \in SUBSET Enum, NEW orphans \in SUBSET Enum,
           m.orphans \subseteq orphans, full \subseteq m.full \cup enums \cup orphans,
           NEW taken, taken = {a \in c.aliases : ~Known(m, a)},
           NEW r, r = [custom |-> Over(m.custom, taken \cup {c.name}, LAMBDA l : c),
                       signatures |-> Over(m.signatures, {c.name}, LAMBDA l : enums),
                       aliases |-> Over(m.aliases, taken, LAMBDA l : c.name),
                       full |-> full, orphans |-> orphans]
    PROVE  MapInv(r) /\ Keeps(m, r) /\ AddsOnly(m, r, c) /\ KnownOnly(m, r, c) /\ There(r, c)
  <1> DEFINE n == c.name
             T == taken \cup {n}
  <1>0. /\ DOMAIN m.custom \subseteq Label /\ m.custom \in [DOMAIN m.custom -> Cmd]
        /\ DOMAIN m.signatures \subseteq Label /\ m.signatures \in [DOMAIN m.signatures -> SUBSET Enum]
        /\ DOMAIN m.aliases \subseteq Label /\ m.aliases \in [DOMAIN m.aliases -> Label]
    BY TableFields DEF MapInv
  <1>1. n \in Label /\ taken \subseteq Label /\ T \subseteq Label /\ taken \subseteq c.aliases
    BY DEF Cmd
  <1>2. /\ r.custom = [l \in DOMAIN m.custom \cup T |-> IF l \in T THEN c ELSE m.custom[l]]
        /\ r.signatures = [l \in DOMAIN m.signatures \cup {n} |-> IF l \in {n} THEN enums ELSE m.signatures[l]]
        /\ r.aliases = [l \in DOMAIN m.aliases \cup taken |-> IF l \in taken THEN n ELSE m.aliases[l]]
        /\ r.full = full /\ r.orphans = orphans
    BY DEF Over
  <1>3. /\ DOMAIN r.custom = DOMAIN m.custom \cup T
        /\ DOMAIN r.signatures = DOMAIN m.signatures \cup {n}
        /\ DOMAIN r.aliases = DOMAIN m.aliases \cup taken
        /\ \A l \in T : r.custom[l] = c
        /\ \A l \in DOMAIN m.custom : l \notin T => r.custom[l] = m.custom[l]
        /\ r.signatures[n] = enums
        /\ \A l \in DOMAIN m.signatures : l # n => r.signatures[l] = m.signatures[l]
        /\ \A l \in taken : r.aliases[l] = n
        /\ \A l \in DOMAIN m.aliases : l \notin taken => r.aliases[l] = m.aliases[l]
    BY <1>2
  <1>4. \A l \in T : l \notin DOMAIN m.custom /\ l \notin DOMAIN m.signatures /\ l \notin DOMAIN m.aliases
    BY DEF Known
  <1>5. r \in Tables
    <2>1. r.custom \in [DOMAIN m.custom \cup T -> Cmd] /\ DOMAIN m.custom \cup T \in SUBSET Label
      <3>1. \A l \in DOMAIN m.custom \cup T : (IF l \in T THEN c ELSE m.custom[l]) \in Cmd
        <4> HIDE DEF T
        <4> QED
          BY <1>0
      <3>2. DOMAIN m.custom \cup T \in SUBSET Label
        BY <1>0, <1>1
      <3>3. [l \in DOMAIN m.custom \cup T |-> IF l \in T THEN c ELSE m.custom[l]] \in [DOMAIN m.custom \cup T -> Cmd]
        BY ONLY <3>1
      <3> QED
        BY <1>2, <3>2, <3>3
    <2>2. r.signatures \in [DOMAIN m.signatures \cup {n} -> SUBSET Enum] /\ DOMAIN m.signatures \cup {n} \in SUBSET Label
      <3>1. \A l \in DOMAIN m.signatures \cup {n} : (IF l \in {n} THEN enums ELSE m.signatures[l]) \in SUBSET Enum
        BY <1>0
      <3>2. DOMAIN m.signatures \cup {n} \in SUBSET Label
        BY <1>0, <1>1
      <3> QED
        BY <1>2, <3>1, <3>2, Zenon
    <2>3. r.aliases \in [DOMAIN m.aliases \cup taken -> Label] /\ DOMAIN m.aliases \cup taken \in SUBSET Label
      <3>1. \A l \in DOMAIN m.aliases \cup taken : (IF l \in taken THEN n ELSE m.aliases[l]) \in Label
        BY <1>0, <1>1
      <3>2. DOMAIN m.aliases \cup taken \in SUBSET Label
        BY <1>0, <1>1
      <3>3. [l \in DOMAIN m.aliases \cup taken |-> IF l \in taken THEN n ELSE m.aliases[l]] \in [DOMAIN m.aliases \cup taken -> Label]
        BY ONLY <3>1
      <3> QED
        BY <1>2, <3>2, <3>3
    <2>4. r = [custom |-> r.custom, signatures |-> r.signatures, aliases |-> r.aliases, full |-> full, orphans |-> orphans]
      OBVIOUS
    <2> HIDE DEF n, T
    <2> QED
      BY ONLY <2>1, <2>2, <2>3, <2>4, full \in SUBSET Enum, orphans \in SUBSET Enum, MakeTables
  <1>6. MapInv(m) /\ n = c.name /\ n \in T /\ taken \subseteq T
    OBVIOUS
  <1> HIDE DEF T
  <1>7. LabelsAgree(r)
    <2>1. ASSUME NEW l \in DOMAIN r.custom
          PROVE  LET k == r.custom[l].name IN
                 /\ k \in DOMAIN r.custom /\ r.custom[k] = r.custom[l]
                 /\ k \in DOMAIN r.signatures
                 /\ l = k \/ (l \in DOMAIN r.aliases /\ r.aliases[l] = k)
      <3>1. CASE l \in T
        <4>1. l = n \/ l \in taken
          BY <3>1 DEF T
        <4> QED
          BY <1>3, <1>6, <3>1, <4>1
      <3>2. CASE l \notin T
        <4> DEFINE k == m.custom[l].name
        <4>1. l \in DOMAIN m.custom /\ r.custom[l] = m.custom[l]
          BY <1>3, <2>1, <3>2
        <4>2. /\ k \in DOMAIN m.custom /\ m.custom[k] = m.custom[l] /\ k \in DOMAIN m.signatures
              /\ l = k \/ (l \in DOMAIN m.aliases /\ m.aliases[l] = k)
          BY <1>6, <4>1 DEF MapInv, LabelsAgree
        <4>3. k \notin T /\ l \notin taken
          BY <1>4, <1>6, <3>2, <4>2
        <4> HIDE DEF k
        <4> QED
          BY <1>3, <1>6, <4>1, <4>2, <4>3 DEF k
      <3> QED
        BY <3>1, <3>2
    <2>2. ASSUME NEW l \in DOMAIN r.aliases PROVE l \in DOMAIN r.custom /\ r.custom[l].name = r.aliases[l]
      <3>1. CASE l \in taken
        BY <1>3, <1>6, <3>1
      <3>2. CASE l \notin taken
        <4>1. l \in DOMAIN m.aliases /\ r.aliases[l] = m.aliases[l]
          BY <1>3, <2>2, <3>2
        <4>2. l \in DOMAIN m.custom /\ m.custom[l].name = m.aliases[l]
          BY <1>6, <4>1 DEF MapInv, LabelsAgree
        <4> QED
          BY <1>3, <1>4, <4>1, <4>2
      <3> QED
        BY <3>1, <3>2
    <2> QED
      BY <2>1, <2>2 DEF LabelsAgree
  <1>8. SignaturesOwned(r)
    <2> SUFFICES ASSUME NEW l \in DOMAIN r.signatures PROVE l \in GameCommand \ {"reload"} \/ Ours(r, l)
      BY DEF SignaturesOwned
    <2>1. CASE l = n
      BY <1>3, <1>6, <2>1 DEF Ours
    <2>2. CASE l # n
      <3>1. l \in DOMAIN m.signatures
        BY <1>3, <2>2
      <3>2. l \in GameCommand \ {"reload"} \/ Ours(m, l)
        BY <1>6, <3>1 DEF MapInv, SignaturesOwned
      <3> QED
        BY <1>3, <1>4, <3>2 DEF Ours
    <2> QED
      BY <2>1, <2>2
  <1>9. EnumsUsed(r)
    <2> SUFFICES ASSUME NEW e \in full PROVE Basic(e) \/ e \in orphans \/ InUse(r, e)
      BY <1>2 DEF EnumsUsed
    <2>1. CASE e \in enums
      BY <1>3, <2>1 DEF InUse
    <2>2. CASE e \in m.full /\ e \notin orphans
      <3>1. Basic(e) \/ InUse(m, e)
        BY <1>6, <2>2 DEF MapInv, EnumsUsed
      <3>2. InUse(m, e) => InUse(r, e)
        <4> SUFFICES ASSUME NEW l \in DOMAIN m.signatures, e \in m.signatures[l] PROVE InUse(r, e)
          BY DEF InUse
        <4>1. l # n
          BY <1>4, <1>6
        <4> QED
          BY <1>3, <4>1 DEF InUse
      <3> QED
        BY <3>1, <3>2
    <2> QED
      BY <2>1, <2>2
  <1>10. Keeps(m, r)
    BY <1>3, <1>4 DEF Keeps
  <1>11. AddsOnly(m, r, c)
    BY <1>3 DEF AddsOnly
  <1>12. KnownOnly(m, r, c)
    <2>1. \A l \in T : l \in c.aliases \cup {c.name}
      BY <1>1 DEF T
    <2> QED
      BY <1>3, <1>6, <2>1 DEF KnownOnly, Known
  <1>13. There(r, c)
    BY <1>3, <1>6 DEF There
  <1> QED
    BY <1>5, <1>7, <1>8, <1>9, <1>10, <1>11, <1>12, <1>13 DEF MapInv

LEMMA RegisteredFacts ==
    ASSUME NEW m, MapInv(m), NEW c \in Cmd
    PROVE  RegisterFacts(m, Registered(m, c), c)
  <1> DEFINE uses == AddUsages([enums |-> {}, full |-> m.full, orphans |-> m.orphans], Usages(c))
             taken == {a \in c.aliases : ~Known(m, a)}
             r == Registered(m, c)
  <1>1. /\ uses.enums \in SUBSET Enum /\ uses.full \in SUBSET Enum /\ uses.orphans \in SUBSET Enum
        /\ m.orphans \subseteq uses.orphans
        /\ uses.full \subseteq m.full \cup uses.enums \cup uses.orphans
        /\ (\A i \in DOMAIN Usages(c) : ~Usable(Usages(c)[i])) => uses.enums = {}
    BY RegisterEnums
  <1>2. CASE Known(m, c.name)
    <2>1. r = m
      BY <1>2 DEF Registered
    <2> QED
      BY <1>2, <2>1 DEF RegisterFacts, Registrable, Keeps, AddsOnly, KnownOnly
  <1>3. CASE ~Known(m, c.name) /\ \A i \in DOMAIN Usages(c) : ~Usable(Usages(c)[i])
    <2>1. r = [m EXCEPT !.full = uses.full, !.orphans = uses.orphans]
      BY <1>3 DEF Registered
    <2>2. uses.full \subseteq m.full \cup uses.orphans
      BY <1>1, <1>3
    <2>3. MapInv(r) /\ Keeps(m, r) /\ AddsOnly(m, r, c) /\ KnownOnly(m, r, c)
      <3> HIDE DEF uses, r
      <3> QED
        BY <1>1, <2>1, <2>2, RefusedFacts
    <2> QED
      BY <1>3, <2>3 DEF RegisterFacts, Registrable
  <1>4. CASE ~Known(m, c.name) /\ \E i \in DOMAIN Usages(c) : Usable(Usages(c)[i])
    <2>1. r = [custom |-> Over(m.custom, taken \cup {c.name}, LAMBDA l : c),
               signatures |-> Over(m.signatures, {c.name}, LAMBDA l : uses.enums),
               aliases |-> Over(m.aliases, taken, LAMBDA l : c.name),
               full |-> uses.full, orphans |-> uses.orphans]
      BY <1>4 DEF Registered
    <2> QED
      BY <1>1, <1>4, <2>1, AcceptedFacts DEF RegisterFacts
  <1> QED
    BY <1>2, <1>3, <1>4

OwnersIn(m, O) == \A l \in DOMAIN m.custom : m.custom[l].owner \in O

LEMMA KeepsOn ==
    ASSUME NEW m, NEW q, NEW r, Keeps(m, q), Keeps(q, r)
    PROVE  Keeps(m, r)
  BY DEF Keeps

LEMMA OwnersStay ==
    ASSUME NEW m, NEW r, NEW c, NEW O, OwnersIn(m, O), Keeps(m, r), AddsOnly(m, r, c), c.owner \in O
    PROVE  OwnersIn(r, O)
  BY DEF OwnersIn, Keeps, AddsOnly

\* Whatever is registered, the commands there were stay, and only what is registered is
\* added to their owners.
LEMMA RegisteredAllFacts ==
    ASSUME NEW m, MapInv(m), NEW cs \in Seq(Cmd), NEW O, OwnersIn(m, O), \A i \in DOMAIN cs : cs[i].owner \in O
    PROVE  MapInv(RegisteredAll(m, cs)) /\ Keeps(m, RegisteredAll(m, cs)) /\ OwnersIn(RegisteredAll(m, cs), O)
  <1> DEFINE N == Len(cs)
  <1>1. PICK acc : RegisterCourse(m, cs, N, acc) /\ RegisteredAll(m, cs) = acc[N]
    BY RegisteredAllCourse
  <1>2. N \in Nat /\ \A i \in 1 .. N : cs[i] \in Cmd /\ cs[i].owner \in O
    OBVIOUS
  <1> DEFINE S == {n \in Nat : n <= N => MapInv(acc[n]) /\ Keeps(m, acc[n]) /\ OwnersIn(acc[n], O)}
  <1> HIDE DEF N
  <1>3. 0 \in S
    <2>1. acc[0] = m /\ Keeps(m, m)
      BY <1>1 DEF RegisterCourse, Keeps
    <2> QED
      BY <2>1
  <1>4. ASSUME NEW n \in Nat, n \in S PROVE n + 1 \in S
    <2> SUFFICES ASSUME n + 1 <= N
                 PROVE  MapInv(acc[n + 1]) /\ Keeps(m, acc[n + 1]) /\ OwnersIn(acc[n + 1], O)
      OBVIOUS
    <2>1. n + 1 \in 1 .. N /\ n <= N /\ (n + 1) - 1 = n
      BY <1>2
    <2>2. MapInv(acc[n]) /\ Keeps(m, acc[n]) /\ OwnersIn(acc[n], O)
      BY <1>4, <2>1
    <2>3. acc[n + 1] = Registered(acc[n], cs[n + 1]) /\ cs[n + 1] \in Cmd /\ cs[n + 1].owner \in O
      BY <1>1, <1>2, <2>1 DEF RegisterCourse
    <2>4. MapInv(acc[n + 1]) /\ Keeps(acc[n], acc[n + 1]) /\ AddsOnly(acc[n], acc[n + 1], cs[n + 1])
      BY <2>2, <2>3, RegisteredFacts DEF RegisterFacts
    <2> QED
      BY <2>2, <2>3, <2>4, KeepsOn, OwnersStay
  <1>5. N \in S
    <2> HIDE DEF S
    <2> QED
      BY <1>2, <1>3, <1>4, SetInduction
  <1> QED
    BY <1>1, <1>2, <1>5

\* A map on which nothing of ours is registered.
Bare(m) == MapInv(m) /\ DOMAIN m.custom = {} /\ DOMAIN m.aliases = {}

FromGameOr(m, n) ==
    \A l : Known(m, l) =>
        \/ l \in GameCommand \ {"reload"}
        \/ \E j \in 1 .. n : l \in Default[j].aliases \cup {Default[j].name}

DefaultsThere(m, n) == \A i \in 1 .. n : There(m, Default[i])

LEMMA DefaultFacts ==
    /\ Len(Default) \in Nat
    /\ \A i \in 1 .. Len(Default) :
          /\ Default[i] \in Cmd /\ Default[i].owner = Server
          /\ Default[i].name \notin GameCommand \ {"reload"}
          /\ \A j \in 1 .. Len(Default) : j # i => Default[i].name \notin Default[j].aliases \cup {Default[j].name}
          /\ \E k \in DOMAIN Usages(Default[i]) : Usable(Usages(Default[i])[k])
  <1>1. Default \in Seq(Cmd) /\ \A i \in DOMAIN Default : Default[i].owner = Server
    BY CommandAssumption
  <1>2. DOMAIN Default = 1 .. Len(Default) /\ Len(Default) \in Nat /\ \A i \in 1 .. Len(Default) : Default[i] \in Cmd
    BY <1>1
  <1> QED
    BY <1>1, <1>2, DefaultAssumption, Zenon

\* The server's commands find their names free, and are there in the end.
LEMMA DefaultsRegistered ==
    ASSUME NEW m, Bare(m)
    PROVE  DefaultsThere(setDefaultCommands(m), Len(Default))
  <1> DEFINE N == Len(Default)
  <1>1. PICK acc : RegisterCourse(m, Default, N, acc) /\ RegisteredAll(m, Default) = acc[N]
    BY CommandAssumption, RegisteredAllCourse
  <1>2. N \in Nat
    BY DefaultFacts
  <1> DEFINE S == {n \in Nat : n <= N => MapInv(acc[n]) /\ FromGameOr(acc[n], n) /\ DefaultsThere(acc[n], n)}
  <1>3. 0 \in S
    <2>1. acc[0] = m
      BY <1>1 DEF RegisterCourse
    <2>2. FromGameOr(m, 0)
      BY DEF Bare, FromGameOr, Known, MapInv, SignaturesOwned, Ours
    <2> QED
      BY <2>1, <2>2 DEF Bare, DefaultsThere
  <1>4. ASSUME NEW n \in Nat, n \in S PROVE n + 1 \in S
    <2> SUFFICES ASSUME n + 1 <= N
                 PROVE  MapInv(acc[n + 1]) /\ FromGameOr(acc[n + 1], n + 1) /\ DefaultsThere(acc[n + 1], n + 1)
      OBVIOUS
    <2> DEFINE c == Default[n + 1]
    <2>1. n + 1 \in 1 .. N /\ n <= N /\ (n + 1) - 1 = n
      BY <1>2
    <2>2. MapInv(acc[n]) /\ FromGameOr(acc[n], n) /\ DefaultsThere(acc[n], n)
      BY <1>4, <2>1
    <2>3. acc[n + 1] = Registered(acc[n], c)
      BY <1>1, <2>1 DEF RegisterCourse
    <2>4. RegisterFacts(acc[n], acc[n + 1], c)
      BY <2>1, <2>2, <2>3, DefaultFacts, RegisteredFacts
    <2>5. Registrable(acc[n], c)
      <3>1. \A j \in 1 .. n : j \in 1 .. N /\ j # n + 1
        BY <2>1
      <3>2. ~Known(acc[n], c.name)
        <4>1. /\ c.name \notin GameCommand \ {"reload"}
              /\ \A j \in 1 .. N : j # n + 1 => c.name \notin Default[j].aliases \cup {Default[j].name}
          BY <2>1, DefaultFacts
        <4>2. Known(acc[n], c.name) =>
                 \/ c.name \in GameCommand \ {"reload"}
                 \/ \E j \in 1 .. n : c.name \in Default[j].aliases \cup {Default[j].name}
          BY <2>2 DEF FromGameOr
        <4> HIDE DEF c, N
        <4> QED
          BY <3>1, <4>1, <4>2
      <3> QED
        BY <2>1, <3>2, DefaultFacts DEF Registrable
    <2>6. FromGameOr(acc[n + 1], n + 1)
      <3>1. \A l : Known(acc[n + 1], l) => Known(acc[n], l) \/ l \in c.aliases \cup {c.name}
        BY <2>4 DEF RegisterFacts, KnownOnly
      <3>2. n + 1 \in 1 .. n + 1 /\ \A j \in 1 .. n : j \in 1 .. n + 1
        OBVIOUS
      <3> QED
        BY <2>2, <3>1, <3>2 DEF FromGameOr
    <2>7. DefaultsThere(acc[n + 1], n + 1)
      <3>1. There(acc[n + 1], c) /\ Keeps(acc[n], acc[n + 1])
        BY <2>4, <2>5 DEF RegisterFacts
      <3>2. \A i \in 1 .. n + 1 : i \in 1 .. n \/ i = n + 1
        OBVIOUS
      <3> QED
        BY <2>2, <3>1, <3>2 DEF DefaultsThere, There, Keeps
    <2> QED
      BY <2>4, <2>6, <2>7 DEF RegisterFacts
  <1>5. N \in S
    <2> HIDE DEF S
    <2> QED
      BY <1>2, <1>3, <1>4, SetInduction
  <1> QED
    BY <1>1, <1>2, <1>5 DEF setDefaultCommands

\* The map after the server's commands were registered on a bare one.
Ready(m) == MapInv(m) /\ DefaultsThere(m, Len(Default)) /\ OwnersIn(m, {Server})

LEMMA BareReady ==
    ASSUME NEW m, Bare(m)
    PROVE  Ready(setDefaultCommands(m))
  <1>1. OwnersIn(m, {Server})
    BY DEF Bare, OwnersIn
  <1>2. Default \in Seq(Cmd) /\ \A i \in DOMAIN Default : Default[i].owner \in {Server}
    BY CommandAssumption
  <1>3. MapInv(setDefaultCommands(m)) /\ OwnersIn(setDefaultCommands(m), {Server})
    BY <1>1, <1>2, RegisteredAllFacts DEF Bare, setDefaultCommands
  <1> QED
    BY <1>3, DefaultsRegistered DEF Ready

\* Taking commands out: their aliases and signatures go, and the enums of their
\* overloads, but for two of the game's.
LEMMA UnregisteredFields ==
    ASSUME NEW m \in Tables, NEW names
    PROVE  LET r == Unregistered(m, names)
               ours == names \cap DOMAIN m.custom \cap DOMAIN m.signatures IN
           /\ r.custom = m.custom /\ r.orphans = m.orphans
           /\ r.full = m.full \ UNION {EmptiedOf(m.signatures[n]) : n \in ours}
           /\ DOMAIN r.aliases = {l \in DOMAIN m.aliases : m.aliases[l] \notin names}
           /\ DOMAIN r.signatures = DOMAIN m.signatures \ names
           /\ \A l \in DOMAIN r.signatures : r.signatures[l] = m.signatures[l]
           /\ r \in Tables
  <1> DEFINE r == Unregistered(m, names)
             ours == names \cap DOMAIN m.custom \cap DOMAIN m.signatures
             full == m.full \ UNION {EmptiedOf(m.signatures[n]) : n \in ours}
             gone == {l \in DOMAIN m.aliases : m.aliases[l] \in names}
  <1>0. /\ DOMAIN m.signatures \subseteq Label /\ m.signatures \in [DOMAIN m.signatures -> SUBSET Enum]
        /\ DOMAIN m.aliases \subseteq Label /\ m.aliases \in [DOMAIN m.aliases -> Label]
        /\ m.full \subseteq Enum
    BY TableFields
  <1>1. r = [m EXCEPT !.full = full, !.aliases = Less(m.aliases, gone), !.signatures = Less(m.signatures, names)]
    BY DEF Unregistered, AliasesOf
  <1> HIDE DEF full
  <1>2. /\ r.custom = m.custom /\ r.orphans = m.orphans /\ r.full = full
        /\ r.aliases = Less(m.aliases, gone) /\ r.signatures = Less(m.signatures, names)
    BY <1>1 DEF Tables
  <1>3. Less(m.aliases, gone) \in [DOMAIN m.aliases \ gone -> Label]
    BY <1>0 DEF Less
  <1>4. Less(m.signatures, names) \in [DOMAIN m.signatures \ names -> SUBSET Enum]
    BY <1>0 DEF Less
  <1>5. \A l \in DOMAIN m.signatures \ names : Less(m.signatures, names)[l] = m.signatures[l]
    BY DEF Less
  <1>6. full \in SUBSET Enum
    BY <1>0 DEF full
  <1>7. r \in Tables
    <2>1. DOMAIN m.aliases \ gone \in SUBSET Label /\ DOMAIN m.signatures \ names \in SUBSET Label
      BY <1>0
    <2>2. /\ Less(m.aliases, gone) \in UNION {[D -> Label] : D \in SUBSET Label}
          /\ Less(m.signatures, names) \in UNION {[D -> SUBSET Enum] : D \in SUBSET Label}
      BY <1>3, <1>4, <2>1
    <2> QED
      BY <1>1, <1>6, <2>2 DEF Tables
  <1>8. DOMAIN m.aliases \ gone = {l \in DOMAIN m.aliases : m.aliases[l] \notin names}
    OBVIOUS
  <1> HIDE DEF r, gone
  <1>9. /\ r.full = full /\ DOMAIN r.aliases = {l \in DOMAIN m.aliases : m.aliases[l] \notin names}
        /\ DOMAIN r.signatures = DOMAIN m.signatures \ names
        /\ \A l \in DOMAIN r.signatures : r.signatures[l] = m.signatures[l]
    BY <1>2, <1>3, <1>4, <1>5, <1>8
  <1> QED
    BY <1>2, <1>7, <1>9 DEF r, full

\* Enums that lose their values are those of a signature that goes.
LEMMA EnumsStayUsed ==
    ASSUME NEW m, MapInv(m), NEW names, names \subseteq DOMAIN m.custom
    PROVE  EnumsUsed(Unregistered(m, names))
  <1> DEFINE r == Unregistered(m, names)
             ours == names \cap DOMAIN m.custom \cap DOMAIN m.signatures
  <1>1. m \in Tables
    BY DEF MapInv
  <1>2. /\ r.full = m.full \ UNION {EmptiedOf(m.signatures[n]) : n \in ours} /\ r.orphans = m.orphans
        /\ DOMAIN r.signatures = DOMAIN m.signatures \ names
        /\ \A l \in DOMAIN r.signatures : r.signatures[l] = m.signatures[l]
    BY <1>1, UnregisteredFields
  <1> HIDE DEF r
  <1> SUFFICES ASSUME NEW e \in r.full PROVE Basic(e) \/ e \in r.orphans \/ InUse(r, e)
    BY DEF EnumsUsed, r
  <1>3. Basic(e) \/ e \in m.orphans \/ InUse(m, e)
    BY <1>2 DEF MapInv, EnumsUsed
  <1>4. ASSUME NEW l \in DOMAIN m.signatures, e \in m.signatures[l] PROVE Basic(e) \/ InUse(r, e)
    <2>1. CASE l \in names
      <3>1. e \notin EmptiedOf(m.signatures[l])
        BY <1>2, <2>1
      <3>2. e = Game("Boolean") \/ e = Game("Block")
        BY <1>4, <3>1 DEF EmptiedOf
      <3>3. "Boolean" \in GameEnum /\ "Block" \in GameEnum
        BY CommandAssumption
      <3> QED
        BY <3>2, <3>3 DEF Game, Basic
    <2>2. CASE l \notin names
      BY <1>2, <1>4, <2>2 DEF InUse
    <2> QED
      BY <2>1, <2>2
  <1> QED
    BY <1>2, <1>3, <1>4 DEF InUse

\* Clearing leaves no label that leads to one of our commands.
LEMMA ClearedReady ==
    ASSUME NEW m, MapInv(m)
    PROVE  Ready(Cleared(m))
  <1> DEFINE names == {m.custom[l].name : l \in DOMAIN m.custom}
             u == Unregistered(m, names)
             r == [u EXCEPT !.custom = <<>>]
  <1>1. m \in Tables /\ LabelsAgree(m) /\ SignaturesOwned(m)
    BY DEF MapInv
  <1>2. names \subseteq DOMAIN m.custom
    BY <1>1 DEF LabelsAgree
  <1>3. /\ DOMAIN u.aliases = {l \in DOMAIN m.aliases : m.aliases[l] \notin names}
        /\ DOMAIN u.signatures = DOMAIN m.signatures \ names
        /\ u \in Tables
    BY <1>1, UnregisteredFields
  <1>4. EnumsUsed(u)
    BY <1>2, EnumsStayUsed
  <1>5. DOMAIN u.aliases = {}
    BY <1>1, <1>3 DEF LabelsAgree
  <1>6. \A l \in DOMAIN u.signatures : l \in GameCommand \ {"reload"}
    BY <1>1, <1>3 DEF SignaturesOwned, Ours
  <1>7. <<>> \in [{} -> Cmd] /\ DOMAIN <<>> = {}
    OBVIOUS
  <1> HIDE DEF u
  <1>8. r.custom = <<>> /\ r.signatures = u.signatures /\ r.aliases = u.aliases /\ r.full = u.full /\ r.orphans = u.orphans
    BY <1>3 DEF Tables
  <1>9. r \in Tables
    <2>1. <<>> \in UNION {[D -> Cmd] : D \in SUBSET Label}
      BY <1>7
    <2> QED
      BY <1>3, <2>1 DEF Tables
  <1> HIDE DEF r
  <1>10. Bare(r)
    <2>1. LabelsAgree(r) /\ SignaturesOwned(r)
      BY <1>5, <1>6, <1>7, <1>8 DEF LabelsAgree, SignaturesOwned
    <2>2. EnumsUsed(r)
      BY <1>4, <1>8 DEF EnumsUsed, InUse
    <2> QED
      BY <1>5, <1>7, <1>8, <1>9, <2>1, <2>2 DEF Bare, MapInv
  <1> QED
    BY <1>10, BareReady DEF Cleared, NoCustom, r, u

LEMMA ConstructedReady == Ready(Constructed)
  <1> DEFINE g == [custom |-> <<>>, signatures |-> [l \in GameCommand |-> {}], aliases |-> <<>>,
                   full |-> {Game(e) : e \in GameEnum}, orphans |-> {}]
             r == WithoutReload(g)
  <1>1. <<>> \in [{} -> Cmd] /\ <<>> \in [{} -> Label] /\ DOMAIN <<>> = {}
    OBVIOUS
  <1>2. g \in Tables
    <2>1. {Game(e) : e \in GameEnum} \in SUBSET Enum
      BY GameTyped
    <2>2. GameCommand \in SUBSET Label /\ [l \in GameCommand |-> {}] \in [GameCommand -> SUBSET Enum]
      BY CommandAssumption
    <2> QED
      BY <1>1, <2>1, <2>2, MakeTables
  <1>3. /\ g.custom = <<>> /\ g.aliases = <<>> /\ DOMAIN g.signatures = GameCommand
        /\ g.full = {Game(e) : e \in GameEnum} /\ g.orphans = {}
    OBVIOUS
  <1> HIDE DEF g
  <1>4. /\ r.custom = <<>> /\ r.orphans = {} /\ r.full \subseteq g.full
        /\ DOMAIN r.aliases = {} /\ DOMAIN r.signatures = GameCommand \ {"reload"}
        /\ r \in Tables
    <2>1. /\ r.custom = g.custom /\ r.orphans = g.orphans /\ r.full \subseteq g.full
          /\ DOMAIN r.aliases = {l \in DOMAIN g.aliases : g.aliases[l] \notin {"reload"}}
          /\ DOMAIN r.signatures = DOMAIN g.signatures \ {"reload"}
          /\ r \in Tables
      BY <1>2, UnregisteredFields DEF WithoutReload
    <2> HIDE DEF r
    <2> QED
      BY <1>1, <1>3, <2>1
  <1> HIDE DEF r
  <1>5. Bare(r)
    <2>1. LabelsAgree(r) /\ SignaturesOwned(r)
      BY <1>1, <1>4 DEF LabelsAgree, SignaturesOwned
    <2>2. EnumsUsed(r)
      BY <1>3, <1>4 DEF EnumsUsed, Basic, Game
    <2> QED
      BY <1>1, <1>4, <2>1, <2>2 DEF Bare, MapInv
  <1> QED
    BY <1>5, BareReady DEF Constructed, r, g

-----------------------------------------------------------------------------
(* The invariant *)

\* A plugin's commands belong to it.
LoadedInv ==
    /\ loaded = [p \in DOMAIN loaded |-> loaded[p]] /\ DOMAIN loaded \subseteq Plugin
    /\ \A p \in DOMAIN loaded : loaded[p] \in Seq(Cmd) /\ \A i \in DOMAIN loaded[p] : loaded[p][i].owner = p

\* Between the steps of a reload the server's commands are the only ones.
Owners == IF pc = "up" THEN DOMAIN loaded \cup {Server} ELSE {Server}

CommandInv ==
    /\ pc \in {"up", "cleared", "bare", "loaded"} /\ LoadedInv
    /\ MapInv(map) /\ DefaultsThere(map, Len(Default)) /\ OwnersIn(map, Owners)

LEMMA LoadableFacts ==
    ASSUME NEW f \in Loadable
    PROVE  /\ f = [p \in DOMAIN f |-> f[p]] /\ DOMAIN f \subseteq Plugin
           /\ \A p \in DOMAIN f : f[p] \in Seq(Cmd) /\ \A i \in DOMAIN f[p] : f[p][i].owner = p
  <1>1. f \in Found /\ \A p \in DOMAIN f : f[p] \in Described[p]
    BY DEF Loadable
  <1>2. PICK P \in SUBSET Plugin : f \in [P -> UNION {Described[p] : p \in P}]
    BY <1>1 DEF Found
  <1>3. DOMAIN f = P /\ f = [p \in DOMAIN f |-> f[p]]
    BY <1>2
  <1>4. \A p \in Plugin : \A d \in Described[p] : d \in Seq(Cmd) /\ \A i \in DOMAIN d : d[i].owner = p
    BY CommandAssumption
  <1> QED
    BY <1>1, <1>3, <1>4

\* The commands of all plugins, in whatever order, are commands of those plugins.
LEMMA AllCommands ==
    ASSUME LoadedInv, NEW order \in SetToSeqs(DOMAIN loaded)
    PROVE  LET all == Joined([i \in DOMAIN order |-> loaded[order[i]]]) IN
           all \in Seq(Cmd) /\ \A i \in DOMAIN all : all[i].owner \in DOMAIN loaded
  <1> DEFINE n == Cardinality(DOMAIN loaded)
             ss == [i \in DOMAIN order |-> loaded[order[i]]]
             all == Joined(ss)
  <1>1. n \in Nat
    <2>1. IsFiniteSet(DOMAIN loaded)
      BY CommandAssumption, FS_Subset DEF LoadedInv
    <2> QED
      BY <2>1, FS_CardinalityType
  <1>2. order \in [1 .. n -> DOMAIN loaded]
    BY DEF SetToSeqs
  <1>3. ss \in [1 .. n -> Seq(Cmd)] /\ \A r \in 1 .. n : ss[r] = loaded[order[r]]
    BY <1>2 DEF LoadedInv
  <1> HIDE DEF n, ss
  <1>4. all \in Seq(Cmd) /\ ToSet(all) = UNION {ToSet(ss[r]) : r \in 1 .. n}
    BY <1>1, <1>3, JoinedElements
  <1> HIDE DEF all
  <1>5. ASSUME NEW i \in DOMAIN all PROVE all[i].owner \in DOMAIN loaded
    <2>1. all[i] \in ToSet(all)
      BY DEF ToSet
    <2>2. PICK r \in 1 .. n : all[i] \in ToSet(ss[r])
      BY <1>4, <2>1
    <2>3. PICK k \in DOMAIN ss[r] : all[i] = ss[r][k]
      BY <2>2 DEF ToSet
    <2>4. order[r] \in DOMAIN loaded /\ ss[r] = loaded[order[r]]
      BY <1>2, <1>3
    <2> QED
      BY <2>3, <2>4 DEF LoadedInv
  <1> QED
    BY <1>4, <1>5 DEF all, ss

\* The enum of plugins' names is the registry's own.
LEMMA NamesFacts ==
    ASSUME NEW m, MapInv(m), NEW full,
           full = m.full \ {<<<<"PluginName">>, 0>>} \/ full = m.full \cup {<<<<"PluginName">>, 0>>},
           NEW r, r = [m EXCEPT !.full = full]
    PROVE  MapInv(r) /\ r.custom = m.custom
  <1>1. <<<<"PluginName">>, 0>> \in Enum
    <2>1. <<"PluginName">> \in Seq(Word \cup GameEnum \cup {"PluginName"}) /\ 0 \in 0 .. MaxSuffix
      BY CommandAssumption
    <2> QED
      BY <2>1 DEF Enum
  <1>2. full \in SUBSET Enum
    BY <1>1, TableFields DEF MapInv
  <1>3. /\ r \in Tables
        /\ r.custom = m.custom /\ r.signatures = m.signatures /\ r.aliases = m.aliases
        /\ r.full = full /\ r.orphans = m.orphans
    BY <1>2 DEF MapInv, Tables
  <1>4. LabelsAgree(r) /\ SignaturesOwned(r)
    BY <1>3 DEF MapInv, LabelsAgree, SignaturesOwned, Ours
  <1>5. EnumsUsed(r)
    <2>1. Basic(<<<<"PluginName">>, 0>>)
      BY DEF Basic
    <2> QED
      BY <1>3, <2>1 DEF MapInv, EnumsUsed, InUse
  <1> QED
    BY <1>3, <1>4, <1>5 DEF MapInv

LEMMA SetPluginCommandsInv ==
    ASSUME CommandInv, setPluginCommands
    PROVE  CommandInv'
  <1>1. PICK order \in SetToSeqs(DOMAIN loaded) :
           LET all == Joined([i \in DOMAIN order |-> loaded[order[i]]])
               m == RegisteredAll(map, all)
               names == <<<<"PluginName">>, 0>> IN
           map' = [m EXCEPT !.full = IF order = <<>> THEN @ \ {names} ELSE @ \cup {names}]
    BY DEF setPluginCommands
  <1> DEFINE all == Joined([i \in DOMAIN order |-> loaded[order[i]]])
             m == RegisteredAll(map, all)
             O == DOMAIN loaded \cup {Server}
             names == <<<<"PluginName">>, 0>>
             full == IF order = <<>> THEN m.full \ {names} ELSE m.full \cup {names}
  <1>2. map' = [m EXCEPT !.full = full]
    BY <1>1
  <1>3. all \in Seq(Cmd) /\ \A i \in DOMAIN all : all[i].owner \in O
    BY AllCommands DEF CommandInv
  <1>4. pc = "loaded" /\ pc' = "up" /\ loaded' = loaded
    BY DEF setPluginCommands
  <1>5. MapInv(map) /\ OwnersIn(map, O) /\ DefaultsThere(map, Len(Default)) /\ LoadedInv
    BY <1>4 DEF CommandInv, Owners, OwnersIn
  <1> HIDE DEF all, O
  <1>6. MapInv(m) /\ Keeps(map, m) /\ OwnersIn(m, O)
    BY <1>3, <1>5, RegisteredAllFacts
  <1> HIDE DEF m
  <1>7. full = m.full \ {names} \/ full = m.full \cup {names}
    OBVIOUS
  <1> HIDE DEF full, names
  <1>8. MapInv(map') /\ map'.custom = m.custom
    BY <1>2, <1>6, <1>7, NamesFacts DEF names
  <1>9. DefaultsThere(map', Len(Default))
    BY <1>5, <1>6, <1>8 DEF DefaultsThere, There, Keeps
  <1>10. OwnersIn(map', O)
    BY <1>6, <1>8 DEF OwnersIn
  <1>11. LoadedInv' /\ Owners' = O
    BY <1>4, <1>5 DEF LoadedInv, Owners, O
  <1> QED
    BY <1>4, <1>8, <1>9, <1>10, <1>11 DEF CommandInv

LEMMA CommandInvInit == CommandInit => CommandInv
  <1> SUFFICES ASSUME CommandInit PROVE CommandInv
    OBVIOUS
  <1>1. LoadedInv
    BY LoadableFacts DEF CommandInit, LoadedInv
  <1>2. Ready(map) /\ pc = "loaded"
    BY ConstructedReady DEF CommandInit
  <1> QED
    BY <1>1, <1>2 DEF CommandInv, Ready, Owners

LEMMA CommandInvNext == CommandInv /\ [CommandNext]_commandVars => CommandInv'
  <1> SUFFICES ASSUME CommandInv, [CommandNext]_commandVars PROVE CommandInv'
    OBVIOUS
  <1>1. CASE setPluginCommands
    BY <1>1, SetPluginCommandsInv
  <1>2. CASE clearCommands
    <2>1. Ready(map') /\ pc' = "cleared" /\ loaded' = loaded
      BY <1>2, ClearedReady DEF clearCommands, CommandInv
    <2>2. LoadedInv'
      BY <2>1 DEF CommandInv, LoadedInv
    <2> QED
      BY <2>1, <2>2 DEF CommandInv, Ready, Owners
  <1>3. CASE clearPlugins
    <2>1. map' = map /\ pc = "cleared" /\ pc' = "bare" /\ loaded' = <<>>
      BY <1>3 DEF clearPlugins
    <2>2. LoadedInv'
      BY <2>1 DEF LoadedInv
    <2> QED
      BY <2>1, <2>2 DEF CommandInv, Owners
  <1>4. CASE loadPlugins
    <2>1. map' = map /\ pc = "bare" /\ pc' = "loaded" /\ loaded' \in Loadable
      BY <1>4 DEF loadPlugins
    <2>2. LoadedInv'
      BY <2>1, LoadableFacts DEF LoadedInv
    <2> QED
      BY <2>1, <2>2 DEF CommandInv, Owners
  <1>5. CASE UNCHANGED commandVars
    BY <1>5 DEF commandVars, CommandInv, LoadedInv, Owners
  <1> QED
    BY <1>1, <1>2, <1>3, <1>4, <1>5 DEF CommandNext

LEMMA CommandInvHolds == CommandSpec => []CommandInv
  <1> QED
    BY CommandInvInit, CommandInvNext, PTL DEF CommandSpec

\* Every label of custom_commands_ leads, through the registry, to the command it stands
\* for, after any number of reloads and whatever names and aliases plugins ask for.
THEOREM CommandTablesAgree == CommandSpec => []TablesAgree
  <1>1. CommandInv => TablesAgree
    BY DEF CommandInv, MapInv, LabelsAgree, TablesAgree
  <1> QED
    BY <1>1, CommandInvHolds, PTL

\* No plugin can take the name of one of the server's commands, and none is lost when
\* commands are cleared.
THEOREM CommandDefaultsResolve == CommandSpec => []DefaultsResolve
  <1>1. CommandInv => DefaultsResolve
    <2>1. DOMAIN Default = 1 .. Len(Default)
      BY CommandAssumption
    <2> QED
      BY <2>1 DEF CommandInv, DefaultsThere, There, DefaultsResolve
  <1> QED
    BY <1>1, CommandInvHolds, PTL

\* When plugins are destroyed, none of their commands is left in the map.
THEOREM CommandOwnersLoaded == CommandSpec => []OwnersLoaded
  <1>1. CommandInv => OwnersLoaded
    BY DEF CommandInv, OwnersIn, Owners, OwnersLoaded
  <1> QED
    BY <1>1, CommandInvHolds, PTL

\* No enum outlives the command whose usages made it, unless it was left behind by a
\* usage that was refused.
THEOREM CommandEnumsAccountedFor == CommandSpec => []EnumsAccountedFor
  <1>1. CommandInv => EnumsAccountedFor
    BY DEF CommandInv, MapInv, EnumsUsed, Basic, InUse, EnumsAccountedFor
  <1> QED
    BY <1>1, CommandInvHolds, PTL

-----------------------------------------------------------------------------
(***************************************************************************)
(* The parser accepts what a usage is by its form, and means the same.     *)
(***************************************************************************)
\* The parser's states from token to token.
Course(ts, S) ==
    /\ S \in [0 .. Len(ts) -> ParserState] /\ S[0] = Start
    /\ \A n \in 1 .. Len(ts) : S[n] = Step(S[n - 1], ts[n])

LEMMA ParseCourse ==
    ASSUME NEW ts \in Seq(Word \cup Mark)
    PROVE  \E S : Course(ts, S) /\ Parse(ts) = S[Len(ts)]
  <1> DEFINE f == [t \in Word \cup Mark |-> [s \in ParserState |-> Step(s, t)]]
             X == ParserState
             A == Word \cup Mark
             N == Len(ts)
  <1>1. f \in [A -> [X -> X]]
    <2>1. \A t \in Word \cup Mark, s \in ParserState : Step(s, t) \in ParserState
      BY StepTyped
    <2> QED
      BY <2>1
  <1>2. \A t \in A, s \in X : f[t][s] = Step(s, t)
    OBVIOUS
  <1>3. Start \in X /\ ts \in Seq(A)
    BY StartTyped
  <1>4. Parse(ts) = Folded(f, Start, ts)
    BY DEF Parse
  <1> HIDE DEF f, X, A
  <1>5. PICK S \in [0 .. N -> X] : FoldCourse(f, Start, ts, N, S) /\ Folded(f, Start, ts) = S[N]
    <2>1. HasCourse(f, Start, ts, X)
      BY <1>1, <1>3, FoldedCourse
    <2> QED
      BY <2>1 DEF HasCourse
  <1>6. \A n \in 1 .. N : S[n] = Step(S[n - 1], ts[n])
    <2> TAKE n \in 1 .. N
    <2>1. N \in Nat /\ n \in 0 .. N /\ n # 0 /\ n - 1 \in 0 .. N /\ ts[n] \in A
      BY <1>3
    <2>2. S[n] = f[ts[n]][S[n - 1]] /\ S[n - 1] \in X
      BY <1>5, <2>1 DEF FoldCourse
    <2> QED
      BY <1>2, <2>1, <2>2
  <1>7. S[0] = Start
    <2>1. N \in Nat /\ 0 \in 0 .. N
      BY <1>3
    <2> QED
      BY <1>5, <2>1 DEF FoldCourse
  <1> QED
    BY <1>4, <1>5, <1>6, <1>7 DEF Course, X

-----------------------------------------------------------------------------
(* One token, read in either direction. *)

\* In a bracket that was opened from the state s: the place, and the parameter so far.
InBracket(u, s, at, optional, values, type) ==
    /\ u.at = at /\ u.name = s.name /\ u.out = s.out /\ u.listed = s.listed /\ u.list = s.list
    /\ u.param.optional = optional /\ ~u.param.enum /\ u.param.values = values /\ u.param.type = type

\* In a list that was opened from s.
InList(u, s, at, list) == u.at = at /\ u.name = s.name /\ u.out = s.out /\ u.listed /\ u.list = list

\* A parameter after those of s is complete.
Gained(u, s, p) == u.at = "params" /\ u.name = s.name /\ u.out = Append(s.out, p) /\ ~u.listed /\ u.list = <<>>

\* The parameter of a bracket opened from s, with the list in front if there is one.
Headed(s, p) == IF s.listed THEN WithList(p, s.list) ELSE p

LEMMA StepOpens ==
    ASSUME NEW s \in ParserState, s.at \in {"params", "bracket"}, NEW t \in {"<", "["}
    PROVE  InBracket(Step(s, t), s, "name", t = "[", <<>>, <<>>)
  BY UsageAssumption DEF Step, InBracket, ParserState, Parameter, Blank, Mark

LEMMA WithValues ==
    ASSUME NEW u \in ParserState, NEW s, NEW at0, NEW at, NEW o, NEW vs, NEW ty, NEW x, InBracket(u, s, at0, o, vs, ty),
           NEW v, v = [u EXCEPT !.at = at, !.param = [u.param EXCEPT !.values = x]]
    PROVE  InBracket(v, s, at, o, x, ty)
  <1>1. v.at = at /\ v.name = u.name /\ v.out = u.out /\ v.listed = u.listed /\ v.list = u.list
    BY DEF ParserState
  <1>2. PICK p \in Parameter : p = u.param /\ v.param = [p EXCEPT !.values = x]
    BY DEF ParserState
  <1>3. /\ v.param.optional = u.param.optional /\ v.param.enum = u.param.enum
        /\ v.param.values = x /\ v.param.type = u.param.type
    BY <1>2 DEF Parameter
  <1> QED
    BY <1>1, <1>3, Zenon DEF InBracket

LEMMA WithType ==
    ASSUME NEW u \in ParserState, NEW s, NEW at0, NEW at, NEW o, NEW vs, NEW ty, NEW x, InBracket(u, s, at0, o, vs, ty),
           NEW v, v = [u EXCEPT !.at = at, !.param = [u.param EXCEPT !.type = x]]
    PROVE  InBracket(v, s, at, o, vs, x)
  <1>1. v.at = at /\ v.name = u.name /\ v.out = u.out /\ v.listed = u.listed /\ v.list = u.list
    BY DEF ParserState
  <1>2. PICK p \in Parameter : p = u.param /\ v.param = [p EXCEPT !.type = x]
    BY DEF ParserState
  <1>3. /\ v.param.optional = u.param.optional /\ v.param.enum = u.param.enum
        /\ v.param.values = u.param.values /\ v.param.type = x
    BY <1>2 DEF Parameter
  <1> QED
    BY <1>1, <1>3, Zenon DEF InBracket

LEMMA StepWords ==
    ASSUME NEW s \in ParserState, NEW u \in ParserState, NEW t \in Word, NEW o \in BOOLEAN,
           NEW vs \in Seq(Word), NEW ty \in Seq(Word)
    PROVE  /\ InBracket(u, s, "name", o, vs, ty) => InBracket(Step(u, t), s, "after", o, <<t>>, ty)
           /\ InBracket(u, s, "type", o, vs, ty) => InBracket(Step(u, t), s, "close", o, vs, <<t>>)
           /\ InBracket(u, s, "alt", o, vs, ty) => InBracket(Step(u, t), s, "more", o, Append(vs, t), ty)
  <1>0. t \notin Mark
    BY UsageAssumption
  <1>1. ASSUME InBracket(u, s, "name", o, vs, ty) PROVE InBracket(Step(u, t), s, "after", o, <<t>>, ty)
    <2>1. Step(u, t) = [u EXCEPT !.at = "after", !.param = [u.param EXCEPT !.values = <<t>>]]
      BY <1>0, <1>1 DEF Step, InBracket, Mark
    <2> QED
      BY <1>1, <2>1, WithValues
  <1>2. ASSUME InBracket(u, s, "type", o, vs, ty) PROVE InBracket(Step(u, t), s, "close", o, vs, <<t>>)
    <2>1. Step(u, t) = [u EXCEPT !.at = "close", !.param = [u.param EXCEPT !.type = <<t>>]]
      BY <1>0, <1>2 DEF Step, InBracket, Mark
    <2> QED
      BY <1>2, <2>1, WithType
  <1>3. ASSUME InBracket(u, s, "alt", o, vs, ty) PROVE InBracket(Step(u, t), s, "more", o, Append(vs, t), ty)
    <2>1. Step(u, t) = [u EXCEPT !.at = "more", !.param = [u.param EXCEPT !.values = Append(u.param.values, t)]]
      BY <1>0, <1>3 DEF Step, InBracket, Mark
    <2>2. u.param.values = vs
      BY <1>3 DEF InBracket
    <2>3. Step(u, t) = [u EXCEPT !.at = "more", !.param = [u.param EXCEPT !.values = Append(vs, t)]]
      BY <2>1, <2>2, Zenon
    <2> QED
      BY <1>3, <2>3, WithValues
  <1> QED
    BY <1>1, <1>2, <1>3

LEMMA StepMarks ==
    ASSUME NEW s \in ParserState, NEW u \in ParserState, NEW o \in BOOLEAN, NEW vs \in Seq(Word)
    PROVE  /\ InBracket(u, s, "after", o, vs, <<>>) => InBracket(Step(u, ":"), s, "type", o, <<>>, <<>>)
           /\ InBracket(u, s, "after", o, vs, <<>>) => InBracket(Step(u, "|"), s, "alt", o, vs, <<>>)
           /\ InBracket(u, s, "more", o, vs, <<>>) => InBracket(Step(u, "|"), s, "alt", o, vs, <<>>)
  <1>0. \A t \in Mark : t \notin Word
    BY UsageAssumption
  <1>1. ASSUME InBracket(u, s, "after", o, vs, <<>>) PROVE InBracket(Step(u, ":"), s, "type", o, <<>>, <<>>)
    <2>1. Step(u, ":") = [u EXCEPT !.at = "type", !.param = [u.param EXCEPT !.values = <<>>]]
      BY <1>0, <1>1 DEF Step, InBracket, Mark
    <2> QED
      BY <1>1, <2>1, WithValues
  <1>2. ASSUME NEW at \in {"after", "more"}, InBracket(u, s, at, o, vs, <<>>)
        PROVE  InBracket(Step(u, "|"), s, "alt", o, vs, <<>>)
    <2>1. Step(u, "|") = [u EXCEPT !.at = "alt"]
      BY <1>0, <1>2 DEF Step, InBracket, Mark
    <2> QED
      BY <1>2, <2>1 DEF InBracket, ParserState
  <1> QED
    BY <1>1, <1>2

\* The bracket that closes.
Closer(o) == IF o THEN "]" ELSE ">"

LEMMA StepCloses ==
    ASSUME NEW s \in ParserState, NEW u \in ParserState, NEW o \in BOOLEAN, NEW vs \in Seq(Word), NEW ty \in Seq(Word)
    PROVE  /\ InBracket(u, s, "close", o, vs, ty) =>
                Gained(Step(u, Closer(o)), s, Headed(s, [optional |-> o, enum |-> FALSE, values |-> vs, type |-> ty]))
           /\ \A at \in {"after", "more"} : InBracket(u, s, at, o, vs, ty) =>
                Gained(Step(u, Closer(o)), s, Headed(s, [optional |-> o, enum |-> TRUE, values |-> vs, type |-> s.name \o vs]))
  <1>0. Closer(o) \in {">", "]"} /\ Closer(o) \in Mark /\ Closer(o) \notin Word
    BY UsageAssumption DEF Closer, Mark
  <1>1. ASSUME NEW v \in ParserState, v.param.optional = o, v.name = s.name, v.out = s.out, v.listed = s.listed, v.list = s.list
        PROVE  Closes(v, Closer(o)) /\ Gained(Finish(v), s, Headed(s, v.param))
    BY <1>1 DEF Closes, Closer, Finish, Gained, Headed, WithList, ParserState
  <1>2. ASSUME InBracket(u, s, "close", o, vs, ty)
        PROVE  Gained(Step(u, Closer(o)), s, Headed(s, [optional |-> o, enum |-> FALSE, values |-> vs, type |-> ty]))
    <2>1. Closes(u, Closer(o)) /\ Gained(Finish(u), s, Headed(s, u.param))
      BY <1>1, <1>2 DEF InBracket
    <2>2. Step(u, Closer(o)) = Finish(u)
      BY <1>0, <1>2, <2>1 DEF Step, InBracket, Mark
    <2>3. u.param = [optional |-> o, enum |-> FALSE, values |-> vs, type |-> ty]
      <3>1. PICK p \in Parameter :
                p = u.param /\ p.optional = o /\ ~p.enum /\ p.values = vs /\ p.type = ty
        BY <1>2 DEF InBracket, ParserState
      <3>2. p = [optional |-> o, enum |-> FALSE, values |-> vs, type |-> ty]
        <4>1. PICK e \in BOOLEAN : p.enum = e /\ e = FALSE
          BY <3>1 DEF Parameter
        <4>2. p = [optional |-> o, enum |-> e, values |-> vs, type |-> ty]
          BY <3>1, <4>1 DEF Parameter
        <4> QED
          BY <4>1, <4>2, Zenon
      <3> QED
        BY <3>1, <3>2, Zenon
    <2> QED
      BY <2>1, <2>2, <2>3, Zenon
  <1>3. ASSUME NEW at \in {"after", "more"}, InBracket(u, s, at, o, vs, ty)
        PROVE  Gained(Step(u, Closer(o)), s, Headed(s, [optional |-> o, enum |-> TRUE, values |-> vs, type |-> s.name \o vs]))
    <2>1. Named(u) \in ParserState /\ Named(u).param = [optional |-> o, enum |-> TRUE, values |-> vs, type |-> s.name \o vs]
          /\ Named(u).name = s.name /\ Named(u).out = s.out /\ Named(u).listed = s.listed /\ Named(u).list = s.list
      <3>1. s.name \o vs \in Seq(Word)
        BY DEF ParserState
      <3>2. u.param.values = vs /\ u.param.optional = o /\ u.name = s.name
        BY <1>3 DEF InBracket
      <3>3. Unnamed(u, vs, o) \in Parameter
        BY <3>1, <3>2 DEF Unnamed, Parameter
      <3>4. Named(u) = [u EXCEPT !.param = Unnamed(u, vs, o)]
        BY <3>2 DEF Named, ParserState
      <3> QED
        BY <1>3, <3>2, <3>3, <3>4 DEF Unnamed, InBracket, ParserState
    <2>2. Closes(Named(u), Closer(o)) /\ Gained(Finish(Named(u)), s, Headed(s, Named(u).param))
      BY <1>1, <2>1
    <2>3. Step(u, Closer(o)) = Finish(Named(u))
      BY <1>0, <1>3, <2>2 DEF Step, InBracket, Mark
    <2> QED
      BY <2>1, <2>2, <2>3
  <1> QED
    BY <1>2, <1>3

LEMMA StepListOpens ==
    ASSUME NEW s \in ParserState, s.at = "params", s.list = <<>>
    PROVE  InList(Step(s, "("), s, "first", <<>>)
  <1>1. Step(s, "(") = [s EXCEPT !.at = "first", !.listed = TRUE]
    BY UsageAssumption DEF Step, Mark
  <1> QED
    BY <1>1 DEF InList, ParserState

LEMMA StepListWord ==
    ASSUME NEW s \in ParserState, NEW u \in ParserState, NEW t \in Word, NEW l \in Seq(Word),
           InList(u, s, "first", l) \/ InList(u, s, "value", l)
    PROVE  InList(Step(u, t), s, "next", Append(l, t))
  <1>1. Step(u, t) = [u EXCEPT !.at = "next", !.list = Append(u.list, t)]
    BY UsageAssumption DEF Step, InList, Mark
  <1> QED
    BY <1>1 DEF InList, ParserState

LEMMA StepListBar ==
    ASSUME NEW s \in ParserState, NEW u \in ParserState, NEW l \in Seq(Word), InList(u, s, "next", l)
    PROVE  InList(Step(u, "|"), s, "value", l)
  <1>1. Step(u, "|") = [u EXCEPT !.at = "value"]
    BY UsageAssumption DEF Step, InList, Mark
  <1> QED
    BY <1>1 DEF InList, ParserState

LEMMA StepListCloses ==
    ASSUME NEW s \in ParserState, NEW u \in ParserState, NEW l \in Seq(Word),
           InList(u, s, "first", l) \/ InList(u, s, "next", l)
    PROVE  InList(Step(u, ")"), s, "bracket", l)
  <1>1. Step(u, ")") = [u EXCEPT !.at = "bracket"]
    BY UsageAssumption DEF Step, InList, Mark
  <1> QED
    BY <1>1 DEF InList, ParserState

\* What a token must have been, if the parser goes on, and where it is then.
Follows(s, t, u) ==
    \/ s.at = "slash" /\ t = "/" /\ u.at = "command"
    \/ s.at = "command" /\ t \in Word /\ u.at = "params"
    \/ s.at = "params" /\ t \in Word /\ u.at = "params"
    \/ s.at = "params" /\ t = "(" /\ u.at = "first"
    \/ s.at \in {"params", "bracket"} /\ t \in {"<", "["} /\ u.at = "name" /\ u.param.optional = (t = "[")
    \/ s.at \in {"first", "value"} /\ t \in Word /\ u.at = "next"
    \/ s.at \in {"first", "next"} /\ t = ")" /\ u.at = "bracket"
    \/ s.at = "next" /\ t = "|" /\ u.at = "value"
    \/ s.at = "name" /\ t \in Word /\ u.at = "after" /\ u.param.optional = s.param.optional
    \/ s.at = "after" /\ t = ":" /\ u.at = "type" /\ u.param.optional = s.param.optional
    \/ s.at = "type" /\ t \in Word /\ u.at = "close" /\ u.param.optional = s.param.optional
    \/ s.at \in {"after", "more"} /\ t = "|" /\ u.at = "alt" /\ u.param.optional = s.param.optional
    \/ s.at = "alt" /\ t \in Word /\ u.at = "more" /\ u.param.optional = s.param.optional
    \/ s.at \in {"after", "more", "close"} /\ t = Closer(s.param.optional) /\ u.at = "params"

\* The parser keeps the command's name, and between parameters it has no list in hand.
Tidy(s, name) == s.at = "error" \/ (s.name = name /\ (s.at = "params" => ~s.listed /\ s.list = <<>>))

LEMMA StepFollows ==
    ASSUME NEW s \in ParserState, NEW t \in Word \cup Mark, Step(s, t).at # "error"
    PROVE  Follows(s, t, Step(s, t))
  <1>0. s.at \in Place /\ Error.at = "error"
    BY DEF ParserState, Error, Start
  <1>1. ASSUME NEW u \in ParserState, Closes(u, t), u.param.optional = s.param.optional
        PROVE  t = Closer(s.param.optional) /\ Finish(u).at = "params"
    BY <1>1 DEF Closes, Closer, Finish, ParserState
  <1>2. CASE s.at \in {"slash", "command", "params"}
    BY <1>0, <1>2 DEF Step, Follows, ParserState, Parameter, Blank
  <1>3. CASE s.at \in {"first", "next", "value", "bracket"}
    BY <1>0, <1>3 DEF Step, Follows, ParserState, Parameter, Blank
  <1>4. CASE s.at \in {"name", "type", "alt"}
    BY <1>0, <1>4 DEF Step, Follows, ParserState, Parameter
  <1>5. CASE s.at \in {"after", "more"}
    <2>1. CASE t = ":" \/ t = "|"
      <3>1. s.param \in Parameter
        BY DEF ParserState
      <3> QED
        BY <1>0, <1>5, <2>1, <3>1, UsageAssumption DEF Step, Follows, ParserState, Parameter, Mark
    <2>2. CASE t \notin {":", "|"}
      <3>1. Step(s, t) = Finish(Named(s)) /\ Closes(Named(s), t)
        BY <1>0, <1>5, <2>2 DEF Step
      <3>2. Named(s) = [s EXCEPT !.param = Unnamed(s, s.param.values, s.param.optional)]
        BY DEF Named, ParserState
      <3>3. Named(s).param.optional = s.param.optional
        BY <3>2 DEF Unnamed, ParserState
      <3>4. t = Closer(s.param.optional) /\ Finish(Named(s)).at = "params"
        <4>1. t = Closer(s.param.optional)
          BY <3>1, <3>3 DEF Closes, Closer
        <4>2. Finish(Named(s)).at = "params"
          BY <3>2 DEF Finish, ParserState
        <4> QED
          BY <4>1, <4>2
      <3> QED
        BY <1>5, <3>1, <3>4 DEF Follows
    <2> QED
      BY <2>1, <2>2
  <1>6. CASE s.at = "close"
    <2>1. Step(s, t) = Finish(s) /\ Closes(s, t)
      BY <1>0, <1>6 DEF Step
    <2> QED
      BY <1>1, <1>6, <2>1 DEF Follows
  <1>7. CASE s.at = "error"
    BY <1>0, <1>7 DEF Step
  <1> QED
    BY <1>0, <1>2, <1>3, <1>4, <1>5, <1>6, <1>7 DEF Place

LEMMA StepTidy ==
    ASSUME NEW s \in ParserState, NEW t \in Word \cup Mark, NEW name, Tidy(s, name), s.at \notin {"slash", "command"}
    PROVE  Tidy(Step(s, t), name) /\ Step(s, t).at \notin {"slash", "command"}
  <1>0. s.at \in Place /\ Error.at = "error"
    BY DEF ParserState, Error, Start
  <1>1. ASSUME NEW u \in ParserState, u.name = s.name PROVE Finish(u).at = "params" /\ Finish(u).name = s.name
                                                           /\ ~Finish(u).listed /\ Finish(u).list = <<>>
    BY <1>1 DEF Finish, ParserState
  <1>2. CASE s.at = "params"
    <2>1. \/ Step(s, t) = Error
          \/ Step(s, t) = [s EXCEPT !.out = Append(s.out, Unnamed(s, <<t>>, FALSE))]
          \/ Step(s, t) = [s EXCEPT !.at = "first", !.listed = TRUE]
          \/ Step(s, t) = [s EXCEPT !.at = "name", !.param = [Blank EXCEPT !.optional = (t = "[")]]
      BY <1>2 DEF Step
    <2> QED
      BY <1>0, <1>2, <2>1 DEF Tidy, ParserState
  <1>7. CASE s.at \in {"first", "next", "value", "bracket"}
    BY <1>0, <1>7 DEF Step, Tidy, ParserState
  <1>3. CASE s.at \in {"name", "type", "alt"}
    BY <1>0, <1>3 DEF Step, Tidy, ParserState
  <1>4. CASE s.at \in {"after", "more"}
    <2>1. \/ Step(s, t) = Error
          \/ Step(s, t) = [s EXCEPT !.at = "type", !.param.values = <<>>]
          \/ Step(s, t) = [s EXCEPT !.at = "alt"]
          \/ Step(s, t) = Finish(Named(s))
      BY <1>4 DEF Step
    <2>2. Named(s).name = s.name /\ Named(s) \in ParserState
      <3>1. Named(s) = [s EXCEPT !.param = Unnamed(s, s.param.values, s.param.optional)]
        BY DEF Named, ParserState
      <3>2. Unnamed(s, s.param.values, s.param.optional) \in Parameter
        BY DEF Unnamed, ParserState, Parameter
      <3> QED
        BY <3>1, <3>2 DEF ParserState
    <2>3. s.name = name
      BY <1>4 DEF Tidy
    <2>4. CASE Step(s, t) = Finish(Named(s))
      BY <1>1, <2>2, <2>3, <2>4 DEF Tidy
    <2>5. CASE Step(s, t) # Finish(Named(s))
      BY <1>0, <2>1, <2>3, <2>5 DEF Tidy, ParserState
    <2> QED
      BY <2>4, <2>5
  <1>5. CASE s.at = "close"
    <2>1. Step(s, t) = Error \/ Step(s, t) = Finish(s)
      BY <1>5 DEF Step
    <2> QED
      BY <1>0, <1>1, <1>5, <2>1 DEF Tidy
  <1>6. CASE s.at = "error"
    BY <1>0, <1>6 DEF Step, Tidy
  <1> QED
    BY <1>0, <1>2, <1>3, <1>4, <1>5, <1>6, <1>7 DEF Place

-----------------------------------------------------------------------------
(* The words between the bars. *)

LEMMA ChosenFew ==
    ASSUME NEW ts, NEW i \in Nat
    PROVE  Chosen(ts, i, i - 1) = <<>> /\ Chosen(ts, i, i) = <<ts[i]>>
  <1>1. (i - 1 - i + 2) \div 2 = 0 /\ (i - i + 2) \div 2 = 1
    BY SMT
  <1> QED
    BY <1>1 DEF Chosen

LEMMA ChosenTyped ==
    ASSUME NEW ts, NEW i \in Nat, NEW j \in Nat, Alternatives(ts, i, j)
    PROVE  Chosen(ts, i, j) \in Seq(Word)
  <1> DEFINE n == (j - i + 2) \div 2
  <1>1. n \in Nat /\ 2 * n = j - i + 2
    BY SMT DEF Alternatives
  <1>2. \A k \in 1 .. n : i + 2 * (k - 1) \in i .. j /\ (i + 2 * (k - 1) - i) % 2 = 0
    BY <1>1, SMT
  <1>3. \A k \in 1 .. n : ts[i + 2 * (k - 1)] \in Word
    BY <1>2 DEF Alternatives
  <1> HIDE DEF n
  <1> QED
    BY <1>1, <1>3 DEF Chosen, n

LEMMA ChosenMore ==
    ASSUME NEW ts, NEW i \in Nat, NEW j \in Nat, i <= j, (j - i) % 2 = 0
    PROVE  Chosen(ts, i, j + 2) = Append(Chosen(ts, i, j), ts[j + 2])
  <1> DEFINE n == (j - i + 2) \div 2
  <1>1. n \in Nat /\ (j + 2 - i + 2) \div 2 = n + 1 /\ i + 2 * (n + 1 - 1) = j + 2
    BY SMT
  <1> HIDE DEF n
  <1>2. Chosen(ts, i, j) = [k \in 1 .. n |-> ts[i + 2 * (k - 1)]]
    BY DEF Chosen, n
  <1>3. Chosen(ts, i, j + 2) = [k \in 1 .. (n + 1) |-> ts[i + 2 * (k - 1)]]
    BY <1>1 DEF Chosen
  <1> QED
    BY <1>1, <1>2, <1>3

LEMMA PartOfAlternatives ==
    ASSUME NEW ts, NEW i \in Nat, NEW j \in Nat, NEW k \in i .. j, Alternatives(ts, i, j), (k - i) % 2 = 0
    PROVE  Alternatives(ts, i, k)
  BY DEF Alternatives

-----------------------------------------------------------------------------
(* What has the form of a parameter is read to its end. *)

\* One step of a course.
LEMMA CourseStep ==
    ASSUME NEW ts \in Seq(Word \cup Mark), NEW S, Course(ts, S), NEW n \in 1 .. Len(ts)
    PROVE  S[n - 1] \in ParserState /\ S[n] \in ParserState /\ S[n] = Step(S[n - 1], ts[n]) /\ ts[n] \in Word \cup Mark
  <1>1. n \in 0 .. Len(ts) /\ n - 1 \in 0 .. Len(ts)
    OBVIOUS
  <1> QED
    BY <1>1 DEF Course

\* A list of values, up to its closing parenthesis.
LEMMA ListRuns ==
    ASSUME NEW ts \in Seq(Word \cup Mark), NEW S, Course(ts, S), NEW i \in 3 .. Len(ts), NEW k \in i + 1 .. Len(ts),
           S[i - 1].at = "params", S[i - 1].list = <<>>, Listed(ts, i, k)
    PROVE  InList(S[k], S[i - 1], "bracket", Chosen(ts, i + 1, k - 1))
  <1> DEFINE s == S[i - 1]
  <1>0. s \in ParserState /\ i \in Nat /\ k \in Nat /\ Len(ts) \in Nat
    BY CourseStep
  <1>1. InList(S[i], s, "first", <<>>)
    <2>1. S[i] = Step(s, "(")
      BY CourseStep DEF Listed
    <2>2. s.at = "params" /\ s.list = <<>>
      OBVIOUS
    <2> HIDE DEF s
    <2> QED
      BY <1>0, <2>1, <2>2, StepListOpens
  <1> HIDE DEF s
  <1>2. S[k] = Step(S[k - 1], ")") /\ S[k - 1] \in ParserState
    BY <1>0, CourseStep DEF Listed
  <1>3. CASE k = i + 1
    <2>1. k - 1 = (i + 1) - 1 /\ k - 1 = i /\ i + 1 \in Nat /\ <<>> \in Seq(Word)
      BY <1>0, <1>3
    <2>2. Chosen(ts, i + 1, k - 1) = <<>>
      <3>1. \A b \in Nat : Chosen(ts, b, b - 1) = <<>>
        BY ChosenFew
      <3>2. Chosen(ts, i + 1, (i + 1) - 1) = <<>>
        BY <2>1, <3>1, Zenon
      <3> QED
        BY <2>1, <3>2, Zenon
    <2>3. InList(S[k - 1], s, "first", <<>>)
      BY <1>1, <2>1
    <2> QED
      BY <1>0, <1>2, <2>1, <2>2, <2>3, StepListCloses DEF s
  <1>4. CASE Alternatives(ts, i + 1, k - 1)
    <2> DEFINE At(m) == IF m % 2 = 0 THEN InList(S[i + 1 + m], s, "next", Chosen(ts, i + 1, i + 1 + m))
                        ELSE InList(S[i + 1 + m], s, "value", Chosen(ts, i + 1, i + m))
               T == {m \in Nat : i + 1 + m <= k - 1 => At(m)}
    <2>1. 0 \in T
      <3> SUFFICES ASSUME i + 1 <= k - 1 PROVE InList(S[i + 1], s, "next", Chosen(ts, i + 1, i + 1))
        BY <1>0
      <3>1. ts[i + 1] \in Word
        BY <1>0, <1>4 DEF Alternatives
      <3>2. S[i + 1] = Step(S[i], ts[i + 1]) /\ S[i] \in ParserState
        BY <1>0, CourseStep
      <3>3. <<>> \in Seq(Word) /\ Append(<<>>, ts[i + 1]) = <<ts[i + 1]>>
        OBVIOUS
      <3>4. InList(S[i + 1], s, "next", Append(<<>>, ts[i + 1]))
        BY <1>0, <1>1, <3>1, <3>2, <3>3, StepListWord
      <3>5. Chosen(ts, i + 1, i + 1) = <<ts[i + 1]>>
        BY <1>0, ChosenFew
      <3> QED
        BY <3>3, <3>4, <3>5
    <2>2. ASSUME NEW m \in Nat, m \in T PROVE m + 1 \in T
      <3> SUFFICES ASSUME i + 2 + m <= k - 1 PROVE At(m + 1)
        BY <1>0
      <3>1. S[i + 2 + m] = Step(S[i + 1 + m], ts[i + 2 + m]) /\ S[i + 1 + m] \in ParserState
        <4>1. i + 2 + m \in 1 .. Len(ts) /\ i + 2 + m - 1 = i + 1 + m
          BY <1>0
        <4> QED
          BY <4>1, CourseStep
      <3>2. At(m)
        BY <1>0, <2>2
      <3>3. IF (m + 1) % 2 = 0 THEN ts[i + 2 + m] \in Word ELSE ts[i + 2 + m] = "|"
        <4>1. i + 2 + m \in i + 1 .. k - 1 /\ (i + 2 + m) - (i + 1) = m + 1
          BY <1>0
        <4>2. \A n \in i + 1 .. k - 1 : IF (n - (i + 1)) % 2 = 0 THEN ts[n] \in Word ELSE ts[n] = "|"
          BY <1>4, Zenon DEF Alternatives
        <4>3. IF ((i + 2 + m) - (i + 1)) % 2 = 0 THEN ts[i + 2 + m] \in Word ELSE ts[i + 2 + m] = "|"
          BY <4>1, <4>2, Zenon
        <4> QED
          BY <4>1, <4>3, Zenon
      <3>4. CASE m % 2 = 0
        <4>1. (m + 1) % 2 # 0 /\ i + 1 + (m + 1) = i + 2 + m /\ i + (m + 1) = i + 1 + m
          BY <1>0, <3>4
        <4>2. Chosen(ts, i + 1, i + 1 + m) \in Seq(Word)
          BY <1>0, <1>4, <3>4, PartOfAlternatives, ChosenTyped
        <4>3. InList(S[i + 2 + m], s, "value", Chosen(ts, i + 1, i + 1 + m))
          BY <1>0, <3>1, <3>2, <3>3, <3>4, <4>1, <4>2, StepListBar
        <4> QED
          BY <4>1, <4>3
      <3>5. CASE m % 2 # 0
        <4>1. (m + 1) % 2 = 0 /\ i + 1 + (m + 1) = i + 2 + m /\ (i + m - (i + 1)) % 2 = 0 /\ i + 1 <= i + m
          BY <1>0, <3>5
        <4>2. Chosen(ts, i + 1, i + m) \in Seq(Word)
          BY <1>0, <1>4, <4>1, PartOfAlternatives, ChosenTyped
        <4>3. InList(S[i + 2 + m], s, "next", Append(Chosen(ts, i + 1, i + m), ts[i + 2 + m]))
          BY <1>0, <3>1, <3>2, <3>3, <3>5, <4>1, <4>2, StepListWord
        <4>4. Append(Chosen(ts, i + 1, i + m), ts[i + 2 + m]) = Chosen(ts, i + 1, i + 2 + m)
          <5>1. i + m + 2 = i + 2 + m /\ i + 1 \in Nat /\ i + m \in Nat
            BY <1>0
          <5>2. Chosen(ts, i + 1, i + m + 2) = Append(Chosen(ts, i + 1, i + m), ts[i + m + 2])
            BY <4>1, <5>1, ChosenMore
          <5> QED
            BY <5>1, <5>2
        <4> QED
          BY <4>1, <4>3, <4>4
      <3> QED
        BY <3>4, <3>5
    <2>3. PICK m \in Nat : m = k - 2 - i /\ m % 2 = 0 /\ i + 1 + m = k - 1
      <3>1. i + 1 <= k - 1 /\ (k - 1 - (i + 1)) % 2 = 0
        BY <1>4, Zenon DEF Alternatives
      <3>2. k - 2 - i \in Nat /\ k - 2 - i = k - 1 - (i + 1) /\ i + 1 + (k - 2 - i) = k - 1
        BY <1>0, <3>1
      <3>3. (k - 2 - i) % 2 = 0
        BY <3>1, <3>2, Zenon
      <3> QED
        BY <3>2, <3>3, Zenon
    <2>4. m \in T
      <3> HIDE DEF T
      <3> QED
        BY <2>1, <2>2, SetInduction
    <2>5. InList(S[k - 1], s, "next", Chosen(ts, i + 1, k - 1))
      BY <1>0, <2>3, <2>4
    <2>6. Chosen(ts, i + 1, k - 1) \in Seq(Word)
      BY <1>0, <1>4, ChosenTyped
    <2> QED
      BY <1>0, <1>2, <2>5, <2>6, StepListCloses DEF s
  <1> QED
    BY <1>3, <1>4 DEF Listed, s

\* A bracket, after a list of values or not.
LEMMA BracketRuns ==
    ASSUME NEW ts \in Seq(Word \cup Mark), NEW S, Course(ts, S), NEW b \in 3 .. Len(ts), NEW j \in b .. Len(ts),
           S[b - 1].at \in {"params", "bracket"}, S[b - 1].name = <<ts[2]>>, Bracketed(ts, b, j)
    PROVE  Gained(S[j], S[b - 1], Headed(S[b - 1], Bracket(ts, b, j)))
  <1> DEFINE s == S[b - 1]
             o == (ts[b] = "[")
  <1>0. s \in ParserState /\ o \in BOOLEAN /\ <<>> \in Seq(Word)
    BY CourseStep
  <1>n. b \in Nat /\ j \in Nat /\ Len(ts) \in Nat
    OBVIOUS
  <1>1. ts[b] \in {"<", "["} /\ ts[j] = Closer(o) /\ b < j
    BY <1>0, <1>n DEF Bracketed, Closer
  <1>2. InBracket(S[b], s, "name", o, <<>>, <<>>) /\ S[b] \in ParserState
    <2>1. S[b] = Step(s, ts[b]) /\ S[b] \in ParserState
      BY CourseStep
    <2>2. s.at \in {"params", "bracket"}
      OBVIOUS
    <2> HIDE DEF s
    <2> QED
      BY <1>0, <1>n, <1>1, <2>1, <2>2, StepOpens
  <1>3. s.name = <<ts[2]>>
    OBVIOUS
  <1> HIDE DEF s, o
  <1>4. S[j] = Step(S[j - 1], Closer(o)) /\ S[j - 1] \in ParserState
    BY <1>0, <1>n, <1>1, CourseStep
  <1>5. CASE Typed(ts, b, j)
    <2>1. j = b + 4 /\ ts[b + 1] \in Word /\ ts[b + 2] = ":" /\ ts[b + 3] \in Word
      BY <1>5 DEF Typed
    <2>2. /\ S[b + 1] = Step(S[b], ts[b + 1]) /\ S[b + 1] \in ParserState
          /\ S[b + 2] = Step(S[b + 1], ":") /\ S[b + 2] \in ParserState
          /\ S[b + 3] = Step(S[b + 2], ts[b + 3]) /\ S[b + 3] \in ParserState
      <3>1. b + 1 \in 1 .. Len(ts) /\ b + 2 \in 1 .. Len(ts) /\ b + 3 \in 1 .. Len(ts)
            /\ b + 1 - 1 = b /\ b + 2 - 1 = b + 1 /\ b + 3 - 1 = b + 2
        BY <1>n, <2>1
      <3> QED
        BY <2>1, <3>1, CourseStep
    <2>3. InBracket(S[b + 1], s, "after", o, <<ts[b + 1]>>, <<>>)
      BY <1>0, <1>n, <1>2, <2>1, <2>2, StepWords
    <2>4. InBracket(S[b + 2], s, "type", o, <<>>, <<>>)
      <3>1. <<ts[b + 1]>> \in Seq(Word)
        BY <2>1
      <3> QED
        BY <1>0, <1>n, <2>2, <2>3, <3>1, StepMarks
    <2>5. InBracket(S[b + 3], s, "close", o, <<>>, <<ts[b + 3]>>)
      BY <1>0, <1>n, <2>1, <2>2, <2>4, StepWords
    <2>6. Gained(S[j], s, Headed(s, [optional |-> o, enum |-> FALSE, values |-> <<>>, type |-> <<ts[b + 3]>>]))
      <3>1. <<ts[b + 3]>> \in Seq(Word) /\ S[j - 1] = S[b + 3]
        BY <1>n, <2>1
      <3> QED
        BY <1>0, <1>n, <1>4, <2>2, <2>5, <3>1, StepCloses
    <2>7. Bracket(ts, b, j) = [optional |-> o, enum |-> FALSE, values |-> <<>>, type |-> <<ts[b + 3]>>]
      BY <1>5, Zenon DEF Bracket, o
    <2> QED
      BY <2>6, <2>7, Zenon DEF s
  <1>6. CASE ~Typed(ts, b, j)
    <2>0. Alternatives(ts, b + 1, j - 1)
      BY <1>6 DEF Bracketed
    <2> DEFINE Open(u, vs) == InBracket(u, s, "after", o, vs, <<>>) \/ InBracket(u, s, "more", o, vs, <<>>)
               At(m) == IF m % 2 = 0 THEN Open(S[b + 1 + m], Chosen(ts, b + 1, b + 1 + m))
                        ELSE InBracket(S[b + 1 + m], s, "alt", o, Chosen(ts, b + 1, b + m), <<>>)
               T == {m \in Nat : b + 1 + m <= j - 1 => At(m)}
    <2>1. 0 \in T
      <3> SUFFICES ASSUME b + 1 <= j - 1 PROVE Open(S[b + 1], Chosen(ts, b + 1, b + 1))
        BY <1>n
      <3>1. ts[b + 1] \in Word
        BY <1>n, <2>0 DEF Alternatives
      <3>2. S[b + 1] = Step(S[b], ts[b + 1])
        <4>1. b + 1 \in 1 .. Len(ts) /\ b + 1 - 1 = b
          BY <1>n
        <4> QED
          BY <4>1, CourseStep
      <3>3. InBracket(S[b + 1], s, "after", o, <<ts[b + 1]>>, <<>>)
        BY <1>0, <1>n, <1>2, <3>1, <3>2, StepWords
      <3>4. Chosen(ts, b + 1, b + 1) = <<ts[b + 1]>>
        <4>1. b + 1 \in Nat
          BY <1>n
        <4> QED
          BY <4>1, ChosenFew, Zenon
      <3> QED
        BY <3>3, <3>4
    <2>2. ASSUME NEW m \in Nat, m \in T PROVE m + 1 \in T
      <3> SUFFICES ASSUME b + 2 + m <= j - 1 PROVE At(m + 1)
        BY <1>n
      <3>1. S[b + 2 + m] = Step(S[b + 1 + m], ts[b + 2 + m]) /\ S[b + 1 + m] \in ParserState
        <4>1. b + 2 + m \in 1 .. Len(ts) /\ b + 2 + m - 1 = b + 1 + m
          BY <1>n
        <4> QED
          BY <4>1, CourseStep
      <3>2. At(m)
        BY <1>n, <2>2
      <3>3. IF (m + 1) % 2 = 0 THEN ts[b + 2 + m] \in Word ELSE ts[b + 2 + m] = "|"
        <4>1. b + 2 + m \in b + 1 .. j - 1 /\ b + 2 + m - (b + 1) = m + 1
          BY <1>n
        <4>2. \A k \in b + 1 .. j - 1 : IF (k - (b + 1)) % 2 = 0 THEN ts[k] \in Word ELSE ts[k] = "|"
          BY <2>0 DEF Alternatives
        <4> QED
          BY <4>1, <4>2
      <3>4. CASE m % 2 = 0
        <4>1. (m + 1) % 2 # 0 /\ b + 1 + (m + 1) = b + 2 + m /\ b + (m + 1) = b + 1 + m
          BY <1>n, <3>4
        <4>2. Chosen(ts, b + 1, b + 1 + m) \in Seq(Word)
          BY <1>n, <2>0, <3>4, PartOfAlternatives, ChosenTyped
        <4>3. Open(S[b + 1 + m], Chosen(ts, b + 1, b + 1 + m)) /\ ts[b + 2 + m] = "|"
          BY <3>2, <3>3, <3>4, <4>1
        <4>4. InBracket(S[b + 2 + m], s, "alt", o, Chosen(ts, b + 1, b + 1 + m), <<>>)
          BY <1>0, <1>n, <3>1, <4>2, <4>3, StepMarks
        <4> QED
          BY <4>1, <4>4
      <3>5. CASE m % 2 # 0
        <4>1. (m + 1) % 2 = 0 /\ b + 1 + (m + 1) = b + 2 + m /\ (b + m - (b + 1)) % 2 = 0 /\ b + 1 <= b + m
          BY <1>n, <3>5
        <4>2. Chosen(ts, b + 1, b + m) \in Seq(Word)
          BY <1>n, <2>0, <4>1, PartOfAlternatives, ChosenTyped
        <4>3. InBracket(S[b + 2 + m], s, "more", o, Append(Chosen(ts, b + 1, b + m), ts[b + 2 + m]), <<>>)
          BY <1>0, <1>n, <3>1, <3>2, <3>3, <3>5, <4>1, <4>2, StepWords
        <4>4. Append(Chosen(ts, b + 1, b + m), ts[b + 2 + m]) = Chosen(ts, b + 1, b + 2 + m)
          <5>1. b + m + 2 = b + 2 + m /\ b + 1 \in Nat /\ b + m \in Nat
            BY <1>n
          <5>2. PICK i \in Nat, k \in Nat : i = b + 1 /\ k = b + m
            BY <5>1
          <5>3. Chosen(ts, i, k + 2) = Append(Chosen(ts, i, k), ts[k + 2])
            BY <4>1, <5>2, ChosenMore
          <5> QED
            BY <5>1, <5>2, <5>3
        <4> QED
          BY <4>1, <4>3, <4>4
      <3> QED
        BY <3>4, <3>5
    <2>3. PICK m \in Nat : m = j - 2 - b /\ m % 2 = 0 /\ b + 1 + m = j - 1
      BY <1>n, <2>0 DEF Alternatives
    <2>4. m \in T
      <3> HIDE DEF T
      <3> QED
        BY <2>1, <2>2, SetInduction
    <2> DEFINE vs == Chosen(ts, b + 1, j - 1)
    <2>5. Open(S[j - 1], vs)
      BY <1>n, <2>3, <2>4
    <2>6. vs \in Seq(Word)
      BY <1>n, <2>0, ChosenTyped
    <2> HIDE DEF vs
    <2>7. Gained(S[j], s, Headed(s, [optional |-> o, enum |-> TRUE, values |-> vs, type |-> s.name \o vs]))
      BY <1>0, <1>n, <1>4, <2>5, <2>6, StepCloses
    <2>8. Bracket(ts, b, j) = [optional |-> o, enum |-> TRUE, values |-> vs, type |-> s.name \o vs]
      BY <1>3, <1>6, Zenon DEF Bracket, Choice, o, vs
    <2> QED
      BY <2>7, <2>8, Zenon DEF s
  <1> QED
    BY <1>5, <1>6

\* A whole piece.
LEMMA PieceRuns ==
    ASSUME NEW ts \in Seq(Word \cup Mark), NEW S, Course(ts, S), NEW i \in 3 .. Len(ts), NEW j \in i .. Len(ts),
           S[i - 1].at = "params", Tidy(S[i - 1], <<ts[2]>>), NEW p \in Meanings(ts, i, j)
    PROVE  Gained(S[j], S[i - 1], p)
  <1> DEFINE s == S[i - 1]
  <1>0. s \in ParserState /\ i \in Nat /\ j \in Nat /\ Len(ts) \in Nat /\ S[i] = Step(s, ts[i])
    BY CourseStep
  <1>1. s.at = "params" /\ s.name = <<ts[2]>> /\ ~s.listed /\ s.list = <<>>
    BY DEF Tidy
  <1>2. CASE i = j /\ ts[i] \in Word /\ p = Choice(ts, FALSE, <<ts[i]>>)
    <2>1. Step(s, ts[i]) = [s EXCEPT !.out = Append(s.out, Unnamed(s, <<ts[i]>>, FALSE))]
      BY <1>1, <1>2, UsageAssumption DEF Step, Mark
    <2>2. Unnamed(s, <<ts[i]>>, FALSE) = p
      BY <1>1, <1>2, Zenon DEF Unnamed, Choice
    <2> HIDE DEF s
    <2>3. Gained(Step(s, ts[i]), s, p)
      BY <1>0, <1>1, <2>1, <2>2 DEF Gained, ParserState
    <2> QED
      BY <1>0, <1>2, <2>3 DEF s
  <1>3. CASE Bracketed(ts, i, j) /\ p = Bracket(ts, i, j)
    <2>1. Gained(S[j], s, Headed(s, Bracket(ts, i, j)))
      BY <1>1, <1>3, BracketRuns
    <2>2. Headed(s, Bracket(ts, i, j)) = p
      BY <1>1, <1>3 DEF Headed
    <2> QED
      BY <2>1, <2>2
  <1>4. ASSUME NEW k \in i + 1 .. j - 1, Listed(ts, i, k), Bracketed(ts, k + 1, j),
               p = WithList(Bracket(ts, k + 1, j), Chosen(ts, i + 1, k - 1))
        PROVE  Gained(S[j], s, p)
    <2>1. InList(S[k], s, "bracket", Chosen(ts, i + 1, k - 1))
      BY <1>0, <1>1, <1>4, ListRuns
    <2>2. k + 1 \in 3 .. Len(ts) /\ j \in k + 1 .. Len(ts) /\ (k + 1) - 1 = k
      BY <1>0
    <2>3. Gained(S[j], S[k], Headed(S[k], Bracket(ts, k + 1, j)))
      <3>1. S[k].at \in {"params", "bracket"} /\ S[k].name = <<ts[2]>>
        BY <1>1, <2>1 DEF InList
      <3> QED
        BY <1>4, <2>2, <3>1, BracketRuns
    <2>4. Headed(S[k], Bracket(ts, k + 1, j)) = p
      BY <1>4, <2>1 DEF Headed, InList
    <2> QED
      BY <2>1, <2>3, <2>4 DEF Gained, InList
  <1> QED
    BY <1>2, <1>3, <1>4 DEF Meanings

-----------------------------------------------------------------------------
(* What is read to its end has the form of a parameter. *)

\* The bracket of a piece that begins at i begins at b.
Opened(ts, i, b) == b = i \/ (b - 1 > i /\ Listed(ts, i, b - 1))

\* In a bracket that begins at b, after the token at n.
Inward(ts, u, b, n) ==
    \/ u.at = "name" /\ n = b
    \/ u.at = "after" /\ n = b + 1 /\ ts[b + 1] \in Word
    \/ u.at = "type" /\ n = b + 2 /\ ts[b + 1] \in Word /\ ts[b + 2] = ":"
    \/ u.at = "close" /\ n = b + 3 /\ ts[b + 1] \in Word /\ ts[b + 2] = ":" /\ ts[b + 3] \in Word
    \/ u.at = "alt" /\ n > b + 1 /\ Alternatives(ts, b + 1, n - 1) /\ ts[n] = "|"
    \/ u.at = "more" /\ n > b /\ Alternatives(ts, b + 1, n)

\* In a piece that begins at i, after the token at n.
Inside(ts, u, i, n) ==
    \/ u.at = "first" /\ n = i /\ ts[i] = "("
    \/ u.at = "next" /\ n > i /\ ts[i] = "(" /\ Alternatives(ts, i + 1, n)
    \/ u.at = "value" /\ n > i + 1 /\ ts[i] = "(" /\ Alternatives(ts, i + 1, n - 1) /\ ts[n] = "|"
    \/ u.at = "bracket" /\ n > i /\ Listed(ts, i, n)
    \/ \E b \in i .. n : /\ Opened(ts, i, b) /\ ts[b] \in {"<", "["} /\ u.param.optional = (ts[b] = "[")
                         /\ Inward(ts, u, b, n)

LEMMA AlternativesGrow ==
    ASSUME NEW ts, NEW i \in Nat
    PROVE  /\ ts[i] \in Word => Alternatives(ts, i, i)
           /\ \A j \in Nat : Alternatives(ts, i, j - 1) /\ ts[j] = "|" /\ ts[j + 1] \in Word => Alternatives(ts, i, j + 1)
  <1>1. ASSUME ts[i] \in Word PROVE Alternatives(ts, i, i)
    BY <1>1 DEF Alternatives
  <1>2. ASSUME NEW j \in Nat, Alternatives(ts, i, j - 1), ts[j] = "|", ts[j + 1] \in Word
        PROVE  Alternatives(ts, i, j + 1)
    <2>1. i <= j - 1 /\ (j - 1 - i) % 2 = 0
      BY <1>2 DEF Alternatives
    <2>2. i <= j + 1 /\ (j + 1 - i) % 2 = 0 /\ (j - i) % 2 # 0
      BY <2>1
    <2>3. ASSUME NEW k \in i .. j + 1 PROVE IF (k - i) % 2 = 0 THEN ts[k] \in Word ELSE ts[k] = "|"
      <3>1. k \in i .. j - 1 \/ k = j \/ k = j + 1
        OBVIOUS
      <3>2. CASE k \in i .. j - 1
        BY <1>2, <3>2 DEF Alternatives
      <3> QED
        BY <1>2, <2>2, <3>1, <3>2
    <2> QED
      BY <2>2, <2>3 DEF Alternatives
  <1> QED
    BY <1>1, <1>2

\* A bracket that closes ends a piece.
LEMMA PieceEnds ==
    ASSUME NEW ts, NEW i \in Nat, NEW b \in Nat, NEW j \in Nat, i <= b, b < j, Opened(ts, i, b), ts[b] \in {"<", "["},
           ts[j] = Closer(ts[b] = "["), Typed(ts, b, j) \/ Alternatives(ts, b + 1, j - 1)
    PROVE  Meanings(ts, i, j) # {}
  <1>1. Bracketed(ts, b, j)
    BY DEF Bracketed, Closer
  <1>2. CASE b = i
    <2>1. Bracket(ts, i, j) \in Meanings(ts, i, j)
      BY <1>1, <1>2 DEF Meanings
    <2> QED
      BY <2>1
  <1>3. CASE b # i
    <2>1. b - 1 \in i + 1 .. j - 1 /\ b - 1 + 1 = b /\ Listed(ts, i, b - 1)
      BY <1>3 DEF Opened
    <2>2. WithList(Bracket(ts, b - 1 + 1, j), Chosen(ts, i + 1, b - 1 - 1)) \in Meanings(ts, i, j)
      <3>1. Bracketed(ts, b - 1 + 1, j)
        BY <1>1, <2>1, Zenon
      <3> QED
        BY <2>1, <3>1, Zenon DEF Meanings
    <2> QED
      BY <2>2
  <1> QED
    BY <1>2, <1>3

\* A token after one in a piece.
LEMMA InsideStep ==
    ASSUME NEW ts \in Seq(Word \cup Mark), NEW u, NEW v, NEW i \in Nat, NEW n \in Nat, i <= n,
           Inside(ts, u, i, n), Follows(u, ts[n + 1], v)
    PROVE  (v.at = "params" /\ Meanings(ts, i, n + 1) # {}) \/ Inside(ts, v, i, n + 1)
  <1> DEFINE t == ts[n + 1]
  <1>0. n + 1 - 1 = n
    OBVIOUS
  <1>1. CASE u.at = "first" /\ n = i /\ ts[i] = "("
    <2>1. (t \in Word /\ v.at = "next") \/ (t = ")" /\ v.at = "bracket")
      BY <1>1 DEF Follows
    <2>2. CASE t \in Word /\ v.at = "next"
      <3>1. Alternatives(ts, i + 1, i + 1)
        <4>1. i + 1 \in Nat /\ ts[i + 1] \in Word
          BY <1>1, <2>2
        <4> QED
          BY <4>1, AlternativesGrow
      <3> QED
        BY <1>1, <2>2, <3>1 DEF Inside
    <2>3. CASE t = ")" /\ v.at = "bracket"
      BY <1>1, <2>3 DEF Inside, Listed
    <2> QED
      BY <2>1, <2>2, <2>3
  <1>2. CASE u.at = "next" /\ n > i /\ ts[i] = "(" /\ Alternatives(ts, i + 1, n)
    <2>1. (t = "|" /\ v.at = "value") \/ (t = ")" /\ v.at = "bracket")
      BY <1>2 DEF Follows
    <2>2. Alternatives(ts, i + 1, n + 1 - 1)
      BY <1>0, <1>2, Zenon
    <2>3. CASE t = "|" /\ v.at = "value"
      BY <1>2, <2>2, <2>3 DEF Inside
    <2>4. CASE t = ")" /\ v.at = "bracket"
      BY <1>2, <2>2, <2>4 DEF Inside, Listed
    <2> QED
      BY <2>1, <2>3, <2>4
  <1>3. CASE u.at = "value" /\ n > i + 1 /\ ts[i] = "(" /\ Alternatives(ts, i + 1, n - 1) /\ ts[n] = "|"
    <2>1. t \in Word /\ v.at = "next"
      BY <1>3 DEF Follows
    <2>2. Alternatives(ts, i + 1, n + 1)
      <3>1. i + 1 \in Nat
        OBVIOUS
      <3> QED
        BY <1>3, <2>1, <3>1, AlternativesGrow
    <2> QED
      BY <1>3, <2>1, <2>2 DEF Inside
  <1>4. CASE u.at = "bracket" /\ n > i /\ Listed(ts, i, n)
    <2>1. t \in {"<", "["} /\ v.at = "name" /\ v.param.optional = (t = "[")
      BY <1>4 DEF Follows
    <2>2. Opened(ts, i, n + 1) /\ Inward(ts, v, n + 1, n + 1)
      BY <1>0, <1>4, <2>1 DEF Opened, Inward
    <2> QED
      BY <2>1, <2>2 DEF Inside
  <1>5. ASSUME NEW b \in i .. n, Opened(ts, i, b), ts[b] \in {"<", "["}, u.param.optional = (ts[b] = "["), Inward(ts, u, b, n)
        PROVE  (v.at = "params" /\ Meanings(ts, i, n + 1) # {}) \/ Inside(ts, v, i, n + 1)
    <2>0. b \in Nat /\ b + 1 \in Nat /\ b \in i .. n + 1 /\ b < n + 1 /\ i <= b /\ n + 1 \in Nat
      OBVIOUS
    <2>1. ASSUME Inward(ts, v, b, n + 1), v.param.optional = u.param.optional PROVE Inside(ts, v, i, n + 1)
      BY <1>5, <2>0, <2>1 DEF Inside
    <2>2. ASSUME v.at = "params", t = Closer(u.param.optional), Typed(ts, b, n + 1) \/ Alternatives(ts, b + 1, n)
          PROVE  Meanings(ts, i, n + 1) # {}
      <3>1. ts[n + 1] = Closer(ts[b] = "[")
        BY <1>5, <2>2, Zenon
      <3>2. Typed(ts, b, n + 1) \/ Alternatives(ts, b + 1, n + 1 - 1)
        BY <1>0, <2>2, Zenon
      <3> QED
        BY <1>5, <2>0, <3>1, <3>2, PieceEnds
    <2>3. CASE u.at = "name" /\ n = b
      <3>1. t \in Word /\ v.at = "after" /\ v.param.optional = u.param.optional
        BY <2>3 DEF Follows
      <3> QED
        BY <2>1, <2>3, <3>1 DEF Inward
    <2>4. CASE u.at = "after" /\ n = b + 1 /\ ts[b + 1] \in Word
      <3>0. Alternatives(ts, b + 1, n)
        BY <2>0, <2>4, AlternativesGrow
      <3>1. \/ t = ":" /\ v.at = "type" /\ v.param.optional = u.param.optional
            \/ t = "|" /\ v.at = "alt" /\ v.param.optional = u.param.optional
            \/ t = Closer(u.param.optional) /\ v.at = "params"
        BY <2>4 DEF Follows
      <3>2. CASE t = ":" /\ v.at = "type" /\ v.param.optional = u.param.optional
        BY <2>1, <2>4, <3>2 DEF Inward
      <3>3. CASE t = "|" /\ v.at = "alt" /\ v.param.optional = u.param.optional
        <4>1. Alternatives(ts, b + 1, n + 1 - 1) /\ n + 1 > b + 1
          BY <1>0, <2>4, <3>0
        <4> QED
          BY <2>1, <3>3, <4>1 DEF Inward
      <3>4. CASE t = Closer(u.param.optional) /\ v.at = "params"
        BY <2>2, <3>0, <3>4
      <3> QED
        BY <3>1, <3>2, <3>3, <3>4
    <2>5. CASE u.at = "type" /\ n = b + 2 /\ ts[b + 1] \in Word /\ ts[b + 2] = ":"
      <3>1. t \in Word /\ v.at = "close" /\ v.param.optional = u.param.optional
        BY <2>5 DEF Follows
      <3> QED
        BY <2>1, <2>5, <3>1 DEF Inward
    <2>6. CASE u.at = "close" /\ n = b + 3 /\ ts[b + 1] \in Word /\ ts[b + 2] = ":" /\ ts[b + 3] \in Word
      <3>1. t = Closer(u.param.optional) /\ v.at = "params"
        BY <2>6 DEF Follows
      <3>2. Typed(ts, b, n + 1)
        BY <2>6 DEF Typed
      <3> QED
        BY <2>2, <3>1, <3>2
    <2>7. CASE u.at = "alt" /\ n > b + 1 /\ Alternatives(ts, b + 1, n - 1) /\ ts[n] = "|"
      <3>1. t \in Word /\ v.at = "more" /\ v.param.optional = u.param.optional
        BY <2>7 DEF Follows
      <3>2. Alternatives(ts, b + 1, n + 1) /\ n + 1 > b
        BY <2>0, <2>7, <3>1, AlternativesGrow
      <3> QED
        BY <2>1, <3>1, <3>2 DEF Inward
    <2>8. CASE u.at = "more" /\ n > b /\ Alternatives(ts, b + 1, n)
      <3>1. \/ t = "|" /\ v.at = "alt" /\ v.param.optional = u.param.optional
            \/ t = Closer(u.param.optional) /\ v.at = "params"
        BY <2>8 DEF Follows
      <3>2. CASE t = "|" /\ v.at = "alt" /\ v.param.optional = u.param.optional
        <4>1. Alternatives(ts, b + 1, n + 1 - 1) /\ n + 1 > b + 1
          BY <1>0, <2>8
        <4> QED
          BY <2>1, <3>2, <4>1 DEF Inward
      <3>3. CASE t = Closer(u.param.optional) /\ v.at = "params"
        BY <2>2, <2>8, <3>3
      <3> QED
        BY <3>1, <3>2, <3>3
    <2> QED
      BY <1>5, <2>3, <2>4, <2>5, <2>6, <2>7, <2>8 DEF Inward
  <1> QED
    BY <1>1, <1>2, <1>3, <1>4, <1>5 DEF Inside

-----------------------------------------------------------------------------
(* Usages as a whole. *)

\* What is known after the token at n of a usage that begins as one.
Reached(ts, S, n) ==
    /\ Tidy(S[n], <<ts[2]>>) /\ S[n].at \notin {"slash", "command"}
    /\ S[n].at = "params" => n = 2 \/ \E i \in 3 .. n : S[i - 1].at = "params" /\ Meanings(ts, i, n) # {}
    /\ S[n].at \notin {"params", "error"} => \E i \in 3 .. n : S[i - 1].at = "params" /\ Inside(ts, S[n], i, n)

LEMMA FirstTokens ==
    ASSUME NEW ts \in Seq(Word \cup Mark), NEW S, Course(ts, S)
    PROVE  /\ S[0].at = "slash"
           /\ Len(ts) >= 1 => S[1].at = (IF ts[1] = "/" THEN "command" ELSE "error")
           /\ Len(ts) >= 2 => S[2].at = (IF ts[1] = "/" /\ ts[2] \in Word THEN "params" ELSE "error")
           /\ Len(ts) >= 2 /\ ts[1] = "/" /\ ts[2] \in Word =>
                  S[2].name = <<ts[2]>> /\ S[2].out = <<>> /\ ~S[2].listed /\ S[2].list = <<>>
  <1>0. S[0] = Start /\ Len(ts) \in Nat
    BY DEF Course
  <1>1. CASE Len(ts) = 0
    BY <1>0, <1>1 DEF Start
  <1>2. CASE Len(ts) >= 1
    <2>1. S[1] = Step(Start, ts[1]) /\ S[1] \in ParserState
      <3>1. 1 \in 1 .. Len(ts) /\ 1 - 1 = 0
        BY <1>0, <1>2
      <3> QED
        BY <1>0, <3>1, CourseStep
    <2>2. S[1] = (IF ts[1] = "/" THEN [Start EXCEPT !.at = "command"] ELSE Error)
      BY <2>1 DEF Step, Start
    <2>3. S[1].at = (IF ts[1] = "/" THEN "command" ELSE "error")
      BY <2>2 DEF Error, Start
    <2>4. ASSUME Len(ts) >= 2
          PROVE  /\ S[2].at = (IF ts[1] = "/" /\ ts[2] \in Word THEN "params" ELSE "error")
                 /\ ts[1] = "/" /\ ts[2] \in Word =>
                        S[2].name = <<ts[2]>> /\ S[2].out = <<>> /\ ~S[2].listed /\ S[2].list = <<>>
      <3>1. S[2] = Step(S[1], ts[2])
        <4>1. 2 \in 1 .. Len(ts) /\ 2 - 1 = 1
          BY <1>0, <2>4
        <4> QED
          BY <4>1, CourseStep
      <3>2. CASE ts[1] = "/" /\ ts[2] \in Word
        <4>1. S[2] = [[Start EXCEPT !.at = "command"] EXCEPT !.at = "params", !.name = <<ts[2]>>]
          BY <2>2, <3>1, <3>2 DEF Step, Start
        <4> QED
          BY <3>2, <4>1 DEF Start
      <3>3. CASE ts[1] # "/"
        <4>1. S[2] = Error
          BY <2>3, <3>1, <3>3 DEF Step
        <4> QED
          BY <3>3, <4>1 DEF Error, Start
      <3>4. CASE ts[1] = "/" /\ ts[2] \notin Word
        <4>1. S[2] = Error
          BY <2>3, <3>1, <3>4 DEF Step
        <4> QED
          BY <3>4, <4>1 DEF Error, Start
      <3> QED
        BY <3>2, <3>3, <3>4
    <2> QED
      BY <1>0, <2>3, <2>4 DEF Start
  <1> QED
    BY <1>0, <1>1, <1>2

LEMMA ErrorStays ==
    ASSUME NEW ts \in Seq(Word \cup Mark), NEW S, Course(ts, S), NEW n \in 0 .. Len(ts), S[n].at = "error"
    PROVE  S[Len(ts)].at = "error"
  <1> DEFINE N == Len(ts)
             T == {m \in Nat : n + m <= N => S[n + m].at = "error"}
  <1>0. N \in Nat /\ n \in Nat
    OBVIOUS
  <1>1. 0 \in T
    BY <1>0
  <1>2. ASSUME NEW m \in Nat, m \in T PROVE m + 1 \in T
    <2> SUFFICES ASSUME n + m + 1 <= N PROVE S[n + m + 1].at = "error"
      BY <1>0
    <2>1. n + m + 1 \in 1 .. Len(ts) /\ n + m + 1 - 1 = n + m /\ S[n + m].at = "error"
      BY <1>0, <1>2
    <2>2. S[n + m + 1] = Step(S[n + m], ts[n + m + 1])
      BY <2>1, CourseStep
    <2> QED
      BY <2>1, <2>2 DEF Step, Error, Start
  <1>3. N - n \in Nat /\ n + (N - n) = N
    BY <1>0
  <1>4. N - n \in T
    <2> HIDE DEF T
    <2> QED
      BY <1>1, <1>2, <1>3, SetInduction
  <1> QED
    BY <1>0, <1>3, <1>4

LEMMA AllReached ==
    ASSUME NEW ts \in Seq(Word \cup Mark), NEW S, Course(ts, S), Len(ts) >= 2, ts[1] = "/", ts[2] \in Word,
           NEW n \in 2 .. Len(ts)
    PROVE  Reached(ts, S, n)
  <1> DEFINE N == Len(ts)
             T == {m \in Nat : m + 2 <= N => Reached(ts, S, m + 2)}
  <1>0. N \in Nat
    OBVIOUS
  <1>1. 0 \in T
    <2>1. S[2].at = "params" /\ S[2].name = <<ts[2]>> /\ ~S[2].listed /\ S[2].list = <<>>
      BY FirstTokens
    <2>2. Reached(ts, S, 2)
      BY <2>1 DEF Reached, Tidy
    <2> QED
      BY <2>2
  <1>2. ASSUME NEW m \in Nat, m \in T PROVE m + 1 \in T
    <2> DEFINE k == m + 2
               u == S[k]
               v == S[k + 1]
               t == ts[k + 1]
    <2> SUFFICES ASSUME k + 1 <= N PROVE Reached(ts, S, k + 1)
      BY <1>0
    <2>0. k \in Nat /\ k >= 2 /\ k + 1 \in 1 .. Len(ts) /\ (k + 1) - 1 = k
      BY <1>0
    <2>1. Reached(ts, S, k)
      BY <1>0, <1>2
    <2>2. u \in ParserState /\ v \in ParserState /\ v = Step(u, t) /\ t \in Word \cup Mark
      BY <2>0, CourseStep
    <2> HIDE DEF k
    <2>3. Tidy(v, <<ts[2]>>) /\ v.at \notin {"slash", "command"}
      BY <2>1, <2>2, StepTidy DEF Reached
    <2>4. CASE v.at = "error"
      BY <2>3, <2>4 DEF Reached
    <2>5. CASE v.at # "error" /\ u.at = "params"
      <3>1. Follows(u, t, v)
        BY <2>2, <2>5, StepFollows
      <3>2. k + 1 \in 3 .. k + 1 /\ S[(k + 1) - 1].at = "params"
        BY <2>0, <2>5
      <3>3. \/ t \in Word /\ v.at = "params"
            \/ t = "(" /\ v.at = "first"
            \/ t \in {"<", "["} /\ v.at = "name" /\ v.param.optional = (t = "[")
        BY <2>5, <3>1 DEF Follows
      <3>4. CASE t \in Word /\ v.at = "params"
        <4>1. Choice(ts, FALSE, <<t>>) \in Meanings(ts, k + 1, k + 1)
          BY <3>4 DEF Meanings
        <4>2. \E i \in 3 .. k + 1 : S[i - 1].at = "params" /\ Meanings(ts, i, k + 1) # {}
          <5>1. Meanings(ts, k + 1, k + 1) # {}
            BY <4>1
          <5> QED
            BY <3>2, <5>1, Zenon
        <4>3. v.at = "params"
          BY <3>4
        <4> QED
          BY <2>3, <4>2, <4>3 DEF Reached
      <3>5. CASE t = "(" /\ v.at = "first"
        <4>1. Inside(ts, v, k + 1, k + 1)
          BY <3>5 DEF Inside
        <4>2. \E i \in 3 .. k + 1 : S[i - 1].at = "params" /\ Inside(ts, v, i, k + 1)
          BY <3>2, <4>1, Zenon
        <4>3. v.at \notin {"params", "error"}
          BY <3>5
        <4> QED
          BY <2>3, <4>2, <4>3 DEF Reached
      <3>6. CASE t \in {"<", "["} /\ v.at = "name" /\ v.param.optional = (t = "[")
        <4>1. Inside(ts, v, k + 1, k + 1)
          <5>1. Opened(ts, k + 1, k + 1) /\ Inward(ts, v, k + 1, k + 1) /\ k + 1 \in k + 1 .. k + 1
            BY <2>0, <3>6 DEF Opened, Inward
          <5> QED
            BY <3>6, <5>1 DEF Inside
        <4>2. \E i \in 3 .. k + 1 : S[i - 1].at = "params" /\ Inside(ts, v, i, k + 1)
          BY <3>2, <4>1, Zenon
        <4>3. v.at \notin {"params", "error"}
          BY <3>6
        <4> QED
          BY <2>3, <4>2, <4>3 DEF Reached
      <3> QED
        BY <3>3, <3>4, <3>5, <3>6
    <2>6. CASE v.at # "error" /\ u.at # "params"
      <3>1. Follows(u, t, v)
        BY <2>2, <2>6, StepFollows
      <3>2. u.at # "error"
        BY <3>1 DEF Follows
      <3>3. PICK i \in 3 .. k : S[i - 1].at = "params" /\ Inside(ts, u, i, k)
        BY <2>1, <2>6, <3>2 DEF Reached
      <3>4. (v.at = "params" /\ Meanings(ts, i, k + 1) # {}) \/ Inside(ts, v, i, k + 1)
        <4>1. i \in Nat /\ i <= k
          BY <2>0
        <4> QED
          BY <2>0, <3>1, <3>3, <4>1, InsideStep
      <3>5. i \in 3 .. k + 1
        BY <2>0
      <3>6. Inside(ts, v, i, k + 1) => v.at # "params"
        BY DEF Inside, Inward
      <3> QED
        BY <2>3, <3>3, <3>4, <3>5, <3>6 DEF Reached
    <2> QED
      BY <2>4, <2>5, <2>6
  <1>3. n - 2 \in Nat /\ n - 2 + 2 = n
    OBVIOUS
  <1>4. n - 2 \in T
    <2> HIDE DEF T
    <2> QED
      BY <1>1, <1>2, <1>3, SetInduction
  <1> QED
    BY <1>0, <1>3, <1>4

\* The readings of the first j tokens, from those of fewer.
ReadingsFrom(ts, g, j) ==
    IF j = 2 THEN {<<>>}
    ELSE UNION {{Append(ps, p) : ps \in g[i - 1], p \in Meanings(ts, i, j)} : i \in {k \in 3 .. j : Meanings(ts, k, j) # {}}}

\* The list of parameters that the parser has after j tokens, if they are a usage.
ReadBy(S, j) == IF S[j].at = "params" THEN {S[j].out} ELSE {}

LEMMA PrefixReadings ==
    ASSUME NEW ts \in Seq(Word \cup Mark), NEW S, Course(ts, S), Len(ts) >= 2, ts[1] = "/", ts[2] \in Word,
           NEW j \in 2 .. Len(ts), NEW g, \A i \in 2 .. j - 1 : g[i] = ReadBy(S, i)
    PROVE  ReadingsFrom(ts, g, j) = ReadBy(S, j)
  <1>1. CASE j = 2
    BY <1>1, FirstTokens DEF ReadingsFrom, ReadBy
  <1>2. CASE j # 2
    <2>1. ASSUME NEW i \in 3 .. j, NEW ps \in g[i - 1], NEW p \in Meanings(ts, i, j)
          PROVE  S[j].at = "params" /\ Append(ps, p) = S[j].out
      <3>1. i - 1 \in 2 .. j - 1 /\ i \in 3 .. Len(ts) /\ j \in i .. Len(ts) /\ i - 1 \in 2 .. Len(ts)
        OBVIOUS
      <3>2. S[i - 1].at = "params" /\ ps = S[i - 1].out
        BY <3>1 DEF ReadBy
      <3>3. Tidy(S[i - 1], <<ts[2]>>)
        BY <3>1, AllReached DEF Reached
      <3>4. Gained(S[j], S[i - 1], p)
        BY <3>1, <3>2, <3>3, PieceRuns
      <3> QED
        BY <3>2, <3>4 DEF Gained
    <2>2. ASSUME S[j].at = "params"
          PROVE  \E i \in 3 .. j : \E ps \in g[i - 1] : Meanings(ts, i, j) # {}
      <3>1. PICK i \in 3 .. j : S[i - 1].at = "params" /\ Meanings(ts, i, j) # {}
        BY <1>2, <2>2, AllReached DEF Reached
      <3>2. i - 1 \in 2 .. j - 1
        OBVIOUS
      <3> QED
        BY <3>1, <3>2 DEF ReadBy
    <2>3. \A x : x \in ReadingsFrom(ts, g, j) <=>
                 \E i \in 3 .. j : \E ps \in g[i - 1] : \E p \in Meanings(ts, i, j) : x = Append(ps, p)
      <3> DEFINE I == {k \in 3 .. j : Meanings(ts, k, j) # {}}
                 R(i) == {Append(ps, p) : ps \in g[i - 1], p \in Meanings(ts, i, j)}
      <3>1. ReadingsFrom(ts, g, j) = UNION {R(i) : i \in I}
        BY <1>2 DEF ReadingsFrom
      <3>2. \A i : \A x : x \in R(i) <=> \E ps \in g[i - 1] : \E p \in Meanings(ts, i, j) : x = Append(ps, p)
        OBVIOUS
      <3>3. \A i : i \in I <=> i \in 3 .. j /\ Meanings(ts, i, j) # {}
        BY Zenon
      <3> HIDE DEF I, R
      <3>4. \A x : x \in UNION {R(i) : i \in I} <=> \E i \in I : x \in R(i)
        BY Zenon
      <3>5. \A x : x \in ReadingsFrom(ts, g, j) <=> \E i \in I : x \in R(i)
        BY <3>1, <3>4, Zenon
      <3> SUFFICES ASSUME NEW x
                   PROVE  x \in ReadingsFrom(ts, g, j) <=>
                          \E i \in 3 .. j : \E ps \in g[i - 1] : \E p \in Meanings(ts, i, j) : x = Append(ps, p)
        OBVIOUS
      <3>6. ASSUME x \in ReadingsFrom(ts, g, j)
            PROVE  \E i \in 3 .. j : \E ps \in g[i - 1] : \E p \in Meanings(ts, i, j) : x = Append(ps, p)
        <4>1. PICK i \in I : x \in R(i)
          BY <3>5, <3>6, Zenon
        <4>2. i \in 3 .. j
          BY <3>3, Zenon
        <4> QED
          BY <3>2, <4>1, <4>2
      <3>7. ASSUME NEW i \in 3 .. j, NEW ps \in g[i - 1], NEW p \in Meanings(ts, i, j), x = Append(ps, p)
            PROVE  x \in ReadingsFrom(ts, g, j)
        <4>1. i \in I
          BY <3>3
        <4>2. x \in R(i)
          BY <3>2, <3>7
        <4> QED
          BY <3>5, <4>1, <4>2, Zenon
      <3> QED
        BY <3>6, <3>7
    <2>4. \A x : x \in ReadingsFrom(ts, g, j) <=> x \in ReadBy(S, j)
      <3>1. ASSUME NEW x, x \in ReadingsFrom(ts, g, j) PROVE x \in ReadBy(S, j)
        <4>1. PICK i \in 3 .. j : \E ps \in g[i - 1] : \E p \in Meanings(ts, i, j) : x = Append(ps, p)
          BY <2>3, <3>1, Zenon
        <4>2. S[j].at = "params" /\ x = S[j].out
          BY <2>1, <4>1, Zenon
        <4> QED
          BY <4>2 DEF ReadBy
      <3>2. ASSUME NEW x, x \in ReadBy(S, j) PROVE x \in ReadingsFrom(ts, g, j)
        <4>1. S[j].at = "params" /\ x = S[j].out
          BY <3>2 DEF ReadBy
        <4>2. PICK i \in 3 .. j : \E ps \in g[i - 1] : Meanings(ts, i, j) # {}
          BY <2>2, <4>1
        <4>3. PICK ps \in g[i - 1], p \in Meanings(ts, i, j) : TRUE
          BY <4>2, Zenon
        <4>4. x = Append(ps, p)
          BY <2>1, <4>1, <4>3
        <4> QED
          BY <2>3, <4>3, <4>4
      <3> QED
        BY <3>1, <3>2
    <2> QED
      BY <2>4
  <1> QED
    BY <1>1, <1>2

LEMMA ReadAsParsed ==
    ASSUME NEW ts \in Seq(Word \cup Mark)
    PROVE  Readings(ts) = IF Parsed(ts) THEN {Parse(ts).out} ELSE {}
  <1> DEFINE N == Len(ts)
  <1>0. N \in Nat
    OBVIOUS
  <1>1. PICK S : Course(ts, S) /\ Parse(ts) = S[N]
    BY ParseCourse
  <1>2. (IF Parsed(ts) THEN {Parse(ts).out} ELSE {}) = ReadBy(S, N)
    BY <1>1 DEF Parsed, ReadBy
  <1>3. CASE N >= 2 /\ ts[1] = "/" /\ ts[2] \in Word
    <2> DEFINE Is(g) == g = [j \in 2 .. N |-> ReadingsFrom(ts, g, j)]
               h == [j \in 2 .. N |-> ReadBy(S, j)]
    <2>1. Is(h)
      <3>1. \A j \in 2 .. N : \A i \in 2 .. j - 1 : i \in 2 .. N
        BY <1>0
      <3>2. \A j \in 2 .. N : \A i \in 2 .. j - 1 : h[i] = ReadBy(S, i)
        BY <3>1
      <3> HIDE DEF h
      <3>3. \A j \in 2 .. N : ReadingsFrom(ts, h, j) = ReadBy(S, j)
        BY <1>1, <1>3, <3>2, PrefixReadings
      <3> QED
        BY <3>3 DEF h
    <2>2. ASSUME NEW g, Is(g) PROVE g[N] = ReadBy(S, N)
      <3> DEFINE T == {m \in Nat : \A j \in 2 .. N : j <= m => g[j] = ReadBy(S, j)}
      <3>1. 0 \in T
        OBVIOUS
      <3>2. ASSUME NEW m \in Nat, m \in T PROVE m + 1 \in T
        <4> SUFFICES ASSUME NEW j \in 2 .. N, j <= m + 1 PROVE g[j] = ReadBy(S, j)
          OBVIOUS
        <4>1. \A i \in 2 .. j - 1 : g[i] = ReadBy(S, i)
          <5>1. \A i \in 2 .. j - 1 : i \in 2 .. N /\ i <= m
            BY <1>0
          <5> QED
            BY <3>2, <5>1
        <4>2. ReadingsFrom(ts, g, j) = ReadBy(S, j)
          BY <1>1, <1>3, <4>1, PrefixReadings
        <4>3. g[j] = ReadingsFrom(ts, g, j)
          BY <2>2
        <4> QED
          BY <4>2, <4>3
      <3>3. N \in T
        <4> HIDE DEF T
        <4> QED
          BY <1>0, <3>1, <3>2, SetInduction
      <3> QED
        BY <1>0, <1>3, <3>3
    <2> DEFINE f == CHOOSE g : Is(g)
    <2>3. Is(f)
      <3> HIDE DEF Is
      <3> QED
        BY <2>1
    <2>4. Readings(ts) = f[N]
      BY <1>3 DEF Readings, ReadingsFrom
    <2> HIDE DEF Is, f
    <2>5. f[N] = ReadBy(S, N)
      BY <2>2, <2>3
    <2> QED
      BY <1>2, <2>4, <2>5
  <1>4. CASE ~(N >= 2 /\ ts[1] = "/" /\ ts[2] \in Word)
    <2>1. Readings(ts) = {}
      BY <1>4, SMT DEF Readings
    <2>2. S[N].at # "params"
      <3>1. CASE N = 0
        BY <1>1, <3>1, FirstTokens
      <3>2. CASE N = 1
        BY <1>1, <3>2, FirstTokens
      <3>3. CASE N >= 2
        <4>1. S[2].at = "error" /\ 2 \in 0 .. N
          BY <1>0, <1>1, <1>4, <3>3, FirstTokens
        <4>2. S[N].at = "error"
          BY <1>1, <4>1, ErrorStays
        <4> QED
          BY <4>2
      <3>4. \A n \in Nat : n = 0 \/ n = 1 \/ n >= 2
        OBVIOUS
      <3> QED
        BY <1>0, <3>1, <3>2, <3>3, <3>4, Zenon
    <2> QED
      BY <1>2, <2>1, <2>2 DEF ReadBy
  <1> QED
    BY <1>3, <1>4

\* The parser accepts exactly the usages that can be cut into parameters, and in the one
\* way they can be, in every usage of every command that is ever loaded.
THEOREM CommandParsesUsages == CommandSpec => []ParsesUsages
  <1>1. CommandInv => ParsesUsages
    <2> SUFFICES ASSUME CommandInv,
                        NEW p \in DOMAIN loaded, NEW i \in DOMAIN loaded[p], NEW u \in ToSet(loaded[p][i].usages)
                 PROVE  Readings(u) = IF Parsed(u) THEN {Parse(u).out} ELSE {}
      BY DEF ParsesUsages
    <2>1. loaded[p] \in Seq(Cmd)
      BY DEF CommandInv, LoadedInv
    <2>2. loaded[p][i] \in Cmd
      BY <2>1
    <2>3. loaded[p][i].usages \in Seq(Seq(Word \cup Mark))
      BY <2>2 DEF Cmd
    <2>4. u \in Seq(Word \cup Mark)
      BY <2>3 DEF ToSet
    <2> QED
      BY <2>4, ReadAsParsed
  <1> QED
    BY <1>1, CommandInvHolds, PTL
=============================================================================
