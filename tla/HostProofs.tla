----------------------------- MODULE HostProofs -----------------------------
(***************************************************************************)
(* Proofs about PluginHost, for any plugins, handlers, services and        *)
(* priorities.  A vector of providers stays in descending order, whatever  *)
(* is inserted and erased, so that get answers with the highest.  A baked  *)
(* list that counts as valid is the one that baking would give, and no     *)
(* list holds a destroyed handler.                                         *)
(***************************************************************************)
EXTENDS PluginHost, VectorsProofs, SequenceTheorems

\* x comes before y: of higher priority, or of the same and registered later.
Outranks(x, y) ==
    \/ x.priority > y.priority
    \/ x.priority = y.priority /\ x.stamp > y.stamp

Sorted(s) == \A i, j \in 1 .. Len(s) : i < j => Outranks(s[i], s[j])

\* Registrations are dated by the count of them.
Dated == \A n \in ServiceName : \A i \in 1 .. Len(providers[n]) : providers[n][i].stamp <= stamps

ServiceInv ==
    /\ ServiceTypeOK
    /\ Dated
    /\ \A n \in ServiceName : Sorted(providers[n])

-----------------------------------------------------------------------------
LEMMA ProviderTypes ==
    ASSUME NEW x \in RegisteredServiceProvider
    PROVE  x.priority \in Int /\ x.stamp \in Int
  <1>1. x.priority \in ServiceRank /\ x.stamp \in 1 .. MaxProviders
    BY DEF RegisteredServiceProvider
  <1>2. ServiceRank \subseteq Int /\ 1 .. MaxProviders \subseteq Int
    BY ServiceAssumption
  <1> QED
    BY <1>1, <1>2

\* lower_bound on a sorted vector keeps it sorted: what outranks the newcomer is a
\* prefix, and the newcomer outranks the rest.
LEMMA InsertSorts ==
    ASSUME NEW s \in Seq(RegisteredServiceProvider), Sorted(s),
           NEW x \in RegisteredServiceProvider,
           \A i \in 1 .. Len(s) : s[i].stamp < x.stamp
    PROVE  /\ InsertDescending(s, x) \in Seq(RegisteredServiceProvider)
           /\ Sorted(InsertDescending(s, x))
           /\ \A j \in 1 .. Len(InsertDescending(s, x)) :
                 InsertDescending(s, x)[j] = x
                   \/ \E i \in 1 .. Len(s) : InsertDescending(s, x)[j] = s[i]
  <1> DEFINE R == RegisteredServiceProvider
             above == {i \in DOMAIN s : s[i].priority > x.priority}
             T == InsertDescending(s, x)
             N == Len(s) + 1
  <1>1. Len(s) \in Nat /\ N \in Nat /\ DOMAIN s = 1 .. Len(s) /\ \A i \in 1 .. Len(s) : s[i] \in R
    OBVIOUS
  <1>2. T = [i \in 1 .. N |->
               IF i \in above THEN s[i] ELSE IF i - 1 \in above \cup {0} THEN x ELSE s[i - 1]]
    BY DEF InsertDescending
  <1>3. above \subseteq 1 .. Len(s)
    BY <1>1
  <1>4. \A i \in above : s[i].priority > x.priority
    OBVIOUS
  <1>5. \A i \in 1 .. Len(s) : i \notin above => ~(s[i].priority > x.priority)
    BY <1>1
  <1>6. ASSUME NEW i \in 1 .. Len(s), NEW j \in above, i < j PROVE i \in above
    <2>1. Outranks(s[i], s[j])
      BY <1>3, <1>6 DEF Sorted
    <2>2. s[i].priority \in Int /\ s[j].priority \in Int /\ x.priority \in Int
      BY <1>1, <1>3, ProviderTypes
    <2>3. s[j].priority > x.priority
      BY <1>4
    <2>4. s[i].priority > x.priority
      BY <2>1, <2>2, <2>3 DEF Outranks
    <2> QED
      BY <1>5, <2>4
  <1> HIDE DEF above
  <1>7. ASSUME NEW a \in 1 .. N
        PROVE  \/ a \in above /\ T[a] = s[a]
               \/ a \notin above /\ a - 1 \in above \cup {0} /\ T[a] = x
               \/ /\ a \notin above /\ a - 1 \in 1 .. Len(s) /\ a - 1 \notin above
                  /\ T[a] = s[a - 1]
    <2>1. a - 1 \in 0 .. Len(s) /\ a \in Int
      BY <1>1
    <2>2. a - 1 # 0 => a - 1 \in 1 .. Len(s)
      BY <2>1, <1>1
    <2> QED
      BY <1>2, <2>1, <2>2
  <1>8. T \in Seq(R) /\ Len(T) = N
    <2>1. \A a \in 1 .. N : T[a] \in R
      BY <1>1, <1>3, <1>7
    <2>2. T \in [1 .. N -> R]
      BY <1>2, <2>1
    <2> QED
      BY <1>1, <2>2
  <1>9. \A j \in 1 .. N : T[j] = x \/ \E i \in 1 .. Len(s) : T[j] = s[i]
    BY <1>3, <1>7
  <1>10. ASSUME NEW a \in 1 .. N, NEW b \in 1 .. N, a < b PROVE Outranks(T[a], T[b])
    <2>0. a \in Int /\ b \in Int /\ a >= 1 /\ b - 1 >= 1 /\ a <= Len(s) /\ a <= b - 1
      BY <1>1, <1>10
    <2>1. CASE b \in above /\ T[b] = s[b]
      <3>1. a \in 1 .. Len(s) /\ b \in 1 .. Len(s)
        BY <2>0, <2>1, <1>3, <1>1
      <3>2. a \in above
        BY <3>1, <2>1, <1>10, <1>6
      <3>3. T[a] = s[a]
        BY <3>2, <1>7
      <3> QED
        BY <3>1, <3>3, <2>1, <1>10 DEF Sorted
    <2>2. CASE b \notin above /\ b - 1 \in above \cup {0} /\ T[b] = x
      <3>1. b - 1 \in above /\ a \in 1 .. Len(s)
        BY <2>0, <2>2, <1>1
      <3>2. a \in above
        <4>1. CASE a = b - 1
          BY <4>1, <3>1
        <4>2. CASE a < b - 1
          BY <4>2, <3>1, <1>6
        <4> QED
          BY <2>0, <4>1, <4>2
      <3>3. T[a] = s[a]
        BY <3>2, <1>7
      <3> QED
        BY <3>2, <3>3, <2>2, <1>4 DEF Outranks
    <2>3. CASE b \notin above /\ b - 1 \in 1 .. Len(s) /\ b - 1 \notin above /\ T[b] = s[b - 1]
      <3>1. CASE a \in above /\ T[a] = s[a]
        <4>1. a # b - 1 /\ a \in 1 .. Len(s)
          BY <2>3, <3>1, <1>3
        <4>2. a < b - 1
          BY <4>1, <2>0
        <4> QED
          BY <4>1, <4>2, <2>3, <3>1 DEF Sorted
      <3>2. CASE T[a] = x
        <4>1. s[b - 1].priority \in Int /\ x.priority \in Int /\ s[b - 1].stamp \in Int /\ x.stamp \in Int
          BY <1>1, <2>3, ProviderTypes
        <4>2. ~(s[b - 1].priority > x.priority) /\ s[b - 1].stamp < x.stamp
          BY <1>5, <2>3
        <4> QED
          BY <4>1, <4>2, <2>3, <3>2 DEF Outranks
      <3>3. CASE a - 1 \in 1 .. Len(s) /\ T[a] = s[a - 1]
        <4>1. a - 1 < b - 1
          BY <2>0, <1>10
        <4> QED
          BY <4>1, <2>3, <3>3 DEF Sorted
      <3> QED
        BY <1>7, <3>1, <3>2, <3>3
    <2> QED
      BY <1>7, <2>1, <2>2, <2>3
  <1> HIDE DEF T
  <1> QED
    BY <1>8, <1>9, <1>10 DEF Sorted, T

\* Erasing keeps what was there, in its order.
LEMMA EraseSorts ==
    ASSUME NEW s \in Seq(RegisteredServiceProvider), Sorted(s), NEW S
    PROVE  /\ OnlyIn(s, S) \in Seq(RegisteredServiceProvider)
           /\ Sorted(OnlyIn(s, S))
           /\ \A j \in 1 .. Len(OnlyIn(s, S)) : \E i \in 1 .. Len(s) : OnlyIn(s, S)[j] = s[i]
  <1>1. /\ OnlyIn(s, S) \in Seq(RegisteredServiceProvider)
        /\ \A j \in 1 .. Len(OnlyIn(s, S)) : \E i \in 1 .. Len(s) : OnlyIn(s, S)[j] = s[i]
    BY OnlyInElements
  <1>2. ASSUME NEW j \in 1 .. Len(OnlyIn(s, S)), NEW k \in 1 .. Len(OnlyIn(s, S)), j < k
        PROVE  Outranks(OnlyIn(s, S)[j], OnlyIn(s, S)[k])
    <2>1. PICK a, b \in 1 .. Len(s) :
             a < b /\ OnlyIn(s, S)[j] = s[a] /\ OnlyIn(s, S)[k] = s[b]
      BY <1>2, OnlyInOrder
    <2> QED
      BY <2>1 DEF Sorted
  <1> QED
    BY <1>1, <1>2 DEF Sorted

-----------------------------------------------------------------------------
LEMMA ServiceInitInv == ASSUME ServiceInit PROVE ServiceInv
  <1>1. stamps \in 0 .. MaxProviders
    BY ServiceAssumption DEF ServiceInit
  <1>2. ASSUME NEW n \in ServiceName
        PROVE  providers[n] = <<>> /\ providers[n] \in Seq(RegisteredServiceProvider) /\ Len(providers[n]) = 0
    BY DEF ServiceInit
  <1>3. providers \in [ServiceName -> Seq(RegisteredServiceProvider)]
    BY <1>2 DEF ServiceInit
  <1> QED
    BY <1>1, <1>2, <1>3 DEF ServiceInv, ServiceTypeOK, Dated, Sorted

LEMMA RegisterInv ==
    ASSUME ServiceInv, NEW n \in ServiceName, NEW s \in Service, NEW p \in Owner,
           NEW r \in ServiceRank, registerService(n, s, p, r)
    PROVE  ServiceInv'
  <1> DEFINE R == RegisteredServiceProvider
             x == [provider |-> s, plugin |-> p, priority |-> r, stamp |-> stamps + 1]
             v == InsertDescending(providers[n], x)
  <1>1. stamps \in Int /\ stamps' = stamps + 1 /\ stamps' \in 0 .. MaxProviders
        /\ stamps + 1 \in 1 .. MaxProviders
    BY ServiceAssumption DEF ServiceInv, ServiceTypeOK, registerService
  <1>2. x \in R /\ x.stamp = stamps + 1
    BY <1>1 DEF RegisteredServiceProvider
  <1>3. \A m \in ServiceName : providers[m] \in Seq(R)
    BY DEF ServiceInv, ServiceTypeOK
  <1>4. ASSUME NEW m \in ServiceName, NEW i \in 1 .. Len(providers[m])
        PROVE  providers[m][i].stamp \in Int /\ providers[m][i].stamp < stamps + 1
    <2>1. providers[m][i] \in R
      BY <1>3
    <2>2. providers[m][i].stamp \in Int /\ providers[m][i].stamp <= stamps
      BY <2>1, ProviderTypes DEF ServiceInv, Dated
    <2> QED
      BY <2>2, <1>1
  <1>5. providers' = [providers EXCEPT ![n] = v]
    BY DEF registerService
  <1> HIDE DEF x
  <1>6. /\ v \in Seq(R) /\ Sorted(v)
        /\ \A j \in 1 .. Len(v) : v[j] = x \/ \E i \in 1 .. Len(providers[n]) : v[j] = providers[n][i]
    BY <1>2, <1>3, <1>4, InsertSorts DEF ServiceInv
  <1> HIDE DEF v
  <1>7. \A m \in ServiceName : providers'[m] = IF m = n THEN v ELSE providers[m]
    BY <1>5 DEF ServiceInv, ServiceTypeOK
  <1>8. providers' \in [ServiceName -> Seq(R)]
    BY <1>3, <1>5, <1>6 DEF ServiceInv, ServiceTypeOK
  <1>9. ASSUME NEW m \in ServiceName PROVE Sorted(providers'[m])
    BY <1>6, <1>7 DEF ServiceInv
  <1>10. ASSUME NEW m \in ServiceName, NEW j \in 1 .. Len(providers'[m])
         PROVE  providers'[m][j].stamp <= stamps'
    <2>1. CASE m = n
      <3>1. v[j] = x \/ \E i \in 1 .. Len(providers[n]) : v[j] = providers[n][i]
        BY <1>6, <1>7, <2>1
      <3>2. v[j].stamp <= stamps + 1
        <4>1. CASE v[j] = x
          BY <4>1, <1>1, <1>2
        <4>2. ASSUME NEW i \in 1 .. Len(providers[n]), v[j] = providers[n][i]
              PROVE  v[j].stamp <= stamps + 1
          <5>1. v[j].stamp \in Int /\ v[j].stamp < stamps + 1
            BY <4>2, <1>4
          <5> QED
            BY <5>1, <1>1
        <4> QED
          BY <3>1, <4>1, <4>2
      <3> QED
        BY <3>2, <1>1, <1>7, <2>1
    <2>2. CASE m # n
      <3>1. providers'[m] = providers[m]
        BY <1>7, <2>2
      <3>2. providers[m][j].stamp \in Int /\ providers[m][j].stamp < stamps + 1
        BY <3>1, <1>4
      <3> QED
        BY <3>1, <3>2, <1>1
    <2> QED
      BY <2>1, <2>2
  <1> QED
    BY <1>1, <1>8, <1>9, <1>10 DEF ServiceInv, ServiceTypeOK, Dated

\* Any number of vectors erased from.
LEMMA EraseInv ==
    ASSUME ServiceInv, NEW S, UNCHANGED stamps, DOMAIN providers' = ServiceName,
           providers' = [n \in ServiceName |-> providers'[n]],
           \A n \in ServiceName : providers'[n] \in {providers[n], OnlyIn(providers[n], S)}
    PROVE  ServiceInv'
  <1> DEFINE R == RegisteredServiceProvider
  <1>1. ASSUME NEW n \in ServiceName
        PROVE  /\ providers'[n] \in Seq(R) /\ Sorted(providers'[n])
               /\ \A j \in 1 .. Len(providers'[n]) :
                     \E i \in 1 .. Len(providers[n]) : providers'[n][j] = providers[n][i]
    <2>1. providers[n] \in Seq(R) /\ Sorted(providers[n])
      BY DEF ServiceInv, ServiceTypeOK
    <2>2. CASE providers'[n] = providers[n]
      BY <2>1, <2>2
    <2>3. CASE providers'[n] = OnlyIn(providers[n], S)
      BY <2>1, <2>3, EraseSorts
    <2> QED
      BY <2>2, <2>3
  <1>2. providers' \in [ServiceName -> Seq(R)]
    BY <1>1
  <1>3. ASSUME NEW n \in ServiceName, NEW j \in 1 .. Len(providers'[n])
        PROVE  providers'[n][j].stamp <= stamps'
    <2>1. PICK i \in 1 .. Len(providers[n]) : providers'[n][j] = providers[n][i]
      BY <1>1
    <2> QED
      BY <2>1 DEF ServiceInv, Dated
  <1> QED
    BY <1>1, <1>2, <1>3 DEF ServiceInv, ServiceTypeOK, Dated

LEMMA ServiceNextInv == ASSUME ServiceInv, ServiceNext PROVE ServiceInv'
  <1>0. providers \in [ServiceName -> Seq(RegisteredServiceProvider)]
    BY DEF ServiceInv, ServiceTypeOK
  <1>1. ASSUME NEW n \in ServiceName, NEW s \in Service, NEW p \in Owner, NEW r \in ServiceRank,
               registerService(n, s, p, r)
        PROVE  ServiceInv'
    BY <1>1, RegisterInv
  <1>2. ASSUME NEW p \in Owner, unregisterAll(p) PROVE ServiceInv'
    <2> DEFINE S == {x \in RegisteredServiceProvider : x.plugin # p}
    <2>1. providers' = [n \in ServiceName |-> OnlyIn(providers[n], S)] /\ UNCHANGED stamps
      BY <1>2 DEF unregisterAll
    <2> HIDE DEF S
    <2> QED
      BY <2>1, EraseInv
  <1>3. ASSUME NEW n \in ServiceName, NEW s \in Service, unregister(n, s) PROVE ServiceInv'
    <2> DEFINE S == {x \in RegisteredServiceProvider : x.provider # s}
    <2>1. providers' = [providers EXCEPT ![n] = OnlyIn(providers[n], S)] /\ UNCHANGED stamps
      BY <1>3 DEF unregister
    <2> HIDE DEF S
    <2>2. \A m \in ServiceName : providers'[m] \in {providers[m], OnlyIn(providers[m], S)}
      BY <1>0, <2>1
    <2>3. DOMAIN providers' = ServiceName /\ providers' = [m \in ServiceName |-> providers'[m]]
      BY <1>0, <2>1
    <2> QED
      BY <2>1, <2>2, <2>3, EraseInv
  <1>4. ASSUME NEW s \in Service, unregisterProvider(s) PROVE ServiceInv'
    <2> DEFINE S == {x \in RegisteredServiceProvider : x.provider # s}
    <2>1. providers' = [n \in ServiceName |-> OnlyIn(providers[n], S)] /\ UNCHANGED stamps
      BY <1>4 DEF unregisterProvider
    <2> HIDE DEF S
    <2> QED
      BY <2>1, EraseInv
  <1> QED
    BY <1>1, <1>2, <1>3, <1>4 DEF ServiceNext

LEMMA ServiceStutter == ASSUME ServiceInv, UNCHANGED serviceVars PROVE ServiceInv'
  BY DEF ServiceInv, ServiceTypeOK, Dated, Sorted, Outranks, serviceVars

LEMMA SortedIsHighest == ASSUME ServiceInv PROVE GetIsHighest
  <1> SUFFICES ASSUME NEW n \in ServiceName, providers[n] # <<>>, NEW i \in DOMAIN providers[n]
               PROVE  \/ providers[n][i].priority < providers[n][1].priority
                      \/ /\ providers[n][i].priority = providers[n][1].priority
                         /\ providers[n][i].stamp <= providers[n][1].stamp
    BY DEF GetIsHighest, get
  <1>1. providers[n] \in Seq(RegisteredServiceProvider) /\ Sorted(providers[n])
    BY DEF ServiceInv, ServiceTypeOK
  <1>2. i \in 1 .. Len(providers[n]) /\ 1 \in 1 .. Len(providers[n])
    BY <1>1
  <1>3. /\ providers[n][i].priority \in Int /\ providers[n][i].stamp \in Int
        /\ providers[n][1].priority \in Int /\ providers[n][1].stamp \in Int
    BY <1>1, <1>2, ProviderTypes
  <1>4. CASE i = 1
    BY <1>3, <1>4
  <1>5. CASE 1 < i
    <2>1. Outranks(providers[n][1], providers[n][i])
      BY <1>1, <1>2, <1>5 DEF Sorted
    <2> QED
      BY <1>3, <2>1 DEF Outranks
  <1> QED
    BY <1>2, <1>4, <1>5

\* For any plugins, services and priorities, and whatever events are dispatched, plugins
\* disabled and services registered and unregistered in between, get answers with the
\* highest provider, and among equals with the latest (EndstoneServiceManager::get).
THEOREM ServiceGetIsHighest == HostSpec => []GetIsHighest
  <1>1. HostInit => ServiceInv
    BY ServiceInitInv DEF HostInit
  <1>2. ServiceInv /\ [HostNext]_hostVars => ServiceInv'
    <2> SUFFICES ASSUME ServiceInv, [HostNext]_hostVars PROVE ServiceInv'
      OBVIOUS
    <2>1. ServiceNext \/ UNCHANGED serviceVars
      BY DEF HostNext, hostVars
    <2> QED
      BY <2>1, ServiceNextInv, ServiceStutter
  <1>3. ServiceInv => GetIsHighest
    BY SortedIsHighest
  <1> QED
    BY <1>1, <1>2, <1>3, PTL DEF HostSpec

-----------------------------------------------------------------------------
(* The handler lists *)

ListTypes ==
    /\ handlers \in [Event -> [Priority -> Seq(Handler)]]
    /\ DOMAIN baked = Event /\ DOMAIN valid = Event
    /\ used \subseteq Handler /\ freed \subseteq used

\* A list holds handlers of its own event that have been constructed.  A list that was
\* never given one is empty, and disablePlugin may leave it valid.
Belong == \A e \in Event : \A r \in Priority : \A h \in ToSet(handlers[e][r]) :
              h \in used /\ Info[h].event = e

Alive == \A e \in Event : \A r \in Priority : \A h \in ToSet(handlers[e][r]) : h \notin freed

Fresh == \A e \in Event : valid[e] => baked[e] = Bake(handlers[e])

ListInv == ListTypes /\ Belong /\ Alive /\ Fresh

LEMMA ListIsFresh == ASSUME ListInv PROVE BakedIsFresh
  BY DEF ListInv, Fresh, Alive, BakedIsFresh, Contents

LEMMA EmptyElements ==
    ASSUME NEW A, NEW s \in Seq(A)
    PROVE  ToSet(s) = {} => s = <<>>
  <1>1. DOMAIN s = 1 .. Len(s) /\ Len(s) \in Nat
    OBVIOUS
  <1>2. ASSUME s # <<>> PROVE s[1] \in ToSet(s)
    <2>1. 1 \in DOMAIN s
      BY <1>1, <1>2
    <2> QED
      BY <2>1 DEF ToSet
  <1> QED
    BY <1>2

LEMMA ListInitInv == ASSUME Init PROVE ListInv
  <1>1. \A e \in Event : \A r \in Priority : handlers[e][r] = <<>>
    BY DEF Init
  <1>2. <<>> \in Seq(Handler) /\ ToSet(<<>>) = {}
    BY DEF ToSet
  <1>3. handlers \in [Event -> [Priority -> Seq(Handler)]]
    BY <1>2 DEF Init
  <1>4. DOMAIN baked = Event /\ DOMAIN valid = Event /\ used = {} /\ freed = {}
    BY DEF Init
  <1>5. \A e \in Event : ~valid[e]
    BY DEF Init
  <1> QED
    BY <1>1, <1>2, <1>3, <1>4, <1>5 DEF ListInv, ListTypes, Belong, Alive, Fresh

\* A new handler goes to the end of its vector, and its list has to be baked again.
LEMMA RegisterEventInv ==
    ASSUME ListInv, NEW h \in Handler, registerEvent(h)
    PROVE  ListInv'
  <1> DEFINE e0 == Info[h].event
             r0 == Info[h].priority
             v == Append(handlers[e0][r0], h)
  <1>1. e0 \in Event /\ r0 \in Priority
    BY EventsAssumption
  <1>2. /\ used' = used \cup {h} /\ h \notin used
        /\ handlers' = [handlers EXCEPT ![e0][r0] = v]
        /\ valid' = [valid EXCEPT ![e0] = FALSE]
        /\ UNCHANGED <<baked, freed>>
    BY DEF registerEvent, Invalidate
  <1>3. handlers \in [Event -> [Priority -> Seq(Handler)]] /\ DOMAIN valid = Event /\ DOMAIN baked = Event
        /\ used \subseteq Handler /\ freed \subseteq used
    BY DEF ListInv, ListTypes
  <1>4. v \in Seq(Handler) /\ ToSet(v) = ToSet(handlers[e0][r0]) \cup {h}
    BY <1>1, <1>3, AppendElements
  <1> HIDE DEF v
  <1>5. ASSUME NEW e \in Event, NEW r \in Priority
        PROVE  handlers'[e][r] = IF e = e0 /\ r = r0 THEN v ELSE handlers[e][r]
    BY <1>1, <1>2, <1>3
  <1>6. handlers' \in [Event -> [Priority -> Seq(Handler)]]
    BY <1>1, <1>2, <1>3, <1>4
  <1>7. ASSUME NEW e \in Event, NEW r \in Priority, NEW g \in ToSet(handlers'[e][r])
        PROVE  g \in used' /\ Info[g].event = e /\ g \notin freed'
    <2>1. (g = h /\ e = e0) \/ g \in ToSet(handlers[e][r])
      BY <1>4, <1>5, <1>7
    <2>2. CASE g = h /\ e = e0
      BY <2>2, <1>2, <1>3
    <2>3. CASE g \in ToSet(handlers[e][r])
      BY <2>3, <1>2 DEF ListInv, Belong, Alive
    <2> QED
      BY <2>1, <2>2, <2>3
  <1>8. ASSUME NEW e \in Event, valid'[e] PROVE baked'[e] = Bake(handlers'[e])
    <2>1. e # e0
      BY <1>2, <1>3, <1>8
    <2>2. valid[e] /\ handlers'[e] = handlers[e]
      BY <2>1, <1>1, <1>2, <1>3, <1>8
    <2> QED
      BY <2>2, <1>2 DEF ListInv, Fresh
  <1>9. ListTypes'
    BY <1>2, <1>3, <1>6 DEF ListTypes
  <1> QED
    BY <1>7, <1>8, <1>9 DEF ListInv, Belong, Alive, Fresh

\* getHandlers bakes the list where it is not valid.
LEMMA BakeInv ==
    ASSUME ListInv, NEW e0 \in Event, Baked(e0), UNCHANGED <<handlers, used, freed>>
    PROVE  ListInv'
  <1>1. DOMAIN baked = Event /\ DOMAIN valid = Event
    BY DEF ListInv, ListTypes
  <1>2. getHandlers(e0) = Bake(handlers[e0])
    BY DEF ListInv, Fresh, getHandlers
  <1>3. /\ baked' = [baked EXCEPT ![e0] = Bake(handlers[e0])]
        /\ valid' = [valid EXCEPT ![e0] = TRUE]
    BY <1>2 DEF Baked
  <1>4. ListTypes' /\ Belong' /\ Alive'
    BY <1>1, <1>3 DEF ListInv, ListTypes, Belong, Alive
  <1>5. ASSUME NEW e \in Event, valid'[e] PROVE baked'[e] = Bake(handlers'[e])
    <2>1. CASE e = e0
      BY <2>1, <1>1, <1>3
    <2>2. CASE e # e0
      <3>1. valid[e] /\ baked'[e] = baked[e]
        BY <2>2, <1>1, <1>3, <1>5
      <3> QED
        BY <3>1 DEF ListInv, Fresh
    <2> QED
      BY <2>1, <2>2
  <1> QED
    BY <1>4, <1>5 DEF ListInv, Fresh

\* Every list drops the plugin's handlers, which are destroyed with it.
LEMMA DisableInv == ASSUME ListInv, DisableReturns PROVE ListInv'
  <1> DEFINE p == Top(Main).plugin
             S == Handler \ Of(p)
  <1>1. /\ handlers' = [e \in Event |-> Unregistered(handlers[e], p)]
        /\ freed' = freed \cup (used \cap Of(p))
        /\ valid' = [e \in Event |-> valid[e] /\ ~HasVector(e)]
        /\ UNCHANGED <<baked, used>>
    BY DEF DisableReturns, DropBaked
  <1>2. handlers \in [Event -> [Priority -> Seq(Handler)]] /\ DOMAIN valid = Event /\ DOMAIN baked = Event
        /\ used \subseteq Handler /\ freed \subseteq used
    BY DEF ListInv, ListTypes
  <1> HIDE DEF p
  <1>3. ASSUME NEW e \in Event, NEW r \in Priority
        PROVE  /\ handlers'[e][r] = OnlyIn(handlers[e][r], S)
               /\ handlers'[e][r] \in Seq(Handler)
               /\ ToSet(handlers'[e][r]) = ToSet(handlers[e][r]) \cap S
    <2>1. handlers'[e][r] = OnlyIn(handlers[e][r], S)
      BY <1>1 DEF Unregistered
    <2>2. handlers[e][r] \in Seq(Handler)
      BY <1>2
    <2> QED
      BY <2>1, <2>2, OnlyInSet
  <1>4. handlers' \in [Event -> [Priority -> Seq(Handler)]]
    <2>1. handlers' = [e \in Event |-> [r \in Priority |-> OnlyIn(handlers[e][r], S)]]
      BY <1>1 DEF Unregistered
    <2>2. \A e \in Event : \A r \in Priority : OnlyIn(handlers[e][r], S) \in Seq(Handler)
      BY <1>3
    <2> QED
      BY <2>1, <2>2
  <1>5. ASSUME NEW e \in Event, NEW r \in Priority, NEW g \in ToSet(handlers'[e][r])
        PROVE  g \in used' /\ Info[g].event = e /\ g \notin freed'
    <2>1. g \in ToSet(handlers[e][r]) /\ g \notin Of(p)
      BY <1>3, <1>5
    <2> QED
      BY <2>1, <1>1 DEF ListInv, Belong, Alive
  <1>6. ASSUME NEW e \in Event, valid'[e] PROVE baked'[e] = Bake(handlers'[e])
    <2>1. valid[e] /\ ~HasVector(e)
      BY <1>1, <1>6
    <2>2. ASSUME NEW r \in Priority PROVE handlers'[e][r] = handlers[e][r]
      <3>1. ToSet(handlers[e][r]) = {}
        BY <2>1 DEF HasVector, ListInv, Belong
      <3>2. ToSet(handlers'[e][r]) = {}
        BY <3>1, <1>3
      <3>3. handlers[e][r] \in Seq(Handler) /\ handlers'[e][r] \in Seq(Handler)
        BY <1>2, <1>3
      <3>4. handlers[e][r] = <<>> /\ handlers'[e][r] = <<>>
        BY <3>1, <3>2, <3>3, EmptyElements
      <3> QED
        BY <3>4
    <2>3. handlers'[e] = handlers[e]
      <3>1. handlers'[e] \in [Priority -> Seq(Handler)] /\ handlers[e] \in [Priority -> Seq(Handler)]
        BY <1>2, <1>4
      <3> QED
        BY <3>1, <2>2
    <2> QED
      BY <2>1, <2>3, <1>1 DEF ListInv, Fresh
  <1>7. ListTypes'
    BY <1>1, <1>2, <1>4 DEF ListTypes
  <1> QED
    BY <1>5, <1>6, <1>7 DEF ListInv, Belong, Alive, Fresh

LEMMA ClearInv == ASSUME ListInv, ClearReturns PROVE ListInv'
  <1>1. /\ handlers' = [e \in Event |-> [r \in Priority |-> <<>>]]
        /\ baked' = [e \in Event |-> <<>>]
        /\ valid' = [e \in Event |-> FALSE]
        /\ freed' = used /\ used' = used
    BY DEF ClearReturns
  <1>2. <<>> \in Seq(Handler) /\ ToSet(<<>>) = {}
    BY DEF ToSet
  <1>3. ListTypes'
    BY <1>1, <1>2 DEF ListInv, ListTypes
  <1>4. \A e \in Event : \A r \in Priority : ToSet(handlers'[e][r]) = {}
    BY <1>1, <1>2
  <1>5. \A e \in Event : ~valid'[e]
    BY <1>1
  <1> QED
    BY <1>3, <1>4, <1>5 DEF ListInv, Belong, Alive, Fresh

LEMMA ListStutter == ASSUME ListInv, UNCHANGED <<handlers, baked, valid, used, freed>> PROVE ListInv'
  BY DEF ListInv, ListTypes, Belong, Alive, Fresh

LEMMA ListNextInv == ASSUME ListInv, Next PROVE ListInv'
  <1>1. ASSUME NEW h \in Handler, registerEvent(h) PROVE ListInv'
    BY <1>1, RegisterEventInv
  <1>2. ASSUME NEW t \in Thread, NEW e \in Event, callEvent(t, e) PROVE ListInv'
    <2>1. Baked(e) /\ UNCHANGED <<handlers, used, freed>>
      BY <1>2 DEF callEvent
    <2> QED
      BY <2>1, BakeInv
  <1>3. ASSUME NEW t \in Thread, Visit(t) \/ Enter(t) \/ BodyEnd(t) \/ Return(t) PROVE ListInv'
    <2>1. UNCHANGED <<handlers, baked, valid, used, freed>>
      BY <1>3 DEF Visit, Enter, BodyEnd, Return
    <2> QED
      BY <2>1, ListStutter
  <1>4. ASSUME NEW p \in Plugin, enablePlugin(p) \/ disablePlugin(p) PROVE ListInv'
    <2>1. UNCHANGED <<handlers, baked, valid, used, freed>>
      BY <1>4 DEF enablePlugin, disablePlugin, BeginDisable
    <2> QED
      BY <2>1, ListStutter
  <1>5. CASE HookReturns
    <2>1. PICK e \in {EnableEvent, DisableEvent} : Baked(e) /\ UNCHANGED <<handlers, used, freed>>
      BY <1>5 DEF HookReturns
    <2>2. e \in Event
      BY EventsAssumption
    <2> QED
      BY <2>1, <2>2, BakeInv
  <1>6. CASE HookThrows \/ EnableReturns \/ clearPlugins \/ ClearStep
    <2>1. UNCHANGED <<handlers, baked, valid, used, freed>>
      BY <1>6 DEF HookThrows, EnableReturns, clearPlugins, ClearStep, BeginDisable
    <2> QED
      BY <2>1, ListStutter
  <1>7. CASE DisableReturns
    BY <1>7, DisableInv
  <1>8. CASE ClearReturns
    BY <1>8, ClearInv
  <1> QED
    BY <1>1, <1>2, <1>3, <1>4, <1>5, <1>6, <1>7, <1>8 DEF Next

\* For any plugins, events and handlers, and whatever plugin code does from within its
\* calls, a valid baked list is what baking would give, and no list holds a handler that
\* disablePlugin or clearPlugins has destroyed (HandlerList::getHandlers).
THEOREM HostBakedIsFresh == HostSpec => []BakedIsFresh
  <1>1. HostInit => ListInv
    BY ListInitInv DEF HostInit
  <1>2. ListInv /\ [HostNext]_hostVars => ListInv'
    <2> SUFFICES ASSUME ListInv, [HostNext]_hostVars PROVE ListInv'
      OBVIOUS
    <2>1. Next \/ UNCHANGED vars
      BY DEF HostNext, hostVars
    <2>2. ASSUME UNCHANGED vars PROVE ListInv'
      <3>1. UNCHANGED <<handlers, baked, valid, used, freed>>
        BY <2>2 DEF vars
      <3> QED
        BY <3>1, ListStutter
    <2> QED
      BY <2>1, <2>2, ListNextInv
  <1>3. ListInv => BakedIsFresh
    BY ListIsFresh
  <1> QED
    BY <1>1, <1>2, <1>3, PTL DEF HostSpec

-----------------------------------------------------------------------------
(* The calls in progress *)

\* By ascending priority.
Rising(s) == \A i, j \in 1 .. Len(s) : i < j => Info[s[i]].priority <= Info[s[j]].priority

\* A handler is registered once, under its own priority.
OrderInv ==
    \A e \in Event : \A r \in Priority :
        /\ Distinct(handlers[e][r])
        /\ \A h \in ToSet(handlers[e][r]) : Info[h].priority = r

\* How many handlers of its copy a callEvent has left behind, and how many it has come
\* to: one more while that one's executor runs.
Passed(f) == Len(f.snap) - Len(f.rest)
Come(f) == IF f.pc = "body" THEN Passed(f) + 1 ELSE Passed(f)

\* How far the call has come through its copy.
Course(f) ==
    /\ Len(f.rest) <= Len(f.snap)
    /\ \A j \in 1 .. Len(f.rest) : f.rest[j] = f.snap[Passed(f) + j]
    /\ f.pc # "next" => f.rest # <<>>

\* It called the handlers it has come to, or excused them, and no others; if they kept
\* their handlers and were enabled, one of the two.
Record(f) ==
    /\ Distinct(f.snap) /\ Rising(f.snap)
    /\ Distinct(f.seen) /\ Rising(f.seen)
    /\ \A h \in ToSet(f.seen) \cup f.excused : \E i \in 1 .. Come(f) : f.snap[i] = h
    /\ \A i \in 1 .. Come(f) : Info[f.snap[i]].plugin \notin f.off =>
          /\ f.snap[i] \in f.excused => f.snap[i] \notin ToSet(f.seen)
          /\ f.snap[i] \notin f.excused => f.snap[i] \in ToSet(f.seen)

\* Its history knows of every plugin that is not enabled, and of the owner of every
\* destroyed handler ahead of it.
Watch(f, en, fr) ==
    /\ \A p \in Plugin : ~en[p] => p \in f.off
    /\ \A h \in ToSet(f.rest) \cap fr : Info[h].plugin \in f.off

CallOK(f, en, fr) == Course(f) /\ Record(f) /\ Watch(f, en, fr)

Frame == CallFrame \cup LifeFrame \cup ClearFrame

StackOK(s, en, fr) ==
    /\ s \in Seq(Frame)
    /\ \A i \in 1 .. Len(s) : s[i].op = "call" => CallOK(s[i], en, fr)

CallsInv ==
    /\ enabled \in [Plugin -> BOOLEAN]
    /\ DOMAIN stack = Thread
    /\ stack = [t \in Thread |-> stack[t]]
    /\ \A t \in Thread : StackOK(stack[t], enabled, freed)

HostInv == ListInv /\ OrderInv /\ CallsInv

-----------------------------------------------------------------------------
LEMMA FrameKinds ==
    ASSUME NEW f \in Frame
    PROVE  /\ f.op = "call" => f \in CallFrame
           /\ f.op \in {"enable", "disable"} => f \in LifeFrame
           /\ f.op = "clear" => f \in ClearFrame
  BY DEF Frame, CallFrame, LifeFrame, ClearFrame

LEMMA PushOK ==
    ASSUME NEW s, NEW en, NEW fr, StackOK(s, en, fr), NEW f \in Frame,
           f.op = "call" => CallOK(f, en, fr)
    PROVE  StackOK(Append(s, f), en, fr)
  <1>1. s \in Seq(Frame) /\ \A i \in 1 .. Len(s) : s[i].op = "call" => CallOK(s[i], en, fr)
    BY DEF StackOK
  <1>2. /\ Append(s, f) \in Seq(Frame) /\ Len(Append(s, f)) = Len(s) + 1 /\ Len(s) \in Nat
        /\ \A i \in 1 .. Len(s) : Append(s, f)[i] = s[i]
        /\ Append(s, f)[Len(s) + 1] = f
    BY <1>1
  <1>3. \A i \in 1 .. Len(s) + 1 : i \in 1 .. Len(s) \/ i = Len(s) + 1
    BY <1>2
  <1> QED
    BY <1>1, <1>2, <1>3 DEF StackOK

LEMMA SetTopOK ==
    ASSUME NEW s, NEW en, NEW fr, StackOK(s, en, fr), s # <<>>, NEW f \in Frame,
           f.op = "call" => CallOK(f, en, fr)
    PROVE  StackOK(SetTop(s, f), en, fr)
  <1>1. s \in Seq(Frame) /\ \A i \in 1 .. Len(s) : s[i].op = "call" => CallOK(s[i], en, fr)
    BY DEF StackOK
  <1>2. /\ SetTop(s, f) \in Seq(Frame) /\ Len(SetTop(s, f)) = Len(s) /\ Len(s) \in Nat
        /\ \A i \in 1 .. Len(s) : SetTop(s, f)[i] = IF i = Len(s) THEN f ELSE s[i]
    BY <1>1 DEF SetTop
  <1> QED
    BY <1>1, <1>2 DEF StackOK

LEMMA PopOK ==
    ASSUME NEW s, NEW en, NEW fr, StackOK(s, en, fr), s # <<>>
    PROVE  StackOK(Pop(s), en, fr)
  <1>1. s \in Seq(Frame) /\ \A i \in 1 .. Len(s) : s[i].op = "call" => CallOK(s[i], en, fr)
    BY DEF StackOK
  <1>2. Len(s) \in Nat /\ Len(s) >= 1
    BY <1>1
  <1>3. /\ Pop(s) \in Seq(Frame) /\ Len(Pop(s)) = Len(s) - 1
        /\ \A i \in 1 .. Len(s) - 1 : Pop(s)[i] = s[i]
    <2>1. /\ SubSeq(s, 1, Len(s) - 1) \in Seq(Frame)
          /\ Len(SubSeq(s, 1, Len(s) - 1)) = IF 1 <= Len(s) - 1 THEN Len(s) - 1 - 1 + 1 ELSE 0
          /\ \A i \in 1 .. Len(s) - 1 - 1 + 1 : SubSeq(s, 1, Len(s) - 1)[i] = s[1 + i - 1]
      <3>1. \A i \in 1 .. Len(s) - 1 : s[i] \in Frame
        BY <1>1, <1>2
      <3> QED
        BY <1>2, <3>1, SubSeqProperties
    <2>2. \A i \in 1 .. Len(s) - 1 : i \in 1 .. Len(s) - 1 - 1 + 1 /\ 1 + i - 1 = i
      BY <1>2
    <2>3. \A i \in 1 .. Len(s) - 1 : SubSeq(s, 1, Len(s) - 1)[i] = s[i]
      BY <2>1, <2>2
    <2>4. Len(SubSeq(s, 1, Len(s) - 1)) = Len(s) - 1
      <3> DEFINE u == SubSeq(s, 1, Len(s) - 1)
                 n == Len(s)
      <3>1. n \in Nat /\ n >= 1 /\ Len(u) = IF 1 <= n - 1 THEN n - 1 - 1 + 1 ELSE 0
        BY <1>2, <2>1
      <3> HIDE DEF u, n
      <3>2. Len(u) = n - 1
        BY ONLY <3>1
      <3> QED
        BY <3>2 DEF u, n
    <2> QED
      BY ONLY <2>1, <2>3, <2>4 DEF Pop
  <1>4. \A i \in 1 .. Len(s) - 1 : i \in 1 .. Len(s)
    BY <1>2
  <1> QED
    BY <1>1, <1>3, <1>4 DEF StackOK

LEMMA TopOK ==
    ASSUME NEW t \in Thread, StackOK(stack[t], enabled, freed), stack[t] # <<>>
    PROVE  Top(t) \in Frame /\ (Top(t).op = "call" => CallOK(Top(t), enabled, freed))
  <1>1. stack[t] \in Seq(Frame)
    BY DEF StackOK
  <1>2. Len(stack[t]) \in 1 .. Len(stack[t])
    BY <1>1
  <1>3. stack[t][Len(stack[t])] \in Frame
    BY <1>1, <1>2
  <1> QED
    BY <1>2, <1>3 DEF StackOK, Top

\* Plugins are enabled, and nothing else.
LEMMA MoreEnabledOK ==
    ASSUME NEW s, NEW en, NEW en2, NEW fr, StackOK(s, en, fr),
           \A p \in Plugin : ~en2[p] => ~en[p]
    PROVE  StackOK(s, en2, fr)
  BY DEF StackOK, CallOK, Watch

\* Plugins ps are disabled, or their handlers destroyed, and every call is told.
LEMMA SpoilFrame ==
    ASSUME NEW f \in CallFrame, NEW en, NEW fr, NEW en2, NEW fr2, NEW ps \in SUBSET Plugin,
           CallOK(f, en, fr),
           \A p \in Plugin : ~en2[p] => ~en[p] \/ p \in ps,
           \A h \in fr2 : h \in fr \/ Info[h].plugin \in ps
    PROVE  /\ [f EXCEPT !.off = @ \cup ps] \in CallFrame
           /\ CallOK([f EXCEPT !.off = @ \cup ps], en2, fr2)
  <1> DEFINE g == [f EXCEPT !.off = @ \cup ps]
  <1>1. g \in CallFrame
    BY DEF CallFrame
  <1>2. /\ g.pc = f.pc /\ g.rest = f.rest /\ g.snap = f.snap /\ g.seen = f.seen
        /\ g.excused = f.excused /\ g.off = f.off \cup ps
    BY DEF CallFrame
  <1> HIDE DEF g
  <1>3. Passed(g) = Passed(f) /\ Come(g) = Come(f)
    BY <1>2 DEF Passed, Come
  <1>4. Course(g)
    BY <1>2, <1>3 DEF CallOK, Course
  <1>5. Record(g)
    BY <1>2, <1>3 DEF CallOK, Record
  <1>6. Watch(g, en2, fr2)
    BY <1>2 DEF CallOK, Watch
  <1> QED
    BY <1>1, <1>4, <1>5, <1>6 DEF CallOK, g

LEMMA SpoilOK ==
    ASSUME NEW s, NEW en, NEW fr, NEW en2, NEW fr2, NEW ps \in SUBSET Plugin,
           StackOK(s, en, fr),
           \A p \in Plugin : ~en2[p] => ~en[p] \/ p \in ps,
           \A h \in fr2 : h \in fr \/ Info[h].plugin \in ps
    PROVE  StackOK(Spoil(s, ps), en2, fr2)
  <1>1. s \in Seq(Frame) /\ \A i \in 1 .. Len(s) : s[i].op = "call" => CallOK(s[i], en, fr)
    BY DEF StackOK
  <1>2. DOMAIN s = 1 .. Len(s) /\ Len(s) \in Nat /\ \A i \in 1 .. Len(s) : s[i] \in Frame
    BY <1>1
  <1> DEFINE told(i) == IF s[i].op = "call" THEN [s[i] EXCEPT !.off = @ \cup ps] ELSE s[i]
  <1>3. Spoil(s, ps) = [i \in 1 .. Len(s) |-> told(i)]
    BY <1>2 DEF Spoil
  <1>4. ASSUME NEW i \in 1 .. Len(s)
        PROVE  told(i) \in Frame /\ (told(i).op = "call" => CallOK(told(i), en2, fr2))
    <2>1. CASE s[i].op = "call"
      <3>1. s[i] \in CallFrame /\ CallOK(s[i], en, fr)
        BY <1>1, <1>2, <2>1, FrameKinds
      <3>2. /\ [s[i] EXCEPT !.off = @ \cup ps] \in CallFrame
            /\ CallOK([s[i] EXCEPT !.off = @ \cup ps], en2, fr2)
        BY <3>1, SpoilFrame
      <3>3. told(i) = [s[i] EXCEPT !.off = @ \cup ps]
        BY <2>1
      <3>4. told(i) \in Frame
        BY <3>2, <3>3 DEF Frame
      <3> QED
        BY <3>2, <3>3, <3>4
    <2>2. CASE s[i].op # "call"
      BY <1>2, <2>2
    <2> QED
      BY <2>1, <2>2
  <1> HIDE DEF told
  <1>5. Spoil(s, ps) \in Seq(Frame) /\ Len(Spoil(s, ps)) = Len(s)
    BY <1>2, <1>3, <1>4
  <1>6. \A i \in 1 .. Len(s) : Spoil(s, ps)[i] = told(i)
    BY <1>3
  <1> QED
    BY <1>4, <1>5, <1>6 DEF StackOK

-----------------------------------------------------------------------------
(* What callEvent does to its own frame *)

\* The handler whose turn it is.
LEMMA HeadFacts ==
    ASSUME NEW f \in CallFrame, Course(f), f.rest # <<>>
    PROVE  /\ Passed(f) \in Nat /\ Passed(f) + 1 \in 1 .. Len(f.snap)
           /\ Head(f.rest) = f.snap[Passed(f) + 1]
           /\ Head(f.rest) \in Handler /\ Head(f.rest) \in ToSet(f.rest)
           /\ Tail(f.rest) \in Seq(Handler) /\ Len(Tail(f.rest)) = Len(f.rest) - 1
           /\ Len(f.rest) \in Nat /\ Len(f.snap) \in Nat
           /\ \A j \in 1 .. Len(f.rest) - 1 : Tail(f.rest)[j] = f.rest[j + 1]
           /\ ToSet(Tail(f.rest)) \subseteq ToSet(f.rest)
  <1>1. f.rest \in Seq(Handler) /\ f.snap \in Seq(Handler)
    BY DEF CallFrame
  <1>2. /\ Len(f.rest) \in Nat /\ Len(f.rest) >= 1 /\ Len(f.snap) \in Nat /\ Len(f.rest) <= Len(f.snap)
        /\ DOMAIN f.rest = 1 .. Len(f.rest)
    BY <1>1 DEF Course
  <1>3. /\ Head(f.rest) = f.rest[1] /\ Head(f.rest) \in Handler
        /\ Tail(f.rest) \in Seq(Handler) /\ Len(Tail(f.rest)) = Len(f.rest) - 1
        /\ \A j \in 1 .. Len(f.rest) - 1 : Tail(f.rest)[j] = f.rest[j + 1]
    BY <1>1, <1>2
  <1>4. Passed(f) \in Nat /\ Passed(f) + 1 \in 1 .. Len(f.snap)
    <2> DEFINE a == Len(f.rest)
               b == Len(f.snap)
    <2>1. a \in Nat /\ a >= 1 /\ b \in Nat /\ a <= b
      BY <1>2
    <2> HIDE DEF a, b
    <2>2. b - a \in Nat /\ b - a + 1 \in 1 .. b
      BY ONLY <2>1
    <2> QED
      BY <2>2 DEF Passed, a, b
  <1>5. 1 \in 1 .. Len(f.rest)
    BY <1>2
  <1>6. Head(f.rest) = f.snap[Passed(f) + 1]
    BY <1>3, <1>5 DEF Course
  <1>7. Head(f.rest) \in ToSet(f.rest)
    BY <1>2, <1>3, <1>5 DEF ToSet
  <1>8. ToSet(Tail(f.rest)) \subseteq ToSet(f.rest)
    <2> SUFFICES ASSUME NEW h \in ToSet(Tail(f.rest)) PROVE h \in ToSet(f.rest)
      OBVIOUS
    <2>1. PICK j \in 1 .. Len(f.rest) - 1 : Tail(f.rest)[j] = h
      BY <1>3 DEF ToSet
    <2>2. j + 1 \in 1 .. Len(f.rest) /\ f.rest[j + 1] = h
      BY <1>2, <1>3, <2>1
    <2> QED
      BY <1>2, <2>2 DEF ToSet
  <1> QED
    BY <1>2, <1>3, <1>4, <1>6, <1>7, <1>8

\* What it has not come to is neither called nor excused.
LEMMA NotYet ==
    ASSUME NEW f \in CallFrame, Course(f), Record(f), f.rest # <<>>, f.pc # "body"
    PROVE  Head(f.rest) \notin ToSet(f.seen) /\ Head(f.rest) \notin f.excused
  <1>1. Passed(f) \in Nat /\ Passed(f) + 1 \in 1 .. Len(f.snap) /\ Head(f.rest) = f.snap[Passed(f) + 1]
        /\ Len(f.snap) \in Nat
    BY HeadFacts
  <1>2. Come(f) = Passed(f)
    BY DEF Come
  <1>3. ASSUME NEW i \in 1 .. Passed(f) PROVE f.snap[i] # Head(f.rest)
    <2>1. i \in 1 .. Len(f.snap) /\ i # Passed(f) + 1
      BY <1>1
    <2> QED
      BY <1>1, <2>1 DEF Record, Distinct
  <1> QED
    BY <1>2, <1>3 DEF Record

\* It goes on to the next handler.
LEMMA TailCourse ==
    ASSUME NEW f \in CallFrame, Course(f), f.rest # <<>>,
           NEW g \in CallFrame, g.pc = "next", g.rest = Tail(f.rest), g.snap = f.snap
    PROVE  Course(g) /\ Come(g) = Passed(f) + 1
  <1>1. /\ Passed(f) \in Nat /\ Len(Tail(f.rest)) = Len(f.rest) - 1
        /\ Len(f.rest) \in Nat /\ Len(f.snap) \in Nat
        /\ \A j \in 1 .. Len(f.rest) - 1 : Tail(f.rest)[j] = f.rest[j + 1]
    BY HeadFacts
  <1>2. Passed(g) = Passed(f) + 1
    <2> DEFINE a == Len(f.rest)
               b == Len(f.snap)
    <2>1. a \in Nat /\ b \in Nat /\ Passed(f) = b - a /\ Passed(g) = b - (a - 1)
      BY <1>1 DEF Passed
    <2> HIDE DEF a, b
    <2> QED
      BY ONLY <2>1
  <1>3. Len(g.rest) <= Len(g.snap)
    BY <1>1 DEF Course
  <1>4. ASSUME NEW j \in 1 .. Len(g.rest) PROVE g.rest[j] = g.snap[Passed(g) + j]
    <2>1. j \in 1 .. Len(f.rest) - 1 /\ j + 1 \in 1 .. Len(f.rest) /\ Passed(f) + (j + 1) = Passed(g) + j
      BY <1>1, <1>2
    <2>2. f.rest[j + 1] = f.snap[Passed(f) + (j + 1)]
      BY <2>1 DEF Course
    <2> QED
      BY <1>1, <2>1, <2>2
  <1> QED
    BY <1>2, <1>3, <1>4 DEF Course, Come

\* The handler's plugin is taken for enabled.
LEMMA CheckedOK ==
    ASSUME NEW en, NEW fr, NEW f \in CallFrame, CallOK(f, en, fr), f.pc = "next", f.rest # <<>>
    PROVE  [f EXCEPT !.pc = "checked"] \in CallFrame /\ CallOK([f EXCEPT !.pc = "checked"], en, fr)
  <1> DEFINE g == [f EXCEPT !.pc = "checked"]
  <1>1. g \in CallFrame
    BY DEF CallFrame
  <1>2. /\ g.pc = "checked" /\ g.rest = f.rest /\ g.snap = f.snap /\ g.seen = f.seen
        /\ g.excused = f.excused /\ g.off = f.off
    BY DEF CallFrame
  <1> HIDE DEF g
  <1>3. Passed(g) = Passed(f) /\ Come(g) = Come(f)
    BY <1>2 DEF Passed, Come
  <1> QED
    BY <1>1, <1>2, <1>3 DEF CallOK, Course, Record, Watch, g

\* It is passed over: its plugin is disabled, or has lost it.
LEMMA SkippedOK ==
    ASSUME NEW en, NEW fr, NEW f \in CallFrame, CallOK(f, en, fr), f.pc = "next", f.rest # <<>>,
           Info[Head(f.rest)].plugin \in f.off
    PROVE  [f EXCEPT !.rest = Tail(@)] \in CallFrame /\ CallOK([f EXCEPT !.rest = Tail(@)], en, fr)
  <1> DEFINE g == [f EXCEPT !.rest = Tail(@)]
  <1>0. Course(f) /\ Record(f) /\ Watch(f, en, fr)
    BY DEF CallOK
  <1>1. /\ Tail(f.rest) \in Seq(Handler) /\ ToSet(Tail(f.rest)) \subseteq ToSet(f.rest)
        /\ Head(f.rest) = f.snap[Passed(f) + 1] /\ Passed(f) \in Nat
    BY <1>0, HeadFacts
  <1>2. g \in CallFrame
    BY <1>1 DEF CallFrame
  <1>3. /\ g.pc = "next" /\ g.rest = Tail(f.rest) /\ g.snap = f.snap /\ g.seen = f.seen
        /\ g.excused = f.excused /\ g.off = f.off
    BY DEF CallFrame
  <1> HIDE DEF g
  <1>4. Course(g) /\ Come(g) = Passed(f) + 1 /\ Come(f) = Passed(f)
    BY <1>0, <1>2, <1>3, TailCourse DEF Come
  <1>5. \A i \in 1 .. Come(g) : i \in 1 .. Come(f) \/ i = Passed(f) + 1
    BY <1>1, <1>4
  <1>6. \A i \in 1 .. Come(f) : i \in 1 .. Come(g)
    BY <1>1, <1>4
  <1>7. Record(g)
    BY <1>0, <1>1, <1>3, <1>5, <1>6 DEF Record
  <1>8. Watch(g, en, fr)
    BY <1>0, <1>1, <1>3 DEF Watch
  <1> QED
    BY <1>2, <1>4, <1>7, <1>8 DEF CallOK, g

\* Its executor returns.
LEMMA EndedOK ==
    ASSUME NEW en, NEW fr, NEW f \in CallFrame, CallOK(f, en, fr), f.pc = "body", NEW c \in BOOLEAN
    PROVE  /\ [f EXCEPT !.pc = "next", !.rest = Tail(@), !.cancelled = c] \in CallFrame
           /\ CallOK([f EXCEPT !.pc = "next", !.rest = Tail(@), !.cancelled = c], en, fr)
  <1> DEFINE g == [f EXCEPT !.pc = "next", !.rest = Tail(@), !.cancelled = c]
  <1>0. Course(f) /\ Record(f) /\ Watch(f, en, fr) /\ f.rest # <<>>
    BY DEF CallOK, Course
  <1>1. Tail(f.rest) \in Seq(Handler) /\ ToSet(Tail(f.rest)) \subseteq ToSet(f.rest)
    BY <1>0, HeadFacts
  <1>2. g \in CallFrame
    BY <1>1 DEF CallFrame
  <1>3. /\ g.pc = "next" /\ g.rest = Tail(f.rest) /\ g.snap = f.snap /\ g.seen = f.seen
        /\ g.excused = f.excused /\ g.off = f.off
    BY DEF CallFrame
  <1> HIDE DEF g
  <1>4. Course(g) /\ Come(g) = Come(f)
    BY <1>0, <1>2, <1>3, TailCourse DEF Come
  <1>5. Record(g)
    BY <1>0, <1>3, <1>4 DEF Record
  <1>6. Watch(g, en, fr)
    BY <1>0, <1>1, <1>3 DEF Watch
  <1> QED
    BY <1>2, <1>4, <1>5, <1>6 DEF CallOK, g

\* The event is cancelled and the handler ignores those.
LEMMA ExcusedOK ==
    ASSUME NEW en, NEW fr, NEW f \in CallFrame, CallOK(f, en, fr), f.pc = "checked",
           NEW g \in CallFrame, g.pc = "next", g.rest = Tail(f.rest), g.snap = f.snap, g.seen = f.seen,
           g.excused = f.excused \cup {Head(f.rest)}, g.off = f.off
    PROVE  CallOK(g, en, fr)
  <1>0. Course(f) /\ Record(f) /\ Watch(f, en, fr) /\ f.rest # <<>>
    BY DEF CallOK, Course
  <1>1. /\ ToSet(Tail(f.rest)) \subseteq ToSet(f.rest)
        /\ Head(f.rest) = f.snap[Passed(f) + 1] /\ Passed(f) \in Nat
        /\ Head(f.rest) \notin ToSet(f.seen)
    BY <1>0, HeadFacts, NotYet
  <1>4. Course(g) /\ Come(g) = Passed(f) + 1 /\ Come(f) = Passed(f)
    BY <1>0, TailCourse DEF Come
  <1>5. \A i \in 1 .. Come(g) : i \in 1 .. Come(f) \/ i = Passed(f) + 1
    BY <1>1, <1>4
  <1>6. /\ \A i \in 1 .. Come(f) : i \in 1 .. Come(g)
        /\ Passed(f) + 1 \in 1 .. Come(g)
    BY <1>1, <1>4
  <1>7. ASSUME NEW h \in ToSet(g.seen) \cup g.excused PROVE \E i \in 1 .. Come(g) : g.snap[i] = h
    BY <1>0, <1>1, <1>6 DEF Record
  <1>8. ASSUME NEW i \in 1 .. Come(g), Info[g.snap[i]].plugin \notin g.off
        PROVE  /\ g.snap[i] \in g.excused => g.snap[i] \notin ToSet(g.seen)
               /\ g.snap[i] \notin g.excused => g.snap[i] \in ToSet(g.seen)
    <2>1. CASE i \in 1 .. Come(f)
      BY <2>1, <1>0, <1>1, <1>8 DEF Record
    <2>2. CASE i = Passed(f) + 1
      BY <2>2, <1>1
    <2> QED
      BY <1>5, <2>1, <2>2
  <1>9. Record(g)
    <2>1. Distinct(g.snap) /\ Rising(g.snap) /\ Distinct(g.seen) /\ Rising(g.seen)
      BY <1>0 DEF Record
    <2> QED
      BY <2>1, <1>7, <1>8 DEF Record
  <1>10. Watch(g, en, fr)
    BY <1>0, <1>1 DEF Watch
  <1> QED
    BY <1>4, <1>9, <1>10 DEF CallOK

\* Its executor starts.
LEMMA EnteredOK ==
    ASSUME NEW en, NEW fr, NEW f \in CallFrame, CallOK(f, en, fr), f.pc = "checked",
           NEW g \in CallFrame, g.pc = "body", g.rest = f.rest, g.snap = f.snap,
           g.seen = Append(f.seen, Head(f.rest)), g.excused = f.excused, g.off = f.off
    PROVE  CallOK(g, en, fr)
  <1> DEFINE h == Head(f.rest)
  <1>0. Course(f) /\ Record(f) /\ Watch(f, en, fr) /\ f.rest # <<>>
    BY DEF CallOK, Course
  <1>1. /\ h = f.snap[Passed(f) + 1] /\ Passed(f) \in Nat /\ Passed(f) + 1 \in 1 .. Len(f.snap)
        /\ h \in Handler /\ h \notin ToSet(f.seen) /\ h \notin f.excused /\ Len(f.snap) \in Nat
    BY <1>0, HeadFacts, NotYet
  <1>2. f.seen \in Seq(Handler)
    BY DEF CallFrame
  <1> HIDE DEF h
  <1>3. g.seen = Append(f.seen, h)
    BY DEF h
  <1>4. Passed(g) = Passed(f) /\ Come(g) = Passed(f) + 1 /\ Come(f) = Passed(f)
    BY DEF Passed, Come
  <1>5. Course(g)
    BY <1>0, <1>4 DEF Course
  <1>6. Watch(g, en, fr)
    BY <1>0 DEF Watch
  <1>7. ToSet(g.seen) = ToSet(f.seen) \cup {h}
    BY <1>1, <1>2, <1>3, AppendElements
  <1>8. Distinct(g.seen)
    BY <1>0, <1>1, <1>2, <1>3, AppendDistinct DEF Record
  <1>9. /\ \A i \in 1 .. Come(g) : i \in 1 .. Come(f) \/ i = Passed(f) + 1
        /\ \A i \in 1 .. Come(f) : i \in 1 .. Come(g)
        /\ Passed(f) + 1 \in 1 .. Come(g)
    BY <1>1, <1>4
  <1>10. Rising(g.seen)
    <2>1. /\ Len(g.seen) = Len(f.seen) + 1 /\ Len(f.seen) \in Nat
          /\ \A i \in 1 .. Len(f.seen) : g.seen[i] = f.seen[i]
          /\ g.seen[Len(f.seen) + 1] = h
      BY <1>1, <1>2, <1>3
    <2>2. ASSUME NEW i \in 1 .. Len(f.seen) PROVE Info[f.seen[i]].priority <= Info[h].priority
      <3>1. f.seen[i] \in ToSet(f.seen)
        BY <1>2 DEF ToSet
      <3>2. PICK k \in 1 .. Come(f) : f.snap[k] = f.seen[i]
        BY <3>1, <1>0 DEF Record
      <3>3. k \in 1 .. Len(f.snap) /\ k < Passed(f) + 1
        BY <1>1, <1>4
      <3> QED
        BY <3>2, <3>3, <1>0, <1>1 DEF Record, Rising
    <2>3. ASSUME NEW i \in 1 .. Len(f.seen) + 1, NEW j \in 1 .. Len(f.seen) + 1, i < j
          PROVE  Info[g.seen[i]].priority <= Info[g.seen[j]].priority
      <3>1. i \in 1 .. Len(f.seen) /\ (j \in 1 .. Len(f.seen) \/ j = Len(f.seen) + 1)
        BY <2>1, <2>3
      <3>2. CASE j \in 1 .. Len(f.seen)
        BY <3>1, <3>2, <2>1, <2>3, <1>0 DEF Record, Rising
      <3>3. CASE j = Len(f.seen) + 1
        BY <3>1, <3>3, <2>1, <2>2
      <3> QED
        BY <3>1, <3>2, <3>3
    <2> QED
      BY <2>1, <2>3 DEF Rising
  <1>11. ASSUME NEW x \in ToSet(g.seen) \cup g.excused PROVE \E i \in 1 .. Come(g) : g.snap[i] = x
    BY <1>0, <1>1, <1>7, <1>9 DEF Record
  <1>12. ASSUME NEW i \in 1 .. Come(g), Info[g.snap[i]].plugin \notin g.off
         PROVE  /\ g.snap[i] \in g.excused => g.snap[i] \notin ToSet(g.seen)
                /\ g.snap[i] \notin g.excused => g.snap[i] \in ToSet(g.seen)
    <2>1. CASE i \in 1 .. Come(f)
      BY <2>1, <1>0, <1>1, <1>7, <1>12 DEF Record
    <2>2. CASE i = Passed(f) + 1
      BY <2>2, <1>1, <1>7
    <2> QED
      BY <1>9, <2>1, <2>2
  <1>13. Record(g)
    <2>1. Distinct(g.snap) /\ Rising(g.snap)
      BY <1>0 DEF Record
    <2> QED
      BY <2>1, <1>8, <1>10, <1>11, <1>12 DEF Record
  <1> QED
    BY <1>5, <1>6, <1>13 DEF CallOK

-----------------------------------------------------------------------------
(* What a call begins with *)

\* The baked list has every handler once, by priority, and none that is destroyed.
LEMMA BakeFacts ==
    ASSUME ListInv, OrderInv, NEW e \in Event
    PROVE  /\ Bake(handlers[e]) \in Seq(Handler)
           /\ Distinct(Bake(handlers[e])) /\ Rising(Bake(handlers[e]))
           /\ ToSet(Bake(handlers[e])) \cap freed = {}
  <1> DEFINE hs == handlers[e]
             b == Joined(hs)
  <1>1. Priorities \in Nat /\ hs \in [1 .. Priorities -> Seq(Handler)]
    BY EventsAssumption DEF ListInv, ListTypes, Priority
  <1>2. /\ \A r \in 1 .. Priorities : Distinct(hs[r])
        /\ \A r \in 1 .. Priorities : \A h \in ToSet(hs[r]) : Info[h].priority = r /\ h \notin freed
    BY DEF OrderInv, ListInv, Alive, Priority
  <1> HIDE DEF hs
  <1>3. /\ b \in Seq(Handler) /\ Len(b) \in Nat
        /\ ToSet(b) = UNION {ToSet(hs[r]) : r \in 1 .. Priorities}
    <2>1. b \in Seq(Handler) /\ ToSet(b) = UNION {ToSet(hs[r]) : r \in 1 .. Priorities}
      BY ONLY <1>1, JoinedElements, Zenon
    <2> QED
      BY <2>1
  <1>4. ASSUME NEW r \in 1 .. Priorities, NEW a \in 1 .. Len(hs[r])
        PROVE  hs[r][a] \in ToSet(hs[r]) /\ Info[hs[r][a]].priority = r
    <2>1. hs[r] \in Seq(Handler)
      BY <1>1
    <2>2. hs[r][a] \in ToSet(hs[r])
      BY <2>1 DEF ToSet
    <2> QED
      BY <2>2, <1>2
  <1>5. ASSUME NEW j \in 1 .. Len(b), NEW k \in 1 .. Len(b), j < k
        PROVE  b[j] # b[k] /\ Info[b[j]].priority <= Info[b[k]].priority
    <2>1. InOrder(hs, Priorities, b[j], b[k])
      BY <1>1, <1>5, JoinedOrder
    <2>a. PICK q \in 1 .. Priorities, r \in 1 .. Priorities :
             \E a \in 1 .. Len(hs[q]), c \in 1 .. Len(hs[r]) :
                /\ q < r \/ (q = r /\ a < c)
                /\ b[j] = hs[q][a] /\ b[k] = hs[r][c]
      BY <2>1 DEF InOrder
    <2>2. PICK a \in 1 .. Len(hs[q]), c \in 1 .. Len(hs[r]) :
                /\ q < r \/ (q = r /\ a < c)
                /\ b[j] = hs[q][a] /\ b[k] = hs[r][c]
      BY <2>a
    <2>3. Info[b[j]].priority = q /\ Info[b[k]].priority = r
      BY <2>2, <1>4
    <2>4. CASE q < r
      BY <2>3, <2>4, <1>1
    <2>5. CASE q = r /\ a < c
      <3>1. a # c /\ q <= r
        BY <2>5, <1>1
      <3>2. hs[q][a] # hs[r][c]
        BY <3>1, <2>5, <1>2 DEF Distinct
      <3> QED
        BY <3>1, <3>2, <2>2, <2>3
    <2> QED
      BY <2>2, <2>4, <2>5
  <1>6. Distinct(b)
    <2> SUFFICES ASSUME NEW j \in 1 .. Len(b), NEW k \in 1 .. Len(b), j # k PROVE b[j] # b[k]
      BY DEF Distinct
    <2>1. j < k \/ k < j
      OBVIOUS
    <2> QED
      BY <2>1, <1>5
  <1>7. Rising(b)
    BY <1>5 DEF Rising
  <1>8. \A h \in ToSet(b) : h \notin freed
    BY <1>2, <1>3
  <1> QED
    BY <1>3, <1>6, <1>7, <1>8 DEF Bake, hs

LEMMA DispatchOK ==
    ASSUME HostInv, NEW e \in Event
    PROVE  Dispatch(e) \in Frame /\ CallOK(Dispatch(e), enabled, freed)
  <1> DEFINE f == Dispatch(e)
             b == Bake(handlers[e])
  <1>1. ListInv /\ OrderInv
    BY DEF HostInv
  <1>2. b \in Seq(Handler) /\ Distinct(b) /\ Rising(b) /\ ToSet(b) \cap freed = {}
    BY <1>1, BakeFacts
  <1>3. getHandlers(e) = b
    BY <1>1 DEF ListInv, Fresh, getHandlers
  <1> HIDE DEF b
  <1>4. f = [op |-> "call", pc |-> "next", event |-> e, cancelled |-> FALSE, rest |-> b, snap |-> b,
             seen |-> <<>>, excused |-> {}, off |-> {p \in Plugin : ~enabled[p]}]
    BY <1>3 DEF Dispatch
  <1> HIDE DEF f
  <1>5. f \in CallFrame
    BY <1>2, <1>4 DEF CallFrame
  <1>6. /\ f.pc = "next" /\ f.rest = b /\ f.snap = b /\ f.seen = <<>> /\ f.excused = {}
        /\ f.off = {p \in Plugin : ~enabled[p]}
    BY <1>4
  <1>7. Passed(f) = 0 /\ Come(f) = 0 /\ Len(b) \in Nat
    BY <1>2, <1>6 DEF Passed, Come
  <1>8. Course(f)
    BY <1>6, <1>7 DEF Course
  <1>9. Record(f)
    <2>1. ToSet(f.seen) = {} /\ Len(f.seen) = 0
      BY <1>6 DEF ToSet
    <2>2. Distinct(f.seen) /\ Rising(f.seen)
      BY <2>1 DEF Distinct, Rising
    <2> QED
      BY <1>2, <1>6, <1>7, <2>1, <2>2 DEF Record
  <1>10. Watch(f, enabled, freed)
    BY <1>2, <1>6 DEF Watch
  <1> QED
    BY <1>5, <1>8, <1>9, <1>10 DEF CallOK, Frame, f

-----------------------------------------------------------------------------
(* The order of the lists is kept *)

LEMMA OrderStutter == ASSUME OrderInv, UNCHANGED handlers PROVE OrderInv'
  BY DEF OrderInv, Distinct

LEMMA OrderRegister == ASSUME HostInv, NEW h \in Handler, registerEvent(h) PROVE OrderInv'
  <1> DEFINE e0 == Info[h].event
             r0 == Info[h].priority
             v == Append(handlers[e0][r0], h)
  <1>1. e0 \in Event /\ r0 \in Priority
    BY EventsAssumption
  <1>2. h \notin used /\ handlers' = [handlers EXCEPT ![e0][r0] = v]
    BY DEF registerEvent
  <1>3. handlers \in [Event -> [Priority -> Seq(Handler)]]
    BY DEF HostInv, ListInv, ListTypes
  <1>4. /\ v \in Seq(Handler) /\ ToSet(v) = ToSet(handlers[e0][r0]) \cup {h}
        /\ Distinct(v)
    <2>1. handlers[e0][r0] \in Seq(Handler) /\ Distinct(handlers[e0][r0]) /\ h \notin ToSet(handlers[e0][r0])
      BY <1>1, <1>2, <1>3 DEF HostInv, OrderInv, ListInv, Belong
    <2> QED
      BY <2>1, AppendElements, AppendDistinct
  <1> HIDE DEF v
  <1>5. ASSUME NEW e \in Event, NEW r \in Priority
        PROVE  handlers'[e][r] = IF e = e0 /\ r = r0 THEN v ELSE handlers[e][r]
    BY <1>1, <1>2, <1>3
  <1>6. ASSUME NEW e \in Event, NEW r \in Priority
        PROVE  Distinct(handlers'[e][r]) /\ \A g \in ToSet(handlers'[e][r]) : Info[g].priority = r
    <2>1. CASE e = e0 /\ r = r0
      <3>1. handlers'[e][r] = v
        BY <2>1, <1>5
      <3>2. \A g \in ToSet(handlers[e0][r0]) : Info[g].priority = r0
        BY <1>1 DEF HostInv, OrderInv
      <3> QED
        BY <3>1, <3>2, <2>1, <1>4
    <2>2. CASE ~(e = e0 /\ r = r0)
      <3>1. handlers'[e][r] = handlers[e][r]
        BY <2>2, <1>5
      <3> QED
        BY <3>1 DEF HostInv, OrderInv
    <2> QED
      BY <2>1, <2>2
  <1> QED
    BY <1>6 DEF OrderInv, Distinct

LEMMA OrderDisable == ASSUME HostInv, DisableReturns PROVE OrderInv'
  <1> DEFINE S == Handler \ Of(Top(Main).plugin)
  <1>1. ASSUME NEW e \in Event, NEW r \in Priority PROVE handlers'[e][r] = OnlyIn(handlers[e][r], S)
    BY DEF DisableReturns, Unregistered
  <1> HIDE DEF S
  <1>2. ASSUME NEW e \in Event, NEW r \in Priority
        PROVE  Distinct(handlers'[e][r]) /\ \A g \in ToSet(handlers'[e][r]) : Info[g].priority = r
    <2>1. handlers[e][r] \in Seq(Handler) /\ Distinct(handlers[e][r])
      BY DEF HostInv, OrderInv, ListInv, ListTypes
    <2>2. Distinct(OnlyIn(handlers[e][r], S)) /\ ToSet(OnlyIn(handlers[e][r], S)) = ToSet(handlers[e][r]) \cap S
      BY <2>1, OnlyInDistinct, OnlyInSet
    <2>3. \A g \in ToSet(handlers[e][r]) : Info[g].priority = r
      BY DEF HostInv, OrderInv
    <2> QED
      BY <2>2, <2>3, <1>1
  <1> QED
    BY <1>2 DEF OrderInv, Distinct

LEMMA OrderClear == ASSUME ClearReturns PROVE OrderInv'
  <1>1. ASSUME NEW e \in Event, NEW r \in Priority
        PROVE  handlers'[e][r] = <<>> /\ Len(handlers'[e][r]) = 0 /\ ToSet(handlers'[e][r]) = {}
    <2>1. handlers'[e][r] = <<>>
      BY DEF ClearReturns
    <2> QED
      BY <2>1 DEF ToSet
  <1> QED
    BY <1>1 DEF OrderInv, Distinct

-----------------------------------------------------------------------------
(* The steps of a call *)

\* Only the stack of t changes.
LEMMA OneStack ==
    ASSUME CallsInv, NEW t \in Thread, NEW s, StackOK(s, enabled, freed),
           stack' = [stack EXCEPT ![t] = s], UNCHANGED <<enabled, freed>>
    PROVE  CallsInv'
  <1>1. DOMAIN stack = Thread /\ \A u \in Thread : StackOK(stack[u], enabled, freed)
    BY DEF CallsInv
  <1>2. \A u \in Thread : stack'[u] = IF u = t THEN s ELSE stack[u]
    BY <1>1
  <1>3. DOMAIN stack' = Thread /\ stack' = [u \in Thread |-> stack'[u]]
    BY <1>1
  <1>4. \A u \in Thread : StackOK(stack'[u], enabled, freed)
    BY <1>1, <1>2
  <1>5. \A u \in Thread : StackOK(stack'[u], enabled', freed')
    BY <1>4
  <1> QED
    BY <1>3, <1>5 DEF CallsInv

LEMMA CallStutter == ASSUME CallsInv, UNCHANGED <<stack, enabled, freed>> PROVE CallsInv'
  <1>1. \A u \in Thread : StackOK(stack'[u], enabled', freed')
    BY DEF CallsInv
  <1> QED
    BY <1>1 DEF CallsInv

LEMMA CallEventOK ==
    ASSUME HostInv, NEW t \in Thread, NEW e \in Event, callEvent(t, e)
    PROVE  CallsInv'
  <1>1. Dispatch(e) \in Frame /\ CallOK(Dispatch(e), enabled, freed)
    BY DispatchOK
  <1>2. CallsInv /\ StackOK(stack[t], enabled, freed)
    BY DEF HostInv, CallsInv
  <1>3. /\ stack' = [stack EXCEPT ![t] = Append(stack[t], Dispatch(e))]
        /\ UNCHANGED <<enabled, freed>>
    BY DEF callEvent
  <1>4. StackOK(Append(stack[t], Dispatch(e)), enabled, freed)
    BY <1>1, <1>2, PushOK
  <1> HIDE DEF HostInv
  <1> QED
    BY <1>2, <1>3, <1>4, OneStack

LEMMA VisitOK == ASSUME CallsInv, NEW t \in Thread, Visit(t) PROVE CallsInv'
  <1> DEFINE f == Top(t)
             h == Head(f.rest)
  <1>1. stack[t] # <<>> /\ f.op = "call" /\ f.pc = "next" /\ f.rest # <<>> /\ UNCHANGED <<enabled, freed>>
    BY DEF Visit, Busy
  <1>2. StackOK(stack[t], enabled, freed)
    BY DEF CallsInv
  <1>3. f \in CallFrame /\ CallOK(f, enabled, freed)
    BY <1>1, <1>2, TopOK, FrameKinds
  <1>4. PICK on \in Looks(h) : stack' = [stack EXCEPT ![t] = SetTop(stack[t],
                IF on THEN [f EXCEPT !.pc = "checked"] ELSE [f EXCEPT !.rest = Tail(@)])]
    BY DEF Visit
  <1>5. h \in Handler /\ h \in ToSet(f.rest)
    BY <1>1, <1>3, HeadFacts DEF CallOK
  <1>6. ASSUME ~on PROVE Info[h].plugin \in f.off
    <2>1. Watch(f, enabled, freed) /\ Info[h].plugin \in Plugin
      BY <1>3, <1>5, EventsAssumption DEF CallOK
    <2>2. CASE h \in freed
      BY <2>1, <2>2, <1>5 DEF Watch
    <2>3. CASE h \notin freed
      <3>1. ~enabled[Info[h].plugin]
        BY <2>3, <1>6 DEF Looks
      <3> QED
        BY <2>1, <3>1 DEF Watch
    <2> QED
      BY <2>2, <2>3
  <1> DEFINE g == IF on THEN [f EXCEPT !.pc = "checked"] ELSE [f EXCEPT !.rest = Tail(@)]
  <1>7. g \in CallFrame /\ CallOK(g, enabled, freed)
    <2>1. CASE on
      BY <2>1, <1>1, <1>3, CheckedOK
    <2>2. CASE ~on
      BY <2>2, <1>1, <1>3, <1>6, SkippedOK
    <2> QED
      BY <2>1, <2>2
  <1>8. stack' = [stack EXCEPT ![t] = SetTop(stack[t], g)]
    BY <1>4
  <1> HIDE DEF f, g
  <1>9. StackOK(SetTop(stack[t], g), enabled, freed)
    BY <1>1, <1>2, <1>7, SetTopOK DEF Frame
  <1> QED
    BY <1>1, <1>8, <1>9, OneStack

LEMMA EnterOK == ASSUME CallsInv, NEW t \in Thread, Enter(t) PROVE CallsInv'
  <1> DEFINE f == Top(t)
             h == Head(f.rest)
             x == IF f.cancelled /\ Info[h].ignoreCancelled THEN f.excused \cup {h} ELSE f.excused
             a == [[f EXCEPT !.excused = x] EXCEPT !.pc = "next", !.rest = Tail(f.rest)]
             b == [[f EXCEPT !.excused = x] EXCEPT !.pc = "body", !.seen = Append(f.seen, h)]
             g == IF IgnoresCancelled(f) THEN a ELSE b
  <1>1. stack[t] # <<>> /\ f.op = "call" /\ f.pc = "checked" /\ UNCHANGED <<enabled, freed>>
    BY DEF Enter, Busy
  <1>2. StackOK(stack[t], enabled, freed)
    BY DEF CallsInv
  <1>3. f \in CallFrame /\ CallOK(f, enabled, freed) /\ Course(f)
    BY <1>1, <1>2, TopOK, FrameKinds DEF CallOK
  <1>4. f.rest # <<>>
    BY <1>1, <1>3 DEF Course
  <1>5. h \in Handler /\ Tail(f.rest) \in Seq(Handler)
    BY <1>3, <1>4, HeadFacts
  <1>6. /\ f.seen \in Seq(Handler) /\ f.excused \in SUBSET Handler
        /\ f = [f EXCEPT !.excused = f.excused]
    BY <1>3 DEF CallFrame
  <1>7. stack' = [stack EXCEPT ![t] = SetTop(stack[t], g)]
    <2>1. /\ [f EXCEPT !.excused = x].rest = f.rest /\ [f EXCEPT !.excused = x].seen = f.seen
      BY <1>3 DEF CallFrame
    <2> QED
      BY <2>1 DEF Enter
  <1>8. g \in CallFrame /\ CallOK(g, enabled, freed)
    <2>1. x \in SUBSET Handler /\ Append(f.seen, h) \in Seq(Handler)
      BY <1>5, <1>6
    <2>2. CASE IgnoresCancelled(f)
      <3>1. x = f.excused \cup {h} /\ g = a
        BY <2>2 DEF IgnoresCancelled
      <3> HIDE DEF x, f, h
      <3>2. a \in CallFrame
        BY <1>3, <1>5, <2>1 DEF CallFrame
      <3>3. /\ a.pc = "next" /\ a.rest = Tail(f.rest) /\ a.snap = f.snap /\ a.seen = f.seen
            /\ a.excused = x /\ a.off = f.off
        BY <1>3 DEF CallFrame
      <3> HIDE DEF a, g
      <3>4. CallOK(a, enabled, freed)
        BY <1>1, <1>3, <3>1, <3>2, <3>3, ExcusedOK DEF h
      <3> QED
        BY <3>1, <3>2, <3>4
    <2>3. CASE ~IgnoresCancelled(f)
      <3>1. x = f.excused /\ g = b
        BY <2>3 DEF IgnoresCancelled
      <3> HIDE DEF x, f, h
      <3>2. b \in CallFrame
        BY <1>3, <1>5, <2>1 DEF CallFrame
      <3>3. /\ b.pc = "body" /\ b.rest = f.rest /\ b.snap = f.snap /\ b.seen = Append(f.seen, h)
            /\ b.excused = x /\ b.off = f.off
        BY <1>3 DEF CallFrame
      <3> HIDE DEF b, g
      <3>4. CallOK(b, enabled, freed)
        BY <1>1, <1>3, <3>1, <3>2, <3>3, EnteredOK DEF h
      <3> QED
        BY <3>1, <3>2, <3>4
    <2> QED
      BY <2>2, <2>3
  <1> HIDE DEF f, g
  <1>9. StackOK(SetTop(stack[t], g), enabled, freed)
    BY <1>1, <1>2, <1>8, SetTopOK DEF Frame
  <1> QED
    BY <1>1, <1>7, <1>9, OneStack

LEMMA BodyEndOK == ASSUME CallsInv, NEW t \in Thread, BodyEnd(t) PROVE CallsInv'
  <1> DEFINE f == Top(t)
  <1>1. stack[t] # <<>> /\ f.op = "call" /\ f.pc = "body" /\ UNCHANGED <<enabled, freed>>
    BY DEF BodyEnd, Busy
  <1>2. StackOK(stack[t], enabled, freed)
    BY DEF CallsInv
  <1>3. f \in CallFrame /\ CallOK(f, enabled, freed)
    BY <1>1, <1>2, TopOK, FrameKinds
  <1>4. PICK c \in BOOLEAN : stack' = [stack EXCEPT ![t] = SetTop(stack[t],
             [f EXCEPT !.pc = "next", !.rest = Tail(@), !.cancelled = c])]
    BY DEF BodyEnd
  <1> DEFINE g == [f EXCEPT !.pc = "next", !.rest = Tail(@), !.cancelled = c]
  <1>5. g \in CallFrame /\ CallOK(g, enabled, freed)
    BY <1>1, <1>3, EndedOK
  <1>6. stack' = [stack EXCEPT ![t] = SetTop(stack[t], g)]
    BY <1>4
  <1> HIDE DEF f, g
  <1>7. StackOK(SetTop(stack[t], g), enabled, freed)
    BY <1>1, <1>2, <1>5, SetTopOK DEF Frame
  <1> QED
    BY <1>1, <1>6, <1>7, OneStack

LEMMA PoppedOK ==
    ASSUME CallsInv, NEW t \in Thread, stack[t] # <<>>, stack' = [stack EXCEPT ![t] = Pop(stack[t])],
           UNCHANGED <<enabled, freed>>
    PROVE  CallsInv'
  <1>1. StackOK(Pop(stack[t]), enabled, freed)
    BY PopOK DEF CallsInv
  <1> QED
    BY <1>1, OneStack

-----------------------------------------------------------------------------
(* The steps of the plugin manager *)

\* Frames of no call.
LEMMA LifeOK ==
    ASSUME NEW p \in Plugin, NEW op \in {"enable", "disable"}, NEW pc \in {"hook", "after"}
    PROVE  /\ [op |-> op, pc |-> pc, plugin |-> p] \in Frame
           /\ [op |-> op, pc |-> pc, plugin |-> p].op # "call"
  BY DEF Frame, LifeFrame

LEMMA ClearOK ==
    ASSUME NEW n \in 0 .. Len(LoadOrder)
    PROVE  /\ [op |-> "clear", pc |-> "loop", left |-> n] \in Frame
           /\ [op |-> "clear", pc |-> "loop", left |-> n].op # "call"
  BY DEF Frame, ClearFrame

\* Every call is told what plugins are disabled, or lose their handlers.
LEMMA ToldOK ==
    ASSUME CallsInv, NEW s, StackOK(s, enabled, freed), NEW ps \in SUBSET Plugin,
           stack' = [t \in Thread |-> Spoil(IF t = Main THEN s ELSE stack[t], ps)],
           enabled' \in [Plugin -> BOOLEAN],
           \A p \in Plugin : ~enabled'[p] => ~enabled[p] \/ p \in ps,
           \A h \in freed' : h \in freed \/ Info[h].plugin \in ps
    PROVE  CallsInv'
  <1>1. \A t \in Thread : StackOK(stack[t], enabled, freed)
    BY DEF CallsInv
  <1>2. ASSUME NEW t \in Thread PROVE StackOK(stack'[t], enabled', freed')
    <2> DEFINE u == IF t = Main THEN s ELSE stack[t]
    <2>1. StackOK(u, enabled, freed)
      BY <1>1
    <2>2. stack'[t] = Spoil(u, ps)
      OBVIOUS
    <2> HIDE DEF u
    <2> DEFINE en2 == enabled'
               fr2 == freed'
    <2>3. /\ \A p \in Plugin : ~en2[p] => ~enabled[p] \/ p \in ps
          /\ \A h \in fr2 : h \in freed \/ Info[h].plugin \in ps
      OBVIOUS
    <2> HIDE DEF en2, fr2
    <2>4. StackOK(Spoil(u, ps), en2, fr2)
      BY ONLY <2>1, <2>3, ps \in SUBSET Plugin, SpoilOK
    <2> QED
      BY <2>2, <2>4 DEF en2, fr2
  <1>3. DOMAIN stack' = Thread /\ stack' = [t \in Thread |-> stack'[t]]
    OBVIOUS
  <1> QED
    BY <1>2, <1>3 DEF CallsInv

LEMMA EnableOK == ASSUME CallsInv, NEW p \in Plugin, enablePlugin(p) PROVE CallsInv'
  <1> DEFINE f == [op |-> "enable", pc |-> "hook", plugin |-> p]
             s == Append(stack[Main], f)
  <1>1. Main \in Thread
    BY EventsAssumption
  <1>2. /\ enabled' = [enabled EXCEPT ![p] = TRUE] /\ freed' = freed
        /\ stack' = [stack EXCEPT ![Main] = s]
    BY DEF enablePlugin, Push
  <1>3. f \in Frame /\ f.op # "call"
    BY LifeOK
  <1>4. /\ \A t \in Thread : StackOK(stack[t], enabled, freed)
        /\ DOMAIN stack = Thread /\ enabled \in [Plugin -> BOOLEAN]
    BY DEF CallsInv
  <1> HIDE DEF f
  <1>5. StackOK(s, enabled, freed)
    BY <1>1, <1>3, <1>4, PushOK
  <1> HIDE DEF s
  <1>6. \A t \in Thread : StackOK(stack'[t], enabled, freed)
    BY <1>2, <1>4, <1>5
  <1>7. \A q \in Plugin : ~enabled'[q] => ~enabled[q]
    BY <1>2, <1>4
  <1>8. ASSUME NEW t \in Thread PROVE StackOK(stack'[t], enabled', freed')
    <2> DEFINE en2 == enabled'
    <2>1. \A q \in Plugin : ~en2[q] => ~enabled[q]
      BY <1>7
    <2> HIDE DEF en2
    <2>2. StackOK(stack'[t], en2, freed)
      BY ONLY <2>1, <1>6, t \in Thread, MoreEnabledOK
    <2> QED
      BY <2>2, <1>2 DEF en2
  <1>9. /\ DOMAIN stack' = Thread /\ stack' = [t \in Thread |-> stack'[t]]
        /\ enabled' \in [Plugin -> BOOLEAN]
    BY <1>2, <1>4, CallsInv DEF CallsInv
  <1> QED
    BY <1>8, <1>9 DEF CallsInv

LEMMA BeginDisableOK ==
    ASSUME CallsInv, NEW p \in Plugin, NEW s, StackOK(s, enabled, freed), BeginDisable(p, s)
    PROVE  CallsInv'
  <1> DEFINE f == [op |-> "disable", pc |-> "hook", plugin |-> p]
             u == Append(s, f)
  <1>1. /\ enabled' = [enabled EXCEPT ![p] = FALSE] /\ freed' = freed
        /\ stack' = [t \in Thread |-> Spoil(IF t = Main THEN u ELSE stack[t], {p})]
    BY DEF BeginDisable
  <1>2. f \in Frame /\ f.op # "call"
    BY LifeOK
  <1>3. enabled \in [Plugin -> BOOLEAN]
    BY DEF CallsInv
  <1> HIDE DEF f
  <1>4. StackOK(u, enabled, freed)
    BY <1>2, PushOK
  <1> HIDE DEF u
  <1>5. /\ enabled' \in [Plugin -> BOOLEAN] /\ {p} \in SUBSET Plugin
        /\ \A q \in Plugin : ~enabled'[q] => ~enabled[q] \/ q \in {p}
        /\ \A h \in freed' : h \in freed \/ Info[h].plugin \in {p}
    BY <1>1, <1>3
  <1> QED
    BY <1>1, <1>4, <1>5, ToldOK

LEMMA HookReturnsOK == ASSUME HostInv, HookReturns PROVE CallsInv'
  <1>1. PICK life \in {<<"enable", EnableEvent>>, <<"disable", DisableEvent>>} :
            /\ Busy(Main, life[1], "hook")
            /\ stack' = [stack EXCEPT ![Main] =
                   Append(SetTop(stack[Main], [Top(Main) EXCEPT !.pc = "after"]), Dispatch(life[2]))]
            /\ UNCHANGED <<enabled, freed>>
    BY DEF HookReturns
  <1>2. life[1] \in {"enable", "disable"} /\ life[2] \in Event /\ Main \in Thread
    BY EventsAssumption
  <1>3. CallsInv /\ StackOK(stack[Main], enabled, freed) /\ stack[Main] # <<>> /\ Top(Main).op = life[1]
    BY <1>1, <1>2 DEF HostInv, CallsInv, Busy
  <1> DEFINE f == Top(Main)
             g == [f EXCEPT !.pc = "after"]
  <1>4. g \in Frame /\ g.op # "call"
    <2>1. f \in LifeFrame
      BY <1>2, <1>3, TopOK, FrameKinds
    <2> HIDE DEF f
    <2> QED
      BY <2>1 DEF LifeFrame, Frame
  <1>5. Dispatch(life[2]) \in Frame /\ CallOK(Dispatch(life[2]), enabled, freed)
    BY <1>2, DispatchOK
  <1>6. stack' = [stack EXCEPT ![Main] = Append(SetTop(stack[Main], g), Dispatch(life[2]))]
    BY <1>1
  <1> HIDE DEF g
  <1>7. StackOK(SetTop(stack[Main], g), enabled, freed)
    BY <1>3, <1>4, SetTopOK
  <1>8. StackOK(Append(SetTop(stack[Main], g), Dispatch(life[2])), enabled, freed)
    BY <1>5, <1>7, PushOK
  <1> HIDE DEF HostInv
  <1> QED
    BY <1>1, <1>2, <1>3, <1>6, <1>8, OneStack

LEMMA HookThrowsOK == ASSUME CallsInv, HookThrows PROVE CallsInv'
  <1> DEFINE f == Top(Main)
             g == [f EXCEPT !.pc = "after"]
  <1>1. PICK op \in {"enable", "disable"} : Busy(Main, op, "hook")
    BY DEF HookThrows
  <1>2. stack' = [stack EXCEPT ![Main] = SetTop(stack[Main], g)] /\ UNCHANGED <<enabled, freed>>
    BY DEF HookThrows
  <1>3. Main \in Thread /\ StackOK(stack[Main], enabled, freed) /\ stack[Main] # <<>> /\ f.op = op
    BY <1>1, EventsAssumption DEF CallsInv, Busy
  <1>4. g \in Frame /\ g.op # "call"
    <2>1. f \in LifeFrame
      BY <1>3, TopOK, FrameKinds
    <2> HIDE DEF f
    <2> QED
      BY <2>1 DEF LifeFrame, Frame
  <1> HIDE DEF f, g
  <1>5. StackOK(SetTop(stack[Main], g), enabled, freed)
    BY <1>3, <1>4, SetTopOK
  <1> QED
    BY <1>2, <1>3, <1>5, OneStack

LEMMA DisableReturnsOK == ASSUME CallsInv, ListInv, DisableReturns PROVE CallsInv'
  <1> DEFINE p == Top(Main).plugin
             s == Pop(stack[Main])
  <1>1. stack[Main] # <<>> /\ Top(Main).op = "disable"
    BY DEF DisableReturns, Busy
  <1>2. /\ freed' = freed \cup (used \cap Of(p)) /\ enabled' = enabled
        /\ stack' = [t \in Thread |-> Spoil(IF t = Main THEN s ELSE stack[t], {p})]
    BY DEF DisableReturns
  <1>3. Main \in Thread /\ StackOK(stack[Main], enabled, freed) /\ enabled \in [Plugin -> BOOLEAN]
    BY EventsAssumption DEF CallsInv
  <1>4. p \in Plugin
    <2>1. Top(Main) \in LifeFrame
      BY <1>1, <1>3, TopOK, FrameKinds
    <2> QED
      BY <2>1 DEF LifeFrame
  <1>5. StackOK(s, enabled, freed)
    BY <1>1, <1>3, PopOK
  <1> HIDE DEF p, s
  <1>6. /\ \A h \in freed' : h \in freed \/ Info[h].plugin \in {p}
        /\ \A q \in Plugin : ~enabled'[q] => ~enabled[q] \/ q \in {p}
        /\ {p} \in SUBSET Plugin /\ enabled' \in [Plugin -> BOOLEAN]
    BY <1>2, <1>3, <1>4 DEF Of
  <1> QED
    BY <1>2, <1>5, <1>6, ToldOK

LEMMA ClearPluginsOK == ASSUME CallsInv, clearPlugins PROVE CallsInv'
  <1> DEFINE f == [op |-> "clear", pc |-> "loop", left |-> Len(LoadOrder)]
  <1>1. stack' = [stack EXCEPT ![Main] = Append(stack[Main], f)] /\ UNCHANGED <<enabled, freed>>
    BY DEF clearPlugins, Push
  <1>2. Main \in Thread /\ StackOK(stack[Main], enabled, freed) /\ Len(LoadOrder) \in 0 .. Len(LoadOrder)
    BY EventsAssumption DEF CallsInv
  <1>3. f \in Frame /\ f.op # "call"
    BY <1>2, ClearOK
  <1> HIDE DEF f
  <1>4. StackOK(Append(stack[Main], f), enabled, freed)
    BY <1>2, <1>3, PushOK
  <1> QED
    BY <1>1, <1>2, <1>4, OneStack

LEMMA ClearStepOK == ASSUME CallsInv, ClearStep PROVE CallsInv'
  <1> DEFINE f == Top(Main)
             p == LoadOrder[f.left]
             g == [f EXCEPT !.left = @ - 1]
             s == SetTop(stack[Main], g)
  <1>1. stack[Main] # <<>> /\ f.op = "clear" /\ f.left > 0
    BY DEF ClearStep, Busy
  <1>2. \/ BeginDisable(p, s)
        \/ stack' = [stack EXCEPT ![Main] = s] /\ UNCHANGED <<enabled, freed>>
    BY DEF ClearStep
  <1>3. Main \in Thread /\ StackOK(stack[Main], enabled, freed) /\ LoadOrder \in Seq(Plugin)
    BY EventsAssumption DEF CallsInv
  <1>4. f \in ClearFrame
    BY <1>1, <1>3, TopOK, FrameKinds
  <1> HIDE DEF f
  <1>5. f.left \in 1 .. Len(LoadOrder) /\ f.left - 1 \in 0 .. Len(LoadOrder)
    BY <1>1, <1>3, <1>4 DEF ClearFrame
  <1>6. p \in Plugin
    BY <1>3, <1>5
  <1>7. g \in Frame /\ g.op # "call"
    BY <1>4, <1>5 DEF ClearFrame, Frame
  <1> HIDE DEF g
  <1>8. StackOK(s, enabled, freed)
    BY <1>1, <1>3, <1>7, SetTopOK
  <1> HIDE DEF p, s
  <1> QED
    BY <1>2, <1>3, <1>6, <1>8, BeginDisableOK, OneStack

LEMMA ClearReturnsOK == ASSUME CallsInv, ListInv, ClearReturns PROVE CallsInv'
  <1> DEFINE s == Pop(stack[Main])
  <1>1. /\ stack[Main] # <<>>
        /\ enabled' = [p \in Plugin |-> FALSE] /\ freed' = used
        /\ stack' = [t \in Thread |-> Spoil(IF t = Main THEN s ELSE stack[t], Plugin)]
    BY DEF ClearReturns, Busy
  <1>2. Main \in Thread /\ StackOK(stack[Main], enabled, freed) /\ used \subseteq Handler
    BY EventsAssumption DEF CallsInv, ListInv, ListTypes
  <1>3. StackOK(s, enabled, freed)
    BY <1>1, <1>2, PopOK
  <1> HIDE DEF s
  <1>4. \A h \in Handler : Info[h].plugin \in Plugin
    BY EventsAssumption
  <1>5. /\ enabled' \in [Plugin -> BOOLEAN] /\ Plugin \in SUBSET Plugin
        /\ \A q \in Plugin : ~enabled'[q] => ~enabled[q] \/ q \in Plugin
        /\ \A h \in freed' : h \in freed \/ Info[h].plugin \in Plugin
    BY <1>1, <1>2, <1>4
  <1> QED
    BY <1>1, <1>3, <1>5, ToldOK

-----------------------------------------------------------------------------
LEMMA HostInitInv == ASSUME Init PROVE HostInv
  <1>1. ListInv
    BY ListInitInv
  <1>2. OrderInv
    <2>1. ASSUME NEW e \in Event, NEW r \in Priority
          PROVE  Len(handlers[e][r]) = 0 /\ ToSet(handlers[e][r]) = {}
      BY DEF Init, ToSet
    <2> QED
      BY <2>1 DEF OrderInv, Distinct
  <1>3. CallsInv
    <2>1. <<>> \in Seq(Frame) /\ Len(<<>>) = 0
      OBVIOUS
    <2>2. StackOK(<<>>, enabled, freed)
      BY <2>1 DEF StackOK
    <2> QED
      BY <2>2 DEF Init, CallsInv
  <1> QED
    BY <1>1, <1>2, <1>3 DEF HostInv

LEMMA OrderNextInv == ASSUME HostInv, Next PROVE OrderInv'
  <1>0. OrderInv
    BY DEF HostInv
  <1>1. ASSUME NEW h \in Handler, registerEvent(h) PROVE OrderInv'
    BY <1>1, OrderRegister
  <1>2. CASE DisableReturns
    BY <1>2, OrderDisable
  <1>3. CASE ClearReturns
    BY <1>3, OrderClear
  <1>4. ASSUME UNCHANGED handlers PROVE OrderInv'
    BY <1>0, <1>4, OrderStutter
  <1>5. \/ \E h \in Handler : registerEvent(h)
        \/ DisableReturns \/ ClearReturns \/ UNCHANGED handlers
    BY DEF Next, callEvent, Visit, Enter, BodyEnd, Return, enablePlugin, disablePlugin, BeginDisable,
           HookReturns, HookThrows, EnableReturns, clearPlugins, ClearStep
  <1> QED
    BY <1>1, <1>2, <1>3, <1>4, <1>5

LEMMA CallsNextInv == ASSUME HostInv, Next PROVE CallsInv'
  <1>0. CallsInv /\ ListInv /\ Main \in Thread
    BY EventsAssumption DEF HostInv
  <1>1. ASSUME NEW h \in Handler, registerEvent(h) PROVE CallsInv'
    <2>1. UNCHANGED <<stack, enabled, freed>>
      BY <1>1 DEF registerEvent
    <2> QED
      BY <2>1, <1>0, CallStutter
  <1>2. ASSUME NEW t \in Thread, NEW e \in Event, callEvent(t, e) PROVE CallsInv'
    BY <1>2, CallEventOK
  <1>3. ASSUME NEW t \in Thread, Visit(t) PROVE CallsInv'
    BY <1>0, <1>3, VisitOK
  <1>4. ASSUME NEW t \in Thread, Enter(t) PROVE CallsInv'
    BY <1>0, <1>4, EnterOK
  <1>5. ASSUME NEW t \in Thread, BodyEnd(t) PROVE CallsInv'
    BY <1>0, <1>5, BodyEndOK
  <1>6. ASSUME NEW t \in Thread, Return(t) PROVE CallsInv'
    <2>1. stack[t] # <<>> /\ stack' = [stack EXCEPT ![t] = Pop(stack[t])] /\ UNCHANGED <<enabled, freed>>
      BY <1>6 DEF Return, Busy
    <2> QED
      BY <2>1, <1>0, PoppedOK
  <1>7. ASSUME NEW p \in Plugin, enablePlugin(p) PROVE CallsInv'
    BY <1>0, <1>7, EnableOK
  <1>8. ASSUME NEW p \in Plugin, disablePlugin(p) PROVE CallsInv'
    <2>1. BeginDisable(p, stack[Main])
      BY <1>8 DEF disablePlugin
    <2>2. StackOK(stack[Main], enabled, freed)
      BY <1>0 DEF CallsInv
    <2> QED
      BY <2>1, <2>2, <1>0, BeginDisableOK
  <1>9. CASE HookReturns
    BY <1>9, HookReturnsOK
  <1>10. CASE HookThrows
    BY <1>0, <1>10, HookThrowsOK
  <1>11. CASE EnableReturns
    <2>1. stack[Main] # <<>> /\ stack' = [stack EXCEPT ![Main] = Pop(stack[Main])] /\ UNCHANGED <<enabled, freed>>
      BY <1>11 DEF EnableReturns, Busy
    <2> QED
      BY <2>1, <1>0, PoppedOK
  <1>12. CASE DisableReturns
    BY <1>0, <1>12, DisableReturnsOK
  <1>13. CASE clearPlugins
    BY <1>0, <1>13, ClearPluginsOK
  <1>14. CASE ClearStep
    BY <1>0, <1>14, ClearStepOK
  <1>15. CASE ClearReturns
    BY <1>0, <1>15, ClearReturnsOK
  <1> QED
    BY <1>1, <1>2, <1>3, <1>4, <1>5, <1>6, <1>7, <1>8, <1>9, <1>10, <1>11, <1>12, <1>13, <1>14, <1>15
       DEF Next

LEMMA HostStep == ASSUME HostInv, [HostNext]_hostVars PROVE HostInv'
  <1>0. ListInv /\ OrderInv /\ CallsInv
    BY DEF HostInv
  <1>1. Next \/ UNCHANGED vars
    BY DEF HostNext, hostVars
  <1>2. CASE Next
    <2>1. ListInv' /\ OrderInv' /\ CallsInv'
      BY <1>0, <1>2, ListNextInv, OrderNextInv, CallsNextInv
    <2> QED
      BY <2>1 DEF HostInv
  <1>3. CASE UNCHANGED vars
    <2>1. /\ UNCHANGED <<handlers, baked, valid, used, freed>>
          /\ UNCHANGED <<stack, enabled, freed>> /\ UNCHANGED handlers
      BY <1>3 DEF vars
    <2>2. ListInv' /\ OrderInv' /\ CallsInv'
      BY <1>0, <2>1, ListStutter, OrderStutter, CallStutter
    <2> QED
      BY <2>2 DEF HostInv
  <1> QED
    BY <1>1, <1>2, <1>3

LEMMA HostInvAlways == HostSpec => []HostInv
  <1>1. HostInit => HostInv
    BY HostInitInv DEF HostInit
  <1>2. HostInv /\ [HostNext]_hostVars => HostInv'
    BY HostStep
  <1> QED
    BY <1>1, <1>2, PTL DEF HostSpec

\* A frame of a call in progress.
LEMMA CallFacts ==
    ASSUME HostInv, NEW t \in Thread, NEW i \in Calls(t)
    PROVE  stack[t][i] \in CallFrame /\ CallOK(stack[t][i], enabled, freed)
  <1>1. StackOK(stack[t], enabled, freed)
    BY DEF HostInv, CallsInv
  <1>2. stack[t] \in Seq(Frame) /\ DOMAIN stack[t] = 1 .. Len(stack[t])
    BY <1>1 DEF StackOK
  <1>3. i \in 1 .. Len(stack[t]) /\ stack[t][i].op = "call"
    BY <1>2 DEF Calls
  <1>4. stack[t][i] \in Frame
    BY <1>2, <1>3
  <1> QED
    BY <1>1, <1>3, <1>4, FrameKinds DEF StackOK

\* For any plugins, handlers, threads and depth of nested calls, callEvent comes to a
\* destroyed handler only if its plugin was disabled, or the plugins were cleared, after
\* that very dispatch had begun (EndstonePluginManager::callEvent goes through a copy of
\* raw pointers).
THEOREM HostDanglingOnlyWhenDisabled == HostSpec => []DanglingOnlyWhenDisabled
  <1>1. HostInv => DanglingOnlyWhenDisabled
    <2> SUFFICES ASSUME HostInv, NEW t \in Thread, NEW i \in Calls(t),
                        NEW h \in ToSet(stack[t][i].rest) \cap freed
                 PROVE  Info[h].plugin \in stack[t][i].off
      BY DEF DanglingOnlyWhenDisabled
    <2>1. CallOK(stack[t][i], enabled, freed)
      BY CallFacts
    <2> QED
      BY <2>1 DEF CallOK, Watch
  <1> QED
    BY <1>1, HostInvAlways, PTL

\* An event dispatched to the end: how often one handler of the copy was called.
LEMMA CalledOnce ==
    ASSUME NEW f \in CallFrame, Course(f), Record(f), f.rest = <<>>,
           NEW h \in ToSet(f.snap), Info[h].plugin \notin f.off
    PROVE  Cardinality({j \in DOMAIN f.seen : f.seen[j] = h}) = (IF h \in f.excused THEN 0 ELSE 1)
  <1> DEFINE J == {j \in DOMAIN f.seen : f.seen[j] = h}
  <1>1. /\ f.snap \in Seq(Handler) /\ DOMAIN f.snap = 1 .. Len(f.snap) /\ Len(f.snap) \in Nat
        /\ f.seen \in Seq(Handler) /\ DOMAIN f.seen = 1 .. Len(f.seen)
    BY DEF CallFrame
  <1>2. f.pc \in {"next", "checked", "body"} /\ f.pc = "next"
    BY DEF CallFrame, Course
  <1>3. Come(f) = Len(f.snap)
    BY <1>1, <1>2 DEF Come, Passed
  <1>4. PICK i \in 1 .. Len(f.snap) : f.snap[i] = h
    BY <1>1 DEF ToSet
  <1>5. /\ h \in f.excused => h \notin ToSet(f.seen)
        /\ h \notin f.excused => h \in ToSet(f.seen)
    BY <1>3, <1>4 DEF Record
  <1>6. CASE h \in f.excused
    <2>1. J = {}
      BY <1>5, <1>6 DEF ToSet
    <2> QED
      BY <2>1, <1>6, FS_EmptySet
  <1>7. CASE h \notin f.excused
    <2>1. PICK j \in DOMAIN f.seen : f.seen[j] = h
      BY <1>5, <1>7 DEF ToSet
    <2>2. \A k \in DOMAIN f.seen : f.seen[k] = h => k = j
      BY <1>1, <2>1 DEF Record, Distinct
    <2>3. J = {j}
      BY <2>1, <2>2
    <2> QED
      BY <2>3, <1>7, FS_Singleton
  <1> QED
    BY <1>6, <1>7

\* For any plugins, handlers, threads and depth of nested calls, a dispatch reaches every
\* handler it found exactly once, but for those excused or disabled meanwhile, and by
\* ascending priority (callEvent, HandlerList::bake, EventHandler::callEvent).
THEOREM HostDispatchIsComplete == HostSpec => []DispatchIsComplete
  <1>1. HostInv => DispatchIsComplete
    <2> SUFFICES ASSUME HostInv, NEW t \in Thread, NEW i \in Calls(t)
                 PROVE  LET f == stack[t][i] IN
                        /\ f.rest = <<>> =>
                             \A h \in ToSet(f.snap) : Info[h].plugin \notin f.off =>
                                 Cardinality({j \in DOMAIN f.seen : f.seen[j] = h})
                                     = (IF h \in f.excused THEN 0 ELSE 1)
                        /\ \A j, k \in DOMAIN f.seen :
                              j < k => Info[f.seen[j]].priority <= Info[f.seen[k]].priority
      BY DEF DispatchIsComplete
    <2> DEFINE f == stack[t][i]
    <2>1. f \in CallFrame /\ CallOK(f, enabled, freed)
      BY CallFacts
    <2> HIDE DEF f
    <2>2. Course(f) /\ Record(f)
      BY <2>1 DEF CallOK
    <2>3. ASSUME f.rest = <<>>, NEW h \in ToSet(f.snap), Info[h].plugin \notin f.off
          PROVE  Cardinality({j \in DOMAIN f.seen : f.seen[j] = h}) = (IF h \in f.excused THEN 0 ELSE 1)
      BY <2>1, <2>2, <2>3, CalledOnce
    <2>4. \A j, k \in DOMAIN f.seen : j < k => Info[f.seen[j]].priority <= Info[f.seen[k]].priority
      <3>1. DOMAIN f.seen = 1 .. Len(f.seen)
        BY <2>1 DEF CallFrame
      <3> QED
        BY <3>1, <2>2 DEF Record, Rising
    <2> QED
      BY <2>3, <2>4 DEF f
  <1> QED
    BY <1>1, HostInvAlways, PTL

-----------------------------------------------------------------------------
(* Types *)

BakedTyped == baked \in [Event -> Seq(Handler)] /\ valid \in [Event -> BOOLEAN]

LEMMA BakedTypedNext == ASSUME HostInv, BakedTyped, Next PROVE BakedTyped'
  <1>1. ASSUME NEW e \in Event, Baked(e) PROVE BakedTyped'
    <2>1. getHandlers(e) \in Seq(Handler)
      <3>1. ListInv /\ OrderInv
        BY DEF HostInv
      <3>2. getHandlers(e) = Bake(handlers[e])
        BY <3>1 DEF ListInv, Fresh, getHandlers
      <3> QED
        BY <3>1, <3>2, BakeFacts
    <2> QED
      BY <1>1, <2>1 DEF Baked, BakedTyped
  <1>2. ASSUME UNCHANGED baked, valid' \in [Event -> BOOLEAN] PROVE BakedTyped'
    BY <1>2 DEF BakedTyped
  <1>3. ASSUME NEW h \in Handler, registerEvent(h) PROVE BakedTyped'
    <2>1. UNCHANGED baked /\ valid' = [valid EXCEPT ![Info[h].event] = FALSE]
      BY <1>3 DEF registerEvent, Invalidate
    <2> QED
      BY <2>1, <1>2 DEF BakedTyped
  <1>4. CASE DisableReturns
    <2>1. UNCHANGED baked /\ valid' = [e \in Event |-> valid[e] /\ ~HasVector(e)]
      BY <1>4 DEF DisableReturns, DropBaked
    <2>2. valid' \in [Event -> BOOLEAN]
      BY <2>1
    <2> QED
      BY <2>1, <2>2, <1>2
  <1>5. CASE ClearReturns
    <2>1. baked' = [e \in Event |-> <<>>] /\ valid' = [e \in Event |-> FALSE] /\ <<>> \in Seq(Handler)
      BY <1>5 DEF ClearReturns
    <2> QED
      BY <2>1 DEF BakedTyped
  <1>6. ASSUME UNCHANGED <<baked, valid>> PROVE BakedTyped'
    BY <1>6 DEF BakedTyped
  <1>7. CASE HookReturns
    <2>1. PICK e \in {EnableEvent, DisableEvent} : Baked(e)
      BY <1>7 DEF HookReturns
    <2>2. e \in Event
      BY EventsAssumption
    <2> QED
      BY <2>1, <2>2, <1>1
  <1>8. ASSUME NEW t \in Thread, NEW e \in Event, callEvent(t, e) PROVE BakedTyped'
    BY <1>8, <1>1 DEF callEvent
  <1>9. ASSUME NEW t \in Thread, Visit(t) \/ Enter(t) \/ BodyEnd(t) \/ Return(t) PROVE BakedTyped'
    BY <1>9, <1>6 DEF Visit, Enter, BodyEnd, Return
  <1>10. ASSUME NEW p \in Plugin, enablePlugin(p) \/ disablePlugin(p) PROVE BakedTyped'
    BY <1>10, <1>6 DEF enablePlugin, disablePlugin, BeginDisable
  <1>11. CASE HookThrows \/ EnableReturns \/ clearPlugins \/ ClearStep
    BY <1>11, <1>6 DEF HookThrows, EnableReturns, clearPlugins, ClearStep, BeginDisable
  <1> QED
    BY <1>3, <1>4, <1>5, <1>7, <1>8, <1>9, <1>10, <1>11 DEF Next

LEMMA TypedFromInv == ASSUME HostInv, BakedTyped PROVE TypeOK
  <1>1. ListTypes /\ CallsInv
    BY DEF HostInv, ListInv
  <1>2. \A t \in Thread : stack[t] \in Seq(Frame)
    BY <1>1 DEF CallsInv, StackOK
  <1>3. stack \in [Thread -> Seq(Frame)]
    BY <1>1, <1>2 DEF CallsInv
  <1> QED
    BY <1>1, <1>3 DEF CallsInv, ListTypes, BakedTyped, TypeOK, Frame

\* For any plugins, events, handlers, services and depth of nested calls, the state of
\* the host keeps its types: a call's frame is always one that callEvent, the loader or
\* clearPlugins can be in.
THEOREM HostTyped == HostSpec => [](TypeOK /\ ServiceTypeOK)
  <1>1. HostInit => BakedTyped
    <2>1. <<>> \in Seq(Handler)
      OBVIOUS
    <2> QED
      BY <2>1 DEF HostInit, Init, BakedTyped
  <1>2. HostInv /\ BakedTyped /\ [HostNext]_hostVars => BakedTyped'
    <2> SUFFICES ASSUME HostInv, BakedTyped, [HostNext]_hostVars PROVE BakedTyped'
      OBVIOUS
    <2>1. Next \/ UNCHANGED vars
      BY DEF HostNext, hostVars
    <2>2. UNCHANGED vars => BakedTyped'
      BY DEF vars, BakedTyped
    <2> QED
      BY <2>1, <2>2, BakedTypedNext
  <1>3. HostInit => ServiceInv
    BY ServiceInitInv DEF HostInit
  <1>4. ServiceInv /\ [HostNext]_hostVars => ServiceInv'
    <2> SUFFICES ASSUME ServiceInv, [HostNext]_hostVars PROVE ServiceInv'
      OBVIOUS
    <2>1. ServiceNext \/ UNCHANGED serviceVars
      BY DEF HostNext, hostVars
    <2> QED
      BY <2>1, ServiceNextInv, ServiceStutter
  <1>5. HostInv /\ BakedTyped /\ ServiceInv => TypeOK /\ ServiceTypeOK
    BY TypedFromInv DEF ServiceInv
  <1> QED
    BY <1>1, <1>2, <1>3, <1>4, <1>5, HostInvAlways, PTL DEF HostSpec
=============================================================================
