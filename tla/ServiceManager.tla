--------------------------- MODULE ServiceManager ---------------------------
(***************************************************************************)
(* EndstoneServiceManager: providers of services by name, kept in          *)
(* descending order of priority.  Every operation runs under mutex_, so    *)
(* each one is a single step.  Nothing in the server unregisters the       *)
(* providers of a plugin that is disabled or destroyed; only plugins do.   *)
(***************************************************************************)
EXTENDS Integers, Sequences, Vectors

CONSTANTS
    Owner,          \* plugins
    ServiceName,
    Service,        \* provider objects
    ServiceRank,    \* ServicePriority, as numbers
    MaxProviders    \* bound: registrations

ASSUME ServiceAssumption == ServiceRank \subseteq Int /\ MaxProviders \in Nat

VARIABLES
    providers,  \* providers_: name to vector of RegisteredServiceProvider
    stamps      \* history: number of registrations so far

serviceVars == <<providers, stamps>>

RegisteredServiceProvider ==
    [provider : Service, plugin : Owner, priority : ServiceRank, stamp : 1 .. MaxProviders]

ServiceTypeOK ==
    /\ providers \in [ServiceName -> Seq(RegisteredServiceProvider)]
    /\ stamps \in 0 .. MaxProviders

\* A name without providers has no entry in the map; get tells the two apart as little.
ServiceInit ==
    /\ providers = [n \in ServiceName |-> <<>>]
    /\ stamps = 0

\* Mutant: std::less, an ascending vector.
InsertAscending(s, x) ==
    LET low == {i \in DOMAIN s : s[i].priority < x.priority} IN
    [i \in 1 .. Len(s) + 1 |->
        IF i \in low THEN s[i] ELSE IF i - 1 \in low \cup {0} THEN x ELSE s[i - 1]]

\* lower_bound with std::greater: in front of the first element that is not greater,
\* so a newcomer precedes those of its own priority.
InsertDescending(s, x) ==
    LET above == {i \in DOMAIN s : s[i].priority > x.priority} IN
    [i \in 1 .. Len(s) + 1 |->
        IF i \in above THEN s[i] ELSE IF i - 1 \in above \cup {0} THEN x ELSE s[i - 1]]

registerService(n, s, p, r) ==
    /\ stamps < MaxProviders
    /\ stamps' = stamps + 1
    /\ providers' = [providers EXCEPT ![n] = InsertDescending(@,
           [provider |-> s, plugin |-> p, priority |-> r, stamp |-> stamps + 1])]

unregisterAll(p) ==
    LET others == {x \in RegisteredServiceProvider : x.plugin # p} IN
    /\ providers' = [n \in ServiceName |-> OnlyIn(providers[n], others)]
    /\ UNCHANGED stamps

\* unregister(name, provider).
unregister(n, s) ==
    LET others == {x \in RegisteredServiceProvider : x.provider # s} IN
    /\ providers' = [providers EXCEPT ![n] = OnlyIn(@, others)]
    /\ UNCHANGED stamps

\* unregister(provider).
unregisterProvider(s) ==
    LET others == {x \in RegisteredServiceProvider : x.provider # s} IN
    /\ providers' = [n \in ServiceName |-> OnlyIn(providers[n], others)]
    /\ UNCHANGED stamps

\* get: the front of the vector, or nothing.
get(n) == IF providers[n] = <<>> THEN {} ELSE {providers[n][1]}

ServiceNext ==
    \/ \E n \in ServiceName, s \in Service, p \in Owner, r \in ServiceRank :
          registerService(n, s, p, r)
    \/ \E p \in Owner : unregisterAll(p)
    \/ \E n \in ServiceName, s \in Service : unregister(n, s)
    \/ \E s \in Service : unregisterProvider(s)

-----------------------------------------------------------------------------
\* "The highest priority provider is returned": whatever was registered and
\* unregistered before, get answers with a provider that no other registered one
\* outranks, and among equals with the one registered last.
GetIsHighest ==
    \A n \in ServiceName : \A x \in get(n) : \A i \in DOMAIN providers[n] :
        LET y == providers[n][i] IN
        \/ y.priority < x.priority
        \/ y.priority = x.priority /\ y.stamp <= x.stamp
=============================================================================
