--------------------------- MODULE MCPluginLoading ---------------------------
(***************************************************************************)
(* Families of plugin descriptions for TLC.                                *)
(***************************************************************************)
EXTENDS PluginLoading, TLC

CONSTANTS p1, p2, p3, nameA, nameB, nameC, api

\* Three plugins and their names.
NameOf == (p1 :> nameA) @@ (p2 :> nameB) @@ (p3 :> nameC)
Plain(n) == [name |-> n, provides |-> {}, depend |-> {}, softDepend |-> {}, loadBefore |-> {}]
Family(choices(_)) ==
    {d \in [Candidate -> UNION {choices(x) : x \in Candidate}] : \A x \in Candidate : d[x] \in choices(x)}

\* Soft dependencies of any kind, hard ones on a plugin that is there.
OrderChoices(x) ==
    {[Plain(NameOf[x]) EXCEPT !.softDepend = s, !.depend = h] :
        s \in SUBSET ({nameA, nameB, nameC} \ {NameOf[x]}), h \in {{}, {nameB}} \ {{NameOf[x]}}}
OrderDescriptions == Family(OrderChoices)

\* Soft dependencies, and one plugin that needs an API nobody provides.
UnknownChoices(x) ==
    {[Plain(NameOf[x]) EXCEPT !.softDepend = s, !.depend = h] :
        s \in SUBSET ({nameA, nameB, nameC} \ {NameOf[x]}), h \in (IF x = p3 THEN {{api}} ELSE {{}})}
UnknownDescriptions == Family(UnknownChoices)

\* APIs that are provided, by one plugin or by several.
ApiChoices(x) ==
    {[Plain(NameOf[x]) EXCEPT !.provides = v, !.depend = h] :
        v \in {{}, {api}}, h \in {{}, {api}, {nameA}, {nameB}, {nameA, api}, {nameC}}}
ApiDescriptions == Family(ApiChoices)

\* Names in conflict: two plugins of one name, an API that is the name of a plugin.
ConflictChoices(x) ==
    {[Plain(n) EXCEPT !.provides = v, !.depend = h] :
        n \in (IF x = p3 THEN {nameA, nameC} ELSE {NameOf[x]}),
        v \in (IF x = p1 THEN {{}} ELSE {{}, {nameA}, {api}}), h \in {{}, {nameA}, {api}}}
ConflictDescriptions == Family(ConflictChoices)

\* load_before with soft dependencies of the targets.
LoadBeforeChoices(x) ==
    {[Plain(NameOf[x]) EXCEPT !.softDepend = s, !.loadBefore = l] :
        s \in {{}, {nameA}}, l \in SUBSET ({nameA, nameB, nameC} \ {NameOf[x]})}
LoadBeforeDescriptions == Family(LoadBeforeChoices)

\* Soft dependencies on a provided API.
SoftApiChoices(x) ==
    {[Plain(NameOf[x]) EXCEPT !.provides = v, !.softDepend = s] :
        v \in {{}, {api}}, s \in {{}, {api}, {nameA}}}
SoftApiDescriptions == Family(SoftApiChoices)

\* APIs, name conflicts, orders, and those that defeat the order of soft dependencies.
AllDescriptions ==
    UNION {ApiDescriptions, ConflictDescriptions, OrderDescriptions,
           UnknownDescriptions, LoadBeforeDescriptions, SoftApiDescriptions}

=============================================================================
