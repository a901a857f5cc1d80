----------------------------- MODULE MCResolver -----------------------------
(* Small compositions.  Four families go through cargo kernox check:          *)
(* selection and bindings over one capability, selection among three rivals,  *)
(* the declaration loop with its limits and conflicts, and dependencies among *)
(* three plugins, cyclic or not.                                              *)
(* A fifth varies the attribution and goes through every command and input.   *)
(* Two families go through AppBuilder and, when they resolve, on into         *)
(* initialization: host requirements, and capability access.                  *)
EXTENDS ResolverCallers, TLC

MCIds == 1..4          \* plugin 4 is unknown in all families but RivalFamily
MCLinks == 1..3
MCSemVers == {1, 2}
MCMaxima == [plugins |-> 4, capabilities |-> 4, edges |-> 6]
Ample == MCMaxima

None == [c \in {} |-> c]
Plugin(id, provides, requires, conflicts) ==
    [id |-> id, provides |-> provides, requires |-> requires, conflicts |-> conflicts,
     source |-> << >>]
Bind(consumer, capability, provider) ==
    [consumer |-> consumer, capability |-> capability, provider |-> provider]
\* `run` says which caller a composition is given to.
Composition(limits, ps, bs) ==
    [schema |-> 1, limits |-> limits, plugins |-> ps, bindings |-> bs,
     supplied |-> << >>, hosts |-> [i \in 1..Len(ps) |-> << >>], run |-> "check"]
For(caller, specs) == {[s EXCEPT !.run = caller] : s \in specs}

\* Plugins 1 and 2 may provide capability 1 in either version; plugin 3
\* requires it.  Plugin 1 may also provide capability 2.
SelectionBindings ==
    {<< >>, <<Bind(3, 1, 1)>>, <<Bind(3, 1, 2)>>, <<Bind(3, 1, 3)>>, <<Bind(3, 1, 4)>>,
     <<Bind(4, 1, 1)>>, <<Bind(3, 2, 1)>>, <<Bind(1, 1, 2)>>,
     <<Bind(3, 1, 2), Bind(3, 1, 1)>>, <<Bind(3, 1, 1), Bind(3, 2, 1)>>}

Provided == {None} \cup {1 :> v : v \in MCSemVers}

SelectionFamily ==
    {Composition([Ample EXCEPT !.edges = limit],
       IF turned THEN <<three, two, one>> ELSE <<one, two, three>>, bs) :
        limit \in {0, 1, 2},
        turned \in BOOLEAN,
        one \in {Plugin(1, f @@ g, None, {}) : f \in Provided, g \in {None, 2 :> 1}},
        two \in {Plugin(2, f, None, {}) : f \in Provided},
        three \in {Plugin(3, None, 1 :> [accepts |-> as, cardinality |-> k], {}) :
                     as \in {{1}, {1, 2}}, k \in Cardinalities},
        bs \in SelectionBindings}

\* Three plugins provide what the fourth requires, so that two may be compatible
\* and one not.
RivalFamily ==
    {Composition(Ample,
       <<Plugin(4, 1 :> v[3], None, {}), Plugin(2, 1 :> v[1], None, {}), Plugin(3, 1 :> v[2], None, {}),
         Plugin(1, None, 1 :> [accepts |-> {1}, cardinality |-> k], {})>>, << >>) :
        v \in [1..3 -> MCSemVers], k \in Cardinalities}

\* Descriptors that are too large, repeated, conflicting or self-dependent.
DeclarationPlugins(ids) ==
    {Plugin(id, f, g, cs) :
        id \in ids, f \in {None, 1 :> 1},
        g \in {None, 1 :> [accepts |-> {1}, cardinality |-> "ZeroOrOne"]},
        cs \in {{}, {3}}}

DeclarationFamily ==
    {Composition([plugins |-> n, capabilities |-> m, edges |-> 6], <<p, q, Plugin(3, None, None, cs)>>, << >>) :
        n \in {2, 3}, m \in {0, 1, 2}, p \in DeclarationPlugins({1}), q \in DeclarationPlugins({1, 2}),
        cs \in {{}, {1}, {4}}}
    \cup {[Composition(Ample, <<Plugin(1, None, None, {})>>, << >>) EXCEPT !.schema = 2]}
    \cup {Composition([l \in LimitNames |-> Ample[l] + over[l]], << >>, << >>) :
             over \in [LimitNames -> {0, 1}]}

\* Plugin i provides capability i and may require the others'.
DependencyPlugin(i, S, k) ==
    Plugin(i, i :> 1, [c \in S |-> [accepts |-> {1}, cardinality |-> k]], {})

DependencyFamily ==
    {Composition([Ample EXCEPT !.edges = limit],
       <<DependencyPlugin(2, s2, k), DependencyPlugin(3, s3, k), DependencyPlugin(1, s1, k)>>, << >>) :
        limit \in {2, 3, 6}, k \in {"ExactlyOne", "OneOrMore"},
        s1 \in SUBSET {2, 3}, s2 \in SUBSET {1, 3}, s3 \in SUBSET {1, 2}}

-----------------------------------------------------------------------------
(* Attribution: up to three plugins, the third of which uses what the others  *)
(* provide, with every attribution over two packages; a cyclic composition.   *)

MCSources ==
    {<< >>} \cup {<<[package |-> k, repository |-> r]>> : k \in {"a", "b"}, r \in BOOLEAN}
Good == <<[package |-> "c", repository |-> TRUE]>>

From(origin, p) == [p EXCEPT !.source = origin]
User(g, k) == Plugin(3, g, 1 :> [accepts |-> {1}, cardinality |-> k], {})

AttributionFamily ==
    {Composition(Ample, <<From(s3, User(None, k)), From(s2, Plugin(2, f2, None, {})),
                          From(s1, Plugin(1, 1 :> 1, None, {}))>>, << >>) :
        k \in {"ExactlyOne", "ZeroOrMore"}, f2 \in {None, 1 :> 1},
        s1 \in MCSources, s2 \in MCSources, s3 \in {Good} \cup MCSources}
    \cup {Composition(Ample, <<User(g, "ZeroOrOne"), Plugin(1, 1 :> 1,
             2 :> [accepts |-> {1}, cardinality |-> "ZeroOrOne"], {})>>, << >>) :
            g \in {None, 2 :> 1}}
    \cup {Composition(Ample, <<User(None, k)>>, << >>) : k \in {"ExactlyOne", "ZeroOrOne"}}

MCFiles ==
    {[size |-> n, readable |-> TRUE, decodes |-> TRUE] : n \in 1..3}
    \cup [size : {1, 4}, readable : BOOLEAN, decodes : {FALSE}]

-----------------------------------------------------------------------------
(* Host requirements: two plugins, resolvable or not, with up to two host     *)
(* requirements each on a host that supplies up to two properties.            *)

UpToTwo(S) == {<< >>} \cup {<<x>> : x \in S} \cup {<<x, y>> : x \in S, y \in S}

Properties == UpToTwo({[id |-> 1, version |-> 1], [id |-> 1, version |-> 2], [id |-> 2, version |-> 1]})
HostNeeds == UpToTwo({[id |-> 1, accepts |-> {1}], [id |-> 1, accepts |-> {1, 2}], [id |-> 2, accepts |-> {1}]})

Consumer == Plugin(1, None, 1 :> [accepts |-> {1}, cardinality |-> "ExactlyOne"], {})
Provider == Plugin(2, 1 :> 1, None, {})

HostFamily ==
    {[Composition(Ample, <<p, q>>, << >>) EXCEPT !.supplied = s, !.hosts = <<h1, h2>>] :
        p \in {Consumer, Provider}, q \in {Provider, Consumer},
        s \in Properties, h1 \in HostNeeds, h2 \in {h \in HostNeeds : Len(h) <= 1}}

(* Access: two plugins that may provide capability 1, the second of which may *)
(* need capability 2 of the third; the third requires capability 1 in any     *)
(* cardinality, bound or not.  Some of these compositions are cyclic.         *)
AccessFamily ==
    {Composition(Ample, <<Plugin(3, g, 1 :> [accepts |-> as, cardinality |-> k], {}),
                          Plugin(2, f2, h, {}), Plugin(1, f1, None, {})>>, bs) :
        bs \in {<< >>, <<Bind(3, 1, 2)>>},
        g \in {None, 2 :> 1}, f1 \in Provided, f2 \in Provided,
        h \in {None, 2 :> [accepts |-> {1}, cardinality |-> "ZeroOrOne"]},
        as \in {{1}, {1, 2}}, k \in Cardinalities}

-----------------------------------------------------------------------------
MCSpecs ==
    SelectionFamily \cup RivalFamily \cup DeclarationFamily \cup DependencyFamily
    \cup For("cli", AttributionFamily) \cup For("app", HostFamily) \cup For("app", AccessFamily)

MCInit ==
    \/ /\ command = "check" /\ file = [size |-> 1, readable |-> TRUE, decodes |-> TRUE]
       /\ CliRunInit /\ spec.run = "check"
    \/ CliRunInit /\ spec.run = "cli"
    \/ AppRunInit /\ spec.run = "app"

MCSpec == MCInit /\ [][CallersNext]_<<cliVars, accessVars, appVars, allVars>>
=============================================================================
