----------------------------- MODULE MCDelivery -----------------------------
EXTENDS Delivery

MCLexical == <<"", "//a", "//b", "//c", "h1", "h2", "k", "l", "t", "u", "v", "w", "x", "y">>
MCOrders == {MCLexical, Reverse(MCLexical), <<"//b", "l", "w", "u", "y", "//c", "v", "", "k", "t", "//a", "h2", "x", "h1">>}
MCWidth == [s \in ToSet(MCLexical) |-> CASE s = "" -> 0 [] s \in {"//b", "w", "h1", "h2"} -> 2 [] OTHER -> 1]

NoAttrs == [a \in {} |-> ""]
T(hash, type, deps, tags, attrs) ==
    [hash |-> hash, ruleType |-> type, deps |-> deps, tags |-> tags, attrs |-> attrs,
     root |-> hash = "h1", external |-> type = "y"]
R(names, targets, files) == [names |-> names, targets |-> targets, files |-> files]
File(h) == [f \in {"WORKSPACE"} |-> h]

\* One graph with shared and repeated names, a dependency that is not listed
\* and a target without a hash; versions of it with a target more, less or
\* changed; one without targets; one whose target has no type.
A == T("h1", "x", <<"//b", "//c">>, <<"t", "u">>, [k |-> "v", l |-> "w"])
B == T("h2", "y", <<"//c", "//c">>, <<"u">>, [k |-> "w"])
C == T("", "x", << >>, << >>, NoAttrs)
Graphs == {R(<<"//a", "//b", "//c">>, [l \in {"//a", "//b", "//c"} |-> CASE l = "//a" -> A [] l = "//b" -> B [] OTHER -> C], File("1")),
           R(<<"//a", "//b">>, [l \in {"//a", "//b", "//c"} |-> CASE l = "//a" -> A [] l = "//b" -> B [] OTHER -> C], File("1")),
           R(<<"//c", "//a">>, [l \in {"//a", "//c"} |-> IF l = "//c" THEN [C EXCEPT !.attrs = [l |-> ""]]
                                                         ELSE [A EXCEPT !.hash = "h2", !.attrs = [l |-> "v"]]], File("1")),
           R(<<"//b">>, [l \in {"//b"} |-> [B EXCEPT !.deps = << >>, !.hash = "h1"]], File("2")),
           R(<< >>, [l \in {} |-> C], NoAttrs),
           R(<<"//b", "//a">>, [l \in {"//a", "//b"} |-> IF l = "//a" THEN A ELSE [B EXCEPT !.ruleType = ""]], NoAttrs)}

Build(remote) == [remote |-> remote, baseSha |-> "sha", strategy |-> "unset"]
Cfg(h, t, a, d) == [hashes |-> h, tags |-> t, attributes |-> a, maxDistance |-> d]
Cfgs == {Nil, Cfg(TRUE, TRUE, TRUE, -1), Cfg(TRUE, FALSE, TRUE, 0), Cfg(FALSE, TRUE, FALSE, 1)}
Request(rpc, cfg) == [rpc |-> rpc, builds |-> <<Build("r"), Build("r")>>, cfg |-> cfg]
Formats == [1..2 -> {"tgb", "chunks"}]
Dist == [l \in {"//a", "//b", "//c"} |-> CASE l = "//a" -> 2 [] l = "//b" -> 0 [] OTHER -> 1]

I(results, formats, maxBytes, allowed, request) ==
    [results |-> results, formats |-> formats, distance |-> Dist, maxBytes |-> maxBytes,
     config |-> [r \in {"r"} |-> allowed], request |-> request]

First == CHOOSE g \in Graphs : Len(g.names) = 3
Refused == {[Request("changes", Nil) EXCEPT !.builds = b] :
              b \in {<<Nil, Build("r")>>, <<Build("r"), Build("")>>, <<Build("r"), Build("s")>>, <<Build("s"), Build("s")>>,
                     <<[Build("r") EXCEPT !.baseSha = ""], Build("r")>>, <<Build("r"), [Build("r") EXCEPT !.strategy = "9"]>>}}

MCInputs ==
    {I(<<g, First>>, f, n, {}, Request("graph", c)) : g \in Graphs, f \in Formats, n \in {3, 6, 40}, c \in Cfgs}
    \cup {I(<<g, h>>, f, n, al, Request("changes", c)) :
            g \in Graphs, h \in Graphs, f \in Formats, n \in {5, 14}, al \in {{}, {"k"}}, c \in {Cfg(TRUE, TRUE, TRUE, -1)}}
    \cup {I(<<First, h>>, f, 9, {"k"}, Request("changes", c)) : h \in Graphs, f \in Formats, c \in Cfgs}
    \cup {I(<<First, First>>, [r \in 1..2 |-> "tgb"], 9, {}, q) : q \in Refused \cup {[q EXCEPT !.rpc = "graph"] : q \in Refused}}

=============================================================================
