--------------------------- MODULE MCGraphService ---------------------------
(* Small instances of GraphService for TLC. *)
EXTENDS GraphService

CONSTANTS c0, c1, p1, p2, native, shell, none, gen

Kind(base, prs, strategy, excludes, bypass) ==
    [build |-> [base |-> base, prs |-> prs], strategy |-> strategy,
     excludes |-> excludes, bypass |-> bypass]

\* Bases that name commits.  The same change requests in two orders, under two
\* strategies, with and without excludes, through the caches and around them.
PinnedKinds ==
    { Kind(c1, <<p1, p2>>, native, none, FALSE),
      Kind(c1, <<p2, p1>>, native, gen, FALSE),
      Kind(c1, <<p1, p2>>, shell, none, FALSE),
      Kind(c1, <<p1, p2>>, native, none, TRUE) }

\* README.md:36 asks for BASE_SHA=HEAD.
HeadKinds ==
    { Kind(HEAD, << >>, native, gen, FALSE),
      Kind(c1, << >>, native, none, FALSE) }
=============================================================================
