----------------------------- MODULE MCHashing -----------------------------
(***************************************************************************)
(* Workspaces to hash.  Packages a, b and p of the main repository, and a  *)
(* repository x (and z, which is built from it) fetched by rules, or by    *)
(* modules.  Which rule depends on which is any relation, cycles included; *)
(* a second revision differs by one edit, or only in the order in which    *)
(* bazel prints it.                                                        *)
(***************************************************************************)
EXTENDS Itg

MCOrder == <<"", "//a:a/q", "//a:f", "//a:n", "//a:r", "//b:f", "//b:g", "//b:s", "//b:v", "//c:t", "//external:x", "//external:z",
             "//p:p", "//visibility:private", "//visibility:public", "@@y//:f", "@w//:f", "@x//:f", "@x//:r",
             "t1", "t2">>

MCLabelOf ==
    [l \in ToSet(MCOrder) \ {"", "//visibility:private", "//visibility:public", "t1", "t2"} |->
       CASE l \in {"//a:a/q", "//a:f", "//a:n", "//a:r"} -> [form |-> "main", repo |-> "", pkg |-> "a"]
         [] l \in {"//b:f", "//b:g", "//b:s", "//b:v"} -> [form |-> "main", repo |-> "", pkg |-> "b"]
         [] l = "//c:t" -> [form |-> "main", repo |-> "", pkg |-> "c"]
         [] l = "//p:p" -> [form |-> "main", repo |-> "", pkg |-> "p"]
         [] l = "//external:x" -> [form |-> "external", repo |-> "x", pkg |-> "external"]
         [] l = "//external:z" -> [form |-> "external", repo |-> "z", pkg |-> "external"]
         [] l = "@@y//:f" -> [form |-> "canonical", repo |-> "y", pkg |-> "@@y//"]
         [] l = "@w//:f" -> [form |-> "apparent", repo |-> "w", pkg |-> "@w//"]
         [] OTHER -> [form |-> "apparent", repo |-> "x", pkg |-> "@x//"]]

MCDoubled == {"//a:a/q"}

Proto(type) ==
    [type |-> type, class |-> type, attrs |-> << >>, input |-> << >>, generator |-> "",
     visibility |-> <<"//visibility:private">>]

Attr(name, type, string, list, dict) ==
    [name |-> name, type |-> type, string |-> string, list |-> list, dict |-> dict]

Rule(class, attrs, inputs) == [Proto("rule") EXCEPT !.class = class, !.attrs = attrs, !.input = SortedSet(inputs)]

Tags == Attr("tags", "STRING_LIST", << >>, <<"t1", "t2">>, << >>)
Place == Attr("generator_location", "STRING", <<"t1">>, << >>, << >>)
Digest == Attr("sha256", "STRING", <<"t1">>, << >>, << >>)
Url == Attr("url", "STRING", <<"t1">>, << >>, << >>)
Env == Attr("env", "STRING_LIST_DICT", << >>, << >>, <<[key |-> "t1", value |-> <<"t1">>], [key |-> "t2", value |-> << >>]>>)

Rules == {"//a:r", "//b:s", "@x//:r"}
Pairs == {<<"//a:r", "//b:g">>, <<"//b:s", "//a:r">>, <<"//b:s", "@x//:r">>,
          <<"@x//:r", "//a:r">>, <<"@x//:r", "//b:s">>}

Under(edges, l) == {e[2] : e \in {d \in edges : d[1] = l}}

File(content) == [kind |-> "file", content |-> content]

Entry(kind, name, to) == [kind |-> kind, name |-> name, to |-> to]

Base(edges, bzlmod) ==
    [protos |->
       [l \in {"//a:f", "//a:r", "//b:f", "//b:g", "//b:s", "//b:v", "@x//:f", "@x//:r"}
              \cup (IF bzlmod THEN {"@@y//:f", "@w//:f"} ELSE {"//external:x", "//external:z"}) |->
          CASE l = "//a:r" -> Rule("lib", <<Tags, Place, Env>>, {"//a:a/q", "//a:f"} \cup Under(edges, l))
            [] l = "//b:s" -> Rule("bin", <<Tags>>,
                                   (IF bzlmod THEN {"@@y//:f", "@w//:f"} ELSE {}) \cup {"//b:f"} \cup Under(edges, l))
            [] l = "@x//:r" -> Rule("lib", << >>, {"@x//:f"} \cup Under(edges, l))
            [] l = "//external:x" -> Rule("archive", <<Digest, Url>>, {"//p:p"})
            [] l = "//external:z" -> Rule("archive", <<Url>>, {"@x//:f"})
            [] l = "//b:g" -> [Proto("generated file") EXCEPT !.generator = "//b:s"]
            [] l = "//b:v" -> Proto("package group")
            [] OTHER -> Proto("source file")],
     disk |-> [l \in {"//a:f", "//b:f", "//p:p", "@x//:f", "@@y//:f", "@w//:f"} |->
                 IF l = "//b:f"
                 THEN [kind |-> "dir", content |-> <<Entry("dir", "d", ""), Entry("file", "e", "t1"), Entry("link", "l", "e")>>]
                 ELSE File("c0")],
     tracked |-> {"//a:f", "//p:p"},
     markers |-> [r \in {"y", "w+"} |-> <<[kind |-> "head", text |-> "h0"], [kind |-> "env", text |-> "e0"],
                                          [kind |-> "local", text |-> "l0"]>>],
     macros |-> 0, notes |-> 0, reversed |-> FALSE]

Reordered(w) ==
    [w EXCEPT !.reversed = TRUE,
       !.protos = [l \in DOMAIN @ |-> [@[l] EXCEPT !.input = Reverse(@),
                                         !.attrs = Reverse([i \in DOMAIN @ |-> [@[i] EXCEPT !.list = Reverse(@), !.dict = Reverse(@)]])]]]

WithAttr(w, l, i, a) == [w EXCEPT !.protos[l].attrs[i] = a]
WithInputs(w, l, ls) == [w EXCEPT !.protos[l].input = SortedSet(ls)]
WithTree(w, tree) == [w EXCEPT !.disk["//b:f"].content = tree]
Without(w, ls) == [w EXCEPT !.protos = [l \in DOMAIN @ \ ls |-> @[l]], !.disk = [l \in DOMAIN @ \ ls |-> @[l]],
                            !.tracked = @ \ ls]

\* A new package, whose rule leads to //b:s.
Above(w) == [w EXCEPT !.protos = ("//c:t" :> Rule("lib", << >>, {"//b:s"})) @@ @]

\* Edits of the main repository.
Edits(w) ==
    {w,
     [w EXCEPT !.disk["//a:f"] = File("c1")],
     [w EXCEPT !.protos["//a:f"].visibility = <<"//visibility:public">>],
     [w EXCEPT !.tracked = @ \ {"//a:f"}],
     [w EXCEPT !.protos["//a:r"].class = "bin"],
     WithAttr(w, "//a:r", 1, [Tags EXCEPT !.list = <<"t1">>]),
     WithAttr(w, "//a:r", 2, [Place EXCEPT !.string = <<"t2">>]),
     WithAttr(w, "//a:r", 3, [Env EXCEPT !.dict[1].value = << >>, !.dict[2].value = <<"t1">>]),
     WithInputs(w, "//a:r", ToSet(w.protos["//a:r"].input) \ {"//a:f"}),
     WithInputs([w EXCEPT !.protos = ("//a:n" :> Rule("lib", << >>, {"//a:r"})) @@ @], "//b:s",
                ToSet(w.protos["//b:s"].input) \cup {"//a:n"}),
     Above(w),
     WithTree(w, <<Entry("dir", "d", ""), Entry("file", "e", "t2"), Entry("link", "l", "e")>>),
     WithTree(w, <<Entry("file", "d", "t1"), Entry("file", "e", "t1"), Entry("link", "l", "e")>>),
     Without(w, {"//b:v"}),
     Without(WithInputs(w, "//a:r", ToSet(w.protos["//a:r"].input) \ {"//a:f"}), {"//a:f"}),
     [w EXCEPT !.protos["//b:s"].class = "lib", !.macros = 1],
     [w EXCEPT !.notes = 1]}
    \cup (IF "//b:s" \in ToSet(w.protos["@x//:r"].input) THEN {}
          ELSE {Without(WithInputs(w, "//a:r", ToSet(w.protos["//a:r"].input) \ {"//b:g"}),
                        {"//b:f", "//b:g", "//b:s", "//b:v"})})

\* Edits of what is fetched.
Upgrades(w, bzlmod) ==
    {[w EXCEPT !.disk["@x//:f"] = File("c1")]} \cup
    (IF bzlmod
     THEN {[w EXCEPT !.markers["y"][1].text = "h1"], [w EXCEPT !.markers["w+"][3].text = "l1"],
           [w EXCEPT !.markers["w+"][2].text = "e1"], [w EXCEPT !.markers = [r \in {"w+"} |-> @[r]]],
           [w EXCEPT !.markers = [r \in {"w+"} |-> << >>]]}
     ELSE {[w EXCEPT !.disk["//p:p"] = File("c1")],
           WithAttr(w, "//external:x", 1, [Digest EXCEPT !.string = <<"t2">>]),
           WithAttr(w, "//external:x", 2, [Url EXCEPT !.string = <<"t2">>]),
           WithAttr(w, "//external:z", 1, [Url EXCEPT !.string = <<"t2">>])})

Config(bzlmod, full, excluded, sequential) ==
    [useBzlmod |-> bzlmod, fullHashRepos |-> full, excluded |-> excluded, sequentialHashTargets |-> sequential,
     repoMapping |-> ("w" :> "w+"), allTargetsFiles |-> {"//a:f", "//a:n"}]

Configs(bzlmod) ==
    IF bzlmod THEN {Config(TRUE, {"x"}, {}, {}), Config(TRUE, {"w", "y"}, {"//b:s"}, {"@x//:r"}),
                    Config(TRUE, {}, {"@@y//:f"}, {})}
    ELSE {Config(FALSE, {}, {}, {"@x//:r"}), Config(FALSE, {"x"}, {}, {}), Config(FALSE, {}, {"//b:s"}, {})}

Cases(bzlmod) ==
    UNION {LET w == Base(edges, bzlmod)
           IN {[revisions |-> <<w, v>>, config |-> c] :
                 v \in Edits(w) \cup Upgrades(w, bzlmod) \cup {Reordered(w)}, c \in Configs(bzlmod)} :
           edges \in SUBSET Pairs}

AllInputs == Cases(TRUE) \cup Cases(FALSE)

Key(time, sha) == [time |-> time, sha |-> sha]
Keys == {{}, {Key(0, "t2"), Key(1, "t1"), Key(3, "t1")}, {Key(0, "t2"), Key(2, "t1"), Key(2, "t2"), Key(3, "t1")}}

Times == <<1, 2>>

\* A cycle of //a:r and //b:s that @x//:r leads into at //a:r, and later //c:t at //b:s.
CycleInputs ==
    LET w == Base({<<"//a:r", "//b:g">>, <<"//b:s", "//a:r">>, <<"@x//:r", "//a:r">>}, FALSE)
    IN {[revisions |-> <<w, v>>, config |-> Config(FALSE, {}, {}, {"@w//:f"})] : v \in Edits(w)}
=============================================================================
