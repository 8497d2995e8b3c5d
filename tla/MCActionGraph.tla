--------------------------- MODULE MCActionGraph ---------------------------
(* ActionGraph on all workspaces of a few shapes.                           *)
EXTENDS GraphQueries

Names3 == <<<<"x">>, <<"y">>, <<"z">>>>
Path(dir, last) == <<<<dir>>, last>>
Gen(n) == Path("gen", Names3[n])
Src == Path("src", <<"x", ".c">>)
Config_o == <<<<"gen">>, Config, <<"o">>>>
Arm == <<"arm">>
Release == <<"release">>

MCTree == {<<<<dir>>, <<n, ".c">>>> : dir \in {"src", ".frost"}, n \in {"x", "y"}}
          \cup {<<<<"src">>, <<n, ".kofun">>>> : n \in {"x", "y"}}
          \cup {<<<<"a">>, <<"src">>, <<"x", e>>>> : e \in {".c", ".kofun"}}
MCIgnored == {Path("src", <<"y", ".c">>)}

Blank(name, kind) ==
    [name |-> name, kind |-> kind, fields |-> {}, srcs |-> <<>>, inputs |-> <<>>,
     deps |-> <<>>, outputs |-> <<>>, tools |-> <<>>, clean |-> <<>>, depfile |-> <<>>]
Source(kind) == CASE kind \in CcKinds -> <<Src>>
                  [] kind = "kofun" -> <<Path("src", <<"x", ".kofun">>)>>
                  [] kind \in {"genrule", "test", "command"} -> <<>>
Plain(name, kind) ==
    [Blank(name, kind) EXCEPT !.srcs = Source(kind),
        !.fields = IF kind \in {"genrule", "test"} THEN {"cmd"} ELSE {},
        !.tools = IF kind = "command" THEN <<"t">> ELSE <<>>,
        !.outputs = CASE kind = "genrule" -> <<Path("gen", name)>>
                      [] kind = "command" -> <<Config_o>>
                      [] kind \notin {"genrule", "command"} -> <<>>]
Ref(form, package, name) == [form |-> form, package |-> package, name |-> name]
ByName(names) == FoldLeft(LAMBDA l, name : Append(l, Ref("name", Nowhere, name)), <<>>, names)

File(list) ==
    [workspace |-> FALSE, defaults |-> {}, profiles |-> {}, platforms |-> <<>>,
     tools |-> [kofunc |-> <<>>, t |-> <<>>], targets |-> list]
RootOnly(file) == [root |-> file, packages |-> <<>>]

\* Three or four targets with dependencies by index, which may form cycles;
\* genrules that may claim each other's output or name it as an input.
Using(t, deps) == [t EXCEPT !.deps = FoldLeft(LAMBDA l, d : l \o ByName(<<Names3[d]>>), <<>>, deps)]
Lists(S) == {s \in UNION {[1..k -> S] : k \in 0..2} : IsInjective(s)}
Ordered(S) == {s \in Lists(S) : \A i, j \in DOMAIN s : i < j => s[i] < s[j]}
AnyTarget(n, kinds) ==
    LET plain == {Plain(Names3[n], kind) : kind \in kinds}
        taking == {[Plain(Names3[n], "genrule") EXCEPT !.outputs = <<Gen(1)>>],
                   [Plain(Names3[n], "genrule") EXCEPT !.inputs = <<Gen(3)>>]}
    IN  {Using(t, deps) : t \in plain \cup taking, deps \in Ordered(1..3 \ {n})}
Triples(kinds, all) ==
    {RootOnly(File(<<a, b, c>>)) :
        a \in AnyTarget(1, kinds), b \in AnyTarget(2, kinds), c \in AnyTarget(3, all)}

\* The exports of one target reached along two ways.
SharedTarget(n, kinds) ==
    {Using(Plain(Names3[n], kind), deps) : kind \in kinds, deps \in Lists(1..n - 1)}
User == <<"z", "u">>
Diamonds(kinds) ==
    {RootOnly(File(<<a, b, c, [Plain(User, "library") EXCEPT !.deps = ByName(names)]>>)) :
        a \in SharedTarget(1, kinds), b \in SharedTarget(2, kinds), c \in SharedTarget(3, kinds),
        names \in Lists(ToSet(Names3))}

\* One target with any field set that its kind may or may not have.
Fields(kinds) ==
    {RootOnly(File(<<[t EXCEPT !.fields = (@ \ {"cmd"}) \cup fields, !.tools = tools,
                               !.outputs = IF outputs THEN @ ELSE <<>>,
                               !.clean = clean, !.depfile = depfile]>>)) :
        t \in {Plain(Names3[1], kind) : kind \in kinds},
        fields \in {{}, {"cmd"}, {"cmd", "includes"}, {"cflags"}, {"args"},
                    {"preserve_outputs"}, {"invalid_env"}},
        tools \in {<<>>, <<"t">>, <<"t", "none">>}, outputs \in BOOLEAN,
        clean \in {<<>>, <<Path("gen", <<"d">>)>>}, depfile \in {<<>>, Path("gen", <<"x", ".d">>)}}

\* Sources written out and globs, in the root or in a package.
Glob(extension) == Path("src", <<"*", extension>>)
Globbing(kinds) ==
    {[Plain(Names3[1], kind) EXCEPT !.srcs = srcs, !.inputs = IF kind \in CcKinds \cup {"kofun"} THEN <<>> ELSE more] :
        kind \in kinds,
        srcs \in {<<>>, <<Src>>, <<Glob(".c")>>, <<Glob(".kofun")>>, <<Src, Glob(".c")>>,
                  <<Path(".frost", <<"*", ".c">>)>>},
        more \in {<<>>, <<Glob(".c")>>, <<Glob(".none")>>}}
Package(at, list) == [package |-> at, file |-> File(list)]
Workspace(list, packages) == [root |-> [File(list) EXCEPT !.workspace = TRUE], packages |-> packages]
Globs(kinds) ==
    {RootOnly(File(<<t>>)) : t \in Globbing(kinds)}
    \cup {Workspace(<<>>, <<Package(<<<<"a">>>>, <<t>>)>>) : t \in Globbing(kinds)}

\* Packages a/b and a, whose labels //a/b:c and //a:b_c have one path_key,
\* below a root with a target that may have the name of one of theirs; every
\* form of a reference.
Inner == <<<<"a">>, <<"b">>>>
Outer == <<<<"a">>>>
AnyReference ==
    LET names == {<<"c">>, <<"b", "c">>} IN
    {Ref(form, Nowhere, name) : form \in {"name", ":name", "//:name"}, name \in names}
    \cup {Ref("//package:name", there, name) : there \in {Outer, Inner}, name \in names}
Packaged(kinds) ==
    {[Workspace(<<[Plain(<<"c">>, "library") EXCEPT !.deps = <<up>>]>>,
               <<Package(place[1], <<[Plain(<<"c">>, inner) EXCEPT !.deps = <<across>>]>>),
                 Package(Outer, <<[Plain(<<"b", "c">>, outer) EXCEPT !.deps = down],
                                  Plain(<<"c">>, "genrule")>>)>>)
        EXCEPT !.root.defaults = defaults, !.root.workspace = place[2]] :
        inner \in kinds, outer \in kinds,
        place \in {<<Inner, TRUE>>, <<Inner, FALSE>>, <<<<<<"target">>, <<"b">>>>, TRUE>>},
        up \in AnyReference, across \in AnyReference, down \in {<<>>, <<Ref("//:name", Nowhere, <<"c">>)>>},
        defaults \in {{}, {Ref("//package:name", Outer, <<"c">>)}}}

\* Two commands with outputs and clean directories that may lie in each
\* other, and a library, for several configurations.
Inside(name) == <<<<"gen">>, Config, <<name>>>>
Command(name, outputs, clean) ==
    [Plain(name, "command") EXCEPT !.outputs = outputs, !.clean = clean]
CleanDirsOf == {<<>>, <<Inside("d")>>, <<Inside("d") \o <<<<"e">>>>>>, <<<<<<"gen">>, Config>>>>}
Variants(platforms) ==
    {RootOnly([File(<<Command(Names3[1], outputs, clean), Command(Names3[2], <<Inside("p")>>, dirs),
                      [Plain(Names3[3], "library") EXCEPT !.deps = ByName(uses)]>>)
               EXCEPT !.profiles = profiles, !.platforms = platform, !.tools = tools]) :
        outputs \in {<<Inside("o")>>, <<Inside("o"), Inside("o")>>, <<Inside("o"), Gen(1)>>,
                     <<Inside("d") \o <<<<"o">>>>>>},
        clean \in CleanDirsOf, dirs \in CleanDirsOf, uses \in {<<>>, <<Names3[1]>>},
        profiles \in {{}, {Release}},
        platform \in platforms, tools \in {<<>>, [t |-> <<>>]}}

\* A profile nobody declared is asked for where it makes a difference.
Asked == [profile : {DefaultProfile, Release, <<"other">>}, platform : {HostPlatform, Arm}]
MCAskedOf(w) ==
    IF w.root.profiles # {} \/ DOMAIN w.root.platforms # {} THEN Asked
    ELSE [profile : IF \E t \in ToSet(w.root.targets) : t.kind = "command"
                    THEN {DefaultProfile, <<"other">>} ELSE {DefaultProfile},
          platform : {HostPlatform}]

\* Outputs that meet in the debug tree of the host only.
Meeting ==
    RootOnly([File(<<Command(Names3[1], <<<<<<"gen">>, DefaultProfile, Config, <<"o">>>>>>, <<>>),
                     Command(Names3[2], <<<<<<"gen">>, Config, DefaultProfile, <<"o">>>>>>, <<>>)>>)
              EXCEPT !.profiles = {Release}])

ArmTools == {<<>>, [t |-> Path("tools", <<"t">>)]}
MCPlatforms == {<<>>} \cup [{Arm} -> ArmTools]
MCAll ==
    {Triples({"library", "genrule", "test"}, Kinds \ {"command"}),
     Diamonds({"library", "genrule"}),
     Fields(Kinds),
     Globs({"library", "kofun", "genrule"}),
     Packaged({"test", "genrule"}),
     Variants(MCPlatforms) \cup {Meeting}}
MCVariants == {Variants({<<>>})}

\* Two genrules that name any output.
PathTarget(n) ==
    {[Using(Plain(Names3[n], "genrule"), deps) EXCEPT !.inputs = inputs] :
        deps \in Lists(1..2 \ {n}), inputs \in {<<>>, <<Gen(1)>>, <<Gen(2)>>}}
MCPaths == {{RootOnly(File(<<a, b>>)) : a \in PathTarget(1), b \in PathTarget(2)}}
=============================================================================
