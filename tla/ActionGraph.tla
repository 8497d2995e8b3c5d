---------------------------- MODULE ActionGraph ----------------------------
(***************************************************************************)
(* From a workspace to the graph of actions                                *)
(* (BuildGraph::from_manifest_configured and what asks the graph, in       *)
(* crates/frostbuild-core/src/graph.rs): the manifest is loaded (module    *)
(* Manifest), a configuration is chosen, targets are put in the order of   *)
(* their declared dependencies, every target becomes one or more actions,  *)
(* and a request selects the actions its targets need.                     *)
(*                                                                         *)
(* Targets are numbered in the order of their labels (BTreeMap).  Flags    *)
(* and the making of command lines are left out.                           *)
(***************************************************************************)
EXTENDS Manifest

CONSTANTS Workspaces,    \* families of workspaces to load
          AskedOf(_)     \* the configurations a user asks for in one of them

\* What reading TOML yields: lists are lists, no path is empty, and no two
\* targets of a file and no two packages have one name, being keys of tables and
\* directories.
IsSequence(s) == s \in Seq(ToSet(s))
ArePaths(list) == IsSequence(list) /\ \A p \in ToSet(list) : IsSequence(p) /\ p # <<>>
ReadTarget(t) ==
    /\ t.kind \in Kinds
    /\ ArePaths(t.srcs) /\ ArePaths(t.inputs) /\ ArePaths(t.outputs) /\ ArePaths(t.clean)
    /\ IsSequence(t.deps) /\ IsSequence(t.tools)
ReadFile(file) ==
    /\ IsSequence(file.targets)
    /\ \A t \in ToSet(file.targets) : ReadTarget(t)
    /\ \A i, j \in DOMAIN file.targets : file.targets[i].name = file.targets[j].name => i = j
ReadWorkspace(w) ==
    /\ ReadFile(w.root)
    /\ IsSequence(w.packages)
    /\ \A part \in ToSet(w.packages) :
          IsSequence(part.package) /\ part.package # Nowhere /\ ReadFile(part.file)
    /\ \A i, j \in DOMAIN w.packages : w.packages[i].package = w.packages[j].package => i = j

ASSUME WorkspacesAssumption ==
    /\ IsFiniteSet(Tree) /\ \A f \in Tree : IsSequence(f) /\ f # <<>>
    /\ \A family \in Workspaces : \A w \in family : ReadWorkspace(w)

VARIABLES
    workspace,
    manifest,   \* the targets once it is loaded
    settings,   \* the rest of the loaded manifest
    config,     \* the profile and the platform the graph is for
    phase,      \* "load", "configure", "sort", "build", "request",
                \* "selected", or how it was refused
    marks,      \* toposort_targets: states
    path,       \* the calls of visit() on the stack: a target, its next dep
    order,      \* the targets in dependency order
    built,      \* how many of them have been translated
    actions,    \* graph.actions: what each needs, makes and resets
    targets,    \* outputs of every translated target (TargetNode.outputs)
    owner,      \* the target of every action (ActionNode.target)
    requested,  \* the targets a command asks for
    closure     \* result of action_closure for them

loading == <<workspace, manifest, settings, config>>
sorting == <<marks, path, order>>
graph == <<built, actions, targets, owner>>
selection == <<requested, closure>>
vars == <<loading, phase, sorting, graph, selection>>

Names == DOMAIN manifest

\* What can be reached from a set by any number of steps along `next`.
Reachable(next, start) ==
    LET reached[k \in 0..Cardinality(DOMAIN next)] ==
          IF k = 0 THEN start
          ELSE LET before == reached[k - 1]
               IN  before \cup UNION {next[x] : x \in before}
    IN  reached[Cardinality(DOMAIN next)]

Init ==
    /\ \E family \in Workspaces : workspace \in family
    /\ manifest = <<>> /\ settings = <<>> /\ config = <<>>
    /\ phase = "load"
    /\ marks = <<>> /\ path = <<>> /\ order = <<>>
    /\ built = 0
    /\ actions = <<>> /\ owner = <<>> /\ targets = <<>>
    /\ requested = {} /\ closure = {}

-----------------------------------------------------------------------------
(* load_graph, and the beginning of from_manifest_configured.              *)

Refuse ==
    /\ phase' = "refused"
    /\ UNCHANGED <<loading, sorting, graph, selection>>

Load ==
    /\ phase = "load"
    /\ Accepted(workspace)
    /\ manifest' = Targets(workspace)
    /\ settings' = SettingsOf(workspace)
    /\ phase' = "configure"
    /\ UNCHANGED <<workspace, config, sorting, graph, selection>>

RefuseManifest == phase = "load" /\ ~Accepted(workspace) /\ Refuse

\* A profile nobody declared is refused once any profile is declared.
KnownProfile(profile) ==
    profile = DefaultProfile \/ settings.profiles = {} \/ profile \in settings.profiles
Known(c) == KnownProfile(c.profile) /\ KnownPlatform(settings, c.platform)

Configure(c) ==
    /\ phase = "configure"
    /\ Known(c)
    /\ config' = c
    /\ marks' = [n \in Names |-> "unvisited"]
    /\ targets' = [n \in Names |-> <<>>]
    /\ phase' = "sort"
    /\ UNCHANGED <<workspace, manifest, settings, path, order,
                   built, actions, owner, selection>>

RefuseConfiguration(c) == phase = "configure" /\ ~Known(c) /\ Refuse

-----------------------------------------------------------------------------
(* toposort_targets: visit() is called for every name in turn.             *)

Frame(n) == [name |-> n, dep |-> 1]
Visit(n) == marks' = [marks EXCEPT ![n] = "visiting"]

Root ==
    /\ phase = "sort" /\ path = <<>>
    /\ \E n \in Names :
          /\ marks[n] = "unvisited"
          /\ \A k \in 1..n - 1 : marks[k] # "unvisited"
          /\ Visit(n)
          /\ path' = <<Frame(n)>>
    /\ UNCHANGED <<loading, phase, order, graph, selection>>

\* The next dependency of the target that is being visited.
NextDep == manifest[Last(path).name].deps[Last(path).dep]
AtDep == path # <<>> /\ Last(path).dep <= Len(manifest[Last(path).name].deps)
Advanced == Front(path) \o <<[Last(path) EXCEPT !.dep = @ + 1]>>

Descend ==
    /\ phase = "sort" /\ AtDep
    /\ marks[NextDep] = "unvisited"
    /\ Visit(NextDep)
    /\ path' = Advanced \o <<Frame(NextDep)>>
    /\ UNCHANGED <<loading, phase, order, graph, selection>>

PassDone ==
    /\ phase = "sort" /\ AtDep
    /\ marks[NextDep] = "done"
    /\ path' = Advanced
    /\ UNCHANGED <<loading, phase, marks, order, graph, selection>>

\* Mutant: a target that is being visited is taken for done.
Mut_IgnoresCycle ==
    /\ phase = "sort" /\ AtDep
    /\ marks[NextDep] = "visiting"
    /\ path' = Advanced
    /\ UNCHANGED <<loading, phase, marks, order, graph, selection>>
ReportCycle ==
    /\ phase = "sort" /\ AtDep
    /\ marks[NextDep] = "visiting"
    /\ phase' = "cycle"
    /\ UNCHANGED <<loading, sorting, graph, selection>>

\* Mutant: a target stays on the path when its visit returns.
Mut_NotPopped ==
    /\ phase = "sort" /\ path # <<>> /\ ~AtDep
    /\ marks' = [marks EXCEPT ![Last(path).name] = "done"]
    /\ order' = Append(order, Last(path).name)
    /\ path' = path
    /\ UNCHANGED <<loading, phase, graph, selection>>
Leave ==
    /\ phase = "sort" /\ path # <<>> /\ ~AtDep
    /\ marks' = [marks EXCEPT ![Last(path).name] = "done"]
    /\ order' = Append(order, Last(path).name)
    /\ path' = Front(path)
    /\ UNCHANGED <<loading, phase, graph, selection>>

Sorted ==
    /\ phase = "sort" /\ path = <<>>
    /\ \A n \in Names : marks[n] # "unvisited"
    /\ phase' = "build"
    /\ UNCHANGED <<loading, sorting, graph, selection>>

-----------------------------------------------------------------------------
(* Where files go: the tree of a configuration and the key of a label.     *)

\* Mutant: only the profile tells the trees apart.
Mut_ProfileTree(c) == <<c.profile>>
TreeOf(c) ==
    IF c.platform = HostPlatform THEN <<c.profile>> ELSE <<c.platform, c.profile>>

\* path_key: `/` and `:` become underscores.
PathKey(label) == <<FlattenSeq(label.package) \o label.name>>

ObjDir == <<<<".frost", "obj">>>>
LibDir == <<<<".frost", "lib">>>>
BinDir == <<<<".frost", "bin">>>>
TestDir == <<<<".frost", "test">>>>

Lib(tree, n) == LibDir \o tree \o PathKey(manifest[n].label)
Bin(tree, n) == BinDir \o tree \o PathKey(manifest[n].label)
Stamp(tree, n) == TestDir \o tree \o PathKey(manifest[n].label) \o <<<<"passed">>>>
Obj(tree, n, src) ==
    ObjDir \o tree \o PathKey(manifest[n].label) \o Front(src) \o <<Append(Last(src), ".o")>>
EmittedC(tree, n) == ObjDir \o tree \o PathKey(manifest[n].label) \o <<<<"kofun", ".c">>>>

\* expand_config_template
Expand(tree, p) == FlattenSeq([i \in DOMAIN p |-> IF p[i] = Config THEN tree ELSE <<p[i]>>])
ExpandAll(tree, paths) == [i \in DOMAIN paths |-> Expand(tree, paths[i])]

-----------------------------------------------------------------------------
(* SharedSet: what a target exports is its own entries and references to   *)
(* the sets of its dependencies, flattened only where a list is needed.    *)

Deps(n) == manifest[n].deps
AddNew(list, more) ==
    LET added[k \in 0..Len(more)] ==
          IF k = 0 THEN list
          ELSE LET l == added[k - 1]
               IN  IF more[k] \in ToSet(l) THEN l ELSE Append(l, more[k])
    IN  added[Len(more)]

\* Mutant: the parents are pushed in declaration order, so popped in reverse.
Mut_PushedInOrder(stack, more) == stack \o more
Pushed(stack, more) == stack \o Reverse(more)

\* flatten(): own[n] are the entries of target n, the stack starts with the
\* parents of the set that is flattened.  A turn pops one reference.
Turn(own, s) ==
    LET n == Last(s.stack)
        rest == Front(s.stack)
    IN  IF s.stack = <<>> THEN s
        ELSE IF n \in s.visited THEN [s EXCEPT !.stack = rest]
        ELSE [stack |-> Pushed(rest, Deps(n)), visited |-> s.visited \cup {n},
              out |-> AddNew(s.out, own[n])]

\* Every reference to a set is pushed once at most.
References == UNION {{n} \X DOMAIN Deps(n) : n \in Names}
Turns(parents) == Len(parents) + Cardinality(References)
Flatten(own, parents) ==
    LET walk[k \in 0..Turns(parents)] ==
          IF k = 0 THEN [stack |-> Pushed(<<>>, parents), visited |-> {}, out |-> <<>>]
          ELSE Turn(own, walk[k - 1])
    IN  walk[Turns(parents)].out

\* The own entries of genrule_outputs and of exported_libs.
GeneratedBy(tree) ==
    [n \in Names |->
        CASE manifest[n].kind = "genrule" -> manifest[n].outputs
          [] manifest[n].kind = "command" -> ExpandAll(tree, manifest[n].outputs)
          [] manifest[n].kind \notin {"genrule", "command"} -> <<>>]
ArchivedBy(tree) ==
    [n \in Names |-> IF manifest[n].kind = "library" THEN <<Lib(tree, n)>> ELSE <<>>]

\* Mutant: only the direct dependencies are looked at.
Mut_DirectGenerated(tree, n) ==
    FlattenSeq([i \in DOMAIN Deps(n) |-> GeneratedBy(tree)[Deps(n)[i]]])
GeneratedFor(tree, n) == Flatten(GeneratedBy(tree), Deps(n))
LibsFor(tree, n) == Flatten(ArchivedBy(tree), Deps(n))

DepOutputs(n) == UNION {ToSet(targets[d]) : d \in ToSet(Deps(n))}

-----------------------------------------------------------------------------
(* The loop over the sorted targets: the actions of each kind of target.   *)

Action(inputs, orderOnly, outputs) ==
    [inputs |-> inputs, orderOnly |-> orderOnly, outputs |-> outputs, clean |-> <<>>]

\* Tools that are files of the workspace are inputs; <<>> is any other tool.
Drivers(platform, n) ==
    LET tools == ToolsFor(settings, platform)
    IN  {tools[tool] : tool \in ToSet(manifest[n].tools)} \ {<<>>}
\* kofunc is configured like a tool.
ToolsOf(n) == ToSet(manifest[n].tools) \cup IF manifest[n].kind = "kofun" THEN {"kofunc"} ELSE {}
HasTools(platform, n) == ToolsOf(n) \subseteq DOMAIN ToolsFor(settings, platform)

Compiles(tree, n) ==
    [i \in DOMAIN manifest[n].srcs |->
        LET src == manifest[n].srcs[i] IN
        Action({src}, ToSet(GeneratedFor(tree, n)), <<Obj(tree, n, src)>>)]
Objs(tree, n) == {Obj(tree, n, src) : src \in ToSet(manifest[n].srcs)}

Link(tree, n) == Action(Objs(tree, n) \cup ToSet(LibsFor(tree, n)), {}, <<Bin(tree, n)>>)

ActionsOf(tree, n) ==
    LET t == manifest[n]
        needs == ToSet(t.inputs) \cup DepOutputs(n)
    IN  CASE t.kind = "genrule" -> <<Action(needs, {}, t.outputs)>>
          [] t.kind = "test" -> <<Action(needs \cup Drivers(config.platform, n), {}, <<Stamp(tree, n)>>)>>
          [] t.kind = "command" ->
                <<[Action(needs \cup Drivers(config.platform, n), {}, ExpandAll(tree, t.outputs))
                     EXCEPT !.clean = ExpandAll(tree, t.clean)]>>
          [] t.kind = "kofun" ->
                <<Action({t.srcs[1]} \cup DepOutputs(n), {}, <<Bin(tree, n), EmittedC(tree, n)>>)>>
          [] t.kind = "library" ->
                Append(Compiles(tree, n), Action(Objs(tree, n), {}, <<Lib(tree, n)>>))
          [] t.kind = "binary" -> Append(Compiles(tree, n), Link(tree, n))
          [] t.kind = "cctest" ->
                Compiles(tree, n) \o <<Link(tree, n), Action({Bin(tree, n)}, {}, <<Stamp(tree, n)>>)>>

OutputsOf(tree, n) ==
    CASE manifest[n].kind \in {"genrule", "command"} -> GeneratedBy(tree)[n]
      [] manifest[n].kind = "library" -> <<Lib(tree, n)>>
      [] manifest[n].kind \in {"binary", "kofun"} -> <<Bin(tree, n)>>
      [] manifest[n].kind \in {"test", "cctest"} -> <<Stamp(tree, n)>>

\* FileNode.producer, 0 for a source file.
ProducerIn(list, f) ==
    LET makers == {i \in DOMAIN list : f \in ToSet(list[i].outputs)}
    IN  IF makers = {} THEN 0 ELSE CHOOSE i \in makers : TRUE

\* Mutant: nobody asks whether an output is taken.
Mut_NeverTaken(list, a) == {}
\* push_action looks at the outputs in turn; one that the action itself has
\* claimed before has an owner that is not in the vector yet.
Taken(list, a) ==
    {k \in DOMAIN a.outputs :
        \/ ProducerIn(list, a.outputs[k]) # 0
        \/ \E j \in 1..k - 1 : a.outputs[j] = a.outputs[k]}

Push(state, a) ==
    LET taken == Taken(state.list, a) IN
    IF state.verdict # "ok" THEN state
    ELSE IF taken = {} THEN [state EXCEPT !.list = Append(@, a)]
    ELSE [state EXCEPT !.verdict =
            IF ProducerIn(state.list, a.outputs[Min(taken)]) # 0
            THEN "two producers" ELSE "panic"]
PushEach(list, new) ==
    LET pushed[k \in 0..Len(new)] ==
          IF k = 0 THEN [list |-> list, verdict |-> "ok"] ELSE Push(pushed[k - 1], new[k])
    IN  pushed[Len(new)]

Translate ==
    /\ phase = "build" /\ built < Len(manifest)
    /\ HasTools(config.platform, order[built + 1])
    /\ LET n == order[built + 1]
           result == PushEach(actions, ActionsOf(TreeOf(config), n))
       IN  IF result.verdict = "ok"
           THEN /\ actions' = result.list
                /\ owner' = owner \o [i \in 1..Len(result.list) - Len(actions) |-> n]
                /\ targets' = [targets EXCEPT ![n] = OutputsOf(TreeOf(config), n)]
                /\ built' = built + 1
                /\ UNCHANGED phase
           ELSE phase' = result.verdict /\ UNCHANGED graph
    /\ UNCHANGED <<loading, sorting, selection>>

RefuseTool ==
    /\ phase = "build" /\ built < Len(manifest)
    /\ ~HasTools(config.platform, order[built + 1])
    /\ Refuse

\* validate_clean_dirs: the directories the actions reset, in order.
Claims == UNION {{a} \X DOMAIN actions[a].clean : a \in DOMAIN actions}
Directory(claim) == actions[claim[1]].clean[claim[2]]
Earlier(claim) ==
    {c \in Claims : c[1] < claim[1] \/ (c[1] = claim[1] /\ c[2] < claim[2])}
GraphFiles ==
    UNION {actions[a].inputs \cup actions[a].orderOnly \cup ToSet(actions[a].outputs) :
              a \in DOMAIN actions}
Overlap(p, q) == IsPrefix(p, q) \/ IsPrefix(q, p)

\* Mutant: a directory inside one that was claimed before goes unnoticed.
Mut_OuterOnly ==
    \A claim \in Claims :
        /\ \A other \in Earlier(claim) : ~IsPrefix(Directory(claim), Directory(other))
        /\ \A f \in GraphFiles : ~IsPrefix(Directory(claim), f)
CleanDirsValid ==
    \A claim \in Claims :
        /\ \A other \in Earlier(claim) : ~Overlap(Directory(claim), Directory(other))
        /\ \A f \in GraphFiles : ~IsPrefix(Directory(claim), f)

Built ==
    /\ phase = "build" /\ built = Len(manifest)
    /\ CleanDirsValid
    /\ phase' = "request"
    /\ UNCHANGED <<loading, sorting, graph, selection>>

RefuseCleanDirs ==
    /\ phase = "build" /\ built = Len(manifest)
    /\ ~CleanDirsValid
    /\ Refuse

-----------------------------------------------------------------------------
(* run_build: the targets of a request, and action_closure for them.       *)

\* Mutant: order-only inputs are not followed.
Mut_InputsOnly(a) == {ProducerIn(actions, f) : f \in actions[a].inputs} \ {0}
Producers(a) ==
    {ProducerIn(actions, f) : f \in actions[a].inputs \cup actions[a].orderOnly} \ {0}

Reach(roots) == Reachable([a \in DOMAIN actions |-> Producers(a)], roots)

ActionsOfTargets(names) == {a \in DOMAIN actions : owner[a] \in names}

Tests == {n \in Names : manifest[n].kind \in {"test", "cctest"}}

\* What is asked for without names: the tests, or the default targets.
Meant(test, names) ==
    IF names # {} THEN names ELSE IF test THEN Tests ELSE settings.defaults
Askable(test, names) ==
    test => Meant(test, names) # {} /\ Meant(test, names) \subseteq Tests

Select(names) ==
    /\ requested' = names
    /\ closure' = Reach(ActionsOfTargets(names))
    /\ phase' = "selected"
    /\ UNCHANGED <<loading, sorting, graph>>

Request(test, names) ==
    /\ phase = "request"
    /\ Askable(test, names)
    /\ Select(Meant(test, names))

\* test --affected: the tests that would run in a dry run (Engine!DryRun); there
\* may be none, and nothing to build.
RequestAffected(names) ==
    /\ phase = "request"
    /\ Askable(TRUE, names)
    /\ \E affected \in SUBSET Meant(TRUE, names) : Select(affected)

RefuseRequest(test, names) == phase = "request" /\ ~Askable(test, names) /\ Refuse

Next ==
    \/ Load \/ RefuseManifest
    \/ \E c \in AskedOf(workspace) : Configure(c) \/ RefuseConfiguration(c)
    \/ Root \/ Descend \/ PassDone \/ ReportCycle \/ Leave \/ Sorted
    \/ Translate \/ RefuseTool \/ Built \/ RefuseCleanDirs
    \/ \E names \in SUBSET Names : Request(FALSE, names)
    \/ \E names \in {{}, Names} :
          Request(TRUE, names) \/ RequestAffected(names) \/ RefuseRequest(TRUE, names)

Spec == Init /\ [][Next]_vars

-----------------------------------------------------------------------------
(* frost clean: what it removes, given a profile, a platform, both or      *)
(* neither.                                                                *)

Unselected == <<>>
Profiles == {DefaultProfile} \cup settings.profiles
Platforms == {HostPlatform} \cup DOMAIN settings.platforms

Chosen(name) == IF name = Unselected THEN <<>> ELSE <<name>>
Subtree(sel) == Chosen(sel.platform) \o Chosen(sel.profile)

\* The configurations whose graphs are made to find the outputs that are not
\* in the trees: without a profile, all profiles of the selected platforms.
ConfiguredGraphs(sel) ==
    IF sel.profile = Unselected
    THEN [profile : Profiles,
          platform : IF sel.platform = Unselected THEN Platforms ELSE {sel.platform}]
    ELSE {[profile |-> sel.profile,
           platform |-> IF sel.platform = Unselected THEN HostPlatform ELSE sel.platform]}

Resets(tree) == UNION {ToSet(ExpandAll(tree, manifest[n].clean)) : n \in Names}
External(tree) == UNION {ToSet(GeneratedBy(tree)[n]) : n \in Names}
Trees(sel) == {dir \o Subtree(sel) : dir \in {ObjDir, LibDir, BinDir}}

\* What may refuse a configuration: its names, a tool it lacks, and, as paths
\* depend on ${config}, outputs and reset directories that meet only in its tree.
OutputsIn(c) ==
    FlattenSeq([n \in Names |-> FlattenSeq(
        [i \in DOMAIN ActionsOf(TreeOf(c), n) |-> ActionsOf(TreeOf(c), n)[i].outputs])])
ResetsIn(c) == FlattenSeq([n \in Names |-> ExpandAll(TreeOf(c), manifest[n].clean)])
FilesIn(c) ==
    ToSet(OutputsIn(c)) \cup UNION {ToSet(manifest[n].srcs) \cup ToSet(manifest[n].inputs)
                                       \cup Drivers(c.platform, n) : n \in Names}
Configurable(c) ==
    /\ Known(c)
    /\ \A n \in Names : HasTools(c.platform, n)
    /\ IsInjective(OutputsIn(c))
    /\ \A i, k \in DOMAIN ResetsIn(c) : i # k => ~Overlap(ResetsIn(c)[i], ResetsIn(c)[k])
    /\ \A d \in ToSet(ResetsIn(c)) : \A f \in FilesIn(c) : ~IsPrefix(d, f)
Active(sel) ==
    [profile |-> IF sel.profile = Unselected THEN DefaultProfile ELSE sel.profile,
     platform |-> IF sel.platform = Unselected THEN HostPlatform ELSE sel.platform]

\* Mutant: outputs outside the trees are removed for one configuration only.
Mut_OneGraph(sel) ==
    LET tree == TreeOf(Active(sel)) IN
    IF ~Configurable(Active(sel)) THEN {} ELSE Trees(sel) \cup External(tree) \cup Resets(tree)
\* The active configuration is tried before anything is removed, the others
\* between the trees and the rest.
RemovedBy(sel) ==
    IF ~Configurable(Active(sel)) THEN {}
    ELSE IF \E c \in ConfiguredGraphs(sel) : ~Configurable(c) THEN Trees(sel)
    ELSE Trees(sel) \cup
         UNION {External(TreeOf(c)) \cup Resets(TreeOf(c)) : c \in ConfiguredGraphs(sel)}

-----------------------------------------------------------------------------
(* Properties.                                                             *)

\* n depends on d, directly or not.
Upstream(n) == Reachable([m \in Names |-> ToSet(Deps(m))], ToSet(Deps(n)))

TypeOK ==
    /\ phase \in {"load", "configure", "sort", "build", "request", "selected",
                   "refused", "cycle", "two producers", "panic"}
    /\ \A n \in DOMAIN marks :
          marks[n] = "visiting" <=> \E i \in DOMAIN path : path[i].name = n
    /\ IsInjective(order)
    /\ closure \subseteq DOMAIN actions /\ DOMAIN owner = DOMAIN actions

\* What a loaded manifest promises the graph builder, which unwraps commands,
\* indexes outputs and sources and expects a tool: validation looks at the
\* fields as written, the globs are expanded after it.
ValidatedIsBuildable ==
    \A n \in Names :
        LET t == manifest[n] IN
        /\ t.kind \in {"genrule", "command"} => t.outputs # <<>>
        /\ t.kind \in CcKinds => t.srcs # <<>>
        /\ t.kind = "kofun" => Len(t.srcs) = 1
        /\ t.kind = "command" => t.tools # <<>>
        /\ t.kind = "genrule" => t.shell
        /\ t.kind = "test" => t.shell \/ t.tools # <<>>

\* "Nested paths are package relative ... `:name` and `name` resolve in the
\* current package" (docs/06): wherever a package lies, the files it names
\* are its own and what it names without `//` is a target of its own.
PackagesAreSelfContained ==
    phase \notin {"load", "refused"} =>
        \A part \in ToSet(Parts(workspace)) : \A t \in ToSet(part.file.targets) :
            LET m == manifest[Index(manifest, Label(part.package, t.name))] IN
            /\ \A f \in ToSet(m.srcs) \cup ToSet(m.inputs) \cup ToSet(m.outputs) \cup ToSet(m.clean) :
                  IsPrefix(part.package, f)
            /\ \A i \in DOMAIN t.deps : t.deps[i].form \in {"name", ":name"} =>
                  manifest[m.deps[i]].label.package = part.package

\* Loading keeps what validation and the labels promise.
LoadedIsWhole == ValidatedIsBuildable /\ PackagesAreSelfContained

\* The order of translation is a dependency order of all targets, and a
\* manifest is refused for a cycle exactly if its targets depend on each other
\* in one.
TargetsInOrder ==
    /\ phase = "cycle" => \E n \in Names : n \in Upstream(n)
    /\ phase \in {"build", "request", "selected"} =>
          /\ ToSet(order) = Names
          /\ \A i \in DOMAIN order : Upstream(order[i]) \subseteq ToSet(SubSeq(order, 1, i - 1))

\* Every output has one owner, whichever targets claim it ("output ownership
\* is unique", docs/06), also where two labels have the same path_key: no two
\* actions of a graph make the same file.
OneProducer ==
    \A a, b \in DOMAIN actions : a # b =>
        ToSet(actions[a].outputs) \cap ToSet(actions[b].outputs) = {}

\* "Generated headers from (transitive) genrule deps must exist before we
\* compile": through dependencies of every kind, however indirect.
GeneratedFirst ==
    \A a \in DOMAIN actions :
        LET n == owner[a] IN
        manifest[n].kind \in CcKinds /\ IsPrefix(ObjDir, actions[a].outputs[1]) =>
            \A d \in Upstream(n) :
                ToSet(GeneratedBy(TreeOf(config))[d]) \subseteq actions[a].orderOnly

\* A request selects what it needs and nothing else: the closure holds the
\* actions of its targets, and the producers of whatever its actions need,
\* order-only inputs included; no smaller set does.
ClosureIsExact ==
    LET needs(S) ==
            /\ ActionsOfTargets(requested) \subseteq S
            /\ \A a \in S : \A f \in actions[a].inputs \cup actions[a].orderOnly :
                  ProducerIn(actions, f) \in S \cup {0}
    IN  phase = "selected" =>
            needs(closure) /\ \A S \in SUBSET closure : needs(S) => S = closure

\* What an action needs is there when it runs: whatever is generated upstream is
\* an input of what compiles, and who makes an input is in the closure.
NeedsAreMet == GeneratedFirst /\ ClosureIsExact

\* Before it runs, an action empties its clean directories and removes its
\* outputs.  That never takes anything another action made or reads, and no
\* two actions work in one directory ("exclusively owned by one action").
ResetsSpareOthers ==
    phase = "request" => \A a, b \in DOMAIN actions : a # b =>
        \A d \in ToSet(actions[a].clean) :
            /\ \A f \in actions[b].inputs \cup actions[b].orderOnly \cup ToSet(actions[b].outputs) :
                  ~IsPrefix(d, f)
            /\ \A e \in ToSet(actions[b].clean) : ~Overlap(d, e)

\* What an action makes is its own: nobody else makes it, and nobody removes it.
OutputsAreOwned == OneProducer /\ ResetsSpareOthers

\* What a configuration makes, genrules apart: they make the same files in
\* every configuration.  Test stamps are kept apart because clean keeps them.
Made(c, kinds) ==
    UNION {UNION {ToSet(a.outputs) : a \in ToSet(ActionsOf(TreeOf(c), n))} :
              n \in {k \in Names : manifest[k].kind \in kinds}}
Covers(dirs, f) == \E d \in dirs : IsPrefix(d, f)

\* The configurations that can be built: without a declared profile, in any name
\* a user gives.
Configurations ==
    [profile : Profiles, platform : Platforms] \cup {c \in AskedOf(workspace) : Known(c)}
Selections ==
    LET profiles == {c.profile : c \in Configurations \cup AskedOf(workspace)}
    IN  [profile : profiles \cup {Unselected}, platform : Platforms \cup {Unselected}]

\* No platform is called like a profile; see the last property.
NamesApart == Platforms \cap {c.profile : c \in Configurations} = {}

\* "Host and device builds stay warm concurrently" (docs/06): what one
\* configuration makes, and the directories its actions empty, are nobody
\* else's.  Commands are kept apart by ${config} in all their outputs.
ConfigurationsAreApart ==
    phase = "request" /\ NamesApart => \A c, d \in Configurations : c # d =>
        LET theirs == Made(d, Kinds \ {"genrule"})
        IN  /\ Made(c, Kinds \ {"genrule"}) \cap theirs = {}
            /\ \A f \in theirs : ~Covers(Resets(TreeOf(c)), f)

\* What a selection means: neither is everything, a platform is all its
\* profiles, a profile alone is that of the host.
Selected(sel) ==
    {c \in Configurations :
        /\ sel.platform # Unselected => c.platform = sel.platform
        /\ sel.profile # Unselected => c.profile = sel.profile
        /\ sel.profile # Unselected /\ sel.platform = Unselected => c.platform = HostPlatform}
Removable(c) == {f \in Made(c, Kinds) : ~IsPrefix(TestDir, f)}

\* What clean does not find unless it is given the profile: it tries declared ones.
Overlooked(sel) ==
    UNION {Made(c, {"command"}) :
              c \in {d \in Selected(sel) : sel.profile = Unselected /\ d.profile \notin Profiles}}
CleansExactly(sel) ==
    LET mine == UNION {Removable(c) : c \in Selected(sel)}
        theirs == UNION {Removable(c) : c \in Configurations} \ mine
        tried == {Active(sel)} \cup ConfiguredGraphs(sel)
    IN  /\ (\A c \in tried : Configurable(c)) =>
              \A f \in mine \ Overlooked(sel) : Covers(RemovedBy(sel), f)
        /\ \A f \in theirs : ~Covers(RemovedBy(sel), f)

\* Configurations share no files, so that frost clean can remove what the
\* selected ones make, in the trees and outside, and nothing that belongs to
\* others only.  If one that it tries cannot be loaded it may leave the rest, and
\* what a command made outside the trees in a profile nobody declared stays if no
\* profile is named.  The host is selected by not naming a platform: by its name
\* clean finds no trees, though docs/06 lets --platform name any.
CleanIsExact ==
    /\ ConfigurationsAreApart
    /\ phase = "request" /\ NamesApart =>
          \A sel \in Selections : sel.platform # HostPlatform => CleansExactly(sel)

\* "The graph builder rejects cycles" (Schedule::simulate_against).
Acyclic ==
    \A S \in SUBSET DOMAIN actions :
        S # {} => \E a \in S : Producers(a) \cap S = {}
AcceptedIsAcyclic == phase = "request" => Acyclic
=============================================================================
