------------------------------ MODULE Manifest ------------------------------
(***************************************************************************)
(* From the frost.toml files of a workspace to the targets the graph is    *)
(* built from (Manifest::load in crates/frostbuild-core/src/manifest.rs):  *)
(* which fields a target of each kind may have, how the labels and paths   *)
(* of a package become those of the workspace, and how globs expand.       *)
(*                                                                         *)
(* A name or a path component is a tuple of strings, its pieces between    *)
(* underscores and before an extension; a path is a sequence of            *)
(* components.  A glob's last component is <<"*", extension>>.             *)
(*                                                                         *)
(* A parsed file (RawManifest) is a record of `workspace` (is there such a *)
(* section), `defaults`, `profiles`, `platforms`, `tools` and `targets`.   *)
(* A workspace is the file at the root and a sequence of packages, each a  *)
(* path and a file.  Targets and packages come in the order of the labels  *)
(* they get, which is the order of the BTreeMap.                           *)
(***************************************************************************)
EXTENDS Naturals, FiniteSets, SequencesExt

CONSTANTS Tree,         \* the files of the workspace, for globs
          Ignored       \* those .gitignore or .frostignore match

Nowhere == <<>>         \* the package of the root
Config == <<"${config}">>
Reserved == {<<".frost">>, <<".git">>}

CcKinds == {"library", "binary", "cctest"}
Kinds == CcKinds \cup {"genrule", "test", "kofun", "command"}

-----------------------------------------------------------------------------
(* build_target: the fields of a raw target.  `fields` holds the names of  *)
(* the optional fields that are set and have no record field of their own. *)

AdapterFields == {"args", "env", "pass_env", "preserve_outputs"}
HasCommandFields(t) ==
    t.tools # <<>> \/ t.clean # <<>> \/ t.depfile # <<>> \/ t.fields \cap AdapterFields # {}
HasGenruleFields(t) == "cmd" \in t.fields \/ t.inputs # <<>> \/ t.outputs # <<>>
Configured(p) == Config \in ToSet(p)

ValidCc(t) == t.srcs # <<>> /\ ~HasGenruleFields(t) /\ ~HasCommandFields(t)

OneKofunSource(srcs) == Len(srcs) = 1 /\ Last(Last(srcs[1])) = ".kofun"
ValidKofun(t) ==
    /\ OneKofunSource(t.srcs)
    /\ t.fields \cap {"includes", "cflags", "ldflags"} = {}
    /\ ~HasGenruleFields(t) /\ ~HasCommandFields(t)

ValidGenrule(t) ==
    /\ "cmd" \in t.fields /\ t.outputs # <<>>
    /\ t.srcs = <<>> /\ t.fields \cap {"cflags", "ldflags"} = {}
    /\ ~HasCommandFields(t)

ValidEnvironment(t) == "invalid_env" \notin t.fields

ValidTest(t) ==
    /\ "cmd" \in t.fields <=> t.tools = <<>>
    /\ t.outputs = <<>> /\ t.srcs = <<>> /\ t.fields \cap {"cflags", "ldflags"} = {}
    /\ "cmd" \in t.fields => ~HasCommandFields(t)
    /\ "cmd" \notin t.fields =>
          /\ Len(t.tools) = 1 /\ t.clean = <<>> /\ t.depfile = <<>>
          /\ "preserve_outputs" \notin t.fields /\ ValidEnvironment(t)

ValidCommand(t) ==
    /\ t.tools # <<>> /\ t.outputs # <<>>
    /\ \A p \in ToSet(t.outputs) \cup ToSet(t.clean) : Configured(p)
    /\ t.depfile # <<>> => Configured(t.depfile)
    /\ t.srcs = <<>> /\ t.fields \cap {"cmd", "includes", "cflags", "ldflags"} = {}
    /\ ValidEnvironment(t)

Valid(t) ==
    CASE t.kind \in CcKinds -> ValidCc(t)
      [] t.kind = "kofun" -> ValidKofun(t)
      [] t.kind = "genrule" -> ValidGenrule(t)
      [] t.kind = "test" -> ValidTest(t)
      [] t.kind = "command" -> ValidCommand(t)

-----------------------------------------------------------------------------
(* expand_manifest_paths                                                   *)

Prefixed(package, p) == package \o p

IsGlob(p) == Head(Last(p)) = "*"

Matches(p) ==
    {f \in Tree \ Ignored : /\ Front(f) = Front(p) /\ Last(Last(f)) = Last(Last(p))
                            /\ f[1] \notin Reserved}

Expanded(package, paths) ==
    SetToSeq(UNION {IF IsGlob(p) THEN Matches(Prefixed(package, p)) ELSE {Prefixed(package, p)} :
                       p \in ToSet(paths)})

\* "matched no files" is an error, for every pattern by itself.
AllMatch(package, paths) ==
    \A p \in ToSet(paths) : IsGlob(p) => Matches(Prefixed(package, p)) # {}

\* Mutant: the sources are not looked at again after the expansion.
Mut_Unchecked(package, t) == AllMatch(package, t.srcs) /\ AllMatch(package, t.inputs)
Expands(package, t) ==
    /\ AllMatch(package, t.srcs) /\ AllMatch(package, t.inputs)
    /\ t.kind = "kofun" => OneKofunSource(Expanded(package, t.srcs))

-----------------------------------------------------------------------------
(* Labels.  A reference is written `name`, `:name`, `//:name` or           *)
(* `//package:name`: its form, package and name.                           *)

Label(package, name) == [package |-> package, name |-> name]

\* In the file at the root only a leading `//:` is taken off.
RootLabel(ref) ==
    CASE ref.form \in {"name", "//:name"} -> Label(Nowhere, ref.name)
      [] ref.form = ":name" -> Label(Nowhere, <<":">> \o ref.name)
      [] ref.form = "//package:name" -> Label(ref.package, ref.name)

\* Mutant: a bare name is a target of the root.
Mut_BareIsRoot(ref, package) ==
    CASE ref.form \in {"name", "//:name"} -> Label(Nowhere, ref.name)
      [] ref.form = "//package:name" -> Label(ref.package, ref.name)
      [] ref.form = ":name" -> Label(package, ref.name)
ResolveLabel(ref, package) ==
    CASE ref.form = "//:name" -> Label(Nowhere, ref.name)
      [] ref.form = "//package:name" -> Label(ref.package, ref.name)
      [] ref.form \in {"name", ":name"} -> Label(package, ref.name)

Resolved(ref, package) ==
    IF package = Nowhere THEN RootLabel(ref) ELSE ResolveLabel(ref, package)

-----------------------------------------------------------------------------
(* Manifest::load                                                          *)

RootPart(w) == [package |-> Nowhere, file |-> w.root]

\* discover_package_manifests: only below a root with [workspace], and never
\* in a reserved directory.  Packages sort before bare names.
Discovered(package) == ToSet(package) \cap (Reserved \cup {<<"target">>}) = {}
Parts(w) ==
    LET found == [i \in DOMAIN w.packages |->
                     IF Discovered(w.packages[i].package) THEN <<w.packages[i]>> ELSE <<>>]
    IN  Append(IF w.root.workspace THEN FlattenSeq(found) ELSE <<>>, RootPart(w))

TargetOf(package, t) ==
    [label |-> Label(package, t.name), kind |-> t.kind,
     deps |-> [i \in DOMAIN t.deps |-> Resolved(t.deps[i], package)],
     srcs |-> Expanded(package, t.srcs), inputs |-> Expanded(package, t.inputs),
     outputs |-> [i \in DOMAIN t.outputs |-> Prefixed(package, t.outputs[i])],
     clean |-> [i \in DOMAIN t.clean |-> Prefixed(package, t.clean[i])],
     tools |-> t.tools, shell |-> "cmd" \in t.fields]

Labelled(w) ==
    FlattenSeq([i \in DOMAIN Parts(w) |->
        LET part == Parts(w)[i]
        IN  [k \in DOMAIN part.file.targets |-> TargetOf(part.package, part.file.targets[k])]])

Index(list, label) == CHOOSE i \in DOMAIN list : list[i].label = label
LabelsOf(list) == {list[i].label : i \in DOMAIN list}

\* The targets, numbered in the order of their labels.
Targets(w) ==
    LET list == Labelled(w)
    IN  [n \in DOMAIN list |->
           [list[n] EXCEPT !.deps = [i \in DOMAIN @ |-> Index(list, @[i])]]]

\* Without default_targets, the binaries of the root, or all its targets: it
\* is decided before the packages are read.
DefaultLabels(root) ==
    LET own == ToSet(root.targets)
        binaries == {t \in own : t.kind \in {"binary", "kofun"}}
        chosen == IF binaries = {} THEN own ELSE binaries
    IN  IF root.defaults # {} THEN {RootLabel(ref) : ref \in root.defaults}
        ELSE {Label(Nowhere, t.name) : t \in chosen}

HostPlatform == <<"host">>
DefaultProfile == <<"debug">>

\* from_raw_unvalidated, for every file.
ValidFile(file) ==
    /\ \A t \in ToSet(file.targets) : Valid(t)
    /\ HostPlatform \notin DOMAIN file.platforms

\* validate_dependencies and validate_default_targets
ValidReferences(w) ==
    LET list == Labelled(w) IN
    /\ \A n \in DOMAIN list :
          ToSet(list[n].deps) \subseteq LabelsOf(list) \ {list[n].label}
    /\ DefaultLabels(w.root) \subseteq LabelsOf(list)

Accepted(w) ==
    /\ \A part \in ToSet(Parts(w)) :
          /\ ValidFile(part.file)
          /\ \A t \in ToSet(part.file.targets) : Expands(part.package, t)
    /\ ValidReferences(w)

\* What the graph takes from the file at the root besides the targets.
SettingsOf(w) ==
    [defaults |-> {Index(Labelled(w), label) : label \in DefaultLabels(w.root)},
     profiles |-> w.root.profiles,
     platforms |-> w.root.platforms,
     tools |-> w.root.tools]

\* toolchain_for: a platform's tools override those of the root.
KnownPlatform(settings, platform) ==
    platform = HostPlatform \/ platform \in DOMAIN settings.platforms
ToolsFor(settings, platform) ==
    IF platform = HostPlatform THEN settings.tools
    ELSE [tool \in DOMAIN settings.platforms[platform] \cup DOMAIN settings.tools |->
            IF tool \in DOMAIN settings.platforms[platform]
            THEN settings.platforms[platform][tool] ELSE settings.tools[tool]]
=============================================================================
