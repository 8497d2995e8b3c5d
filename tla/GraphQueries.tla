---------------------------- MODULE GraphQueries ----------------------------
(***************************************************************************)
(* frost query on a graph (deps_closure, rdeps_closure and some_path in    *)
(* crates/frostbuild-core/src/graph.rs): the dependencies of a target, its *)
(* dependents, and a path.  Also what the sharing of sets is compared      *)
(* with: copying them.                                                     *)
(***************************************************************************)
EXTENDS ActionGraph

RECURSIVE DepsFrom(_, _)
DepsFrom(stack, seen) ==
    IF stack \subseteq seen THEN seen
    ELSE DepsFrom(UNION {ToSet(Deps(n)) : n \in stack}, seen \cup stack)
DepsClosure(n) == DepsFrom({n}, {})

Users(n) == {m \in Names : n \in ToSet(Deps(m))}
RECURSIVE UsersFrom(_, _)
UsersFrom(stack, seen) ==
    IF stack \subseteq seen THEN seen
    ELSE UsersFrom(UNION {Users(n) : n \in stack}, seen \cup stack)
RdepsClosure(n) == UsersFrom({n}, {})

\* Mutant: a dead end stays on the path.
Mut_DeadEndStays(s) == s
Backtracked(s) == [s EXCEPT !.route = Front(@)]

\* visit(): depth first, every target is entered once.
RECURSIVE Explore(_, _, _)
Explore(s, n, to) ==
    LET entered == [s EXCEPT !.seen = @ \cup {n}, !.route = Append(@, n), !.found = (n = to)]
        tried == FoldLeft(LAMBDA t, d : IF t.found THEN t ELSE Explore(t, d, to), entered, Deps(n))
    IN  IF n \in s.seen THEN s
        ELSE IF n = to THEN entered
        ELSE IF tried.found THEN tried ELSE Backtracked(tried)
SomePath(from, to) == Explore([seen |-> {}, route |-> <<>>, found |-> FALSE], from, to)

-----------------------------------------------------------------------------
(* Properties.                                                             *)

\* Sharing the sets changes nothing: they flatten to what copying the exports
\* of every dependency in turn gives, first occurrence first.
RECURSIVE Copied(_, _)
Copied(own, n) ==
    AddNew(<<>>, own[n] \o FlattenSeq([i \in DOMAIN Deps(n) |-> Copied(own, Deps(n)[i])]))
CopiedFrom(own, n) ==
    AddNew(<<>>, FlattenSeq([i \in DOMAIN Deps(n) |-> Copied(own, Deps(n)[i])]))
SharingIsCopying ==
    phase = "build" => \A n \in Names :
        LET tree == TreeOf(config) IN
        /\ GeneratedFor(tree, n) = CopiedFrom(GeneratedBy(tree), n)
        /\ LibsFor(tree, n) = CopiedFrom(ArchivedBy(tree), n)

\* The three queries give one relation, the transitive closure of the declared
\* dependencies, and somepath shows a path of it.
QueriesAgree ==
    phase = "request" => \A n, m \in Names :
        LET trip == SomePath(n, m)
            connected == m = n \/ m \in Upstream(n)
        IN  /\ m \in DepsClosure(n) <=> connected
            /\ n \in RdepsClosure(m) <=> connected
            /\ trip.found <=> connected
            /\ trip.found =>
                  /\ Head(trip.route) = n /\ Last(trip.route) = m
                  /\ \A i \in 1..Len(trip.route) - 1 :
                        trip.route[i + 1] \in ToSet(Deps(trip.route[i]))

\* Walking the targets, for what they export or for a query, finds what is
\* connected, in the order it should.
WalksAreExact == SharingIsCopying /\ QueriesAgree
=============================================================================
