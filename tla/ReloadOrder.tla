---------------------------- MODULE ReloadOrder -----------------------------
(***************************************************************************)
(* The dependency lists of the ModuleRegistry and the order in which       *)
(* perform_coordinated_reload visits them                                  *)
(* (crates/lunatic-process/src/module_registry.rs).                        *)
(***************************************************************************)
EXTENDS Naturals, SequencesExt

CONSTANT Module
VARIABLE dependencies    \* dependencies[m]: the modules that depend on m

vars == dependencies

Init == dependencies = [m \in Module |-> <<>>]

add_dependency(dependent, dependency) ==
  /\ dependent \notin ToSet(dependencies[dependency])
  /\ dependencies' = [dependencies EXCEPT ![dependency] = Append(@, dependent)]

Next == \E a, b \in Module : add_dependency(a, b)
Spec == Init /\ [][Next]_vars

get_dependents(m) == dependencies[m]

\* A module is marked before its dependents are visited.
MarkVisited(visited, m) == visited \cup {m}

\* visit_module: depth first, a module after its dependents.
RECURSIVE visit_module(_, _)
visit_module(st, m) ==
  IF m \in st.visited THEN st
  ELSE LET marked == [st EXCEPT !.visited = MarkVisited(@, m)]
           inner == FoldLeft(LAMBDA s, d : visit_module(s, d), marked, get_dependents(m))
       IN  [inner EXCEPT !.order = Append(@, m)]

OrderReversed(m) ==
  Reverse(visit_module([order |-> <<>>, visited |-> {}], m).order)
get_reload_order(m) ==
  visit_module([order |-> <<>>, visited |-> {}], m).order

-----------------------------------------------------------------------------
(* Properties. *)

\* The modules that depend on m, directly or not, and m itself.
RECURSIVE Affected(_)
Affected(S) ==
  LET T == S \cup UNION {ToSet(dependencies[m]) : m \in S}
  IN  IF T = S THEN S ELSE Affected(T)

\* Every affected module is in the order once, the module itself last, and a module
\* comes after each of its dependents unless the two depend on each other; this
\* holds for cyclic dependencies too.
OrderIsSound ==
  \A m \in Module :
    LET o == get_reload_order(m) IN
    /\ ToSet(o) = Affected({m}) /\ Len(o) = Cardinality(Affected({m}))
    /\ o[Len(o)] = m
    /\ \A i, j \in 1 .. Len(o) :
         o[j] \in ToSet(dependencies[o[i]]) /\ o[i] \notin Affected({o[j]}) => j < i
=============================================================================
