---------------------------- MODULE MCRouteQueues ----------------------------
\* Three sends over two routes: two messages of one route, one of another.
EXTENDS RouteQueues, TLC

CONSTANTS c1, c2, c3, r1, r2

MCRouteOf == c1 :> r1 @@ c2 :> r1 @@ c3 :> r2
MCOwnShards == r1 :> 1 @@ r2 :> 2
MCOneShard == r1 :> 1 @@ r2 :> 1
MCLaneOf == r1 :> 1 @@ r2 :> 1

\* Three messages on a steady topology, or two while the node leaves and returns.
MCInit == RouteInit /\ (leaves = MaxLeaves \/ At(c3, "refused"))
MCSpec == MCInit /\ [][RouteNext]_routeVars /\ RouteFairness
=============================================================================
