------------------------------ MODULE MCRouter ------------------------------
(***************************************************************************)
(* Model-checking instance of Router: a plain path and two patterns that  *)
(* clash with each other and match what the plain path matches.            *)
(***************************************************************************)
EXTENDS Serve, TLC

McPaths == {"/a", "/{x}", "/{y}"}
McClash == {{"/{x}", "/{y}"}}
McOrder == ("/a" :> <<"/a", "/{x}", "/{y}">>) @@ ("/c" :> <<"/{x}", "/{y}">>)

\* A handler that extracts, a service that does not, a fallback that may reject.
CONSTANTS h, v, f
McExtractors == (h :> <<"state", "query">>) @@ (f :> <<"result", "rejects">>)

Symmetric == Permutations(Routers) \cup Permutations(Conns)
=============================================================================
