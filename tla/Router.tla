------------------------------- MODULE Router -------------------------------
(***************************************************************************)
(* The router of monet (routing/router.rs, method_router.rs, route.rs): a  *)
(* value that calls of route, merge, fallback, layer, route_layer and      *)
(* with_state turn into another one, and that answers requests.            *)
(*                                                                         *)
(* Routes are numbered in the order of their registration; a tree maps     *)
(* paths to numbers and two maps say which path has which.  A merge        *)
(* renumbers the routes of the other router.                               *)
(***************************************************************************)
EXTENDS Naturals, Sequences, FiniteSets, SequencesExt

CONSTANTS
  Routers,     \* router values
  Paths,       \* path patterns
  Clash,       \* sets of two patterns that matchit refuses to hold together
  Uris,        \* paths of requests
  Order,       \* the patterns that match a request's path, the best first
  Handlers,    \* handlers
  Services,    \* those that are given to get_service: they take no state
  Fallbacks,   \* handlers for fallback
  Layers,      \* middleware
  States,      \* states for with_state
  Unit,        \* (), the state a served router is called with
  MaxCalls     \* bound on the calls that build routers

NoHandler == "405"
NotFound == "404"

(* The path the history gives to the fallback.                             *)
AnyPath == "*"

ASSUME RouterAssumption ==
  /\ Services \subseteq Handlers
  /\ Order \in [Uris -> Seq(Paths)]
  /\ Unit \in States
  /\ MaxCalls \in Nat
  /\ AnyPath \notin Paths
  /\ NoHandler \notin Handlers \cup Fallbacks

VARIABLES
  life,      \* of a value: "none", "live", "moved" or "panicked"
  router,    \* the values
  promised,  \* what callers may expect: handlers of paths and of AnyPath (history)
  calls      \* the calls so far, other than new

vars == <<life, router, promised, calls>>

Slots == {"get", "head", "post", "options"}

(* MethodEndpoint and Fallback: a handler waits for its state, a route has *)
(* it.  Layers are listed from the innermost.                              *)
None == [kind |-> "None"]
BoxedHandler(h) == [kind |-> "BoxedHandler", h |-> h, state |-> Unit, layers |-> <<>>]
RouteOf(h) == [kind |-> "Route", h |-> h, state |-> Unit, layers |-> <<>>]
DefaultFallback(h) == [kind |-> "Default", h |-> h, state |-> Unit, layers |-> <<>>]

Live(r) == life[r] = "live"

-----------------------------------------------------------------------------
(* MethodRouter.                                                           *)

NewMethodRouter ==
  [on |-> [s \in Slots |-> None], fallback |-> DefaultFallback(NoHandler)]

(* get and get_service; a second handler for GET panics, and is left to    *)
(* MergeForPath, where the same happens.                                   *)
Get(h) == [NewMethodRouter EXCEPT !.on["get"] = BoxedHandler(h)]

GetService(h) == [NewMethodRouter EXCEPT !.on["get"] = RouteOf(h)]

MethodRouterOf(h) ==
  CASE h = NoHandler   -> NewMethodRouter
    [] h \in Services  -> GetService(h)
    [] OTHER           -> Get(h)

(* Map and Route::layer: one more layer around.                            *)
Wrapped(e, l) == IF e = None THEN None ELSE [e EXCEPT !.layers = Append(@, l)]

LayerMethods(mr, l) ==
  [on |-> [s \in Slots |-> Wrapped(mr.on[s], l)], fallback |-> Wrapped(mr.fallback, l)]

(* with_state turns handlers into routes and leaves routes alone.          *)
WithState(e, s) ==
  IF e.kind = "BoxedHandler" THEN [e EXCEPT !.kind = "Route", !.state = s] ELSE e

StateMethods(mr, s) ==
  [on |-> [m \in Slots |-> WithState(mr.on[m], s)], fallback |-> WithState(mr.fallback, s)]

(* Fallback::merge: a default one gives way.                               *)
MergeFallback(a, b) == IF a.kind = "Default" THEN b ELSE IF b.kind = "Default" THEN a ELSE None

(* Mutant: of two handlers of a method the first stays.                    *)
MergeForPathFirst(a, b) ==
  [on |-> [s \in Slots |-> IF a.on[s] = None THEN b.on[s] ELSE a.on[s]],
   fallback |-> MergeFallback(a.fallback, b.fallback)]

(* merge_for_path; None is the error.                                      *)
MergeForPath(a, b) ==
  IF (\E s \in Slots : a.on[s] # None /\ b.on[s] # None)
       \/ MergeFallback(a.fallback, b.fallback) = None
  THEN None
  ELSE [on |-> [s \in Slots |-> IF a.on[s] = None THEN b.on[s] ELSE a.on[s]],
        fallback |-> MergeFallback(a.fallback, b.fallback)]

(* The slots a request is offered to, in the order of call_branches.       *)
Branches(m) ==
  CASE m = "HEAD" -> <<"head", "get">>
    [] m = "GET"  -> <<"get">>
    [] m = "POST" -> <<"post">>
    [] OTHER      -> <<>>

(* A route or handler is called.                                           *)
Answer(e) == [h |-> e.h, state |-> e.state, layers |-> e.layers]

CallMethod(mr, m) ==
  LET hits == {i \in DOMAIN Branches(m) : mr.on[Branches(m)[i]] # None}
  IN  Answer(IF hits = {} THEN mr.fallback ELSE mr.on[Branches(m)[Min(hits)]])

-----------------------------------------------------------------------------
(* Router.  Panic stands for a panic, which consumes the router.           *)

NewRouter ==
  [routes |-> <<>>, toPath |-> <<>>, toId |-> <<>>, default |-> TRUE,
   fallback |-> DefaultFallback(NotFound)]

Panic == [NewRouter EXCEPT !.fallback = None]

(* Node::insert. *)
Refuses(R, p) == \E q \in DOMAIN R.toId : q = p \/ {p, q} \in Clash

Insert(R, p, id) ==
  [R EXCEPT !.toPath = [i \in DOMAIN @ \cup {id} |-> IF i = id THEN p ELSE @[i]],
            !.toId = [q \in DOMAIN @ \cup {p} |-> IF q = p THEN id ELSE @[q]]]

(* new_route: the next number is the number of routes.                     *)
NewRoute(R, p, mr) ==
  IF Refuses(R, p) THEN Panic
  ELSE Insert([R EXCEPT !.routes = Append(@, mr)], p, Len(R.routes) + 1)

(* process_route: a known path takes the methods in, a new one is added.   *)
ProcessRoute(R, p, mr) ==
  IF R = Panic THEN Panic
  ELSE IF p \in DOMAIN R.toId
  THEN LET merged == MergeForPath(R.routes[R.toId[p]], mr)
       IN  IF merged = None THEN Panic ELSE [R EXCEPT !.routes[R.toId[p]] = merged]
  ELSE NewRoute(R, p, mr)

(* Mutant: the routes of the other router are looked up by this one's      *)
(* numbers.                                                                *)
MergedUnderOldNumbers(R, O) ==
  LET path(i) == IF i \in DOMAIN R.toPath THEN R.toPath[i] ELSE O.toPath[i]
      add(acc, i) == ProcessRoute(acc, path(i), O.routes[i])
      fallback == MergeFallback(R.fallback, O.fallback)
      all == FoldLeft(add, R, [i \in 1..Len(O.routes) |-> i])
  IN  IF fallback = None \/ all = Panic THEN Panic
      ELSE [all EXCEPT !.default = @ /\ O.default, !.fallback = fallback]

(* R after each of the routes of O is processed, in the order of O.        *)
Processed(R, O) ==
  LET after[i \in 0..Len(O.routes)] ==
        IF i = 0 THEN R ELSE ProcessRoute(after[i - 1], O.toPath[i], O.routes[i])
  IN  after

(* merge.  (The flags are always set: fallback does not clear them.  It is *)
(* Fallback::merge that finds two fallbacks.)                              *)
Merged(R, O) ==
  LET all == Processed(R, O)[Len(O.routes)]
      fallback == MergeFallback(R.fallback, O.fallback)
  IN  IF (~R.default /\ ~O.default) \/ fallback = None \/ all = Panic THEN Panic
      ELSE [all EXCEPT !.default = @ /\ O.default, !.fallback = fallback]

(* The best of the patterns of S for a request's path, AnyPath if none     *)
(* matches.                                                                *)
Best(u, S) ==
  LET hits == {i \in DOMAIN Order[u] : Order[u][i] \in S}
  IN  IF hits = {} THEN AnyPath ELSE Order[u][Min(hits)]

(* call_with_state; the tree finds the best of the patterns it holds.      *)
Call(R, u, m) ==
  LET p == Best(u, DOMAIN R.toId)
  IN  IF p = AnyPath THEN Answer(R.fallback) ELSE CallMethod(R.routes[R.toId[p]], m)

-----------------------------------------------------------------------------
Init ==
  /\ life = [r \in Routers |-> "none"]
  /\ router = [r \in Routers |-> NewRouter]
  /\ promised = [r \in Routers |-> {}]
  /\ calls = 0

New(r) ==
  /\ life[r] = "none"
  /\ life' = [life EXCEPT ![r] = "live"]
  /\ UNCHANGED <<router, promised, calls>>

Called == calls < MaxCalls /\ calls' = calls + 1

(* r becomes R, or panics and is gone, with what it promised.              *)
Become(r, R, ps) ==
  LET bad == R = Panic IN
  /\ router' = [router EXCEPT ![r] = IF bad THEN NewRouter ELSE R]
  /\ promised' = [promised EXCEPT ![r] = IF bad THEN {} ELSE ps]
  /\ life' = [life EXCEPT ![r] = IF bad THEN "panicked" ELSE "live"]

Promise(p, h, fixed) ==
  [path |-> p, h |-> h, state |-> Unit, fixed |-> fixed, layers |-> <<>>]

(* route, with get(h), or with a MethodRouter that has no handler.         *)
AddRoute(r, p, h) ==
  /\ Live(r) /\ Called
  /\ Become(r, ProcessRoute(router[r], p, MethodRouterOf(h)),
            promised[r] \cup {Promise(p, h, h \in Services)})

(* The other router is consumed. *)
Merge(r, o) ==
  /\ r # o /\ Live(r) /\ Live(o) /\ Called
  /\ LET R == Merged(router[r], router[o])
         bad == R = Panic
     IN  /\ router' = [router EXCEPT ![r] = IF bad THEN NewRouter ELSE R, ![o] = NewRouter]
         /\ promised' = [promised EXCEPT ![r] = IF bad THEN {} ELSE @ \cup promised[o], ![o] = {}]
         /\ life' = [life EXCEPT ![r] = IF bad THEN "panicked" ELSE "live", ![o] = "moved"]

SetFallback(r, h) ==
  /\ Live(r) /\ Called
  /\ router' = [router EXCEPT ![r].fallback = BoxedHandler(h)]
  /\ promised' = [promised EXCEPT ![r] =
       {q \in @ : q.path # AnyPath} \cup {Promise(AnyPath, h, FALSE)}]
  /\ UNCHANGED life

(* layer goes around the fallback too, route_layer does not.               *)
Layer(r, l, fallbackToo) ==
  /\ Live(r) /\ Called
  /\ Become(r, [router[r] EXCEPT
                   !.routes = [i \in DOMAIN @ |-> LayerMethods(@[i], l)],
                   !.fallback = IF fallbackToo THEN Wrapped(@, l) ELSE @],
            {IF q.path # AnyPath \/ fallbackToo THEN [q EXCEPT !.layers = Append(@, l)] ELSE q :
               q \in promised[r]})

SetState(r, s) ==
  /\ Live(r) /\ Called
  /\ Become(r, [router[r] EXCEPT
                   !.routes = [i \in DOMAIN @ |-> StateMethods(@[i], s)],
                   !.fallback = WithState(@, s)],
            {IF q.fixed THEN q ELSE [q EXCEPT !.state = s, !.fixed = TRUE] : q \in promised[r]})

Next ==
  \/ \E r \in Routers :
       \/ New(r)
       \/ \E p \in Paths, h \in Handlers \cup {NoHandler} : AddRoute(r, p, h)
       \/ \E o \in Routers : Merge(r, o)
       \/ \E h \in Fallbacks : SetFallback(r, h)
       \/ \E l \in Layers, fallbackToo \in BOOLEAN : Layer(r, l, fallbackToo)
       \/ \E s \in States : SetState(r, s)

Spec == Init /\ [][Next]_vars

-----------------------------------------------------------------------------
(* What callers may expect of a path.                                      *)
Promises(P, p) == {q \in P : q.path = p /\ q.h # NoHandler}

(* The maps of a router agree with each other and with its routes, so that *)
(* merge finds a path for every number and a request a route for its       *)
(* number (the two calls of expect); and two handlers never stand for one  *)
(* path, nor two fallbacks in one router: a merge or a call of route       *)
(* panics instead of forgetting one of them.                               *)
NodeConsistent ==
  /\ \A r \in Routers : Live(r) =>
       LET R == router[r] IN
       /\ DOMAIN R.toPath = 1..Len(R.routes)
       /\ DOMAIN R.toId \subseteq Paths
       /\ \A i \in DOMAIN R.toPath : R.toId[R.toPath[i]] = i
       /\ \A p \in DOMAIN R.toId : R.toPath[R.toId[p]] = p
  /\ \A r \in Routers : \A p \in Paths \cup {AnyPath} : Cardinality(Promises(promised[r], p)) <= 1

(* An answer to a request is the one that P promises for the best of its   *)
(* patterns.  (Of the answers 404 and 405 layers are left open:            *)
(* Fallback::merge drops those of the first of two default fallbacks.)     *)
AsPromised(P, u, a) ==
  LET p == Best(u, {q.path : q \in P})
  IN  IF Promises(P, p) = {} THEN a.h = (IF p = AnyPath THEN NotFound ELSE NoHandler)
      ELSE \E q \in Promises(P, p) : a = [h |-> q.h, state |-> q.state, layers |-> q.layers]

(* A router answers as the calls that built it promise, through merges and *)
(* renumbering: with the handler registered for the best matching pattern, *)
(* or the last fallback, within the layers added since, with the first     *)
(* state given since.  HEAD is answered by the handler of GET.             *)
Answered ==
  \A r \in Routers : Live(r) =>
    \A u \in Uris, m \in {"GET", "HEAD"} : AsPromised(promised[r], u, Call(router[r], u, m))

=============================================================================
