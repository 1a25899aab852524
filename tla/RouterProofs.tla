----------------------------- MODULE RouterProofs -----------------------------
(***************************************************************************)
(* A router is, however it was built, what was promised to those who built *)
(* it; and so are the answers of every connection that is served with one. *)
(***************************************************************************)
EXTENDS Serve, SequenceTheorems, FiniteSetTheorems, WellFoundedInduction, TLAPS

(* The endpoint that stands for a promise.                                 *)
Entry(q) == [kind |-> IF q.fixed THEN "Route" ELSE "BoxedHandler",
             h |-> q.h, state |-> q.state, layers |-> q.layers]

(* A default fallback, with whatever layers.                               *)
DefaultOf(e, name) == e = [kind |-> "Default", h |-> name, state |-> Unit, layers |-> e.layers]

(* A method router stands for the promises ps of its path, of which there  *)
(* is one at most.                                                         *)
MethodsRight(mr, ps) ==
  /\ \A s \in Slots : s # "get" => mr.on[s] = None
  /\ ps = {} => mr.on["get"] = None
  /\ \A q \in ps : mr.on["get"] = Entry(q)
  /\ DefaultOf(mr.fallback, NoHandler)

(* A fallback stands for the promises of AnyPath.                          *)
FallbackRight(e, ps) ==
  /\ ps = {} => DefaultOf(e, NotFound)
  /\ \A q \in ps : e = Entry(q)

(* The promises are records, and a handler without a state is given () if  *)
(* it is called.                                                           *)
PromisesRight(P) ==
  \A q \in P :
    /\ q = [path |-> q.path, h |-> q.h, state |-> q.state, fixed |-> q.fixed, layers |-> q.layers]
    /\ q.path \in Paths \cup {AnyPath}
    /\ q.path = AnyPath => q.h # NoHandler
    /\ q.fixed \in BOOLEAN
    /\ ~q.fixed => q.state = Unit

(* The numbers of a router and its tree.                                   *)
NodeRight(R, P) ==
  /\ R.routes \in Seq(ToSet(R.routes))
  /\ DOMAIN R.toPath = 1..Len(R.routes)
  /\ DOMAIN R.toId \subseteq Paths
  /\ \A i \in DOMAIN R.toPath : R.toPath[i] \in DOMAIN R.toId /\ R.toId[R.toPath[i]] = i
  /\ \A p \in DOMAIN R.toId : R.toId[p] \in DOMAIN R.toPath /\ R.toPath[R.toId[p]] = p
  /\ \A p \in Paths : p \in DOMAIN R.toId <=> \E q \in P : q.path = p

(* A router is what P promises.                                            *)
RouterRight(R, P) ==
  /\ R = [routes |-> R.routes, toPath |-> R.toPath, toId |-> R.toId, default |-> TRUE,
          fallback |-> R.fallback]
  /\ PromisesRight(P)
  /\ NodeRight(R, P)
  /\ \A p \in DOMAIN R.toId : MethodsRight(R.routes[R.toId[p]], Promises(P, p))
  /\ FallbackRight(R.fallback, Promises(P, AnyPath))

(* Every router value is what its promises say.                            *)
RouterInv ==
  /\ DOMAIN life = Routers /\ DOMAIN router = Routers /\ DOMAIN promised = Routers
  /\ \A r \in Routers : RouterRight(router[r], promised[r])

(* The extractors that a request which is not well-formed does not pass.   *)
Refusing == {"rejects", "query"}

(* The handler a connection is at is the promised one, and its extractors  *)
(* have passed in order so far.                                            *)
ExtractRight(a, k) ==
  /\ k.req[1] \in Uris
  /\ AsPromised(a.promised, k.req[1], k.ep)
  /\ k.got \in Seq(ExtractorKinds) /\ k.left \in Seq(ExtractorKinds)
  /\ k.got \o k.left = Arguments(k.ep.h)
  /\ ~k.req[3] => ToSet(k.got) \cap Refusing = {}

(* The last answer of a connection to a served router a is the one that a  *)
(* promised, to its own request.                                           *)
LastRight(a, x) ==
  LET ps == Promises(a.promised, Best(x.req[1], {q.path : q \in a.promised}))
  IN  CASE x.kind = "none" -> TRUE
        [] x.kind = "rejected" ->
             ~x.req[3] /\ \E q \in ps : \E j \in DOMAIN Arguments(q.h) : Arguments(q.h)[j] = "rejects"
        [] OTHER ->
             /\ x.got = Arguments(x.by.h)
             /\ ~x.req[3] => ToSet(x.got) \cap Refusing = {}
             /\ AsPromised(a.promised, x.req[1], x.by)

(* A connection has the service that accept made for it.                   *)
ConnRight(a, k) ==
  /\ DOMAIN k = DOMAIN Closed
  /\ k.pc \in {"open", "extract"} => k.service = MakeService(a.router)
  /\ k.pc = "extract" => ExtractRight(a, k)
  /\ LastRight(a, k.last)

(* The routers, the served one, and its connections.                       *)
ServeInv ==
  /\ RouterInv
  /\ RouterRight(app.router, app.promised)
  /\ DOMAIN conn = Conns
  /\ \A c \in Conns : ConnRight(app, conn[c])
  /\ server = "off" => conn = [c \in Conns |-> Closed]

-----------------------------------------------------------------------------
(* Method routers.                                                         *)

(* What an endpoint answers.                                               *)
LEMMA EntryFacts ==
  ASSUME NEW q
  PROVE  /\ Entry(q) # None
         /\ Entry(q).kind \in {"Route", "BoxedHandler"}
         /\ Answer(Entry(q)) = [h |-> q.h, state |-> q.state, layers |-> q.layers]
  BY DEF Entry, None, Answer

(* A default fallback is one, and layers and states leave it one.          *)
LEMMA DefaultFacts ==
  ASSUME NEW e, NEW name, DefaultOf(e, name)
  PROVE  /\ e # None /\ e.kind = "Default" /\ e.h = name
         /\ \A l : DefaultOf(Wrapped(e, l), name)
         /\ \A s : DefaultOf(WithState(e, s), name)
  <1>1. e # None /\ e.kind = "Default" /\ e.h = name
    BY DEF DefaultOf, None
  <1>2. \A s : WithState(e, s) = e
    BY <1>1 DEF WithState
  <1>3. \A l : DefaultOf(Wrapped(e, l), name)
    <2> TAKE l
    <2>1. PICK ls : e = [kind |-> "Default", h |-> name, state |-> Unit, layers |-> ls]
      BY DEF DefaultOf
    <2>2. Wrapped(e, l) = [e EXCEPT !.layers = Append(@, l)]
      BY <1>1 DEF Wrapped
    <2>3. Wrapped(e, l) = [kind |-> "Default", h |-> name, state |-> Unit, layers |-> Append(ls, l)]
      BY <2>1, <2>2
    <2> QED
      BY <2>3 DEF DefaultOf
  <1> QED
    BY <1>1, <1>2, <1>3

(* What get, get_service and new make is right for what is promised.       *)
LEMMA MethodRouterOfRight ==
  ASSUME NEW p, NEW name \in Handlers \cup {NoHandler}
  PROVE  MethodsRight(MethodRouterOf(name), Promises({Promise(p, name, name \in Services)}, p))
  <1> DEFINE q == Promise(p, name, name \in Services)
             ps == Promises({q}, p)
             mr == MethodRouterOf(name)
  <1> USE RouterAssumption
  <1>1. mr.fallback = DefaultFallback(NoHandler) /\ \A s \in Slots : s # "get" => mr.on[s] = None
    BY DEF MethodRouterOf, NewMethodRouter, Get, GetService, Slots
  <1>2. DefaultOf(mr.fallback, NoHandler)
    BY <1>1 DEF DefaultOf, DefaultFallback
  <1>3. q.path = p /\ q.h = name
    BY DEF Promise
  <1>4. ps = IF name = NoHandler THEN {} ELSE {q}
    BY <1>3 DEF Promises
  <1>5. name = NoHandler => mr.on["get"] = None
    BY DEF MethodRouterOf, NewMethodRouter, Slots
  <1>6. ASSUME name # NoHandler
        PROVE  mr.on["get"] = Entry(q)
    <2>1. CASE name \in Services
      <3>1. mr = GetService(name) /\ q = Promise(p, name, TRUE)
        BY <1>6, <2>1 DEF MethodRouterOf
      <3>2. mr.on["get"] = RouteOf(name)
        BY <3>1 DEF GetService, NewMethodRouter, Slots
      <3> QED
        BY <3>1, <3>2 DEF RouteOf, Entry, Promise
    <2>2. CASE name \notin Services
      <3>1. mr = Get(name)
        BY <1>6, <2>2 DEF MethodRouterOf
      <3>2. (name \in Services) = FALSE
        BY <2>2
      <3>3. mr.on["get"] = BoxedHandler(name)
        BY <3>1 DEF Get, NewMethodRouter, Slots
      <3> QED
        BY <3>2, <3>3 DEF BoxedHandler, Entry, Promise
    <2> QED
      BY <2>1, <2>2
  <1> QED
    BY <1>1, <1>2, <1>4, <1>5, <1>6 DEF MethodsRight

(* Of two handlers for one method none is lost: the merge is an error, or  *)
(* one of them is the handler of both.                                     *)
LEMMA MergeForPathRight ==
  ASSUME NEW a, NEW b, NEW ps, NEW qs, MethodsRight(a, ps), MethodsRight(b, qs),
         MergeForPath(a, b) # None
  PROVE  MethodsRight(MergeForPath(a, b), ps \cup qs)
  <1> DEFINE on == [s \in Slots |-> IF a.on[s] = None THEN b.on[s] ELSE a.on[s]]
             fallback == MergeFallback(a.fallback, b.fallback)
  <1>1. /\ MergeForPath(a, b) = [on |-> on, fallback |-> fallback]
        /\ ~ \E s \in Slots : a.on[s] # None /\ b.on[s] # None
    BY DEF MergeForPath
  <1>2. MergeForPath(a, b).on = on /\ MergeForPath(a, b).fallback = fallback
    BY <1>1
  <1>3. DefaultOf(a.fallback, NoHandler) /\ DefaultOf(b.fallback, NoHandler)
    BY DEF MethodsRight
  <1>4. DefaultOf(fallback, NoHandler)
    BY <1>3, DefaultFacts DEF MergeFallback
  <1>5. "get" \in Slots
    BY DEF Slots
  <1>6. ps = {} \/ qs = {}
    BY <1>1, <1>5, EntryFacts DEF MethodsRight
  <1>7. \A s \in Slots : s # "get" => on[s] = None
    BY DEF MethodsRight
  <1>8. ps \cup qs = {} => on["get"] = None
    BY <1>5 DEF MethodsRight
  <1>9. \A q \in ps \cup qs : on["get"] = Entry(q)
    BY <1>5, <1>6, EntryFacts DEF MethodsRight
  <1> HIDE DEF on, fallback
  <1> QED
    BY <1>2, <1>4, <1>7, <1>8, <1>9 DEF MethodsRight

(* A promise that has one more layer, or a state.                          *)
Layered(q, l) == [q EXCEPT !.layers = Append(@, l)]
Fixed(q, s) == IF q.fixed THEN q ELSE [q EXCEPT !.state = s, !.fixed = TRUE]

(* A layer, or a state, does the same to a promise and to its endpoint.    *)
LEMMA PromiseFacts ==
  ASSUME NEW P, PromisesRight(P), NEW q \in P, NEW l, NEW s
  PROVE  /\ Layered(q, l) = [path |-> q.path, h |-> q.h, state |-> q.state, fixed |-> q.fixed,
                             layers |-> Append(q.layers, l)]
         /\ Fixed(q, s) = [path |-> q.path, h |-> q.h, state |-> IF q.fixed THEN q.state ELSE s,
                           fixed |-> TRUE, layers |-> q.layers]
         /\ Wrapped(Entry(q), l) = Entry(Layered(q, l))
         /\ WithState(Entry(q), s) = Entry(Fixed(q, s))
  <1>1. PICK path, name, state, fixed, layers :
          /\ q = [path |-> path, h |-> name, state |-> state, fixed |-> fixed, layers |-> layers]
          /\ fixed \in BOOLEAN
    BY DEF PromisesRight
  <1>2. Layered(q, l) = [path |-> path, h |-> name, state |-> state, fixed |-> fixed,
                         layers |-> Append(layers, l)]
    BY <1>1 DEF Layered
  <1>3. Fixed(q, s) = [path |-> path, h |-> name, state |-> IF fixed THEN state ELSE s,
                       fixed |-> TRUE, layers |-> layers]
    <2>1. CASE fixed
      BY <1>1, <2>1 DEF Fixed
    <2>2. CASE ~fixed
      BY <1>1, <2>2 DEF Fixed
    <2> QED
      BY <2>1, <2>2
  <1>4. Entry(q) = [kind |-> IF fixed THEN "Route" ELSE "BoxedHandler",
                    h |-> name, state |-> state, layers |-> layers]
    BY <1>1 DEF Entry
  <1>5. Wrapped(Entry(q), l) = [kind |-> IF fixed THEN "Route" ELSE "BoxedHandler",
                                h |-> name, state |-> state, layers |-> Append(layers, l)]
    <2>1. Wrapped(Entry(q), l) = [Entry(q) EXCEPT !.layers = Append(@, l)]
      BY EntryFacts DEF Wrapped
    <2>2. PICK kind : kind = IF fixed THEN "Route" ELSE "BoxedHandler"
      OBVIOUS
    <2> QED
      BY <1>4, <2>1, <2>2
  <1>6. WithState(Entry(q), s) = [kind |-> "Route", h |-> name,
                                  state |-> IF fixed THEN state ELSE s, layers |-> layers]
    <2>1. CASE fixed
      BY <1>4, <2>1 DEF WithState
    <2>2. CASE ~fixed
      <3>1. Entry(q) = [kind |-> "BoxedHandler", h |-> name, state |-> state, layers |-> layers]
        BY <1>4, <2>2
      <3>2. WithState(Entry(q), s) = [Entry(q) EXCEPT !.kind = "Route", !.state = s]
        BY <3>1 DEF WithState
      <3>3. [Entry(q) EXCEPT !.kind = "Route", !.state = s]
              = [kind |-> "Route", h |-> name, state |-> s, layers |-> layers]
        <4>1. PICK e : e = [Entry(q) EXCEPT !.kind = "Route"]
          OBVIOUS
        <4>2. e = [kind |-> "Route", h |-> name, state |-> state, layers |-> layers]
          BY <3>1, <4>1
        <4>3. [e EXCEPT !.state = s]
                = [kind |-> "Route", h |-> name, state |-> s, layers |-> layers]
          BY <4>2
        <4> QED
          BY <4>1, <4>3
      <3> QED
        BY <2>2, <3>2, <3>3
    <2> QED
      BY <2>1, <2>2
  <1>7. /\ q.path = path /\ q.h = name /\ q.state = state /\ q.layers = layers
        /\ q.fixed <=> fixed
    BY <1>1
  <1>8. Entry(Layered(q, l)) = Wrapped(Entry(q), l)
    BY <1>2, <1>5 DEF Entry
  <1>9. Entry(Fixed(q, s)) = WithState(Entry(q), s)
    BY <1>3, <1>6 DEF Entry
  <1> QED
    BY <1>1, <1>2, <1>3, <1>7, <1>8, <1>9

(* A layer, or a state, goes to a method router as it does to promises.    *)
LEMMA LayerMethodsRight ==
  ASSUME NEW P, PromisesRight(P), NEW ps \in SUBSET P, NEW mr, MethodsRight(mr, ps), NEW l
  PROVE  MethodsRight(LayerMethods(mr, l), {Layered(q, l) : q \in ps})
  <1>1. /\ \A s \in Slots : LayerMethods(mr, l).on[s] = Wrapped(mr.on[s], l)
        /\ LayerMethods(mr, l).fallback = Wrapped(mr.fallback, l)
    BY DEF LayerMethods
  <1>2. DefaultOf(LayerMethods(mr, l).fallback, NoHandler)
    BY <1>1, DefaultFacts DEF MethodsRight
  <1>3. Wrapped(None, l) = None /\ "get" \in Slots
    BY DEF Wrapped, Slots
  <1>4. \A s \in Slots : s # "get" => LayerMethods(mr, l).on[s] = None
    BY <1>1, <1>3 DEF MethodsRight
  <1>5. {Layered(q, l) : q \in ps} = {} => LayerMethods(mr, l).on["get"] = None
    BY <1>1, <1>3 DEF MethodsRight
  <1>6. \A q \in ps : LayerMethods(mr, l).on["get"] = Entry(Layered(q, l))
    BY <1>1, <1>3, PromiseFacts DEF MethodsRight
  <1> QED
    BY <1>2, <1>4, <1>5, <1>6 DEF MethodsRight

(* with_state on a method router.                                          *)
LEMMA StateMethodsRight ==
  ASSUME NEW P, PromisesRight(P), NEW ps \in SUBSET P, NEW mr, MethodsRight(mr, ps), NEW s
  PROVE  MethodsRight(StateMethods(mr, s), {Fixed(q, s) : q \in ps})
  <1>1. /\ \A m \in Slots : StateMethods(mr, s).on[m] = WithState(mr.on[m], s)
        /\ StateMethods(mr, s).fallback = WithState(mr.fallback, s)
    BY DEF StateMethods
  <1>2. DefaultOf(StateMethods(mr, s).fallback, NoHandler)
    BY <1>1, DefaultFacts DEF MethodsRight
  <1>3. WithState(None, s) = None /\ "get" \in Slots
    BY DEF WithState, None, Slots
  <1>4. \A m \in Slots : m # "get" => StateMethods(mr, s).on[m] = None
    BY <1>1, <1>3 DEF MethodsRight
  <1>5. {Fixed(q, s) : q \in ps} = {} => StateMethods(mr, s).on["get"] = None
    BY <1>1, <1>3 DEF MethodsRight
  <1>6. \A q \in ps : StateMethods(mr, s).on["get"] = Entry(Fixed(q, s))
    BY <1>1, <1>3, PromiseFacts DEF MethodsRight
  <1> QED
    BY <1>2, <1>4, <1>5, <1>6 DEF MethodsRight

-----------------------------------------------------------------------------
(* Routers.                                                                *)

(* A new router promises nothing.                                          *)
LEMMA NewRouterRight == RouterRight(NewRouter, {})
  <1>1. /\ NewRouter.routes = <<>> /\ NewRouter.toPath = <<>> /\ NewRouter.toId = <<>>
        /\ NewRouter.default = TRUE /\ NewRouter.fallback = DefaultFallback(NotFound)
        /\ NewRouter = [routes |-> <<>>, toPath |-> <<>>, toId |-> <<>>, default |-> TRUE,
                        fallback |-> DefaultFallback(NotFound)]
    BY DEF NewRouter
  <1>2. DefaultOf(NewRouter.fallback, NotFound)
    BY <1>1 DEF DefaultOf, DefaultFallback
  <1>3. DOMAIN <<>> = {} /\ Len(<<>>) = 0 /\ 1..0 = {} /\ <<>> \in Seq(ToSet(<<>>))
    OBVIOUS
  <1>4. NodeRight(NewRouter, {})
    BY <1>1, <1>3 DEF NodeRight
  <1>5. FallbackRight(NewRouter.fallback, Promises({}, AnyPath))
    BY <1>2 DEF FallbackRight, Promises
  <1> QED
    BY <1>1, <1>3, <1>4, <1>5 DEF RouterRight, PromisesRight

(* A sequence is one of its own elements.                                  *)
LEMMA SeqOfItsOwn ==
  ASSUME NEW S, NEW s \in Seq(S)
  PROVE  s \in Seq(ToSet(s))
  <1>1. s \in [1..Len(s) -> S] /\ Len(s) \in Nat
    OBVIOUS
  <1>2. s \in [1..Len(s) -> ToSet(s)]
    BY <1>1 DEF ToSet
  <1> QED
    BY <1>1, <1>2, SeqDef

(* The promises of two sets, of a path.                                    *)
LEMMA PromisesUnion ==
  ASSUME NEW P, NEW Q, NEW p
  PROVE  Promises(P \cup Q, p) = Promises(P, p) \cup Promises(Q, p)
  BY DEF Promises

(* A router that is right did not panic.                                   *)
LEMMA RightIsNotPanic ==
  ASSUME NEW R, NEW P, RouterRight(R, P)
  PROVE  R # Panic /\ R.fallback # None
  <1>1. Panic.fallback = None
    BY DEF Panic, NewRouter
  <1>2. CASE Promises(P, AnyPath) = {}
    BY <1>1, <1>2, DefaultFacts DEF RouterRight, FallbackRight
  <1>3. CASE Promises(P, AnyPath) # {}
    BY <1>1, <1>3, EntryFacts DEF RouterRight, FallbackRight
  <1> QED
    BY <1>2, <1>3

(* A path that is new gets the next number.                                *)
LEMMA NewRouteRight ==
  ASSUME NEW R, NEW P, RouterRight(R, P), NEW p \in Paths, p \notin DOMAIN R.toId,
         NEW mr, NEW Q, PromisesRight(Q), Q # {}, \A q \in Q : q.path = p,
         MethodsRight(mr, Promises(Q, p)), NewRoute(R, p, mr) # Panic
  PROVE  RouterRight(NewRoute(R, p, mr), P \cup Q)
  <1>1. PICK routes, toPath, toId, fallback :
          R = [routes |-> routes, toPath |-> toPath, toId |-> toId, default |-> TRUE,
               fallback |-> fallback]
    BY DEF RouterRight
  <1>2. /\ R.routes = routes /\ R.toPath = toPath /\ R.toId = toId /\ R.fallback = fallback
    BY <1>1
  <1>3. PICK n \in Nat : n = Len(routes)
    BY <1>2 DEF RouterRight, NodeRight
  <1> DEFINE routes2 == Append(routes, mr)
             toPath2 == [i \in DOMAIN toPath \cup {n + 1} |-> IF i = n + 1 THEN p ELSE toPath[i]]
             toId2 == [q \in DOMAIN toId \cup {p} |-> IF q = p THEN n + 1 ELSE toId[q]]
             R2 == NewRoute(R, p, mr)
  <1>4. R2 = [routes |-> routes2, toPath |-> toPath2, toId |-> toId2, default |-> TRUE,
              fallback |-> fallback]
    <2>1. PICK A : A = [R EXCEPT !.routes = Append(@, mr)]
      OBVIOUS
    <2>2. A = [routes |-> routes2, toPath |-> toPath, toId |-> toId, default |-> TRUE,
               fallback |-> fallback]
      BY <1>1, <2>1
    <2>3. R2 = Insert(A, p, n + 1)
      BY <1>2, <1>3, <2>1 DEF NewRoute
    <2>4. PICK B : B = [A EXCEPT !.toPath = toPath2]
      OBVIOUS
    <2>5. B = [routes |-> routes2, toPath |-> toPath2, toId |-> toId, default |-> TRUE,
               fallback |-> fallback]
      BY <2>2, <2>4
    <2>6. Insert(A, p, n + 1) = [B EXCEPT !.toId = toId2]
      BY <2>2, <2>4 DEF Insert
    <2> HIDE DEF toId2, toPath2, routes2, R2
    <2> QED
      BY <2>3, <2>5, <2>6
  <1>5. R2.routes = routes2 /\ R2.toPath = toPath2 /\ R2.toId = toId2 /\ R2.fallback = fallback
    BY <1>4
  <1>6. PromisesRight(P \cup Q)
    BY DEF RouterRight, PromisesRight
  <1>7. /\ Len(routes2) = n + 1 /\ routes2 \in Seq(ToSet(routes2))
        /\ \A i \in 1..n : routes2[i] = routes[i]
        /\ routes2[n + 1] = mr
    <2>1. routes \in Seq(ToSet(routes))
      BY <1>2 DEF RouterRight, NodeRight
    <2> DEFINE S == ToSet(routes) \cup {mr}
    <2>2. routes \in Seq(S)
      BY <2>1
    <2>3. routes2 \in Seq(S)
      BY <2>2
    <2>4. /\ Len(routes2) = n + 1 /\ \A i \in 1..n : routes2[i] = routes[i]
          /\ routes2[n + 1] = mr
      BY <1>3, <2>2
    <2>5. routes2 \in Seq(ToSet(routes2))
      BY <2>3, SeqOfItsOwn
    <2> QED
      BY <2>4, <2>5
  <1>8. /\ DOMAIN toPath = 1..n /\ DOMAIN toId \subseteq Paths
        /\ \A i \in 1..n : toPath[i] \in DOMAIN toId /\ toId[toPath[i]] = i
        /\ \A q \in DOMAIN toId : toId[q] \in 1..n /\ toPath[toId[q]] = q
        /\ \A q \in Paths : q \in DOMAIN toId <=> \E x \in P : x.path = q
        /\ \A q \in DOMAIN toId : MethodsRight(routes[toId[q]], Promises(P, q))
        /\ p \notin DOMAIN toId
        /\ FallbackRight(fallback, Promises(P, AnyPath))
    BY <1>2, <1>3 DEF RouterRight, NodeRight
  <1>9. /\ DOMAIN toPath2 = 1..(n + 1) /\ toPath2[n + 1] = p
        /\ \A i \in 1..n : toPath2[i] = toPath[i]
        /\ DOMAIN toId2 = DOMAIN toId \cup {p} /\ toId2[p] = n + 1
        /\ \A q \in DOMAIN toId : toId2[q] = toId[q]
    BY <1>3, <1>8
  <1> HIDE DEF routes2, toPath2, toId2, R2
  <1>10. NodeRight(R2, P \cup Q)
    <2>1. \A i \in 1..(n + 1) : toPath2[i] \in DOMAIN toId2 /\ toId2[toPath2[i]] = i
      BY <1>3, <1>8, <1>9
    <2>2. \A q \in DOMAIN toId2 : toId2[q] \in 1..(n + 1) /\ toPath2[toId2[q]] = q
      BY <1>3, <1>8, <1>9
    <2>3. \A q \in Paths : q \in DOMAIN toId2 <=> \E x \in P \cup Q : x.path = q
      BY <1>8, <1>9
    <2> QED
      BY <1>5, <1>7, <1>8, <1>9, <2>1, <2>2, <2>3 DEF NodeRight
  <1>11. /\ Promises(P \cup Q, p) = Promises(Q, p)
         /\ \A q : q # p => Promises(P \cup Q, q) = Promises(P, q)
    <2>1. Promises(P, p) = {} /\ \A q : q # p => Promises(Q, q) = {}
      BY <1>8 DEF Promises
    <2>2. \A q : Promises(P \cup Q, q) = Promises(P, q) \cup Promises(Q, q)
      BY PromisesUnion
    <2> QED
      BY <2>1, <2>2
  <1>12. ASSUME NEW q \in DOMAIN toId2
         PROVE  MethodsRight(routes2[toId2[q]], Promises(P \cup Q, q))
    <2>1. CASE q = p
      <3>1. Promises(P \cup Q, q) = Promises(Q, p)
        BY <1>11, <2>1
      <3> QED
        BY <1>7, <1>9, <2>1, <3>1
    <2>2. CASE q # p
      <3>1. Promises(P \cup Q, q) = Promises(P, q)
        BY <1>11, <2>2
      <3>2. q \in DOMAIN toId /\ toId2[q] = toId[q] /\ toId[q] \in 1..n
        BY <1>8, <1>9, <2>2
      <3> QED
        BY <1>7, <1>8, <3>1, <3>2
    <2> QED
      BY <2>1, <2>2
  <1>13. Promises(P \cup Q, AnyPath) = Promises(P, AnyPath)
    BY <1>11, RouterAssumption
  <1> QED
    BY <1>4, <1>5, <1>6, <1>8, <1>10, <1>12, <1>13 DEF RouterRight, R2

(* The method router of a path can be exchanged for another one.           *)
LEMMA RouteReplaced ==
  ASSUME NEW R, NEW P, RouterRight(R, P), NEW p \in DOMAIN R.toId,
         NEW mr, NEW Q, PromisesRight(Q), \A q \in Q : q.path = p,
         MethodsRight(mr, Promises(P \cup Q, p))
  PROVE  RouterRight([R EXCEPT !.routes[R.toId[p]] = mr], P \cup Q)
  <1>1. PICK routes, toPath, toId, fallback :
          R = [routes |-> routes, toPath |-> toPath, toId |-> toId, default |-> TRUE,
               fallback |-> fallback]
    BY DEF RouterRight
  <1>2. /\ R.routes = routes /\ R.toPath = toPath /\ R.toId = toId /\ R.fallback = fallback
    BY <1>1
  <1>3. PICK n \in Nat : n = Len(routes)
    BY <1>2 DEF RouterRight, NodeRight
  <1>4. /\ DOMAIN toPath = 1..n /\ DOMAIN toId \subseteq Paths /\ p \in DOMAIN toId
        /\ \A i \in 1..n : toPath[i] \in DOMAIN toId /\ toId[toPath[i]] = i
        /\ \A q \in DOMAIN toId : toId[q] \in 1..n /\ toPath[toId[q]] = q
        /\ \A q \in Paths : q \in DOMAIN toId <=> \E x \in P : x.path = q
        /\ \A q \in DOMAIN toId : MethodsRight(routes[toId[q]], Promises(P, q))
        /\ FallbackRight(fallback, Promises(P, AnyPath))
        /\ routes \in Seq(ToSet(routes))
    BY <1>2, <1>3 DEF RouterRight, NodeRight
  <1>5. PICK id \in 1..n : id = toId[p]
    BY <1>4
  <1> DEFINE routes2 == [routes EXCEPT ![id] = mr]
             R2 == [R EXCEPT !.routes[R.toId[p]] = mr]
  <1>6. R2 = [routes |-> routes2, toPath |-> toPath, toId |-> toId, default |-> TRUE,
              fallback |-> fallback]
    <2>1. R2 = [R EXCEPT !.routes = routes2]
      BY <1>1, <1>2, <1>5
    <2> HIDE DEF routes2, R2
    <2> QED
      BY <1>1, <2>1
  <1>7. R2.routes = routes2 /\ R2.toPath = toPath /\ R2.toId = toId /\ R2.fallback = fallback
    BY <1>6
  <1>8. PromisesRight(P \cup Q)
    BY DEF RouterRight, PromisesRight
  <1>9. /\ Len(routes2) = n /\ routes2 \in Seq(ToSet(routes2)) /\ routes2[id] = mr
        /\ \A i \in 1..n : i # id => routes2[i] = routes[i]
    <2> DEFINE S == ToSet(routes) \cup {mr}
    <2>1. routes \in Seq(S)
      BY <1>4
    <2>2. routes2 \in Seq(S) /\ Len(routes2) = n
      BY <1>3, <2>1
    <2>3. routes2 \in Seq(ToSet(routes2))
      BY <2>2, SeqOfItsOwn
    <2>4. routes2[id] = mr /\ \A i \in 1..n : i # id => routes2[i] = routes[i]
      BY <1>3, <2>1
    <2> QED
      BY <2>2, <2>3, <2>4
  <1> HIDE DEF routes2, R2
  <1>10. NodeRight(R2, P \cup Q)
    <2>1. \A q \in Paths : q \in DOMAIN toId <=> \E x \in P \cup Q : x.path = q
      BY <1>4
    <2> QED
      BY <1>4, <1>7, <1>9, <2>1 DEF NodeRight
  <1>11. \A q : q # p => Promises(P \cup Q, q) = Promises(P, q)
    <2>1. \A q : q # p => Promises(Q, q) = {}
      BY DEF Promises
    <2>2. \A q : Promises(P \cup Q, q) = Promises(P, q) \cup Promises(Q, q)
      BY PromisesUnion
    <2> QED
      BY <2>1, <2>2
  <1>12. ASSUME NEW q \in DOMAIN toId
         PROVE  MethodsRight(routes2[toId[q]], Promises(P \cup Q, q))
    <2>1. CASE q = p
      BY <1>5, <1>9, <2>1
    <2>2. CASE q # p
      <3>1. toId[q] \in 1..n /\ toId[q] # id
        BY <1>4, <1>5, <2>2
      <3> QED
        BY <1>4, <1>9, <1>11, <2>2, <3>1
    <2> QED
      BY <2>1, <2>2
  <1>13. Promises(P \cup Q, AnyPath) = Promises(P, AnyPath)
    BY <1>4, <1>11, RouterAssumption
  <1> QED
    BY <1>4, <1>6, <1>7, <1>8, <1>10, <1>12, <1>13 DEF RouterRight, R2

(* process_route panics, or adds what is promised for the path.            *)
LEMMA ProcessRouteRight ==
  ASSUME NEW R, NEW P, RouterRight(R, P), NEW p \in Paths,
         NEW mr, NEW Q, PromisesRight(Q), Q # {}, \A q \in Q : q.path = p,
         MethodsRight(mr, Promises(Q, p)), ProcessRoute(R, p, mr) # Panic
  PROVE  RouterRight(ProcessRoute(R, p, mr), P \cup Q)
  <1>1. R # Panic
    BY RightIsNotPanic
  <1>2. CASE p \notin DOMAIN R.toId
    <2>1. ProcessRoute(R, p, mr) = NewRoute(R, p, mr)
      BY <1>1, <1>2 DEF ProcessRoute
    <2> QED
      BY <1>2, <2>1, NewRouteRight
  <1>3. CASE p \in DOMAIN R.toId
    <2> DEFINE old == R.routes[R.toId[p]]
    <2>1. PICK merged : merged = MergeForPath(old, mr)
      OBVIOUS
    <2>2. merged # None /\ ProcessRoute(R, p, mr) = [R EXCEPT !.routes[R.toId[p]] = merged]
      BY <1>1, <1>3, <2>1 DEF ProcessRoute
    <2>3. MethodsRight(old, Promises(P, p))
      BY <1>3 DEF RouterRight
    <2>4. MethodsRight(merged, Promises(P, p) \cup Promises(Q, p))
      BY <2>1, <2>2, <2>3, MergeForPathRight
    <2>5. Promises(P, p) \cup Promises(Q, p) = Promises(P \cup Q, p)
      BY PromisesUnion
    <2>6. MethodsRight(merged, Promises(P \cup Q, p))
      BY <2>4, <2>5
    <2> QED
      BY <1>3, <2>2, <2>6, RouteReplaced
  <1> QED
    BY <1>2, <1>3

(* A nonempty set of natural numbers has a least element.                  *)
LEMMA LeastNat ==
  ASSUME NEW T, T \subseteq Nat, T # {}
  PROVE  \E x \in T : \A y \in T : x <= y
  <1>1. \E x \in T : \A y \in T : ~(<<y, x>> \in OpToRel(<, Nat))
    BY NatLessThanWellFounded, WFMin, Zenon
  <1>2. PICK x \in T : \A y \in T : ~(y < x)
    BY <1>1 DEF OpToRel
  <1>3. \A y \in T : x <= y
    BY <1>2
  <1> QED
    BY <1>3

(* Induction, up to a bound.                                               *)
LEMMA UpTo ==
  ASSUME NEW n \in Nat, NEW S, 0 \in S, \A i \in 0..(n - 1) : i \in S => i + 1 \in S
  PROVE  0..n \subseteq S
  <1> SUFFICES ASSUME NEW k \in 0..n, k \notin S
               PROVE  FALSE
    OBVIOUS
  <1> DEFINE T == {i \in 0..n : i \notin S}
  <1>1. PICK x \in T : \A y \in T : x <= y
    <2>1. T \subseteq Nat /\ T # {}
      OBVIOUS
    <2> HIDE DEF T
    <2> QED
      BY <2>1, LeastNat
  <1>2. x # 0 /\ x - 1 \in 0..(n - 1) /\ x - 1 \notin T /\ (x - 1) + 1 = x
    BY <1>1
  <1> QED
    BY <1>1, <1>2

(* The recursive function of Processed is one.                             *)
LEMMA ProcessedFacts ==
  ASSUME NEW R, NEW O, NEW n \in Nat, n = Len(O.routes)
  PROVE  \A i \in 0..n : Processed(R, O)[i] =
           IF i = 0 THEN R ELSE ProcessRoute(Processed(R, O)[i - 1], O.toPath[i], O.routes[i])
  <1> DEFINE Def(g, k) == [i \in 0..k |->
                             IF i = 0 THEN R ELSE ProcessRoute(g[i - 1], O.toPath[i], O.routes[i])]
             S == {k \in 0..n : \E g : g = Def(g, k)}
  <1>1. 0 \in S
    <2>1. PICK g : g = [i \in 0..0 |-> R]
      OBVIOUS
    <2>2. g = Def(g, 0)
      BY <2>1
    <2> QED
      BY <2>2
  <1>2. ASSUME NEW k \in 0..(n - 1), k \in S
        PROVE  k + 1 \in S
    <2>1. PICK g : g = Def(g, k)
      BY <1>2
    <2>2. PICK h : h = [i \in 0..(k + 1) |->
                          IF i <= k THEN g[i]
                          ELSE ProcessRoute(g[k], O.toPath[k + 1], O.routes[k + 1])]
      OBVIOUS
    <2>3. \A i \in 0..(k + 1) : h[i] =
            IF i = 0 THEN R ELSE ProcessRoute(h[i - 1], O.toPath[i], O.routes[i])
      BY <2>1, <2>2
    <2>4. h = Def(h, k + 1)
      BY <2>2, <2>3
    <2>5. k + 1 \in 0..n
      OBVIOUS
    <2> QED
      BY <2>4, <2>5
  <1> HIDE DEF S
  <1>3. n \in S
    BY <1>1, <1>2, UpTo
  <1>4. \E g : g = Def(g, n)
    BY <1>3 DEF S
  <1>5. Processed(R, O) = Def(Processed(R, O), n)
    BY <1>4, Zenon DEF Processed
  <1> QED
    BY <1>5

(* A router with other method routers, another fallback and other promises.*)
LEMMA RouterRebuilt ==
  ASSUME NEW R, NEW P, RouterRight(R, P), NEW routes, NEW e, NEW Q,
         Len(routes) = Len(R.routes), NEW S, routes \in Seq(S), PromisesRight(Q),
         \A p \in Paths : (\E q \in P : q.path = p) <=> \E q \in Q : q.path = p,
         \A p \in DOMAIN R.toId : MethodsRight(routes[R.toId[p]], Promises(Q, p)),
         FallbackRight(e, Promises(Q, AnyPath))
  PROVE  RouterRight([routes |-> routes, toPath |-> R.toPath, toId |-> R.toId, default |-> TRUE,
                      fallback |-> e], Q)
  <1>1. PICK R2 : R2 = [routes |-> routes, toPath |-> R.toPath, toId |-> R.toId, default |-> TRUE,
                        fallback |-> e]
    OBVIOUS
  <1>2. /\ R2.routes = routes /\ R2.toPath = R.toPath /\ R2.toId = R.toId /\ R2.fallback = e
    BY <1>1
  <1>3. routes \in Seq(ToSet(routes))
    BY SeqOfItsOwn
  <1>4. NodeRight(R2, Q)
    BY <1>2, <1>3 DEF RouterRight, NodeRight
  <1>5. RouterRight(R2, Q)
    BY <1>1, <1>2, <1>4 DEF RouterRight
  <1> QED
    BY <1>1, <1>5

(* Of two fallbacks none is lost.                                          *)
LEMMA MergeFallbackRight ==
  ASSUME NEW a, NEW b, NEW ps, NEW qs, FallbackRight(a, ps), FallbackRight(b, qs),
         MergeFallback(a, b) # None
  PROVE  FallbackRight(MergeFallback(a, b), ps \cup qs)
  <1>1. CASE a.kind = "Default"
    <2>1. ps = {} /\ MergeFallback(a, b) = b
      BY <1>1, EntryFacts DEF FallbackRight, MergeFallback
    <2>2. ps \cup qs = qs
      BY <2>1
    <2> QED
      BY <2>1, <2>2
  <1>2. CASE a.kind # "Default"
    <2>1. b.kind = "Default" /\ MergeFallback(a, b) = a
      BY <1>2 DEF MergeFallback
    <2>2. qs = {}
      BY <2>1, EntryFacts DEF FallbackRight
    <2>3. ps \cup qs = ps
      BY <2>2
    <2> QED
      BY <2>1, <2>3
  <1> QED
    BY <1>1, <1>2

(* merge panics, or keeps what was promised of either router.              *)
LEMMA MergedRight ==
  ASSUME NEW R, NEW P, RouterRight(R, P), NEW O, NEW PO, RouterRight(O, PO), Merged(R, O) # Panic
  PROVE  RouterRight(Merged(R, O), P \cup PO)
  <1>1. PICK n \in Nat : n = Len(O.routes)
    BY DEF RouterRight, NodeRight
  <1>2. /\ DOMAIN O.toPath = 1..n /\ DOMAIN O.toId \subseteq Paths
        /\ \A i \in 1..n : O.toPath[i] \in DOMAIN O.toId /\ O.toId[O.toPath[i]] = i
        /\ \A p \in DOMAIN O.toId : O.toId[p] \in 1..n /\ O.toPath[O.toId[p]] = p
        /\ \A p \in Paths : p \in DOMAIN O.toId <=> \E q \in PO : q.path = p
        /\ \A p \in DOMAIN O.toId : MethodsRight(O.routes[O.toId[p]], Promises(PO, p))
        /\ FallbackRight(O.fallback, Promises(PO, AnyPath))
        /\ PromisesRight(PO)
    BY <1>1 DEF RouterRight, NodeRight
  <1>3. PICK f : f = Processed(R, O)
    OBVIOUS
  <1>4. \A i \in 0..n : f[i] =
          IF i = 0 THEN R ELSE ProcessRoute(f[i - 1], O.toPath[i], O.routes[i])
    BY <1>1, <1>3, ProcessedFacts
  <1> DEFINE Upto(i) == {q \in PO : q.path # AnyPath /\ O.toId[q.path] \in 1..i}
             S == {i \in 0..n : f[i] = Panic \/ RouterRight(f[i], P \cup Upto(i))}
  <1>5. 0 \in S
    <2>1. f[0] = R
      BY <1>4
    <2>2. P \cup Upto(0) = P
      OBVIOUS
    <2> QED
      BY <2>1, <2>2
  <1>6. ASSUME NEW i \in 0..(n - 1), i \in S
        PROVE  i + 1 \in S
    <2>1. /\ i \in 0..n /\ i + 1 \in 1..n /\ i + 1 \in 0..n /\ (i + 1) - 1 = i
      OBVIOUS
    <2>2. PICK p \in Paths : p = O.toPath[i + 1] /\ p \in DOMAIN O.toId /\ O.toId[p] = i + 1
      BY <1>2, <2>1
    <2>3. f[i + 1] = ProcessRoute(f[i], p, O.routes[i + 1])
      BY <1>4, <2>1, <2>2
    <2>4. CASE f[i] = Panic
      <3>1. f[i + 1] = Panic
        BY <2>3, <2>4 DEF ProcessRoute
      <3> QED
        BY <2>1, <3>1
    <2>5. CASE f[i] # Panic /\ f[i + 1] # Panic
      <3> DEFINE D == {q \in PO : q.path = p}
      <3>1. RouterRight(f[i], P \cup Upto(i))
        BY <1>6, <2>5
      <3>2. D # {}
        BY <1>2, <2>2
      <3>3. PromisesRight(D)
        BY <1>2 DEF PromisesRight
      <3>4. Promises(D, p) = Promises(PO, p)
        BY DEF Promises
      <3>5. MethodsRight(O.routes[i + 1], Promises(D, p))
        BY <1>2, <2>2, <3>4
      <3>6. RouterRight(f[i + 1], (P \cup Upto(i)) \cup D)
        <4>1. \A q \in D : q.path = p
          OBVIOUS
        <4> HIDE DEF D, Upto
        <4> QED
          BY <2>3, <2>5, <3>1, <3>2, <3>3, <3>5, <4>1, ProcessRouteRight
      <3>7. (P \cup Upto(i)) \cup D = P \cup Upto(i + 1)
        <4>1. ASSUME NEW q \in PO
              PROVE  q \in Upto(i + 1) <=> q \in Upto(i) \/ q \in D
          <5>1. q.path # AnyPath /\ O.toId[q.path] \in 1..(i + 1)
                  <=> q.path # AnyPath /\ (O.toId[q.path] \in 1..i \/ O.toId[q.path] = i + 1)
            OBVIOUS
          <5>2. q.path # AnyPath => q.path \in DOMAIN O.toId
            BY <1>2 DEF PromisesRight
          <5>3. q.path # AnyPath /\ O.toId[q.path] = i + 1 <=> q.path = p
            BY <1>2, <2>2, <5>2, RouterAssumption
          <5> QED
            BY <5>1, <5>3
        <4>2. Upto(i + 1) \subseteq PO /\ Upto(i) \subseteq PO /\ D \subseteq PO
          OBVIOUS
        <4>3. Upto(i + 1) = Upto(i) \cup D
          <5> HIDE DEF Upto, D
          <5> QED
            BY <4>1, <4>2
        <4> HIDE DEF Upto, D
        <4> QED
          BY <4>3
      <3>8. RouterRight(f[i + 1], P \cup Upto(i + 1))
        BY <3>6, <3>7
      <3> QED
        BY <2>1, <3>8
    <2>6. CASE f[i + 1] = Panic
      BY <2>1, <2>6
    <2> QED
      BY <2>4, <2>5, <2>6
  <1>7. n \in S
    <2> HIDE DEF S
    <2> QED
      BY <1>5, <1>6, UpTo
  <1>8. PICK all, fallback : all = f[n] /\ fallback = MergeFallback(R.fallback, O.fallback)
    OBVIOUS
  <1>9. /\ fallback # None /\ all # Panic
        /\ Merged(R, O) = [all EXCEPT !.default = @ /\ O.default, !.fallback = fallback]
    BY <1>1, <1>3, <1>8 DEF Merged
  <1>10. RouterRight(all, P \cup Upto(n))
    BY <1>7, <1>8, <1>9
  <1>11. Merged(R, O) = [routes |-> all.routes, toPath |-> all.toPath, toId |-> all.toId,
                         default |-> TRUE, fallback |-> fallback]
    <2>1. O.default = TRUE /\ all.default = TRUE
      BY <1>10 DEF RouterRight
    <2>2. PICK B : B = [all EXCEPT !.default = @ /\ O.default]
      OBVIOUS
    <2>3. PICK d : d = (all.default /\ O.default)
      OBVIOUS
    <2>4. d = TRUE
      BY <2>1, <2>3
    <2>5. B = [all EXCEPT !.default = d]
      BY <2>2, <2>3
    <2>6. B = [routes |-> all.routes, toPath |-> all.toPath, toId |-> all.toId,
               default |-> TRUE, fallback |-> all.fallback]
      <3>1. PICK routes, toPath, toId, fb :
              all = [routes |-> routes, toPath |-> toPath, toId |-> toId, default |-> TRUE,
                     fallback |-> fb]
        BY <1>10 DEF RouterRight
      <3> QED
        BY <2>4, <2>5, <3>1
    <2>7. Merged(R, O) = [B EXCEPT !.fallback = fallback]
      BY <1>9, <2>2
    <2> QED
      BY <2>6, <2>7
  <1>12. FallbackRight(fallback, Promises(P \cup PO, AnyPath))
    <2>1. FallbackRight(R.fallback, Promises(P, AnyPath))
      BY DEF RouterRight
    <2>2. FallbackRight(fallback, Promises(P, AnyPath) \cup Promises(PO, AnyPath))
      BY <1>2, <1>8, <1>9, <2>1, MergeFallbackRight
    <2>3. Promises(P, AnyPath) \cup Promises(PO, AnyPath) = Promises(P \cup PO, AnyPath)
      BY PromisesUnion
    <2> QED
      BY <2>2, <2>3
  <1>13. ASSUME NEW q \in PO, q.path # AnyPath
         PROVE  q \in Upto(n)
    BY <1>2, <1>13 DEF PromisesRight
  <1>14. \A p \in Paths : Promises(P \cup PO, p) = Promises(P \cup Upto(n), p)
    <2> SUFFICES ASSUME NEW p \in Paths
                 PROVE  Promises(P \cup PO, p) = Promises(P \cup Upto(n), p)
      OBVIOUS
    <2>1. Upto(n) \subseteq PO /\ p # AnyPath
      BY RouterAssumption
    <2> HIDE DEF Upto
    <2> QED
      BY <1>13, <2>1 DEF Promises
  <1>15. PromisesRight(P \cup PO)
    BY <1>2 DEF RouterRight, PromisesRight
  <1>16. \A p \in Paths : (\E q \in P \cup Upto(n) : q.path = p) <=> \E q \in P \cup PO : q.path = p
    <2>1. Upto(n) \subseteq PO
      OBVIOUS
    <2> HIDE DEF Upto
    <2> QED
      BY <1>13, <2>1, RouterAssumption
  <1>17. \A p \in DOMAIN all.toId :
           MethodsRight(all.routes[all.toId[p]], Promises(P \cup PO, p))
    BY <1>10, <1>14 DEF RouterRight, NodeRight
  <1>18. all.routes \in Seq(ToSet(all.routes))
    BY <1>10 DEF RouterRight, NodeRight
  <1>19. PICK P1, Q : P1 = P \cup Upto(n) /\ Q = P \cup PO
    OBVIOUS
  <1>20. /\ RouterRight(all, P1) /\ PromisesRight(Q)
         /\ \A p \in Paths : (\E q \in P1 : q.path = p) <=> \E q \in Q : q.path = p
         /\ \A p \in DOMAIN all.toId : MethodsRight(all.routes[all.toId[p]], Promises(Q, p))
         /\ FallbackRight(fallback, Promises(Q, AnyPath))
    BY <1>10, <1>12, <1>15, <1>16, <1>17, <1>19
  <1>21. RouterRight([routes |-> all.routes, toPath |-> all.toPath, toId |-> all.toId,
                      default |-> TRUE, fallback |-> fallback], Q)
    BY <1>18, <1>20, RouterRebuilt
  <1> QED
    BY <1>11, <1>19, <1>21

(* with_state, and the service of a connection.                            *)
WithStateOn(R, s) ==
  [R EXCEPT !.routes = [i \in DOMAIN @ |-> StateMethods(@[i], s)], !.fallback = WithState(@, s)]

(* The promises, once a state is given.                                    *)
FixedOf(P, s) == {Fixed(q, s) : q \in P}

(* with_state on a router: what it promises has the state.                 *)
LEMMA StateRight ==
  ASSUME NEW R, NEW P, RouterRight(R, P), NEW s
  PROVE  RouterRight(WithStateOn(R, s), FixedOf(P, s))
  <1>1. PICK n \in Nat : n = Len(R.routes)
    BY DEF RouterRight, NodeRight
  <1>2. PICK routes : routes = [i \in DOMAIN R.routes |-> StateMethods(R.routes[i], s)]
    OBVIOUS
  <1>3. PICK e : e = WithState(R.fallback, s)
    OBVIOUS
  <1>4. PICK Q : Q = {Fixed(q, s) : q \in P}
    OBVIOUS
  <1>5. /\ R.routes \in Seq(ToSet(R.routes)) /\ DOMAIN R.routes = 1..n /\ PromisesRight(P)
        /\ DOMAIN R.toId \subseteq Paths /\ \A p \in DOMAIN R.toId : R.toId[p] \in 1..n
        /\ \A p \in DOMAIN R.toId : MethodsRight(R.routes[R.toId[p]], Promises(P, p))
        /\ FallbackRight(R.fallback, Promises(P, AnyPath))
    BY <1>1 DEF RouterRight, NodeRight
  <1>6. /\ Len(routes) = n /\ routes \in Seq({routes[i] : i \in 1..n})
        /\ \A i \in 1..n : routes[i] = StateMethods(R.routes[i], s)
    BY <1>1, <1>2, <1>5
  <1>7. \A q \in P : Fixed(q, s).path = q.path /\ Fixed(q, s).h = q.h
    BY <1>5, PromiseFacts
  <1>8. PromisesRight(Q)
    <2> SUFFICES ASSUME NEW q \in P
                 PROVE  /\ Fixed(q, s) = [path |-> Fixed(q, s).path, h |-> Fixed(q, s).h,
                                          state |-> Fixed(q, s).state, fixed |-> Fixed(q, s).fixed,
                                          layers |-> Fixed(q, s).layers]
                        /\ Fixed(q, s).path \in Paths \cup {AnyPath}
                        /\ Fixed(q, s).path = AnyPath => Fixed(q, s).h # NoHandler
                        /\ Fixed(q, s).fixed = TRUE
      BY <1>4 DEF PromisesRight
    <2>1. q.path \in Paths \cup {AnyPath} /\ (q.path = AnyPath => q.h # NoHandler)
      BY <1>5 DEF PromisesRight
    <2>2. Fixed(q, s) = [path |-> q.path, h |-> q.h, state |-> IF q.fixed THEN q.state ELSE s,
                         fixed |-> TRUE, layers |-> q.layers]
      BY <1>5, PromiseFacts
    <2> QED
      BY <2>1, <2>2
  <1>9. \A p : Promises(Q, p) = {Fixed(q, s) : q \in Promises(P, p)}
    BY <1>4, <1>7 DEF Promises
  <1>10. \A p \in Paths : (\E q \in P : q.path = p) <=> \E q \in Q : q.path = p
    BY <1>4, <1>7
  <1>11. \A p \in DOMAIN R.toId : MethodsRight(routes[R.toId[p]], Promises(Q, p))
    <2> SUFFICES ASSUME NEW p \in DOMAIN R.toId
                 PROVE  MethodsRight(routes[R.toId[p]], Promises(Q, p))
      OBVIOUS
    <2>1. Promises(P, p) \in SUBSET P
      BY DEF Promises
    <2>2. MethodsRight(StateMethods(R.routes[R.toId[p]], s), {Fixed(q, s) : q \in Promises(P, p)})
      BY <1>5, <2>1, StateMethodsRight
    <2> QED
      BY <1>5, <1>6, <1>9, <2>2
  <1>12. FallbackRight(e, Promises(Q, AnyPath))
    <2>1. Promises(Q, AnyPath) = {Fixed(q, s) : q \in Promises(P, AnyPath)}
      BY <1>9
    <2>2. Promises(P, AnyPath) = {} => DefaultOf(e, NotFound)
      BY <1>3, <1>5, DefaultFacts DEF FallbackRight
    <2>3. \A q \in Promises(P, AnyPath) : e = Entry(Fixed(q, s))
      BY <1>3, <1>5, PromiseFacts DEF FallbackRight, Promises
    <2> QED
      BY <2>1, <2>2, <2>3 DEF FallbackRight
  <1>13. WithStateOn(R, s)
           = [routes |-> routes, toPath |-> R.toPath, toId |-> R.toId, default |-> TRUE,
              fallback |-> e]
    <2>1. PICK A : A = [R EXCEPT !.routes = routes]
      OBVIOUS
    <2>2. PICK toPath, toId, rs, fb :
            R = [routes |-> rs, toPath |-> toPath, toId |-> toId, default |-> TRUE, fallback |-> fb]
      BY DEF RouterRight
    <2>3. A = [routes |-> routes, toPath |-> toPath, toId |-> toId, default |-> TRUE, fallback |-> fb]
      BY <2>1, <2>2
    <2>4. [A EXCEPT !.fallback = WithState(@, s)]
            = [routes |-> routes, toPath |-> toPath, toId |-> toId, default |-> TRUE, fallback |-> e]
      <3>1. A.fallback = R.fallback
        BY <2>2, <2>3
      <3>2. [A EXCEPT !.fallback = WithState(@, s)] = [A EXCEPT !.fallback = e]
        BY <1>3, <3>1
      <3>3. [A EXCEPT !.fallback = e]
              = [routes |-> routes, toPath |-> toPath, toId |-> toId, default |-> TRUE,
                 fallback |-> e]
        <4>1. PICK B : B = [A EXCEPT !.fallback = e]
          OBVIOUS
        <4>2. B = [routes |-> routes, toPath |-> toPath, toId |-> toId, default |-> TRUE,
                   fallback |-> e]
          BY <2>3, <4>1
        <4> QED
          BY <4>1, <4>2
      <3> QED
        BY <3>2, <3>3
    <2> QED
      BY <1>2, <2>1, <2>2, <2>4 DEF WithStateOn
  <1>14. RouterRight([routes |-> routes, toPath |-> R.toPath, toId |-> R.toId, default |-> TRUE,
                      fallback |-> e], Q)
    BY <1>1, <1>6, <1>8, <1>10, <1>11, <1>12, RouterRebuilt
  <1> QED
    BY <1>4, <1>13, <1>14 DEF FixedOf

(* layer and route_layer.                                                  *)
LayerOn(R, l, fallbackToo) ==
  [R EXCEPT !.routes = [i \in DOMAIN @ |-> LayerMethods(@[i], l)],
            !.fallback = IF fallbackToo THEN Wrapped(@, l) ELSE @]

(* The promises, once a layer is put around them.                          *)
LayeredOf(P, l, fallbackToo) ==
  {IF q.path # AnyPath \/ fallbackToo THEN Layered(q, l) ELSE q : q \in P}

(* layer and route_layer: what the router promises has the layer.          *)
LEMMA LayerRight ==
  ASSUME NEW R, NEW P, RouterRight(R, P), NEW l, NEW fallbackToo \in BOOLEAN
  PROVE  RouterRight(LayerOn(R, l, fallbackToo), LayeredOf(P, l, fallbackToo))
  <1>1. PICK n \in Nat : n = Len(R.routes)
    BY DEF RouterRight, NodeRight
  <1>2. PICK routes : routes = [i \in DOMAIN R.routes |-> LayerMethods(R.routes[i], l)]
    OBVIOUS
  <1>3. PICK e : e = IF fallbackToo THEN Wrapped(R.fallback, l) ELSE R.fallback
    OBVIOUS
  <1> DEFINE Touched(q) == IF q.path # AnyPath \/ fallbackToo THEN Layered(q, l) ELSE q
  <1>4. PICK Q : Q = {Touched(q) : q \in P}
    OBVIOUS
  <1>5. /\ R.routes \in Seq(ToSet(R.routes)) /\ DOMAIN R.routes = 1..n /\ PromisesRight(P)
        /\ DOMAIN R.toId \subseteq Paths /\ \A p \in DOMAIN R.toId : R.toId[p] \in 1..n
        /\ \A p \in DOMAIN R.toId : MethodsRight(R.routes[R.toId[p]], Promises(P, p))
        /\ FallbackRight(R.fallback, Promises(P, AnyPath))
    BY <1>1 DEF RouterRight, NodeRight
  <1>6. /\ Len(routes) = n /\ routes \in Seq({routes[i] : i \in 1..n})
        /\ \A i \in 1..n : routes[i] = LayerMethods(R.routes[i], l)
    BY <1>1, <1>2, <1>5
  <1>7. \A q \in P : Touched(q).path = q.path /\ Touched(q).h = q.h
    BY <1>5, PromiseFacts
  <1>8. PromisesRight(Q)
    <2> SUFFICES ASSUME NEW q \in P
                 PROVE  PromisesRight({Touched(q)})
      BY <1>4 DEF PromisesRight
    <2>1. PromisesRight({q})
      BY <1>5 DEF PromisesRight
    <2>2. PromisesRight({Layered(q, l)})
      <3>1. Layered(q, l) = [path |-> q.path, h |-> q.h, state |-> q.state, fixed |-> q.fixed,
                             layers |-> Append(q.layers, l)]
        BY <1>5, PromiseFacts
      <3>2. /\ Layered(q, l).path = q.path /\ Layered(q, l).h = q.h /\ Layered(q, l).state = q.state
            /\ Layered(q, l).fixed = q.fixed /\ Layered(q, l).layers = Append(q.layers, l)
        BY <3>1
      <3> QED
        BY <2>1, <3>1, <3>2 DEF PromisesRight
    <2> QED
      BY <2>1, <2>2
  <1>9. \A p : Promises(Q, p) = {Touched(q) : q \in Promises(P, p)}
    <2> HIDE DEF New
    <2> QED
      BY <1>4, <1>7 DEF Promises
  <1>10. \A p \in Paths : (\E q \in P : q.path = p) <=> \E q \in Q : q.path = p
    <2> HIDE DEF New
    <2> QED
      BY <1>4, <1>7
  <1>11. \A p \in DOMAIN R.toId : MethodsRight(routes[R.toId[p]], Promises(Q, p))
    <2> SUFFICES ASSUME NEW p \in DOMAIN R.toId
                 PROVE  MethodsRight(routes[R.toId[p]], Promises(Q, p))
      OBVIOUS
    <2>1. Promises(P, p) \in SUBSET P
      BY DEF Promises
    <2>2. MethodsRight(LayerMethods(R.routes[R.toId[p]], l), {Layered(q, l) : q \in Promises(P, p)})
      BY <1>5, <2>1, LayerMethodsRight
    <2>3. \A q \in Promises(P, p) : Touched(q) = Layered(q, l)
      BY <1>5, RouterAssumption DEF Promises
    <2>4. {Touched(q) : q \in Promises(P, p)} = {Layered(q, l) : q \in Promises(P, p)}
      <3> HIDE DEF New
      <3> QED
        BY <2>3
    <2> QED
      BY <1>5, <1>6, <1>9, <2>2, <2>4
  <1>12. FallbackRight(e, Promises(Q, AnyPath))
    <2>1. Promises(Q, AnyPath) = {Touched(q) : q \in Promises(P, AnyPath)}
      BY <1>9
    <2>2. Promises(P, AnyPath) = {} => DefaultOf(e, NotFound)
      BY <1>3, <1>5, DefaultFacts DEF FallbackRight
    <2>3. \A q \in Promises(P, AnyPath) : e = Entry(Touched(q))
      BY <1>3, <1>5, PromiseFacts DEF FallbackRight, Promises
    <2> QED
      BY <2>1, <2>2, <2>3 DEF FallbackRight
  <1>13. LayerOn(R, l, fallbackToo)
           = [routes |-> routes, toPath |-> R.toPath, toId |-> R.toId, default |-> TRUE,
              fallback |-> e]
    <2>1. PICK A : A = [R EXCEPT !.routes = routes]
      OBVIOUS
    <2>2. PICK toPath, toId, rs, fb :
            R = [routes |-> rs, toPath |-> toPath, toId |-> toId, default |-> TRUE, fallback |-> fb]
      BY DEF RouterRight
    <2>3. A = [routes |-> routes, toPath |-> toPath, toId |-> toId, default |-> TRUE, fallback |-> fb]
      BY <2>1, <2>2
    <2>4. [A EXCEPT !.fallback = IF fallbackToo THEN Wrapped(@, l) ELSE @]
            = [routes |-> routes, toPath |-> toPath, toId |-> toId, default |-> TRUE, fallback |-> e]
      <3>1. A.fallback = R.fallback
        BY <2>2, <2>3
      <3>2. [A EXCEPT !.fallback = IF fallbackToo THEN Wrapped(@, l) ELSE @] = [A EXCEPT !.fallback = e]
        BY <1>3, <3>1
      <3>3. [A EXCEPT !.fallback = e]
              = [routes |-> routes, toPath |-> toPath, toId |-> toId, default |-> TRUE,
                 fallback |-> e]
        <4>1. PICK B : B = [A EXCEPT !.fallback = e]
          OBVIOUS
        <4>2. B = [routes |-> routes, toPath |-> toPath, toId |-> toId, default |-> TRUE,
                   fallback |-> e]
          BY <2>3, <4>1
        <4> QED
          BY <4>1, <4>2
      <3> QED
        BY <3>2, <3>3
    <2> QED
      BY <1>2, <2>1, <2>2, <2>4 DEF LayerOn
  <1>14. RouterRight([routes |-> routes, toPath |-> R.toPath, toId |-> R.toId, default |-> TRUE,
                      fallback |-> e], Q)
    BY <1>1, <1>6, <1>8, <1>10, <1>11, <1>12, RouterRebuilt
  <1> QED
    BY <1>4, <1>13, <1>14 DEF LayeredOf

(* fallback: the last one counts.                                          *)
LEMMA FallbackSetRight ==
  ASSUME NEW R, NEW P, RouterRight(R, P), NEW name, name # NoHandler
  PROVE  RouterRight([R EXCEPT !.fallback = BoxedHandler(name)],
                     {q \in P : q.path # AnyPath} \cup {Promise(AnyPath, name, FALSE)})
  <1>1. PICK q0, Q : /\ q0 = Promise(AnyPath, name, FALSE)
                     /\ Q = {q \in P : q.path # AnyPath} \cup {q0}
    OBVIOUS
  <1>2. q0.path = AnyPath /\ q0.h = name /\ PromisesRight({q0}) /\ BoxedHandler(name) = Entry(q0)
    BY <1>1 DEF Promise, PromisesRight, BoxedHandler, Entry
  <1>3. PromisesRight(Q)
    BY <1>1, <1>2 DEF PromisesRight, RouterRight
  <1>4. \A p \in Paths : Promises(Q, p) = Promises(P, p)
    BY <1>1, <1>2, RouterAssumption DEF Promises
  <1>5. Promises(Q, AnyPath) = {q0}
    BY <1>1, <1>2 DEF Promises
  <1>6. FallbackRight(BoxedHandler(name), Promises(Q, AnyPath))
    BY <1>2, <1>5 DEF FallbackRight
  <1>7. \A p \in Paths : (\E q \in P : q.path = p) <=> \E q \in Q : q.path = p
    BY <1>1, <1>2, RouterAssumption
  <1>8. \A p \in DOMAIN R.toId : MethodsRight(R.routes[R.toId[p]], Promises(Q, p))
    BY <1>4 DEF RouterRight, NodeRight
  <1>9. R.routes \in Seq(ToSet(R.routes))
    BY DEF RouterRight, NodeRight
  <1>10. RouterRight([routes |-> R.routes, toPath |-> R.toPath, toId |-> R.toId, default |-> TRUE,
                      fallback |-> BoxedHandler(name)], Q)
    BY <1>3, <1>6, <1>7, <1>8, <1>9, RouterRebuilt
  <1>11. [R EXCEPT !.fallback = BoxedHandler(name)]
           = [routes |-> R.routes, toPath |-> R.toPath, toId |-> R.toId, default |-> TRUE,
              fallback |-> BoxedHandler(name)]
    <2>1. PICK toPath, toId, rs, fb :
            R = [routes |-> rs, toPath |-> toPath, toId |-> toId, default |-> TRUE, fallback |-> fb]
      BY DEF RouterRight
    <2>2. R.routes = rs /\ R.toPath = toPath /\ R.toId = toId
      BY <2>1
    <2>3. PICK b : b = BoxedHandler(name)
      OBVIOUS
    <2>4. PICK B : B = [R EXCEPT !.fallback = b]
      OBVIOUS
    <2>5. B = [routes |-> rs, toPath |-> toPath, toId |-> toId, default |-> TRUE, fallback |-> b]
      BY <2>1, <2>4
    <2> QED
      BY <2>2, <2>3, <2>4, <2>5
  <1> QED
    BY <1>1, <1>10, <1>11

-----------------------------------------------------------------------------
(* Answers.                                                                *)

(* GET and HEAD are answered by the handler for GET, if there is one.      *)
LEMMA CallMethodRight ==
  ASSUME NEW mr, NEW ps, MethodsRight(mr, ps), NEW m \in {"GET", "HEAD"}
  PROVE  /\ ps = {} => CallMethod(mr, m).h = NoHandler
         /\ \A q \in ps : CallMethod(mr, m) = Answer(Entry(q))
  <1> DEFINE bs == Branches(m)
             hits == {i \in DOMAIN bs : mr.on[bs[i]] # None}
  <1>1. PICK k \in {1, 2} : /\ bs[k] = "get" /\ DOMAIN bs = 1..k
                            /\ \A i \in 1..k : i # k => bs[i] = "head"
    <2>1. CASE m = "GET"
      BY <2>1 DEF Branches
    <2>2. CASE m = "HEAD"
      BY <2>2 DEF Branches
    <2> QED
      BY <2>1, <2>2
  <1>2. mr.on["head"] = None
    BY DEF MethodsRight, Slots
  <1>3. hits = IF mr.on["get"] = None THEN {} ELSE {k}
    BY <1>1, <1>2
  <1>4. Min({k}) = k
    BY <1>1 DEF Min
  <1>5. CallMethod(mr, m) = Answer(IF mr.on["get"] = None THEN mr.fallback ELSE mr.on["get"])
    BY <1>1, <1>3, <1>4 DEF CallMethod
  <1>6. Answer(mr.fallback).h = NoHandler
    BY DefaultFacts DEF MethodsRight, Answer
  <1> QED
    BY <1>5, <1>6, EntryFacts DEF MethodsRight

(* The best of some patterns for a path is one of them that matches it.    *)
LEMMA BestFacts ==
  ASSUME NEW u \in Uris, NEW S
  PROVE  /\ Best(u, S) = AnyPath \/ (Best(u, S) \in S /\ Best(u, S) \in Paths)
         /\ \A T : S \cap Paths = T \cap Paths => Best(u, S) = Best(u, T)
  <1> DEFINE hits(X) == {i \in DOMAIN Order[u] : Order[u][i] \in X}
  <1>1. /\ DOMAIN Order[u] \subseteq Nat
        /\ \A i \in DOMAIN Order[u] : Order[u][i] \in Paths
    BY RouterAssumption
  <1>2. \A T : S \cap Paths = T \cap Paths => hits(S) = hits(T)
    BY <1>1
  <1>3. \A X : Best(u, X) = IF hits(X) = {} THEN AnyPath ELSE Order[u][Min(hits(X))]
    BY DEF Best
  <1>4. ASSUME hits(S) # {}
        PROVE  Min(hits(S)) \in hits(S)
    <2>1. hits(S) \subseteq Nat
      BY <1>1
    <2>2. PICK X : X = hits(S)
      OBVIOUS
    <2>3. \E x \in X : \A y \in X : x <= y
      BY <1>4, <2>1, <2>2, LeastNat
    <2>4. Min(X) \in X
      BY <2>3 DEF Min
    <2> QED
      BY <2>2, <2>4
  <1> QED
    BY <1>1, <1>2, <1>3, <1>4

(* A router that is what P promises answers as P promises.                 *)
LEMMA CallRight ==
  ASSUME NEW R, NEW P, RouterRight(R, P), NEW u \in Uris, NEW m \in {"GET", "HEAD"}
  PROVE  AsPromised(P, u, Call(R, u, m))
  <1> DEFINE S == {q.path : q \in P}
             p == Best(u, S)
             a == Call(R, u, m)
             ps == Promises(P, p)
  <1>1. DOMAIN R.toId \cap Paths = S \cap Paths
    BY DEF RouterRight, NodeRight
  <1>2. Best(u, DOMAIN R.toId) = p
    <2> HIDE DEF S
    <2> QED
      BY <1>1, BestFacts
  <1>3. p = AnyPath \/ p \in DOMAIN R.toId
    BY <1>2, BestFacts
  <1>4. a = IF p = AnyPath THEN Answer(R.fallback) ELSE CallMethod(R.routes[R.toId[p]], m)
    BY <1>2 DEF Call
  <1>5. ps = {} => a.h = IF p = AnyPath THEN NotFound ELSE NoHandler
    <2>1. CASE p = AnyPath
      BY <1>4, <2>1, DefaultFacts DEF RouterRight, FallbackRight, Answer
    <2>2. CASE p # AnyPath
      BY <1>3, <1>4, <2>2, CallMethodRight DEF RouterRight
    <2> QED
      BY <2>1, <2>2
  <1>6. \A q \in ps : a = Answer(Entry(q))
    <2>1. CASE p = AnyPath
      BY <1>4, <2>1 DEF RouterRight, FallbackRight
    <2>2. CASE p # AnyPath
      BY <1>3, <1>4, <2>2, CallMethodRight DEF RouterRight
    <2> QED
      BY <2>1, <2>2
  <1>7. \A q \in ps : a = [h |-> q.h, state |-> q.state, layers |-> q.layers]
    BY <1>6, EntryFacts
  <1>8. AsPromised(P, u, a) <=>
          IF ps = {} THEN a.h = (IF p = AnyPath THEN NotFound ELSE NoHandler)
          ELSE \E q \in ps : a = [h |-> q.h, state |-> q.state, layers |-> q.layers]
    BY Zenon DEF AsPromised
  <1>9. PICK x, X : x = a /\ X = ps
    OBVIOUS
  <1>10. CASE X = {}
    BY <1>5, <1>8, <1>9, <1>10, Zenon
  <1>11. CASE X # {}
    <2>1. PICK q \in X : x = [h |-> q.h, state |-> q.state, layers |-> q.layers]
      BY <1>7, <1>9, <1>11
    <2> QED
      BY <1>8, <1>9, <1>11, <2>1, Zenon
  <1> QED
    BY <1>10, <1>11

(* One handler for a path, and one fallback.                               *)
LEMMA OnePromise ==
  ASSUME NEW R, NEW P, RouterRight(R, P), NEW p \in Paths \cup {AnyPath}
  PROVE  Cardinality(Promises(P, p)) <= 1
  <1>1. ASSUME NEW q \in Promises(P, p), NEW x \in Promises(P, p)
        PROVE  q = x
    <2>1. q \in P /\ x \in P /\ q.path = p /\ x.path = p
      BY DEF Promises
    <2>2. Entry(q) = Entry(x)
      <3>1. CASE p = AnyPath
        BY <3>1 DEF RouterRight, FallbackRight
      <3>2. CASE p \in Paths
        <4>1. p \in DOMAIN R.toId
          BY <2>1, <3>2 DEF RouterRight, NodeRight
        <4> QED
          BY <4>1 DEF RouterRight, MethodsRight
      <3> QED
        BY <3>1, <3>2
    <2>3. /\ Entry(q).h = q.h /\ Entry(q).state = q.state /\ Entry(q).layers = q.layers
          /\ Entry(x).h = x.h /\ Entry(x).state = x.state /\ Entry(x).layers = x.layers
          /\ Entry(q).kind = IF q.fixed THEN "Route" ELSE "BoxedHandler"
          /\ Entry(x).kind = IF x.fixed THEN "Route" ELSE "BoxedHandler"
      BY DEF Entry
    <2>4. q.h = x.h /\ q.state = x.state /\ q.layers = x.layers
      BY <2>2, <2>3
    <2>5. q.fixed = x.fixed
      <3>1. q.fixed \in BOOLEAN /\ x.fixed \in BOOLEAN
        BY <2>1 DEF RouterRight, PromisesRight
      <3>2. CASE q.fixed /\ x.fixed
        BY <3>1, <3>2
      <3>3. CASE ~q.fixed /\ ~x.fixed
        BY <3>1, <3>3
      <3> QED
        BY <2>2, <2>3, <3>2, <3>3
    <2>6. /\ q = [path |-> q.path, h |-> q.h, state |-> q.state, fixed |-> q.fixed,
                  layers |-> q.layers]
          /\ x = [path |-> x.path, h |-> x.h, state |-> x.state, fixed |-> x.fixed,
                  layers |-> x.layers]
      BY <2>1 DEF RouterRight, PromisesRight
    <2> QED
      BY <2>1, <2>4, <2>5, <2>6, Zenon
  <1>2. CASE Promises(P, p) = {}
    BY <1>2, FS_EmptySet
  <1>3. CASE Promises(P, p) # {}
    <2>1. PICK q \in Promises(P, p) : TRUE
      BY <1>3
    <2>2. Promises(P, p) = {q}
      BY <1>1, <2>1
    <2>3. Cardinality({q}) = 1
      BY FS_Singleton
    <2> QED
      BY <2>2, <2>3
  <1> QED
    BY <1>2, <1>3

-----------------------------------------------------------------------------
(* The calls that build routers.                                           *)

(* There are no routers at first.                                          *)
LEMMA RouterInvInit == Init => RouterInv
  BY NewRouterRight DEF Init, RouterInv

(* A value that becomes another one is right, or has panicked and promises *)
(* nothing.                                                                *)
LEMMA BecomeRight ==
  ASSUME RouterInv, NEW r \in Routers, NEW R, NEW P, Become(r, R, P),
         R # Panic => RouterRight(R, P)
  PROVE  RouterInv'
  <1>1. /\ DOMAIN life' = Routers /\ DOMAIN router' = Routers /\ DOMAIN promised' = Routers
    BY DEF Become, RouterInv
  <1>2. \A x \in Routers : x # r => router'[x] = router[x] /\ promised'[x] = promised[x]
    BY DEF Become, RouterInv
  <1>3. RouterRight(router'[r], promised'[r])
    <2>1. CASE R = Panic
      <3>1. router'[r] = NewRouter /\ promised'[r] = {}
        BY <2>1 DEF Become, RouterInv
      <3> QED
        BY <3>1, NewRouterRight
    <2>2. CASE R # Panic
      <3>1. router'[r] = R /\ promised'[r] = P
        BY <2>2 DEF Become, RouterInv
      <3> QED
        BY <2>2, <3>1
    <2> QED
      BY <2>1, <2>2
  <1>4. \A x \in Routers : RouterRight(router'[x], promised'[x])
    BY <1>2, <1>3 DEF RouterInv
  <1> QED
    BY <1>1, <1>4 DEF RouterInv

(* Router::new.                                                            *)
LEMMA NewInv ==
  ASSUME RouterInv, NEW r \in Routers, New(r)
  PROVE  RouterInv'
  BY DEF RouterInv, New

(* route keeps the invariant.                                              *)
LEMMA AddRouteInv ==
  ASSUME RouterInv, NEW r \in Routers, NEW p \in Paths, NEW name \in Handlers \cup {NoHandler},
         AddRoute(r, p, name)
  PROVE  RouterInv'
  <1>1. PICK q, mr : q = Promise(p, name, name \in Services) /\ mr = MethodRouterOf(name)
    OBVIOUS
  <1>2. RouterRight(router[r], promised[r])
    BY DEF RouterInv
  <1>3. q.path = p /\ PromisesRight({q})
    BY <1>1, RouterAssumption DEF Promise, PromisesRight
  <1>4. MethodsRight(mr, Promises({q}, p))
    BY <1>1, MethodRouterOfRight
  <1>5. Become(r, ProcessRoute(router[r], p, mr), promised[r] \cup {q})
    BY <1>1 DEF AddRoute
  <1>6. ProcessRoute(router[r], p, mr) # Panic =>
          RouterRight(ProcessRoute(router[r], p, mr), promised[r] \cup {q})
    <2>1. PICK Q : Q = {q}
      OBVIOUS
    <2>2. Q # {} /\ PromisesRight(Q) /\ (\A x \in Q : x.path = p) /\ MethodsRight(mr, Promises(Q, p))
      BY <1>3, <1>4, <2>1
    <2>3. ProcessRoute(router[r], p, mr) # Panic =>
            RouterRight(ProcessRoute(router[r], p, mr), promised[r] \cup Q)
      BY <1>2, <2>2, ProcessRouteRight
    <2> QED
      BY <2>1, <2>3
  <1> QED
    BY <1>5, <1>6, BecomeRight

(* merge keeps the invariant.                                              *)
LEMMA MergeInv ==
  ASSUME RouterInv, NEW r \in Routers, NEW o \in Routers, Merge(r, o)
  PROVE  RouterInv'
  <1>1. PICK R, P : R = Merged(router[r], router[o]) /\ P = promised[r] \cup promised[o]
    OBVIOUS
  <1>2. r # o
    BY DEF Merge
  <1>3. R # Panic => RouterRight(R, P)
    BY <1>1, MergedRight DEF RouterInv
  <1>4. /\ DOMAIN life' = Routers /\ DOMAIN router' = Routers /\ DOMAIN promised' = Routers
        /\ \A x \in Routers : x # r /\ x # o =>
             router'[x] = router[x] /\ promised'[x] = promised[x]
        /\ router'[o] = NewRouter /\ promised'[o] = {}
        /\ R = Panic => router'[r] = NewRouter /\ promised'[r] = {}
        /\ R # Panic => router'[r] = R /\ promised'[r] = P
    BY <1>1, <1>2 DEF Merge, RouterInv
  <1>5. RouterRight(router'[r], promised'[r]) /\ RouterRight(router'[o], promised'[o])
    BY <1>3, <1>4, NewRouterRight
  <1>6. \A x \in Routers : RouterRight(router'[x], promised'[x])
    BY <1>4, <1>5 DEF RouterInv
  <1> QED
    BY <1>4, <1>6 DEF RouterInv

(* fallback keeps the invariant.                                           *)
LEMMA SetFallbackInv ==
  ASSUME RouterInv, NEW r \in Routers, NEW name \in Fallbacks, SetFallback(r, name)
  PROVE  RouterInv'
  <1>1. PICK R, P : /\ R = [router[r] EXCEPT !.fallback = BoxedHandler(name)]
                    /\ P = {q \in promised[r] : q.path # AnyPath} \cup {Promise(AnyPath, name, FALSE)}
    OBVIOUS
  <1>2. RouterRight(R, P)
    BY <1>1, FallbackSetRight, RouterAssumption DEF RouterInv
  <1>3. /\ DOMAIN life' = Routers /\ DOMAIN router' = Routers /\ DOMAIN promised' = Routers
        /\ \A x \in Routers : x # r => router'[x] = router[x] /\ promised'[x] = promised[x]
        /\ router'[r] = R /\ promised'[r] = P
    BY <1>1 DEF SetFallback, RouterInv
  <1>4. \A x \in Routers : RouterRight(router'[x], promised'[x])
    BY <1>2, <1>3 DEF RouterInv
  <1> QED
    BY <1>3, <1>4 DEF RouterInv

(* layer and route_layer keep the invariant.                               *)
LEMMA LayerInv ==
  ASSUME RouterInv, NEW r \in Routers, NEW l, NEW fallbackToo \in BOOLEAN, Layer(r, l, fallbackToo)
  PROVE  RouterInv'
  <1>1. RouterRight(LayerOn(router[r], l, fallbackToo), LayeredOf(promised[r], l, fallbackToo))
    BY LayerRight DEF RouterInv
  <1>2. Become(r, LayerOn(router[r], l, fallbackToo), LayeredOf(promised[r], l, fallbackToo))
    BY DEF Layer, LayerOn, LayeredOf, Layered
  <1> QED
    BY <1>1, <1>2, BecomeRight

(* with_state keeps the invariant.                                         *)
LEMMA SetStateInv ==
  ASSUME RouterInv, NEW r \in Routers, NEW s, SetState(r, s)
  PROVE  RouterInv'
  <1>1. RouterRight(WithStateOn(router[r], s), FixedOf(promised[r], s))
    BY StateRight DEF RouterInv
  <1>2. Become(r, WithStateOn(router[r], s), FixedOf(promised[r], s))
    BY DEF SetState, WithStateOn, FixedOf, Fixed
  <1> QED
    BY <1>1, <1>2, BecomeRight

(* Every call that builds routers keeps the invariant.                     *)
LEMMA RouterInvNext == RouterInv /\ [Next]_vars => RouterInv'
  <1> SUFFICES ASSUME RouterInv, [Next]_vars
               PROVE  RouterInv'
    OBVIOUS
  <1>1. CASE UNCHANGED vars
    BY <1>1 DEF vars, RouterInv
  <1>2. ASSUME NEW r \in Routers, New(r)
        PROVE  RouterInv'
    BY <1>2, NewInv
  <1>3. ASSUME NEW r \in Routers, NEW p \in Paths, NEW name \in Handlers \cup {NoHandler},
               AddRoute(r, p, name)
        PROVE  RouterInv'
    BY <1>3, AddRouteInv
  <1>4. ASSUME NEW r \in Routers, NEW o \in Routers, Merge(r, o)
        PROVE  RouterInv'
    BY <1>4, MergeInv
  <1>5. ASSUME NEW r \in Routers, NEW name \in Fallbacks, SetFallback(r, name)
        PROVE  RouterInv'
    BY <1>5, SetFallbackInv
  <1>6. ASSUME NEW r \in Routers, NEW l \in Layers, NEW fallbackToo \in BOOLEAN,
               Layer(r, l, fallbackToo)
        PROVE  RouterInv'
    BY <1>6, LayerInv
  <1>7. ASSUME NEW r \in Routers, NEW s \in States, SetState(r, s)
        PROVE  RouterInv'
    BY <1>7, SetStateInv
  <1> QED
    BY <1>1, <1>2, <1>3, <1>4, <1>5, <1>6, <1>7 DEF Next

(* However routers are built, every one of them is what its promises say:  *)
(* the numbers of its routes, its tree, its methods and its fallback.      *)
THEOREM RouterInvariance == Spec => []RouterInv
  BY RouterInvInit, RouterInvNext, PTL DEF Spec

(* The invariant says that the maps of a router agree.                     *)
LEMMA RouterInvConsistent == RouterInv => NodeConsistent
  BY OnePromise DEF RouterInv, RouterRight, NodeRight, NodeConsistent

(* The invariant says that a router answers as promised.                   *)
LEMMA RouterInvAnswered == RouterInv => Answered
  BY CallRight DEF RouterInv, Answered

(* The maps of a router agree with each other and with its routes, and no  *)
(* call of route or merge loses one of two handlers or fallbacks.          *)
THEOREM RouterConsistency == Spec => []NodeConsistent
  BY RouterInvariance, RouterInvConsistent, PTL

(* A router answers every request as the calls that built it promise.      *)
THEOREM RouterAnswers == Spec => []Answered
  BY RouterInvariance, RouterInvAnswered, PTL

-----------------------------------------------------------------------------
(* Connections.                                                            *)

(* One more member of a sequence.                                          *)
LEMMA ToSetAppend ==
  ASSUME NEW S, NEW s \in Seq(S), NEW x \in S
  PROVE  ToSet(Append(s, x)) = ToSet(s) \cup {x}
  <1>1. PICK n \in Nat : n = Len(s)
    OBVIOUS
  <1>2. PICK t : t = Append(s, x)
    OBVIOUS
  <1>3. /\ DOMAIN s = 1..n /\ DOMAIN t = 1..(n + 1) /\ t[n + 1] = x
        /\ \A i \in 1..n : t[i] = s[i]
    BY <1>1, <1>2
  <1>4. \A y : (\E i \in 1..(n + 1) : t[i] = y) <=> (\E i \in 1..n : s[i] = y) \/ y = x
    <2>1. 1..(n + 1) = 1..n \cup {n + 1}
      OBVIOUS
    <2> QED
      BY <1>3, <2>1
  <1> QED
    BY <1>2, <1>3, <1>4 DEF ToSet

(* Moving the head of one sequence to the end of another one.              *)
LEMMA MovedHead ==
  ASSUME NEW S, NEW s \in Seq(S), NEW t \in Seq(S), t # <<>>
  PROVE  /\ Head(t) \in S /\ Tail(t) \in Seq(S) /\ Append(s, Head(t)) \in Seq(S)
         /\ Append(s, Head(t)) \o Tail(t) = s \o t
         /\ (s \o t)[Len(s) + 1] = Head(t) /\ Len(s) + 1 \in DOMAIN (s \o t)
  <1>1. /\ Head(t) \in S /\ Tail(t) \in Seq(S) /\ Len(t) \in Nat /\ Len(t) > 0 /\ Head(t) = t[1]
        /\ Len(Tail(t)) = Len(t) - 1 /\ \A i \in 1..(Len(t) - 1) : Tail(t)[i] = t[i + 1]
    OBVIOUS
  <1>2. PICK x, u : x = Head(t) /\ u = Tail(t)
    OBVIOUS
  <1>3. PICK n \in Nat : n = Len(s)
    OBVIOUS
  <1>12. PICK m \in Nat : m = Len(t) /\ m > 0
    BY <1>1
  <1>4. PICK a \in Seq(S) : a = Append(s, x)
    <2>1. x \in S
      BY <1>1, <1>2
    <2>2. Append(s, x) \in Seq(S)
      BY <2>1, AppendProperties
    <2> QED
      BY <2>2
  <1>5. Len(a) = n + 1 /\ a[n + 1] = x /\ \A i \in 1..n : a[i] = s[i]
    BY <1>3, <1>4
  <1>6. u \in Seq(S) /\ Len(u) = m - 1 /\ x = t[1] /\ \A i \in 1..(m - 1) : u[i] = t[i + 1]
    BY <1>1, <1>2, <1>12
  <1>7. PICK b, c : b = a \o u /\ c = s \o t
    OBVIOUS
  <1>13. b \in Seq(S) /\ c \in Seq(S)
    BY <1>6, <1>7, ConcatProperties
  <1>8. /\ Len(b) = n + m /\ Len(c) = n + m
        /\ \A i \in 1..(n + m) : b[i] = IF i <= n + 1 THEN a[i] ELSE u[i - (n + 1)]
        /\ \A i \in 1..(n + m) : c[i] = IF i <= n THEN s[i] ELSE t[i - n]
    <2>1. /\ Len(b) = Len(a) + Len(u)
          /\ \A i \in 1..(Len(a) + Len(u)) : b[i] = IF i <= Len(a) THEN a[i] ELSE u[i - Len(a)]
      BY <1>6, <1>7, ConcatProperties
    <2>2. /\ Len(c) = Len(s) + Len(t)
          /\ \A i \in 1..(Len(s) + Len(t)) : c[i] = IF i <= Len(s) THEN s[i] ELSE t[i - Len(s)]
      BY <1>7, ConcatProperties
    <2>3. Len(a) = n + 1 /\ Len(u) = m - 1 /\ Len(a) + Len(u) = n + m
      BY <1>5, <1>6
    <2>4. Len(s) = n /\ Len(t) = m
      BY <1>3, <1>12
    <2> QED
      BY <2>1, <2>2, <2>3, <2>4
  <1>9. \A i \in 1..(n + m) : b[i] = c[i]
    <2> SUFFICES ASSUME NEW i \in 1..(n + m)
                 PROVE  b[i] = c[i]
      OBVIOUS
    <2>1. CASE i <= n
      <3>1. i \in 1..n /\ i <= n + 1
        BY <2>1
      <3> QED
        BY <1>5, <1>8, <2>1, <3>1
    <2>2. CASE i = n + 1
      <3>1. b[i] = x
        BY <1>5, <1>8, <2>2
      <3>2. ~(i <= n) /\ i - n = 1
        BY <2>2
      <3> QED
        BY <1>6, <1>8, <3>1, <3>2
    <2>3. CASE i > n + 1
      <3>1. /\ ~(i <= n) /\ ~(i <= n + 1) /\ i - (n + 1) \in 1..(m - 1)
            /\ (i - (n + 1)) + 1 = i - n
        BY <2>3
      <3>2. b[i] = u[i - (n + 1)] /\ c[i] = t[i - n]
        BY <1>8, <3>1
      <3> QED
        BY <1>6, <3>1, <3>2
    <2> QED
      BY <2>1, <2>2, <2>3
  <1>10. b = c
    BY <1>8, <1>9, <1>13, SeqEqual
  <1>11. n + 1 \in 1..(n + m) /\ DOMAIN c = 1..(n + m) /\ c[n + 1] = x
    <2>1. n + 1 \in 1..(n + m) /\ ~(n + 1 <= n) /\ (n + 1) - n = 1
      BY <1>12
    <2>2. DOMAIN c = 1..(n + m)
      BY <1>8, <1>13
    <2> QED
      BY <1>6, <1>8, <2>1, <2>2
  <1> QED
    BY <1>1, <1>2, <1>3, <1>4, <1>7, <1>10, <1>11

(* The extractors of a handler; the defaults have none.                    *)
LEMMA ArgumentsFacts ==
  \A name : /\ Arguments(name) \in Seq(ExtractorKinds)
            /\ Arguments(name) # <<>> => name \notin {NoHandler, NotFound}
  BY ServeAssumption DEF Arguments

(* A connection that is closed.                                            *)
LEMMA ClosedFacts ==
  /\ DOMAIN Closed = {"pc", "service", "req", "ep", "left", "got", "last", "n"}
  /\ Closed.pc = "closed" /\ Closed.last.kind = "none"
  BY DEF Closed, NoAnswer

(* A connection that is not open and has answered nothing is right.        *)
LEMMA FreshRight ==
  ASSUME NEW a, NEW k, DOMAIN k = DOMAIN Closed, k.last.kind = "none", k.pc # "extract",
         k.pc = "open" => k.service = MakeService(a.router)
  PROVE  ConnRight(a, k)
  BY DEF ConnRight, LastRight

(* Nothing is served at first.                                             *)
LEMMA ServeInvInit == BuildInit => ServeInv
  <1> SUFFICES ASSUME BuildInit
               PROVE  ServeInv
    OBVIOUS
  <1>1. RouterInv
    BY RouterInvInit DEF BuildInit
  <1>2. app.router = NewRouter /\ app.promised = {} /\ conn = [c \in Conns |-> Closed]
    BY DEF BuildInit, ServeInit
  <1>3. \A c \in Conns : ConnRight(app, conn[c])
    BY <1>2, ClosedFacts, FreshRight
  <1> QED
    BY <1>1, <1>2, <1>3, NewRouterRight DEF ServeInv

(* A step of one connection.                                               *)
LEMMA ConnStep ==
  ASSUME ServeInv, NEW c \in Conns, NEW k, conn' = [conn EXCEPT ![c] = k], ConnRight(app, k),
         server = "up", UNCHANGED <<vars, server, app>>
  PROVE  ServeInv'
  <1>1. RouterInv'
    BY DEF ServeInv, RouterInv, vars
  <1>2. DOMAIN conn' = Conns /\ \A x \in Conns : ConnRight(app, conn'[x])
    BY DEF ServeInv
  <1>3. RouterRight(app'.router, app'.promised)
    BY DEF ServeInv
  <1> QED
    BY <1>1, <1>2, <1>3 DEF ServeInv

(* serve keeps the invariant.                                              *)
LEMMA ServeStep ==
  ASSUME ServeInv, NEW r \in Routers, serve(r)
  PROVE  ServeInv'
  <1>1. RouterInv'
    BY DEF ServeInv, RouterInv, serve
  <1>2. /\ app'.router = router[r] /\ app'.promised = promised[r]
        /\ conn' = [c \in Conns |-> Closed] /\ server' = "up"
    BY DEF ServeInv, serve
  <1>3. \A c \in Conns : ConnRight(app', conn'[c])
    BY <1>2, ClosedFacts, FreshRight
  <1> QED
    BY <1>1, <1>2, <1>3 DEF ServeInv, RouterInv

(* A connection that is accepted keeps the invariant.                      *)
LEMMA AcceptStep ==
  ASSUME ServeInv, NEW c \in Conns, accept(c)
  PROVE  ServeInv'
  <1>1. PICK k : k = [Closed EXCEPT !.pc = "open", !.service = MakeService(app.router)]
    OBVIOUS
  <1>2. /\ DOMAIN k = DOMAIN Closed /\ k.last = Closed.last /\ k.pc = "open"
        /\ k.service = MakeService(app.router)
    BY <1>1, ClosedFacts
  <1>3. ConnRight(app, k)
    BY <1>2, ClosedFacts, FreshRight
  <1> QED
    BY <1>1, <1>3, ConnStep DEF accept

(* A connection that ends keeps the invariant.                             *)
LEMMA HangupStep ==
  ASSUME ServeInv, NEW c \in Conns, Hangup(c)
  PROVE  ServeInv'
  BY ClosedFacts, FreshRight, ConnStep DEF Hangup

(* The promises are the same when () is given to the handlers that have no *)
(* state yet.                                                              *)
LEMMA FixedAsPromised ==
  ASSUME NEW P, PromisesRight(P), NEW u, NEW a, AsPromised(FixedOf(P, Unit), u, a)
  PROVE  AsPromised(P, u, a)
  <1>1. \A q \in P : /\ Fixed(q, Unit).path = q.path /\ Fixed(q, Unit).h = q.h
                     /\ Fixed(q, Unit).state = q.state /\ Fixed(q, Unit).layers = q.layers
    <2> SUFFICES ASSUME NEW q \in P
                 PROVE  /\ Fixed(q, Unit).path = q.path /\ Fixed(q, Unit).h = q.h
                        /\ Fixed(q, Unit).state = q.state /\ Fixed(q, Unit).layers = q.layers
      OBVIOUS
    <2>1. Fixed(q, Unit) = [path |-> q.path, h |-> q.h,
                            state |-> IF q.fixed THEN q.state ELSE Unit,
                            fixed |-> TRUE, layers |-> q.layers]
      BY PromiseFacts
    <2>2. (IF q.fixed THEN q.state ELSE Unit) = q.state
      BY DEF PromisesRight
    <2> QED
      BY <2>1, <2>2
  <1> DEFINE F == FixedOf(P, Unit)
             S == {q.path : q \in P}
             p == Best(u, S)
  <1>2. {q.path : q \in F} = S
    BY <1>1 DEF FixedOf
  <1>3. Best(u, {q.path : q \in F}) = p
    BY <1>2
  <1>4. IF Promises(F, p) = {} THEN a.h = (IF p = AnyPath THEN NotFound ELSE NoHandler)
        ELSE \E q \in Promises(F, p) : a = [h |-> q.h, state |-> q.state, layers |-> q.layers]
    <2>1. IF Promises(F, Best(u, {q.path : q \in F})) = {}
          THEN a.h = (IF Best(u, {q.path : q \in F}) = AnyPath THEN NotFound ELSE NoHandler)
          ELSE \E q \in Promises(F, Best(u, {q.path : q \in F})) :
                 a = [h |-> q.h, state |-> q.state, layers |-> q.layers]
      BY Zenon DEF AsPromised
    <2> HIDE DEF p, F
    <2> QED
      BY <1>3, <2>1, Zenon
  <1>5. Promises(F, p) = {Fixed(q, Unit) : q \in Promises(P, p)}
    <2> HIDE DEF p
    <2> QED
      BY <1>1 DEF FixedOf, Promises
  <1>6. AsPromised(P, u, a) <=>
          IF Promises(P, p) = {} THEN a.h = (IF p = AnyPath THEN NotFound ELSE NoHandler)
          ELSE \E q \in Promises(P, p) : a = [h |-> q.h, state |-> q.state, layers |-> q.layers]
    BY Zenon DEF AsPromised
  <1>7. PICK X, Y, z : X = Promises(P, p) /\ Y = Promises(F, p) /\ z = p
    OBVIOUS
  <1> HIDE DEF F, p
  <1>8. Y = {Fixed(q, Unit) : q \in X} /\ X \subseteq P
    BY <1>5, <1>7 DEF Promises
  <1>9. CASE X = {}
    <2>1. Y = {}
      BY <1>8, <1>9
    <2> QED
      BY <1>4, <1>6, <1>7, <1>9, <2>1, Zenon
  <1>10. CASE X # {}
    <2>1. Y # {}
      BY <1>8, <1>10
    <2>2. PICK y \in Y : a = [h |-> y.h, state |-> y.state, layers |-> y.layers]
      BY <1>4, <1>7, <2>1, Zenon
    <2>3. PICK q \in X : y = Fixed(q, Unit)
      BY <1>8, <2>2
    <2>4. a = [h |-> q.h, state |-> q.state, layers |-> q.layers]
      BY <1>1, <1>8, <2>2, <2>3
    <2> QED
      BY <1>6, <1>7, <1>10, <2>4, Zenon
  <1> QED
    BY <1>9, <1>10

(* A request is given the promised handler.                                *)
LEMMA RequestedStep ==
  ASSUME ServeInv, NEW c \in Conns, NEW u \in Uris, NEW wellFormed \in BOOLEAN,
         Requested(c, u, "GET", wellFormed)
  PROVE  ServeInv'
  <1>1. PICK k : k = conn[c]
    OBVIOUS
  <1>2. ConnRight(app, k) /\ k.pc = "open" /\ server = "up"
    BY <1>1 DEF ServeInv, Requested
  <1>3. k.service = MakeService(app.router) /\ DOMAIN k = DOMAIN Closed /\ LastRight(app, k.last)
    BY <1>2 DEF ConnRight
  <1>4. PICK ep : ep = Call(k.service, u, "GET")
    OBVIOUS
  <1>5. PICK k1 : k1 = Calls(k, ep)
    OBVIOUS
  <1>6. /\ DOMAIN k1 = DOMAIN Closed /\ k1.pc = "extract" /\ k1.ep = ep
        /\ k1.left = Arguments(ep.h) /\ k1.got = <<>> /\ k1.service = k.service
        /\ k1.last = k.last
    BY <1>3, <1>5, ClosedFacts DEF Calls
  <1>7. PICK k2 : k2 = [k1 EXCEPT !.n = @ + 1, !.req = <<u, "GET", wellFormed>>]
    OBVIOUS
  <1>8. /\ DOMAIN k2 = DOMAIN Closed /\ k2.pc = "extract" /\ k2.ep = ep
        /\ k2.left = Arguments(ep.h) /\ k2.got = <<>> /\ k2.service = k.service
        /\ k2.last = k.last /\ k2.req = <<u, "GET", wellFormed>>
    BY <1>6, <1>7, ClosedFacts
  <1>9. AsPromised(app.promised, u, ep)
    <2>1. RouterRight(MakeService(app.router), FixedOf(app.promised, Unit))
      <3>1. MakeService(app.router) = WithStateOn(app.router, Unit)
        BY DEF MakeService, WithStateOn
      <3> QED
        BY <3>1, StateRight DEF ServeInv
    <2>2. AsPromised(FixedOf(app.promised, Unit), u, ep)
      BY <1>3, <1>4, <2>1, CallRight
    <2>3. PromisesRight(app.promised)
      BY DEF ServeInv, RouterRight
    <2> QED
      BY <2>2, <2>3, FixedAsPromised
  <1>10. ExtractRight(app, k2)
    <2>1. k2.req[1] = u /\ <<>> \o k2.left = k2.left /\ k2.left \in Seq(ExtractorKinds)
      BY <1>8, ArgumentsFacts
    <2>2. ToSet(<<>>) = {} /\ <<>> \in Seq(ExtractorKinds)
      BY DEF ToSet
    <2> QED
      BY <1>8, <1>9, <2>1, <2>2 DEF ExtractRight
  <1>11. ConnRight(app, k2)
    BY <1>3, <1>8, <1>10 DEF ConnRight
  <1>12. conn' = [conn EXCEPT ![c] = k2]
    <2>1. k2 = [Calls(k, Call(k.service, u, "GET")) EXCEPT !.n = @ + 1,
                                                           !.req = <<u, "GET", wellFormed>>]
      BY <1>4, <1>5, <1>7
    <2>2. conn' = [conn EXCEPT ![c] =
                     [Calls(conn[c], Call(conn[c].service, u, "GET"))
                        EXCEPT !.n = @ + 1, !.req = <<u, "GET", wellFormed>>]]
      BY DEF Requested
    <2> QED
      BY <1>1, <2>1, <2>2
  <1> QED
    BY <1>2, <1>11, <1>12, ConnStep DEF Requested

(* A request is answered, or rejected.                                     *)
LEMMA RespondedRight ==
  ASSUME NEW a, NEW k, NEW x, ConnRight(a, k), LastRight(a, x), NEW k2,
         k2 = [k EXCEPT !.pc = "open", !.last = x], k.pc = "extract"
  PROVE  ConnRight(a, k2)
  <1>1. DOMAIN k = DOMAIN Closed /\ k.service = MakeService(a.router)
    BY DEF ConnRight
  <1>2. DOMAIN k2 = DOMAIN Closed /\ k2.pc = "open" /\ k2.last = x /\ k2.service = k.service
    BY <1>1, ClosedFacts
  <1> QED
    BY <1>1, <1>2 DEF ConnRight

(* An extractor passes, or the request is rejected by one that rejects.    *)
LEMMA ExtractStep ==
  ASSUME ServeInv, NEW c \in Conns, Extract(c), ~Unwind
  PROVE  ServeInv'
  <1>1. PICK k, x : k = conn[c] /\ x = Head(k.left)
    OBVIOUS
  <1>2. /\ ConnRight(app, k) /\ k.pc = "extract" /\ server = "up" /\ k.left # <<>>
        /\ UNCHANGED <<vars, server, app>>
    BY <1>1 DEF ServeInv, Extract
  <1>3. DOMAIN k = DOMAIN Closed /\ LastRight(app, k.last) /\ ExtractRight(app, k)
    BY <1>2 DEF ConnRight
  <1>4. /\ k.req[1] \in Uris /\ AsPromised(app.promised, k.req[1], k.ep)
        /\ k.got \in Seq(ExtractorKinds) /\ k.left \in Seq(ExtractorKinds)
        /\ k.got \o k.left = Arguments(k.ep.h)
        /\ ~k.req[3] => ToSet(k.got) \cap Refusing = {}
    BY <1>3 DEF ExtractRight
  <1>5. /\ x \in ExtractorKinds /\ Tail(k.left) \in Seq(ExtractorKinds)
        /\ Append(k.got, x) \in Seq(ExtractorKinds)
        /\ Append(k.got, x) \o Tail(k.left) = k.got \o k.left
        /\ (k.got \o k.left)[Len(k.got) + 1] = x /\ Len(k.got) + 1 \in DOMAIN (k.got \o k.left)
    <2>1. PICK got \in Seq(ExtractorKinds), left \in Seq(ExtractorKinds) : got = k.got /\ left = k.left
      BY <1>4
    <2>2. left # <<>> /\ x = Head(left)
      BY <1>1, <1>2, <2>1
    <2>3. /\ Head(left) \in ExtractorKinds /\ Tail(left) \in Seq(ExtractorKinds)
          /\ Append(got, Head(left)) \in Seq(ExtractorKinds)
          /\ Append(got, Head(left)) \o Tail(left) = got \o left
          /\ (got \o left)[Len(got) + 1] = Head(left) /\ Len(got) + 1 \in DOMAIN (got \o left)
      BY <2>2, MovedHead
    <2> QED
      BY <2>1, <2>2, <2>3
  <1>6. \/ /\ FromRequest(x, k.req[3])
           /\ conn' = [conn EXCEPT ![c].left = Tail(@), ![c].got = Append(@, x)]
        \/ /\ ~FromRequest(x, k.req[3]) /\ ~Unwraps(x)
           /\ conn' = [conn EXCEPT ![c] = IntoResponse(@, "rejected")]
    BY <1>1 DEF Extract
  <1>7. CASE /\ FromRequest(x, k.req[3])
             /\ conn' = [conn EXCEPT ![c].left = Tail(@), ![c].got = Append(@, x)]
    <2>1. PICK k2 : k2 = [k EXCEPT !.left = Tail(@), !.got = Append(@, x)]
      OBVIOUS
    <2>2. /\ DOMAIN k2 = DOMAIN Closed /\ k2.pc = "extract" /\ k2.service = k.service
          /\ k2.left = Tail(k.left) /\ k2.got = Append(k.got, x)
          /\ k2.req = k.req /\ k2.ep = k.ep /\ k2.last = k.last
      BY <1>2, <1>3, <2>1, ClosedFacts
    <2>3. ~k2.req[3] => ToSet(k2.got) \cap Refusing = {}
      <3>1. ToSet(k2.got) = ToSet(k.got) \cup {x}
        BY <1>4, <1>5, <2>2, ToSetAppend
      <3>2. ~k.req[3] => x \notin Refusing
        BY <1>7 DEF FromRequest, Refusing
      <3> QED
        BY <1>4, <2>2, <3>1, <3>2
    <2>4. ExtractRight(app, k2)
      BY <1>4, <1>5, <2>2, <2>3 DEF ExtractRight
    <2>5. ConnRight(app, k2)
      BY <1>2, <1>3, <2>2, <2>4 DEF ConnRight
    <2>6. conn' = [conn EXCEPT ![c] = k2]
      BY <1>1, <1>7, <2>1 DEF ServeInv
    <2> QED
      BY <1>2, <2>5, <2>6, ConnStep
  <1>8. CASE /\ ~FromRequest(x, k.req[3]) /\ ~Unwraps(x)
             /\ conn' = [conn EXCEPT ![c] = IntoResponse(@, "rejected")]
    <2>1. PICK y : y = [req |-> k.req, kind |-> "rejected"]
      OBVIOUS
    <2>2. x = "rejects" /\ ~k.req[3]
      BY <1>8 DEF FromRequest, Unwraps
    <2> DEFINE p == Best(k.req[1], {q.path : q \in app.promised})
               ps == Promises(app.promised, p)
    <2>3. PICK q \in ps : q.h = k.ep.h
      <3>1. k.ep.h \notin {NoHandler, NotFound}
        <4>1. Len(k.got) + 1 \in DOMAIN Arguments(k.ep.h)
          BY <1>4, <1>5
        <4>2. Arguments(k.ep.h) # <<>>
          BY <4>1
        <4> QED
          BY <4>2, ArgumentsFacts
      <3>2. IF ps = {} THEN k.ep.h = (IF p = AnyPath THEN NotFound ELSE NoHandler)
            ELSE \E q \in ps : k.ep = [h |-> q.h, state |-> q.state, layers |-> q.layers]
        BY <1>4, Zenon DEF AsPromised
      <3>3. PICK X : X = ps
        OBVIOUS
      <3> HIDE DEF p, ps
      <3>4. X # {}
        BY <3>1, <3>2, <3>3
      <3>5. PICK q \in X : k.ep = [h |-> q.h, state |-> q.state, layers |-> q.layers]
        BY <3>2, <3>3, <3>4, Zenon
      <3> QED
        BY <3>3, <3>5
    <2>4. PICK j : j \in DOMAIN Arguments(q.h) /\ Arguments(q.h)[j] = "rejects"
      BY <1>4, <1>5, <2>2, <2>3
    <2>5. LastRight(app, y)
      <3>1. y.kind = "rejected" /\ y.req = k.req
        BY <2>1
      <3>2. LastRight(app, y) <=>
              ~y.req[3] /\ \E r \in ps : \E i \in DOMAIN Arguments(r.h) : Arguments(r.h)[i] = "rejects"
        BY <3>1 DEF LastRight
      <3> HIDE DEF ps
      <3> QED
        BY <2>2, <2>3, <2>4, <3>1, <3>2
    <2>6. PICK k2 : k2 = [k EXCEPT !.pc = "open", !.last = y]
      OBVIOUS
    <2>7. k2 = IntoResponse(k, "rejected")
      BY <2>1, <2>6 DEF IntoResponse
    <2>8. conn' = [conn EXCEPT ![c] = k2]
      BY <1>1, <1>8, <2>7
    <2>9. ConnRight(app, k2)
      BY <1>2, <2>5, <2>6, RespondedRight
    <2> QED
      BY <1>2, <2>8, <2>9, ConnStep
  <1> QED
    BY <1>6, <1>7, <1>8

(* A handler answers when all its extractors have passed.                  *)
LEMMA RespondStep ==
  ASSUME ServeInv, NEW c \in Conns, Respond(c)
  PROVE  ServeInv'
  <1>1. PICK k : k = conn[c]
    OBVIOUS
  <1>2. /\ ConnRight(app, k) /\ k.pc = "extract" /\ server = "up" /\ k.left = <<>>
        /\ UNCHANGED <<vars, server, app>>
        /\ conn' = [conn EXCEPT ![c] = IntoResponse(k, "answer")]
    BY <1>1 DEF ServeInv, Respond
  <1>3. ExtractRight(app, k)
    BY <1>2 DEF ConnRight
  <1>4. PICK y : y = [req |-> k.req, kind |-> "answer", by |-> k.ep, got |-> k.got]
    OBVIOUS
  <1>5. y.kind = "answer" /\ y.req = k.req /\ y.by = k.ep /\ y.got = k.got
    BY <1>4
  <1>6. k.got = Arguments(k.ep.h)
    <2>1. k.got \o <<>> = k.got
      BY <1>3 DEF ExtractRight
    <2> QED
      BY <1>2, <1>3, <2>1 DEF ExtractRight
  <1>7. LastRight(app, y)
    BY <1>3, <1>5, <1>6 DEF LastRight, ExtractRight
  <1>8. PICK k2 : k2 = [k EXCEPT !.pc = "open", !.last = y]
    OBVIOUS
  <1>9. k2 = IntoResponse(k, "answer")
    BY <1>4, <1>8 DEF IntoResponse
  <1>10. ConnRight(app, k2)
    BY <1>2, <1>7, <1>8, RespondedRight
  <1> QED
    BY <1>2, <1>9, <1>10, ConnStep

(* A panic takes the connections down.                                     *)
LEMMA UnwindStep ==
  ASSUME ServeInv, Unwind, server = "up"
  PROVE  ServeInv'
  <1>1. RouterInv'
    BY DEF Unwind, ServeInv, RouterInv, vars
  <1>2. \A c \in Conns : ConnRight(app, conn'[c])
    <2> SUFFICES ASSUME NEW c \in Conns
                 PROVE  ConnRight(app, conn'[c])
      OBVIOUS
    <2>1. PICK k, k2 : k = conn[c] /\ k2 = [k EXCEPT !.pc = "dropped"] /\ k2 = conn'[c]
      BY DEF Unwind
    <2>2. DOMAIN k = DOMAIN Closed /\ LastRight(app, k.last)
      BY <2>1 DEF ServeInv, ConnRight
    <2>3. DOMAIN k2 = DOMAIN Closed /\ k2.pc = "dropped" /\ k2.last = k.last
      BY <2>1, <2>2, ClosedFacts
    <2>4. ConnRight(app, k2)
      BY <2>2, <2>3 DEF ConnRight
    <2> QED
      BY <2>1, <2>4
  <1>3. app' = app /\ server' = "down" /\ DOMAIN conn' = Conns
    BY DEF Unwind
  <1> QED
    BY <1>1, <1>2, <1>3 DEF ServeInv

(* Every step of the server keeps the invariant.                           *)
LEMMA ServeInvNext == ServeInv /\ [BuildNext]_<<vars, serveVars>> => ServeInv'
  <1> SUFFICES ASSUME ServeInv, [BuildNext]_<<vars, serveVars>>
               PROVE  ServeInv'
    OBVIOUS
  <1>1. CASE UNCHANGED <<vars, serveVars>>
    BY <1>1 DEF vars, serveVars, ServeInv, RouterInv
  <1>2. CASE Next /\ UNCHANGED serveVars
    <2>1. RouterInv'
      BY <1>2, RouterInvNext DEF ServeInv
    <2> QED
      BY <1>2, <2>1 DEF serveVars, ServeInv
  <1>3. ASSUME NEW r \in Routers, serve(r)
        PROVE  ServeInv'
    BY <1>3, ServeStep
  <1>4. CASE AcceptFails
    BY <1>4, UnwindStep DEF AcceptFails
  <1>5. ASSUME NEW c \in Conns, accept(c)
        PROVE  ServeInv'
    BY <1>5, AcceptStep
  <1>6. ASSUME NEW c \in Conns, Extract(c)
        PROVE  ServeInv'
    <2>1. CASE Unwind
      BY <1>6, <2>1, UnwindStep DEF Extract
    <2>2. CASE ~Unwind
      BY <1>6, <2>2, ExtractStep
    <2> QED
      BY <2>1, <2>2
  <1>7. ASSUME NEW c \in Conns, Respond(c)
        PROVE  ServeInv'
    BY <1>7, RespondStep
  <1>8. ASSUME NEW c \in Conns, Hangup(c)
        PROVE  ServeInv'
    BY <1>8, HangupStep
  <1>9. ASSUME NEW c \in Conns, NEW u \in Uris, NEW wellFormed \in BOOLEAN,
               Requested(c, u, "GET", wellFormed)
        PROVE  ServeInv'
    BY <1>9, RequestedStep
  <1> QED
    BY <1>1, <1>2, <1>3, <1>4, <1>5, <1>6, <1>7, <1>8, <1>9 DEF BuildNext, ServeNext

(* While routers are built and one of them is served, every connection is  *)
(* at the promised handler of its own request.                             *)
THEOREM ServeInvariance == BuildAndServe => []ServeInv
  BY ServeInvInit, ServeInvNext, PTL DEF BuildAndServe

(* The invariant says that every last answer is right.                     *)
LEMMA ServeInvServedRight == ServeInv => ServedRight
  <1> SUFFICES ASSUME ServeInv, NEW c \in Conns
               PROVE  LastRight(app, conn[c].last)
    BY DEF ServedRight, LastRight, Refusing
  <1> QED
    BY DEF ServeInv, ConnRight

(* Every connection is answered, to its own requests, what was promised of *)
(* the router that is served.                                              *)
THEOREM ServeAnswers == BuildAndServe => []ServedRight
  BY ServeInvariance, ServeInvServedRight, PTL

(* Routers stay what they are promised to be while one of them is served.  *)
THEOREM ServedRouters == BuildAndServe => [](NodeConsistent /\ Answered)
  <1>1. ServeInv => NodeConsistent /\ Answered
    BY RouterInvConsistent, RouterInvAnswered DEF ServeInv
  <1> QED
    BY <1>1, ServeInvariance, PTL

=============================================================================
