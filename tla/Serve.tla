------------------------------- MODULE Serve --------------------------------
(***************************************************************************)
(* serve (serve.rs) over a router: a loop that accepts connections, clones *)
(* the router for each of them and spawns a task that answers its requests *)
(* one after the other; and the handlers of handler.rs, which run their    *)
(* extractors (extract.rs), each of which may be awaited for long, before  *)
(* the function.  All tasks share a thread: a panic of one unwinds through *)
(* block_on and takes all of them down.                                    *)
(***************************************************************************)
EXTENDS Router

CONSTANTS
  Conns,       \* connections
  Extractors,  \* the arguments of every handler, in order
  MaxBuilt,    \* bound on the calls that built a router that is served
  MaxRequests  \* bound on the requests of a connection

\* What an extractor does: State (as Method and Uri) always succeeds, a Result
\* hands on its rejection, others reject, and Query unwraps.
ExtractorKinds == {"state", "result", "rejects", "query"}

\* The answers 404 and 405 of a default fallback are services.
ASSUME ServeAssumption ==
  /\ \A name \in DOMAIN Extractors : Extractors[name] \in Seq(ExtractorKinds)
  /\ NoHandler \notin DOMAIN Extractors /\ NotFound \notin DOMAIN Extractors

VARIABLES
  server,      \* off, up or down
  app,         \* the router that is served, and what it promised
  conn         \* every connection: its task, service, request and last answer

serveVars == <<server, app, conn>>

NoAnswer == [req |-> <<>>, kind |-> "none"]
Closed == [pc |-> "closed", service |-> NewRouter, req |-> <<>>, ep |-> <<>>, left |-> <<>>,
           got |-> <<>>, last |-> NoAnswer, n |-> 0]

ServeInit ==
  /\ server = "off"
  /\ app = [router |-> NewRouter, promised |-> {}]
  /\ conn = [c \in Conns |-> Closed]

\* serve consumes the router and runs until something panics.
serve(r) ==
  /\ server = "off" /\ Live(r) /\ calls <= MaxBuilt
  /\ server' = "up"
  /\ app' = [router |-> router[r], promised |-> promised[r]]
  /\ life' = [life EXCEPT ![r] = "moved"]
  /\ UNCHANGED <<router, promised, calls, conn>>

\* Router as a service of connections: a clone of it, with () for a state.
MakeService(R) ==
  [R EXCEPT !.routes = [i \in DOMAIN @ |-> StateMethods(@[i], Unit)],
            !.fallback = WithState(@, Unit)]

accept(c) ==
  /\ server = "up" /\ conn[c].pc = "closed"
  /\ conn' = [conn EXCEPT ![c] = [Closed EXCEPT !.pc = "open", !.service = MakeService(app.router)]]
  /\ UNCHANGED <<vars, server, app>>

\* A panic: the runtime goes down with all its tasks.
Unwind ==
  /\ server' = "down"
  /\ conn' = [c \in Conns |-> [conn[c] EXCEPT !.pc = "dropped"]]
  /\ UNCHANGED <<vars, app>>

\* An accept that fails, for want of descriptors say, is todo!().
AcceptFails == server = "up" /\ Unwind

\* The arguments of a handler, which every tuple of extractors is one of.
Arguments(h) == IF h \in DOMAIN Extractors THEN Extractors[h] ELSE <<>>

\* HandlerService::call: the handler is cloned and its future is made.
Calls(k, ep) == [k EXCEPT !.pc = "extract", !.ep = ep, !.left = Arguments(ep.h), !.got = <<>>]

\* serve_connection hands the next request to the service: call_with_state
\* chooses the endpoint, whose extractors are then to run.
Requested(c, u, m, wellFormed) ==
  LET k == conn[c]
  IN  /\ server = "up" /\ k.pc = "open" /\ k.n < MaxRequests
      /\ conn' = [conn EXCEPT ![c] = [Calls(k, Call(k.service, u, m)) EXCEPT
                                         !.n = @ + 1, !.req = <<u, m, wellFormed>>]]
      /\ UNCHANGED <<vars, server, app>>

\* Mutant: the function is called although an extractor rejects the request.
ExtractAnyway(c) ==
  LET k == conn[c]
  IN  /\ server = "up" /\ k.pc = "extract" /\ k.left # <<>>
      /\ conn' = [conn EXCEPT ![c].left = Tail(@), ![c].got = Append(@, Head(k.left))]
      /\ UNCHANGED <<vars, server, app>>

\* State, Method and Uri always succeed, a Result keeps its rejection for the
\* function, and others reject a request that is not well-formed; ...
FromRequest(x, wellFormed) == wellFormed \/ x \notin {"rejects", "query"}

\* ... but Query, whose rejection is Infallible, unwraps.
Unwraps(x) == x = "query"

\* into_response, of what the function returned or of a rejection.
IntoResponse(k, kind) ==
  [k EXCEPT !.pc = "open",
            !.last = IF kind = "rejected" THEN [req |-> k.req, kind |-> kind]
                     ELSE [req |-> k.req, kind |-> kind, by |-> k.ep, got |-> k.got]]

\* The next extractor of the handler; the first rejection is the answer.
Extract(c) ==
  LET k == conn[c]
      x == Head(k.left)
      ok == FromRequest(x, k.req[3])
  IN  /\ server = "up" /\ k.pc = "extract" /\ k.left # <<>>
      /\ \/ /\ ok
            /\ conn' = [conn EXCEPT ![c].left = Tail(@), ![c].got = Append(@, x)]
            /\ UNCHANGED <<vars, server, app>>
         \/ /\ ~ok /\ ~Unwraps(x)
            /\ conn' = [conn EXCEPT ![c] = IntoResponse(@, "rejected")]
            /\ UNCHANGED <<vars, server, app>>
         \/ ~ok /\ Unwraps(x) /\ Unwind

\* The function has returned, and the futures of the route hand on its answer.
Respond(c) ==
  /\ server = "up" /\ conn[c].pc = "extract" /\ conn[c].left = <<>>
  /\ conn' = [conn EXCEPT ![c] = IntoResponse(@, "answer")]
  /\ UNCHANGED <<vars, server, app>>

\* The connection fails or is closed: its task ends, the loop goes on.
Hangup(c) ==
  /\ server = "up" /\ conn[c].pc \notin {"closed", "dropped"}
  /\ conn' = [conn EXCEPT ![c] = Closed]
  /\ UNCHANGED <<vars, server, app>>

ServeNext ==
  \/ \E r \in Routers : serve(r)
  \/ AcceptFails
  \/ \E c \in Conns :
       \/ accept(c) \/ Extract(c) \/ Respond(c) \/ Hangup(c)
       \/ \E u \in Uris, wellFormed \in BOOLEAN : Requested(c, u, "GET", wellFormed)

-----------------------------------------------------------------------------
\* Routers are built, and one of them is served.
BuildInit == Init /\ ServeInit

BuildNext == \/ server = "off" /\ Next /\ UNCHANGED serveVars
             \/ ServeNext

BuildAndServe == BuildInit /\ [][BuildNext]_<<vars, serveVars>>

-----------------------------------------------------------------------------
\* Every connection answers its own requests by the handler the served router
\* promised for them, in the state it was given before it was served, once all
\* its extractors have passed in order; a request is refused only by one of
\* them; and what others do to their connections does not change it.
ServedRight ==
  \A c \in Conns :
    LET a == conn[c].last
        ps == Promises(app.promised, Best(a.req[1], {q.path : q \in app.promised}))
    IN  CASE a.kind = "none" -> TRUE
          [] a.kind = "rejected" ->
               ~a.req[3] /\ \E q \in ps : \E j \in DOMAIN Arguments(q.h) : Arguments(q.h)[j] = "rejects"
          [] OTHER ->
               /\ a.got = Arguments(a.by.h)
               /\ ~a.req[3] => ToSet(a.got) \cap {"rejects", "query"} = {}
               /\ AsPromised(app.promised, a.req[1], a.by)

=============================================================================
