----------------------------- MODULE WebServer -----------------------------
(***************************************************************************)
(* The web framework (src/web): the routing trees that Get, Post and       *)
(* Options fill before the server starts, and the way of a request through *)
(* the middlewares to its handler.                                         *)
(*                                                                         *)
(* A node of a tree is the sequence of the segments that lead to it.  A    *)
(* segment of a route is static, a parameter (":id") or the wildcard "*";  *)
(* a path splits into segments, the empty one where slashes meet.  The     *)
(* path "/" has no segments.                                               *)
(***************************************************************************)
EXTENDS SeqFolds

CONSTANTS
  Method,      \* HTTP methods
  Route,       \* the method and path of a call of Get, Post or Options
  Request,     \* the request paths, each a sequence of strings
  Mdls,        \* middleware lists of the server
  ErrCodes,    \* the status codes errhdl has a page for
  HasExt,      \* the segments that are file names with an extension
  CacheSize,   \* capacity of the LRU cache of the static file handler
  MaxRoutes    \* bound on the calls of addRoute

Segment == [kind : {"static", "param", "star"}, name : STRING]
Static(name) == [kind |-> "static", name |-> name]
Param(name) == [kind |-> "param", name |-> name]
Star == [kind |-> "star", name |-> "*"]

Fresh == "fresh"  \* a name that no route uses

ASSUME ConstAssumption ==
  /\ Route \subseteq [method : Method, slash : BOOLEAN, segs : Seq(Segment \ {Static(Fresh)})]
  /\ Request \subseteq Seq(STRING)
  /\ Mdls \subseteq Seq(STRING)
  /\ CacheSize \in Nat

VARIABLES
  trees,   \* [methods with a tree -> [nodes -> handler]]
  routes,  \* the registrations that succeeded, in order
  calls,   \* number of calls of addRoute, which names the next handler
  mdls,    \* the middlewares
  cache,   \* the static files in the LRU cache, the latest used first
  phase,   \* "register", then "serve"
  out      \* what became of the last request

vars == <<trees, routes, calls, mdls, cache, phase, out>>

NoHandler == 0

-----------------------------------------------------------------------------
(* The routing tree *)

Children(t, n, kind) ==
  {k \in DOMAIN t : Len(k) = Len(n) + 1 /\ IsPrefix(n, k) /\ Last(k).kind = kind}

With(f, x, v) == [y \in DOMAIN f \cup {x} |-> IF y = x THEN v ELSE f[y]]

Add(t, k) == IF k \in DOMAIN t THEN t ELSE With(t, k, NoHandler)

Replace_DropsSiblings(t, old, k) ==
  Add(RestrictDomain(t, LAMBDA x : x = Front(k) \/ ~IsPrefix(Front(k), x)), k)

(* A new node without children takes the place of the old one. *)
Replace(t, old, k) ==
  Add(RestrictDomain(t, LAMBDA x : \A o \in old : ~IsPrefix(o, x)), k)

(* x: the tree, the node reached and whether addRoute has panicked. *)
childOrCreate(x, seg) ==
  LET k == Append(x.at, seg)
      go(t) == [x EXCEPT !.t = t, !.at = k]
      kids(kind) == Children(x.t, x.at, kind)
  IN CASE x.panic \/ seg = Static("") -> [x EXCEPT !.panic = TRUE]
       [] ~x.panic /\ seg.kind = "param" ->
            IF kids("star") # {} THEN [x EXCEPT !.panic = TRUE] ELSE go(Replace(x.t, kids("param"), k))
       [] ~x.panic /\ seg.kind = "star" ->
            IF kids("param") # {} THEN [x EXCEPT !.panic = TRUE] ELSE go(Replace(x.t, kids("star"), k))
       [] OTHER -> go(Add(x.t, k))

(* The tree of the method is there even after a path that is rejected. *)
addRoute(t, p, h) ==
  LET start == [t |-> t, at |-> <<>>, panic |-> FALSE]
      end == IF ~p.slash \/ (p.segs # <<>> /\ Last(p.segs) = Static(""))
             THEN [start EXCEPT !.panic = TRUE]
             ELSE FoldLeft(childOrCreate, start, p.segs)
  IN IF end.panic \/ end.t[end.at] # NoHandler THEN [end EXCEPT !.panic = TRUE]
     ELSE [end EXCEPT !.t[end.at] = h]

(* A static child before the parameter, the parameter before the wildcard; *)
(* there is no way back when a later segment does not match.               *)
childOf(t, n, name) ==
  LET static == Append(n, Static(name))
      param == Children(t, n, "param")
  IN IF static \in DOMAIN t THEN {static}
     ELSE IF param # {} THEN param ELSE Children(t, n, "star")

Bind_KeepsFirst(params, k, name) ==
  IF Last(k).kind = "param" /\ Last(k).name \notin DOMAIN params
  THEN With(params, Last(k).name, name) ELSE params

(* pathParams[child.path[1:]] = seg *)
Bind(params, k, name) ==
  IF Last(k).kind = "param" THEN With(params, Last(k).name, name) ELSE params

Step(t, x, name) ==
  LET next == IF x.found THEN childOf(t, x.at, name) ELSE {}
      k == CHOOSE k \in next : TRUE
  IN IF next = {} THEN [x EXCEPT !.found = FALSE]
     ELSE [x EXCEPT !.at = k, !.params = Bind(x.params, k, name)]

(* strings.Trim(path, "/"): a path of slashes only leaves one empty segment. *)
Trim(req) ==
  LET full == {i \in DOMAIN req : req[i] # ""}
  IN IF full = {} THEN <<"">>
     ELSE SubSeq(req, CHOOSE i \in full : \A j \in full : i <= j, CHOOSE i \in full : \A j \in full : i >= j)

NoParams == [p \in {} |-> ""]

findRoute(m, req) ==
  LET root == [found |-> m \in DOMAIN trees, at |-> <<>>, params |-> NoParams]
  IN IF m \notin DOMAIN trees \/ req = <<>> THEN root
     ELSE FoldLeft(LAMBDA x, name : Step(trees[m], x, name), root, Trim(req))

Hit(m, req) == LET x == findRoute(m, req) IN x.found /\ trees[m][x.at] # NoHandler

Init ==
  /\ trees = [m \in {} |-> <<>>] /\ routes = <<>> /\ calls = 0
  /\ mdls \in Mdls /\ cache = <<>>
  /\ phase = "register"
  /\ out = [done |-> FALSE]

NewTree == [n \in {<<>>} |-> NoHandler]

(* Get, Post, Options.  The caller may survive the panic of a bad route. *)
Register ==
  /\ phase = "register" /\ calls < MaxRoutes
  /\ calls' = calls + 1
  /\ \E p \in Route :
       IF p.segs = <<>> /\ ~p.slash THEN UNCHANGED <<trees, routes>>
       ELSE LET m == p.method
                t == IF m \in DOMAIN trees THEN trees[m] ELSE NewTree
                r == addRoute(t, p, calls + 1)
            IN /\ trees' = With(trees, m, r.t)
               /\ routes' = IF r.panic THEN routes
                            ELSE Append(routes, [method |-> m, segs |-> p.segs, handler |-> calls + 1])
  /\ UNCHANGED <<mdls, cache, phase, out>>

Start ==
  /\ phase = "register"
  /\ phase' = "serve"
  /\ UNCHANGED <<trees, routes, calls, mdls, cache, out>>

-----------------------------------------------------------------------------
(* Serving.  A Context holds what the middlewares see of the response;     *)
(* wire is what was written to the connection.                             *)

NewContext == [status |-> 0, data |-> "", route |-> <<>>, params |-> NoParams, handler |-> NoHandler,
               cache |-> cache, wire |-> <<>>, logged |-> 0, panic |-> FALSE]

Stored(ctx, status, data) == [ctx EXCEPT !.status = status, !.data = data]
Written(ctx, status, data) == [ctx EXCEPT !.wire = <<status, data>>]
Panics(ctx) == [ctx EXCEPT !.panic = TRUE]

(* RespJSON writes the response itself and also leaves it in the Context;  *)
(* with a value that cannot be marshalled it does neither.                 *)
RespJSON(ctx, status, ok) == IF ok THEN Written(Stored(ctx, status, "data"), status, "data") ELSE ctx

(* Render leaves the page in the Context. *)
Render(ctx, ok) == IF ok THEN Stored(ctx, 200, "data") ELSE [ctx EXCEPT !.status = 500]

(* FileUpLoader: the form file, the destination and the copy may all fail. *)
Upload(ctx, ok) == Stored(ctx, IF ok THEN 200 ELSE 500, "upload")

(* FileDownLoader: http.ServeFile writes the response. *)
Download(ctx, ok) == IF ok THEN Written(ctx, 200, "file") ELSE Stored(ctx, 400, "noFile")

(* The entry becomes the latest used; the oldest leaves a full cache. *)
CacheAdd(c, entry) ==
  LET old == {i \in DOMAIN c : c[i].name = entry.name}
      all == <<entry>> \o IF old = {} THEN c ELSE RemoveAt(c, CHOOSE i \in old : TRUE)
  IN SubSeq(all, 1, IF Len(all) > CacheSize THEN CacheSize ELSE Len(all))

ToCache_Any(c, name, file) == CacheAdd(c, [name |-> name, data |-> file])

(* len(data) <= maxSize; a failed read has no data and is added too. *)
ToCache(c, name, file) ==
  IF file = "big" THEN c ELSE CacheAdd(c, [name |-> name, data |-> IF file = "unreadable" THEN "" ELSE file])

(* StaticResourceHandler.  file is what os.ReadFile finds: "small", "big", *)
(* or "unreadable".  A name without an extension panics in Ext(dst)[1:].   *)
StaticFile(ctx, file) ==
  LET name == ctx.params["file"]
      hit == {i \in DOMAIN ctx.cache : ctx.cache[i].name = name}
  IN IF "file" \notin DOMAIN ctx.params THEN Stored(ctx, 400, "badPath")
     ELSE IF name \notin HasExt THEN Panics(ctx)
     ELSE IF hit # {}
          THEN LET e == ctx.cache[CHOOSE i \in hit : TRUE]
               IN [Stored(ctx, 200, e.data) EXCEPT !.cache = CacheAdd(@, e)]
     ELSE LET read == [ctx EXCEPT !.cache = ToCache(@, name, file)]
          IN IF file = "unreadable" THEN Stored(read, 500, "serverError") ELSE Stored(read, 200, file)

Files == {"small", "big", "unreadable"}
Behaviours ==
  ({"json"} \X {200, 500} \X BOOLEAN) \cup ({"render", "upload", "download"} \X BOOLEAN)
    \cup ({"static"} \X Files) \cup {<<"panic">>}

Handler(ctx, does) ==
  CASE does[1] = "json" -> RespJSON(ctx, does[2], does[3])
    [] does[1] = "render" -> Render(ctx, does[2])
    [] does[1] = "upload" -> Upload(ctx, does[2])
    [] does[1] = "download" -> Download(ctx, does[2])
    [] does[1] = "static" -> StaticFile(ctx, does[2])
    [] does[1] = "panic" -> Panics(ctx)

serve(ctx, m, req, does) ==
  LET x == findRoute(m, req)
  IN IF Hit(m, req)
     THEN Handler([ctx EXCEPT !.params = x.params, !.route = x.at, !.handler = trees[m][x.at]], does)
     ELSE [ctx EXCEPT !.status = 404, !.data = "notFound"]

(* recover fills the Context and then calls Log, which panics again inside *)
(* the deferred function when the builder was given none.                  *)
Recovered(ctx, hasLog) ==
  IF ctx.panic THEN [ctx EXCEPT !.panic = ~hasLog, !.data = "recovered", !.status = 500] ELSE ctx

ErrorPage(ctx) ==
  IF ~ctx.panic /\ ctx.status \in ErrCodes THEN [ctx EXCEPT !.data = "page"] ELSE ctx

(* Deferred, so it also logs while a panic goes through.  The builder has  *)
(* its logFunc; without one every request would panic here.                *)
AccessLogged(ctx) == [ctx EXCEPT !.logged = @ + 1]

(* The last middleware is wrapped first, so the first one runs outermost. *)
Wrap(middleware, ctx) ==
  CASE middleware = "recover" -> Recovered(ctx, TRUE)
    [] middleware = "recoverNoLog" -> Recovered(ctx, FALSE)
    [] middleware = "errhdl" -> ErrorPage(ctx)
    [] middleware = "accesslog" -> AccessLogged(ctx)
    [] OTHER -> ctx

Chain_Reversed(ctx) == FoldLeft(LAMBDA x, m : Wrap(m, x), ctx, mdls)
Chain(ctx) == FoldRight(Wrap, mdls, ctx)

(* One call of ServeHTTP.  A request that finds no handler runs none. *)
ServeHTTP ==
  /\ phase = "serve" /\ ~out.done
  /\ \E m \in Method, req \in Request :
       \E does \in IF Hit(m, req) THEN Behaviours ELSE {<<"none">>} :
         LET ctx == Chain(serve(NewContext, m, req, does))
         IN out' = [done |-> TRUE, does |-> does[1], ctx |-> ctx] /\ cache' = ctx.cache
  /\ UNCHANGED <<trees, routes, calls, mdls, phase>>

(* net/http ends the response; the Context is dropped with it. *)
EndOfRequest ==
  /\ out.done
  /\ out' = [done |-> FALSE]
  /\ UNCHANGED <<trees, routes, calls, mdls, cache, phase>>

Next == Register \/ Start \/ ServeHTTP \/ EndOfRequest

Spec == Init /\ [][Next]_vars

-----------------------------------------------------------------------------
(* Properties *)

(* The routing trees are trees (newRouter, childOrCreate): the parent of a *)
(* node is a node, no node has both a parameter and a wildcard below it,   *)
(* and none has two parameters.                                            *)
TreesAreTrees ==
  \A m \in DOMAIN trees : \A n \in DOMAIN trees[m] :
    LET wild == Children(trees[m], n, "param") \cup Children(trees[m], n, "star")
    IN /\ n # <<>> => Front(n) \in DOMAIN trees[m]
       /\ \A a, b \in wild : a = b

Names(req) == IF req = <<>> THEN <<>> ELSE Trim(req)

Matches(segs, names) ==
  /\ Len(segs) = Len(names)
  /\ \A i \in DOMAIN segs : segs[i].kind = "static" => segs[i].name = names[i]

ParamsOf(segs) == {i \in DOMAIN segs : segs[i].kind = "param"}

Binds(segs, names, params) ==
  /\ DOMAIN params = {segs[i].name : i \in ParamsOf(segs)}
  /\ \A i \in ParamsOf(segs) :
       (\A j \in ParamsOf(segs) : j > i => segs[j].name # segs[i].name)
         => params[segs[i].name] = names[i]

(* findRoute reaches only a handler that was registered, under the method  *)
(* of the request, for a route that the request's path matches segment by  *)
(* segment, and the path parameters are the segments at the places of that *)
(* route's parameters: no registration, rejected ones included, ever sends *)
(* a request to the handler of another route.                              *)
FoundMatches ==
  \A m \in Method, req \in Request : Hit(m, req) =>
    LET x == findRoute(m, req)
    IN \E i \in DOMAIN routes :
         /\ routes[i].method = m /\ routes[i].handler = trees[m][x.at]
         /\ Matches(routes[i].segs, Names(req))
         /\ Binds(routes[i].segs, Names(req), x.params)

AllStatic(segs) == \A i \in DOMAIN segs : segs[i].kind = "static"

(* A route of static segments is found by its own path for ever after its  *)
(* registration: childOf prefers the static child, and the parameter and   *)
(* wildcard nodes that childOrCreate throws away hold none of it.          *)
StaticKept ==
  \A i \in DOMAIN routes : AllStatic(routes[i].segs) =>
    LET x == findRoute(routes[i].method, [j \in DOMAIN routes[i].segs |-> routes[i].segs[j].name])
    IN x.found /\ trees[routes[i].method][x.at] = routes[i].handler

(* Right after addRoute returns, the route answers: a path that puts names *)
(* no route uses in the place of the parameters and wildcards is led to    *)
(* the new handler, whatever was registered or rejected before.            *)
LatestServes ==
  (routes # <<>> /\ Last(routes).handler = calls) =>
    LET r == Last(routes)
        x == findRoute(r.method, [j \in DOMAIN r.segs |->
                                    IF r.segs[j].kind = "static" THEN r.segs[j].name ELSE Fresh])
    IN x.found /\ trees[r.method][x.at] = r.handler

(* What addRoute keeps, in whatever order the routes are registered and    *)
(* rejected: the shape of the trees, the static routes, the latest route.  *)
RoutesKept == TreesAreTrees /\ StaticKept /\ LatestServes

Has(middleware) == \E i \in DOMAIN mdls : mdls[i] = middleware

(* With a recover middleware that has its Log in the chain no panic of a   *)
(* handler, or of the missing Log of another recover, reaches net/http,    *)
(* and RespStatusCode is the configured one when the chain is done:        *)
(* Context is shared by the whole chain, so every middleware outside sees  *)
(* that status and not what the handler left.                              *)
RecoverContains ==
  out.done /\ Has("recover") =>
    /\ ~out.ctx.panic
    /\ out.does = "panic" => out.ctx.status = 500

(* The chain runs the first middleware of the list outermost: errhdl put   *)
(* before recover has the last word on RespData for every RespStatusCode   *)
(* that it has a page for, the recovered panics and the 404 included.      *)
ErrorPageLast ==
  (out.done /\ mdls # <<>> /\ Head(mdls) = "errhdl" /\ ~out.ctx.panic /\ out.ctx.status \in ErrCodes)
    => out.ctx.data = "page"

(* accesslog logs a request once, though the handler panics through it.    *)
LoggedOnce == out.done => out.ctx.logged = Cardinality({i \in DOMAIN mdls : mdls[i] = "accesslog"})

(* What reaches the client is not the Context.  ServeHTTP never calls      *)
(* flashResp, though the comment at serve.go:100 has respData and          *)
(* respStatusCode flushed there: only what RespJSON or http.ServeFile      *)
(* wrote themselves is sent, an error page never replaces it, and the 404, *)
(* a page rendered, a file, a recovered panic are all sent as net/http's   *)
(* empty 200.                                                              *)
OnlyHandlersWrite ==
  out.done =>
    /\ out.does \notin {"json", "download"} => out.ctx.wire = <<>>
    /\ out.ctx.wire # <<>> => out.ctx.wire[2] \in {"data", "file"}

(* What a chain of middlewares does with a panic, a status, a request and  *)
(* a response, in each of the orders in which a server may have them.      *)
ChainContains == RecoverContains /\ ErrorPageLast /\ LoggedOnce /\ OnlyHandlersWrite

(* The cache of the static files holds no big file, no file twice and no   *)
(* more files than its capacity, whichever requests filled it: "at most    *)
(* size(cache) * maxsize" of memory, as the comment above the type says.   *)
CacheBounded ==
  /\ Len(cache) <= CacheSize
  /\ \A i \in DOMAIN cache :
       cache[i].data # "big" /\ \A j \in DOMAIN cache : cache[i].name = cache[j].name => i = j

-----------------------------------------------------------------------------
(* The inductive invariant of the router *)

(* The segments of a node: childOrCreate makes no node for an empty one. *)
NodeSegment == Segment \ {Static(""), Static(Fresh)}

IsTree(t) ==
  /\ DOMAIN t \subseteq Seq(NodeSegment) /\ <<>> \in DOMAIN t
  /\ \A n \in DOMAIN t \ {<<>>} : Front(n) \in DOMAIN t
  /\ \A a, b \in DOMAIN t \ {<<>>} :
       Front(a) = Front(b) /\ Last(a).kind # "static" /\ Last(b).kind # "static" => a = b

(* The node of the route is there and has the handler of the route. *)
Holds(ts, r) ==
  r.method \in DOMAIN ts /\ r.segs \in DOMAIN ts[r.method] /\ ts[r.method][r.segs] = r.handler

RouterInv ==
  /\ calls \in Nat
  /\ routes \in Seq([method : Method, segs : Seq(NodeSegment), handler : 1..calls])
  /\ \A m \in DOMAIN trees : IsTree(trees[m])
  /\ \A m \in DOMAIN trees : \A n \in DOMAIN trees[m] : trees[m][n] # NoHandler =>
       \E i \in DOMAIN routes : routes[i] = [method |-> m, segs |-> n, handler |-> trees[m][n]]
  /\ \A i \in DOMAIN routes : AllStatic(routes[i].segs) => Holds(trees, routes[i])
  /\ routes # <<>> /\ Last(routes).handler = calls => Holds(trees, Last(routes))

(* The inductive invariant of the requests: the entries of the cache have  *)
(* different names, and none is a big file.                                *)
Entry == [name : HasExt, data : {"", "small"}]
Sound(c) ==
  /\ c \in Seq(Entry) /\ Len(c) <= CacheSize
  /\ \A i, j \in DOMAIN c : c[i].name = c[j].name => i = j

ServeInv == mdls \in Seq(STRING) /\ Sound(cache) /\ ChainContains
=============================================================================
