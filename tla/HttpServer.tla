------------------------------ MODULE HttpServer ------------------------------
(***************************************************************************)
(* The http provider's server object (src/ext/httplib): a script builds    *)
(* the routes and middlewares of a gorilla/mux router, starts the server   *)
(* in a goroutine (start) or in its own (serve), and closes it.  Each      *)
(* request runs on its own goroutine through the middlewares registered    *)
(* when it was matched, outermost first: a middleware script              *)
(* (ScriptMiddleWare) goes on to the next handler only by calling          *)
(* process(); the route's handler is a script (ScriptHandler), a script    *)
(* directory (ScriptDirHandler) or a file server.                          *)
(*                                                                         *)
(* A response's status is fixed by its first WriteHeader or Write (net/http *)
(* ignores a later WriteHeader); a handler that wrote nothing answers 200. *)
(* Every failure is answered by responseError, which writes 500 and the    *)
(* error text.                                                             *)
(***************************************************************************)
EXTENDS Integers, Sequences, FiniteSetsExt

CONSTANTS
    Paths,     \* request paths
    Methods,   \* request methods (OPTIONS, which use_cors answers, excluded)
    SetCodes,  \* the codes scripts pass to set_status / w.status
    MaxRoutes, \* bound on the routes a script registers
    MaxMws,    \* bound on the middlewares a script registers
    MaxReqs    \* bound on the requests served

HandlerKinds == {"script", "dir", "static", "ws"}
MwKinds == {"mw", "cors"}
Codes == {0, 101, 200, 302, 400, 404, 405, 500} \cup SetCodes

VARIABLES
    routes,  \* the router's routes in registration order
    mws,     \* the router's middlewares in registration order
    srv,     \* the http.Server: "new", "listening" or "closed"
    lst,     \* start's goroutine: "none", "boot", "serving", "ended"
    spc,     \* the configuring script: "config", or blocked in serve()
    reqs,    \* the requests, each with its middleware chain and response
    files,   \* whether certFile and keyFile are set (not "")
    mode     \* how the server listens: "none", "plain" or "tls"

vars == <<routes, mws, srv, lst, spc, reqs, files, mode>>

\* The method filters of the routes the script functions register: handle
\* (and the directory, static and websocket routes) match any method; get,
\* post and put pass "GET", "POST" and "PUT" to s.handle.
RouteMethods == Methods \cup {"any"}

Route == [path: Paths, method: RouteMethods, kind: HandlerKinds]

\* lv: the level running (1..Len(chain) a middleware, Len(chain)+1 the
\* handler, 0 returned); ran: levels whose script compiled; called:
\* middlewares that called process(); status 0: nothing written yet.
Request == [chain: Seq(MwKinds), target: HandlerKinds, lv: 0..MaxMws + 1,
            ran: SUBSET (1..MaxMws + 1), called: SUBSET (1..MaxMws),
            status: Codes, body: BOOLEAN, failed: BOOLEAN, blank: BOOLEAN]

TypeOK ==
    /\ routes \in Seq(Route) /\ Len(routes) <= MaxRoutes
    /\ mws \in Seq(MwKinds) /\ Len(mws) <= MaxMws
    /\ srv \in {"new", "listening", "closed"}
    /\ lst \in {"none", "boot", "serving", "ended"}
    /\ spc \in {"config", "serving"}
    /\ reqs \in Seq(Request) /\ Len(reqs) <= MaxReqs
    /\ files \in [cert: BOOLEAN, key: BOOLEAN]
    /\ mode \in {"none", "plain", "tls"}

\* newHttpServer: init's empty router; no route, no middleware.
Init ==
    /\ routes = <<>>
    /\ mws = <<>>
    /\ srv = "new"
    /\ lst = "none"
    /\ spc = "config"
    /\ reqs = <<>>
    /\ files = [cert |-> FALSE, key |-> FALSE]
    /\ mode = "none"

-----------------------------------------------------------------------------
(* The configuring script                                                  *)

\* handle(path, script) and get/post/put: s.handle adds a route for the
\* path, with the method for get, post and put.
Handle(p, m) ==
    /\ spc = "config" /\ Len(routes) < MaxRoutes
    /\ routes' = Append(routes, [path |-> p, method |-> m, kind |-> "script"])
    /\ UNCHANGED <<mws, srv, lst, spc, reqs, files, mode>>

\* handle_script_dir(prefix, dir) and handle_static(prefix, dir): a
\* PathPrefix route to a ScriptDirHandler or a FileServer.
HandlePrefix(p, k) ==
    /\ spc = "config" /\ Len(routes) < MaxRoutes
    /\ routes' = Append(routes, [path |-> p, method |-> "any", kind |-> k])
    /\ UNCHANGED <<mws, srv, lst, spc, reqs, files, mode>>

\* handle_ws(path, script): a Path route, for any method, to a
\* WebsocketHandler.
HandleWs(p) ==
    /\ spc = "config" /\ Len(routes) < MaxRoutes
    /\ routes' = Append(routes, [path |-> p, method |-> "any", kind |-> "ws"])
    /\ UNCHANGED <<mws, srv, lst, spc, reqs, files, mode>>

\* use(scripts): one ScriptMiddleWare per script, router.Use in order.
Use(n) ==
    /\ spc = "config" /\ Len(mws) + n <= MaxMws
    /\ mws' = mws \o [i \in 1..n |-> "mw"]
    /\ UNCHANGED <<routes, srv, lst, spc, reqs, files, mode>>

\* use_cors(): router.Use(mux.CORSMethodMiddleware(router)).
UseCors ==
    /\ spc = "config" /\ Len(mws) < MaxMws
    /\ mws' = Append(mws, "cors")
    /\ UNCHANGED <<routes, srv, lst, spc, reqs, files, mode>>

\* start(): a goroutine runs ListenAndServe(TLS); start returns nil at once.
\* start may be called again: while an earlier goroutine holds the
\* address the new one fails to bind and only logs it, which changes
\* nothing; after it ended the new one listens afresh.
Start ==
    /\ spc = "config" /\ lst \in {"none", "ended"}
    /\ lst' = "boot"
    /\ UNCHANGED <<routes, mws, srv, spc, reqs, files, mode>>

\* The listener a successful ListenAndServe(TLS) opens.
Listening(m) == srv = "new" /\ srv' = "listening" /\ mode' = m

\* start's goroutine: Boot, then ListenAndServeTLS when certFile and
\* keyFile are both set at the moment it reads them, else ListenAndServe;
\* either fails on a closed server, an address it cannot bind or (TLS)
\* files it cannot load, and the error is only logged.
Listen ==
    /\ lst = "boot"
    /\ \/ Listening(IF files.cert /\ files.key THEN "tls" ELSE "plain") /\ lst' = "serving"
       \/ lst' = "ended" /\ UNCHANGED <<srv, mode>>
    /\ UNCHANGED <<routes, mws, spc, reqs, files>>

\* serve(): the script itself runs Boot and ListenAndServe and is blocked
\* until it returns.
Serve ==
    /\ spc = "config"
    /\ \/ Listening("plain") /\ spc' = "serving"
       \/ UNCHANGED <<srv, spc, mode>>
    /\ UNCHANGED <<routes, mws, lst, reqs, files>>

\* serve_tls(cert, key): certFile and keyFile are set to the arguments,
\* then ListenAndServeTLS, which cannot load an empty file name and
\* returns its error to the script.
ServeTls(c, k) ==
    /\ spc = "config"
    /\ files' = [cert |-> c, key |-> k]
    /\ \/ c /\ k /\ Listening("tls") /\ spc' = "serving"
       \/ UNCHANGED <<srv, spc, mode>>
    /\ UNCHANGED <<routes, mws, lst, reqs>>

\* The setters tpl, root, boot_script, addr, cert and key, called with one
\* string (or assigned, s.cert = v, which IndexSet turns into the same
\* call): the field is set, even to "", and its value returned.  tpl,
\* root, boot_script and addr hold strings the model does not tell apart;
\* cert and key decide how start's goroutine listens.
Configure(f, v) ==
    /\ spc = "config"
    /\ files' = [files EXCEPT ![f] = v]
    /\ UNCHANGED <<routes, mws, srv, lst, spc, reqs, mode>>

\* close(), from any script holding the server: Server.Close closes the
\* listeners, and ListenAndServe returns ErrServerClosed to start's
\* goroutine or to serve().
Close ==
    /\ srv' = "closed"
    /\ lst' = IF lst = "serving" THEN "ended" ELSE lst
    /\ spc' = "config"
    /\ UNCHANGED <<routes, mws, reqs, files, mode>>

-----------------------------------------------------------------------------
(* Requests                                                                *)

\* The kind of handler running at the request's level.
Cur(q) == IF q.lv <= Len(q.chain) THEN q.chain[q.lv] ELSE q.target

\* WriteHeader(c): the first one is sent, a later one is ignored.
Written(q, c) == [q EXCEPT !.status = IF q.status = 0 THEN c ELSE q.status]

\* Mutant of ErrorOut: the error text is written before WriteHeader(500).
ErrorOutBodyFirst(q) ==
    [Written(q, 200) EXCEPT !.body = TRUE, !.failed = TRUE,
                            !.blank = IF q.failed THEN q.blank ELSE q.status = 0]

\* responseError: WriteHeader(500) and the error text.  blank records
\* whether nothing was written when the request first failed.
ErrorOut(q) ==
    [Written(q, 500) EXCEPT !.body = TRUE, !.failed = TRUE,
                            !.blank = IF q.failed THEN q.blank ELSE q.status = 0]

\* The running level returns to the one around it; when the outermost
\* returns net/http ends the response, with 200 if nothing was written.
Popped(q) ==
    IF q.lv = 1 THEN [Written(q, 200) EXCEPT !.lv = 0] ELSE [q EXCEPT !.lv = q.lv - 1]

\* The router matches a request: the first route whose path and method
\* match, run behind the middlewares registered now; a path matched only
\* with other methods is 405, no path 404.  Neither error goes through the
\* middlewares.
Arrive(p, m) ==
    /\ srv = "listening" /\ Len(reqs) < MaxReqs
    /\ LET M == {i \in 1..Len(routes) : routes[i].path = p /\ routes[i].method \in {"any", m}}
           P == {i \in 1..Len(routes) : routes[i].path = p}
           none == [chain |-> <<>>, target |-> "static", lv |-> 0, ran |-> {}, called |-> {},
                    status |-> IF P # {} THEN 405 ELSE 404, body |-> TRUE, failed |-> FALSE,
                    blank |-> FALSE]
       IN reqs' = Append(reqs,
                    IF M = {} THEN none
                    ELSE [none EXCEPT !.chain = mws, !.target = routes[Min(M)].kind,
                                      !.lv = 1, !.status = 0, !.body = FALSE])
    /\ UNCHANGED <<routes, mws, srv, lst, spc, files, mode>>

\* A script level starts: GetCompiled (RunFile for a ScriptHandler)
\* either fails, answered by responseError and a return, or the script
\* runs.
Compile(q) ==
    IF Cur(q) \in {"mw", "script", "dir"} /\ q.lv \notin q.ran
      THEN {[q EXCEPT !.ran = @ \cup {q.lv}], Popped(ErrorOut(q))}
      ELSE {}

\* Levels inside level l.
Inner(l) == l + 1..MaxMws + 1

\* process(), bound by the middleware: s.next.ServeHTTP, the next
\* middleware or the handler, run afresh on every call.
Process(q) ==
    IF q.lv <= Len(q.chain)
      THEN {[q EXCEPT !.lv = q.lv + 1, !.called = (@ \ Inner(q.lv)) \cup {q.lv},
                      !.ran = @ \ Inner(q.lv)]}
      ELSE {}

\* A response function that fails returns a Go error: the VM stops the
\* script with it, and the handler answers with responseError.
Fails(q) == Popped(ErrorOut(q))

\* writeResponse, for w.body(...) and w.json(...): each string, bytes or
\* convertible argument is written (the first Write fixes the status at
\* 200); undefined is skipped; a failed Write is returned as the error.
WriteResponse(q) == {q, [Written(q, 200) EXCEPT !.body = TRUE], Fails(q)}

\* w.redirect(url): no argument is ErrWrongNumArguments; otherwise the
\* Location and cache headers, then WriteHeader(302).
Redirect(q) == {Fails(q), Written(q, 302)}

\* w.status(code) and the handler's set_status(code): one int argument,
\* else an error; then WriteHeader(code).
Status(q) == {Fails(q)} \cup {Written(q, c) : c \in SetCodes}

\* w.header(map) and set_header: a map of strings sets headers, anything
\* else is an error; w.set_cookie only logs what it cannot set.
SetHeaders(q) == {q, Fails(q)}

\* The request functions: header, method, url and query never fail;
\* body, form, file and all_file return the error of reading or parsing
\* the body; post_form drops ParseMultipartForm's error and returns an
\* empty map.
RequestRead(q) == {q, Fails(q)}

\* HtmlViewConverter.Write, for the "view" path variable: the template is
\* looked up, or read from view/<name>.tpl.html and parsed (once per name,
\* through a singleflight group), which may fail before anything is
\* written; then Execute writes the page, and may fail part-way, after
\* its first Write has fixed the status at 200.
HtmlWrite(q) ==
    LET w == [Written(q, 200) EXCEPT !.body = TRUE] IN {Fails(q), w, Fails(w)}

\* JsonConverter.Write: []byte as it is, anything else json.Marshal'ed (an
\* error before writing); then the Content-Type header and one Write,
\* whose error comes after the status is fixed.
JsonWrite(q) ==
    LET w == [Written(q, 200) EXCEPT !.body = TRUE] IN {Fails(q), w, Fails(w)}

\* JsonConverter.Read: the body, empty giving nil, else json.Unmarshal'ed;
\* reading or decoding may fail.
JsonRead(q) == {q, Fails(q)}

\* MediaConverterManager.Write and Read: the first converter of
\* <<HtmlViewConverter, JsonConverter>> that can write (read) the media
\* type.  The HTML converter reads nothing, so reads go to JSON.
ConvertWrite(q, mt) == IF mt = "text/html" THEN HtmlWrite(q) ELSE JsonWrite(q)
ConvertRead(q) == JsonRead(q)

\* The functions only a ScriptHandler's script gets: view(name, data),
\* get_json() and set_json(data) (also write_json), each of which returns
\* ErrWrongNumArguments for a wrong argument count, and view an error for
\* a name that is not a string; their converter errors stop the script.
HandlerFuncs(q) ==
    {Fails(q)} \cup ConvertWrite(q, "text/html") \cup ConvertWrite(q, "application/json")
    \cup ConvertRead(q)

\* A running script: it calls the response and request functions, a
\* middleware calls process(), and the run ends, or fails and is answered
\* by responseError.
ScriptStep(q) ==
    IF Cur(q) \in {"mw", "script", "dir"} /\ q.lv \in q.ran
      THEN WriteResponse(q) \cup Redirect(q) \cup Status(q) \cup SetHeaders(q)
           \cup RequestRead(q) \cup {Popped(q), Fails(q)}
           \cup (IF Cur(q) = "mw" THEN Process(q) ELSE {})
           \cup (IF Cur(q) = "script" THEN HandlerFuncs(q) ELSE {})
      ELSE {}

\* WebsocketHandler.ServeHTTP: Upgrade fails with http.Error (400 for a
\* bad handshake, 405 for a method other than GET) and the handler
\* returns; or it answers 101 and hijacks the connection.  Then
\* GetCompiled and the script's run, whose failures are only logged: the
\* handler returns, and the connection is never closed.
WsStep(q) ==
    IF Cur(q) = "ws" /\ q.lv > Len(q.chain)
      THEN IF q.lv \notin q.ran
             THEN {Popped([Written(q, c) EXCEPT !.body = TRUE]) : c \in {400, 405}}
                  \cup {[Written(q, 101) EXCEPT !.ran = @ \cup {q.lv}]}
             ELSE {Popped(q)}
      ELSE {}

\* CORSMethodMiddleware on a request other than OPTIONS: it sets a header
\* and calls the next handler.
CorsStep(q) ==
    IF Cur(q) = "cors"
      THEN IF q.lv \notin q.called THEN Process(q) ELSE {Popped(q)}
      ELSE {}

\* The FileServer: the file, or 404.
StaticStep(q) ==
    IF Cur(q) = "static" /\ q.lv > Len(q.chain)
      THEN {Popped([Written(q, c) EXCEPT !.body = TRUE]) : c \in {200, 404}}
      ELSE {}

\* One step of request i's goroutine.
Serving(i) ==
    /\ reqs[i].lv > 0
    /\ \E q \in Compile(reqs[i]) \cup ScriptStep(reqs[i]) \cup CorsStep(reqs[i])
                \cup StaticStep(reqs[i]) \cup WsStep(reqs[i]) :
          reqs' = [reqs EXCEPT ![i] = q]
    /\ UNCHANGED <<routes, mws, srv, lst, spc, files, mode>>

Next ==
    \/ \E p \in Paths : \/ \E m \in RouteMethods : Handle(p, m)
                        \/ \E k \in {"dir", "static"} : HandlePrefix(p, k)
                        \/ HandleWs(p)
                        \/ \E m \in Methods : Arrive(p, m)
    \/ \E n \in 1..MaxMws : Use(n)
    \/ \E f \in {"cert", "key"}, v \in BOOLEAN : Configure(f, v)
    \/ \E c, k \in BOOLEAN : ServeTls(c, k)
    \/ UseCors \/ Start \/ Listen \/ Serve \/ Close
    \/ \E i \in 1..Len(reqs) : Serving(i)

Spec == Init /\ [][Next]_vars

-----------------------------------------------------------------------------
(* Properties                                                              *)

\* A request whose first failure came before anything was written to it
\* is answered with status 500: responseError's WriteHeader(500) comes
\* before its text, and nothing an outer middleware's script does after
\* process() returns, nor net/http's implicit 200, replaces it.
FailureBeforeWriteIs500 ==
    \A i \in 1..Len(reqs) : reqs[i].lv = 0 /\ reqs[i].failed /\ reqs[i].blank => reqs[i].status = 500

\* A request whose handling failed is answered with status 500, as
\* responseError writes.
ErrorsAre500 ==
    \A i \in 1..Len(reqs) : reqs[i].lv = 0 /\ reqs[i].failed => reqs[i].status = 500

====
