---------------------------- MODULE DatabaseObject ----------------------------
(***************************************************************************)
(* The database object scripts get from database.open                      *)
(* (src/ext/databaselib/databaseobject.go): exec, query, query_rows,        *)
(* query_first, select, select_first, selectx, selectx_first, exec_file,   *)
(* close and the pool settings, called by the script goroutines of a       *)
(* sandbox on one shared *sqlx.DB.                                         *)
(*                                                                         *)
(* The *sqlx.DB is database/sql's pool: a call waits for a connection      *)
(* while set_max_open's limit is reached, and a Rows holds its connection  *)
(* until it is closed.  Every query goes through doQuery, which prepares   *)
(* a statement (Preparex or PrepareNamed) and queries it; the statement is *)
(* kept by the server until it is closed or the database is.  The server  *)
(* refuses to prepare more than MaxStmts statements.                       *)
(***************************************************************************)
EXTENDS Integers, FiniteSets

CONSTANTS
    Procs,      \* script goroutines calling the object
    Drivers,    \* the drivers database.open may be given
    MaxStmts,   \* the server's limit on prepared statements
    OpenLimits, \* the limits scripts pass to set_max_open (and -1, no limit)
    MaxLines    \* bound on the lines of a file exec_file reads

\* selectx and selectx_first: queryMap(true, ...), select and select_first
\* with camel-case column names.
SelectxFns == {"selectx", "selectx_first"}

\* The pool settings besides set_max_open.
PoolFns == {"set_max_idle", "set_max_idle_time", "set_max_life_time"}

Fns == {"exec", "query", "query_rows", "query_first", "select", "select_first", "close",
        "set_max_open", "exec_file"} \cup SelectxFns \cup PoolFns
Results == {"none", "rows", "row", "undefined", "errobj", "goerr", "panic", "true"}

VARIABLES
    driver,   \* the driver the database was opened with
    pc,       \* pc[p]: where p's call is
    fn,       \* fn[p]: the function p called
    busy,     \* busy[p]: p's call holds a connection
    failed,   \* failed[p]: the database refused p's statement
    applied,  \* applied[p]: p's exec changed the database
    nrows,    \* nrows[p]: the rows p's query returned (0, or some)
    res,      \* res[p]: what the call returned to the script
    maxOpen,  \* the last limit passed to db.SetMaxOpenConns (0 or less: none)
    stmts,    \* prepared statements the server holds for the pool
    closed,   \* db.Close has run
    query,    \* query[p]: exec_file's currentQuery is not empty
    lines     \* lines[p]: the lines exec_file has read

vars == <<driver, pc, fn, busy, failed, applied, nrows, res, maxOpen, stmts, closed,
          query, lines>>

TypeOK ==
    /\ driver \in Drivers
    /\ pc \in [Procs -> {"idle", "exec", "prepare", "query", "rows", "file", "done"}]
    /\ fn \in [Procs -> Fns \cup {"none"}]
    /\ busy \in [Procs -> BOOLEAN]
    /\ failed \in [Procs -> BOOLEAN]
    /\ applied \in [Procs -> BOOLEAN]
    /\ nrows \in [Procs -> {0, 1}]
    /\ res \in [Procs -> Results]
    /\ maxOpen \in {-1, 0} \cup OpenLimits
    /\ stmts \in 0..MaxStmts
    /\ closed \in BOOLEAN
    /\ query \in [Procs -> BOOLEAN]
    /\ lines \in [Procs -> 0..MaxLines]

Init ==
    /\ driver \in Drivers
    /\ pc = [p \in Procs |-> "idle"]
    /\ fn = [p \in Procs |-> "none"]
    /\ busy = [p \in Procs |-> FALSE]
    /\ failed = [p \in Procs |-> FALSE]
    /\ applied = [p \in Procs |-> FALSE]
    /\ nrows = [p \in Procs |-> 0]
    /\ res = [p \in Procs |-> "none"]
    /\ maxOpen = 0
    /\ stmts = 0
    /\ closed = FALSE
    /\ query = [p \in Procs |-> FALSE]
    /\ lines = [p \in Procs |-> 0]

\* database/sql hands out a connection while fewer than maxOpen are in
\* use; SetMaxOpenConns takes a limit of 0 or less as none.
ConnFree == maxOpen <= 0 \/ Cardinality({p \in Procs : busy[p]}) < maxOpen

\* Functions whose result is an array of rows, and those that take its first.
ArrayFns == {"query", "select", "selectx"}
FirstFns == {"query_first", "select_first", "selectx_first"}

-----------------------------------------------------------------------------

\* What a call leaves alone.
Fixed == UNCHANGED <<driver, maxOpen, closed, query, lines>>

\* The script calls fn on the object.
Call(p, f) ==
    /\ pc[p] = "idle" /\ f \in Fns \ ({"close", "set_max_open", "exec_file"} \cup PoolFns)
    /\ pc' = [pc EXCEPT ![p] = IF f = "exec" THEN "exec" ELSE "prepare"]
    /\ fn' = [fn EXCEPT ![p] = f]
    /\ failed' = [failed EXCEPT ![p] = FALSE]
    /\ applied' = [applied EXCEPT ![p] = FALSE]
    /\ UNCHANGED <<busy, nrows, res, stmts>>
    /\ Fixed

\* Database.Exec: db.Exec (or NamedExec) takes a connection for the
\* statement and gives it back; then result.LastInsertId() and
\* RowsAffected(), any error of which returns an error object.  mssql's
\* Result.LastInsertId always returns an error.
Exec(p) ==
    /\ pc[p] = "exec" /\ ConnFree
    /\ pc' = [pc EXCEPT ![p] = "done"]
    /\ \/ /\ ~closed
          /\ applied' = [applied EXCEPT ![p] = TRUE]
          /\ res' = [res EXCEPT ![p] = IF driver = "mssql" THEN "errobj" ELSE "rows"]
          /\ UNCHANGED failed
       \/ /\ failed' = [failed EXCEPT ![p] = TRUE]
          /\ res' = [res EXCEPT ![p] = "errobj"]
          /\ UNCHANGED applied
    /\ UNCHANGED <<fn, busy, nrows, stmts>>
    /\ Fixed

\* doQuery returned an error with no rows: Query and queryMap return
\* util.Error(err); query_first and select_first pass that error object
\* on; QueryRows calls rows.Columns() on the nil rows first.
Fail(p) ==
    /\ failed' = [failed EXCEPT ![p] = TRUE]
    /\ res' = [res EXCEPT ![p] = IF fn[p] = "query_rows" THEN "panic" ELSE "errobj"]
    /\ pc' = [pc EXCEPT ![p] = "done"]

\* doQuery: d.db.Preparex(query) (PrepareNamed for a map) takes a
\* connection to prepare on and gives it back.  The server refuses the
\* statement at its limit, on a closed database, or for bad SQL.  The
\* statement is never closed.
Prepare(p) ==
    /\ pc[p] = "prepare" /\ ConnFree
    /\ \/ /\ ~closed /\ stmts < MaxStmts
          /\ stmts' = stmts + 1
          /\ pc' = [pc EXCEPT ![p] = "query"]
          /\ UNCHANGED <<failed, res>>
       \/ /\ Fail(p)
          /\ UNCHANGED stmts
    /\ UNCHANGED <<fn, busy, applied, nrows>>
    /\ Fixed

\* stmt.Queryx: takes a connection, which the Rows holds; the query may
\* fail, giving the connection back.
QueryStep(p) ==
    /\ pc[p] = "query" /\ ConnFree
    /\ \/ /\ ~closed
          /\ busy' = [busy EXCEPT ![p] = TRUE]
          /\ pc' = [pc EXCEPT ![p] = "rows"]
          /\ \E n \in {0, 1} : nrows' = [nrows EXCEPT ![p] = n]
          /\ UNCHANGED <<failed, res>>
       \/ /\ Fail(p)
          /\ UNCHANGED <<busy, nrows>>
    /\ UNCHANGED <<fn, applied, stmts>>
    /\ Fixed

\* What a call that went through returns: the array of rows (a map of
\* columns and rows for query_rows), or for the *_first functions its
\* first element, undefined for no rows.
Success(p, n) ==
    IF fn[p] \in FirstFns THEN (IF n = 0 THEN "undefined" ELSE "row") ELSE "rows"

Done(p, r) ==
    /\ res' = [res EXCEPT ![p] = r]
    /\ busy' = [busy EXCEPT ![p] = FALSE]
    /\ pc' = [pc EXCEPT ![p] = "done"]

\* Mutant of Rows: an error return skips rows.Close.
RowsNoDefer(p) ==
    /\ pc[p] = "rows"
    /\ \/ /\ failed' = [failed EXCEPT ![p] = TRUE]
          /\ res' = [res EXCEPT ![p] = IF fn[p] = "query_rows" THEN "goerr" ELSE "errobj"]
          /\ pc' = [pc EXCEPT ![p] = "done"]
          /\ UNCHANGED busy
       \/ /\ failed' = [failed EXCEPT ![p] = TRUE]
          /\ Done(p, Success(p, 0))
       \/ /\ Done(p, Success(p, nrows[p]))
          /\ UNCHANGED failed
    /\ UNCHANGED <<fn, applied, nrows, stmts>>
    /\ Fixed

\* What a failure while reading the rows returns: util.Error for a
\* ColumnTypes or scan error; QueryRows calls rows.Columns first and
\* returns its error as a Go error.
RowsErrors(f) == IF f = "query_rows" THEN {"goerr", "errobj"} ELSE {"errobj"}

\* Query, QueryRows and queryMap over the rows, with rows.Close deferred
\* on every return.  Columns, ColumnTypes or a row's scan may fail: an
\* error return (RowsErrors).  rows.Next may stop on an error, which
\* nothing checks (rows.Err): the rows read so far are returned.
Rows(p) ==
    /\ pc[p] = "rows"
    /\ \/ /\ failed' = [failed EXCEPT ![p] = TRUE]
          /\ \E r \in RowsErrors(fn[p]) : Done(p, r)
       \/ /\ failed' = [failed EXCEPT ![p] = TRUE]
          /\ Done(p, Success(p, 0))
       \/ /\ Done(p, Success(p, nrows[p]))
          /\ UNCHANGED failed
    /\ UNCHANGED <<fn, applied, nrows, stmts>>
    /\ Fixed

\* close(): Close(app, name) finds the cached *sqlx.DB and db.Close()s
\* it, which closes its connections and with them the statements.  The
\* object keeps the closed db.
Close(p) ==
    /\ pc[p] = "idle"
    /\ closed' = TRUE
    /\ stmts' = 0
    /\ pc' = [pc EXCEPT ![p] = "done"]
    /\ fn' = [fn EXCEPT ![p] = "close"]
    /\ UNCHANGED <<driver, busy, failed, applied, nrows, res, maxOpen, query, lines>>

\* set_max_open(n): the script's number is passed to db.SetMaxOpenConns
\* as it is, and "OK" returned.
SetMaxOpen(p, n) ==
    /\ pc[p] = "idle"
    /\ maxOpen' = n
    /\ pc' = [pc EXCEPT ![p] = "done"]
    /\ fn' = [fn EXCEPT ![p] = "set_max_open"]
    /\ UNCHANGED <<driver, busy, failed, applied, nrows, res, stmts, closed, query,
                   lines>>

\* ReflectProxy finds ExecFile's signature FuncASRE among FuncWrapper,
\* and stdlib.FuncASRE hands the script true for nil and an error object
\* for an error.
WrapError(ok) == IF ok THEN "true" ELSE "errobj"

\* set_max_idle(n): db.SetMaxIdleConns(n), returning "OK";
\* set_max_idle_time(d) and set_max_life_time(d): time.ParseDuration(d),
\* whose error is returned, then SetConnMaxIdleTime or SetConnMaxLifetime.
\* Idle connections, which these settings may close, are not modelled.
SetPoolOption(p, f, ok) ==
    /\ pc[p] = "idle"
    /\ pc' = [pc EXCEPT ![p] = "done"]
    /\ fn' = [fn EXCEPT ![p] = f]
    /\ res' = [res EXCEPT ![p] = IF f = "set_max_idle" THEN "none" ELSE WrapError(ok)]
    /\ UNCHANGED <<driver, busy, failed, applied, nrows, maxOpen, stmts, closed, query,
                   lines>>

\* The kinds of line exec_file's reader returns: a comment ("--..."),
\* a comment that ends with ';' ("-- DROP TABLE t;"), a line of SQL, and
\* a line of SQL that ends with ';'.
LineKinds == {"comment", "commentSemi", "text", "stmt"}

\* exec_file(path): os.Open, which may fail; then the reader starts with
\* an empty currentQuery.
CallExecFile(p) ==
    /\ pc[p] = "idle"
    /\ fn' = [fn EXCEPT ![p] = "exec_file"]
    /\ failed' = [failed EXCEPT ![p] = FALSE]
    /\ applied' = [applied EXCEPT ![p] = FALSE]
    /\ \/ pc' = [pc EXCEPT ![p] = "file"] /\ UNCHANGED res
       \/ pc' = [pc EXCEPT ![p] = "done"] /\ res' = [res EXCEPT ![p] = WrapError(FALSE)]
    /\ UNCHANGED <<driver, busy, nrows, maxOpen, stmts, closed, query, lines>>

\* ExecFile ends: at EOF it returns nil; any other read error, or the
\* error of an Exec, is returned.  Its locals are gone.
FileDone(p, r) ==
    /\ pc' = [pc EXCEPT ![p] = "done"]
    /\ res' = [res EXCEPT ![p] = r]
    /\ query' = [query EXCEPT ![p] = FALSE]
    /\ lines' = [lines EXCEPT ![p] = 0]

\* One turn of ExecFile's loop.  A line that is not a comment is appended
\* to currentQuery (after a newline); a line ending with ';' (a comment
\* too) ends the statement: d.db.Exec(currentQuery[0:len-1]) takes a
\* connection and gives it back, and currentQuery is emptied.  When
\* currentQuery is empty the slice bound len-1 is -1: a runtime panic.
ExecFileLine(p) ==
    /\ pc[p] = "file"
    /\ \/ FileDone(p, WrapError(TRUE)) /\ UNCHANGED <<failed, applied>>
       \/ FileDone(p, WrapError(FALSE)) /\ UNCHANGED <<failed, applied>>
       \/ \E l \in LineKinds :
            LET q == query[p] \/ l \in {"text", "stmt"} IN
            /\ lines[p] < MaxLines
            /\ CASE l \in {"comment", "text"} ->
                      /\ query' = [query EXCEPT ![p] = q]
                      /\ lines' = [lines EXCEPT ![p] = @ + 1]
                      /\ UNCHANGED <<pc, res, failed, applied>>
                 [] ~q ->
                      /\ FileDone(p, "panic")
                      /\ UNCHANGED <<failed, applied>>
                 [] OTHER ->
                      /\ ConnFree
                      /\ \/ /\ ~closed
                            /\ applied' = [applied EXCEPT ![p] = TRUE]
                            /\ query' = [query EXCEPT ![p] = FALSE]
                            /\ lines' = [lines EXCEPT ![p] = @ + 1]
                            /\ UNCHANGED <<pc, res, failed>>
                         \/ /\ failed' = [failed EXCEPT ![p] = TRUE]
                            /\ FileDone(p, WrapError(FALSE))
                            /\ UNCHANGED applied
    /\ UNCHANGED <<driver, fn, busy, nrows, maxOpen, stmts, closed>>

\* The script goes on with what the call returned; the call's locals are
\* gone.
Return(p) ==
    /\ pc[p] = "done"
    /\ pc' = [pc EXCEPT ![p] = "idle"]
    /\ res' = [res EXCEPT ![p] = "none"]
    /\ fn' = [fn EXCEPT ![p] = "none"]
    /\ failed' = [failed EXCEPT ![p] = FALSE]
    /\ applied' = [applied EXCEPT ![p] = FALSE]
    /\ nrows' = [nrows EXCEPT ![p] = 0]
    /\ UNCHANGED <<driver, busy, maxOpen, stmts, closed, query, lines>>

Step(p) == Exec(p) \/ Prepare(p) \/ QueryStep(p) \/ Rows(p) \/ ExecFileLine(p)

Next ==
    \E p \in Procs :
        \/ \E f \in Fns : Call(p, f)
        \/ CallExecFile(p) \/ Step(p) \/ Return(p) \/ Close(p)
        \/ \E n \in {-1} \cup OpenLimits : SetMaxOpen(p, n)
        \/ \E f \in PoolFns, ok \in BOOLEAN : SetPoolOption(p, f, ok)

Spec == Init /\ [][Next]_vars

-----------------------------------------------------------------------------
(* Properties                                                              *)

\* A call that has returned holds no connection: the deferred rows.Close
\* runs on every path out of Query, QueryRows and queryMap.
RowsReleased ==
    \A p \in Procs : pc[p] \in {"idle", "done"} => ~busy[p]

\* When no call is in progress the server holds no statement prepared for
\* one: each call closes what it prepared.
StmtsReleased ==
    (\A p \in Procs : pc[p] = "idle") => stmts = 0

\* No function panics: query_rows returns a failed query's error as the
\* others do, and exec_file reads any file it is given.
NoPanic ==
    \A p \in Procs : res[p] # "panic"

\* An exec whose statement ran does not report an error.
ExecReportsApplied ==
    \A p \in Procs : pc[p] = "done" /\ fn[p] = "exec" /\ applied[p] => res[p] # "errobj"

\* A query or select whose statement failed returns an error object,
\* never a result that looks complete.
FailureReported ==
    \A p \in Procs :
        pc[p] = "done" /\ fn[p] \in ArrayFns \cup FirstFns /\ failed[p] => res[p] = "errobj"

====
