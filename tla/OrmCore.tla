------------------------------ MODULE OrmCore ------------------------------
(***************************************************************************)
(* The life of one statement of the ORM (src/orm): the metadata of its     *)
(* entity, the builder and the Inserter that write SQL and collect         *)
(* arguments, and the way of the built query through the middlewares to    *)
(* the database and back into the entity.  The text of a Selector, which   *)
(* recurses over expressions, is a constant here; OrmStatement has it.     *)
(*                                                                         *)
(* SQL text is a sequence of tokens, an argument or a stored value a       *)
(* string.  A Go identifier is the sequence of its words, one per upper-   *)
(* case letter: FirstName is <<"first", "name">>.                          *)
(***************************************************************************)
EXTENDS Naturals, Sequences, SeqFolds

CONSTANTS
  Struct,      \* [entity -> description of its Go type]
  Opts,        \* [entity -> the options it was registered with]
  Entity,      \* the entities statements are made for (T)
  Preds,       \* argument lists of Where
  Tables,      \* arguments of From
  Cols,        \* argument lists of Select
  InsertCols,  \* argument lists of Columns
  Rows,        \* argument lists of Values
  Upserts,     \* what OnDuplicateKey()...Update sets
  Raws,        \* [sql, args] of RawQuery
  Mdls,        \* middleware lists of the DB
  MaxCalls,    \* bound on the calls made on one statement
  SelectText(_, _, _)  \* what Selector.Build writes: registry, statement, builder

ASSUME StatementAssumption ==
  /\ Entity \subseteq DOMAIN Struct
  /\ \A e \in DOMAIN Struct :
       /\ Len(Struct[e].fields) \in Nat /\ Len(Opts[e]) \in Nat
       /\ DOMAIN Opts[e] = 1..Len(Opts[e])
       /\ \A i \in DOMAIN Opts[e] : Opts[e][i].opt \in {"column", "table"}
  /\ Mdls \subseteq Seq({"querylog", "opentelemetry", "slowquery", "prometheus"})

NoError == "no error"
Elements(s) == {s[i] : i \in DOMAIN s}

-----------------------------------------------------------------------------
(* orm/model: the metadata of an entity *)

(* underscoreName: a word starts at every upper-case letter. *)
underscoreName(words) ==
  FoldLeft(LAMBDA s, w : IF s = "" THEN w ELSE s \o "_" \o w, "", words)

(* parseTag: the column a tag names, "" when it names none; a pair that    *)
(* does not split in two is an error.                                      *)
TagColumn(tag) ==
  FoldLeft(LAMBDA c, pair : CASE Len(pair) # 2 \/ c = "invalid tag" -> "invalid tag"
                              [] pair[1] = "column" -> pair[2]
                              [] OTHER -> c,
           "", tag)

WithColumnName(m, f, col) ==
  IF f \in DOMAIN m.fieldMap THEN [m EXCEPT !.fields[m.fieldMap[f]].col = col]
                             ELSE [m EXCEPT !.err = "unknown field"]

WithTableName(m, name) == [m EXCEPT !.table = name]

ApplyOpt(m, o) ==
  CASE m.err # NoError -> m
    [] m.err = NoError /\ o.opt = "column" -> WithColumnName(m, o.field, o.name)
    [] m.err = NoError /\ o.opt = "table" -> WithTableName(m, o.name)

ApplyOpts(m, opts) ==
  LET applied[n \in 0..Len(opts)] ==
        IF n = 0 THEN m ELSE ApplyOpt(applied[n - 1], opts[n])
  IN applied[Len(opts)]

(* columnMap[colName] = fdMeta: of two fields with one column the later    *)
(* one stays.                                                              *)
ColumnMap_LoopVariable(cols) == [c \in Elements(cols) |-> Len(cols)]

ColumnMap(cols) == [c \in Elements(cols) |-> Max({i \in DOMAIN cols : cols[i] = c})]

FieldColumn(fd) == IF TagColumn(fd.tag) = "" THEN underscoreName(fd.name) ELSE TagColumn(fd.tag)

(* The maps hold positions in fields, as the Go maps hold pointers to the  *)
(* same Field values: a later rename shows through both.                   *)
ParsedModel(s) ==
  LET places == 1..Len(s.fields)
  IN [err       |-> NoError,
      table     |-> IF s.tableName = "" THEN underscoreName(s.name) ELSE s.tableName,
      fields    |-> [i \in places |-> [go |-> s.fields[i].name, col |-> FieldColumn(s.fields[i])]],
      fieldMap  |-> [f \in {s.fields[i].name : i \in places} |->
                       CHOOSE i \in places : s.fields[i].name = f],
      columnMap |-> ColumnMap([i \in places |-> FieldColumn(s.fields[i])])]

RegisterModel(e) ==
  LET s == Struct[e]
  IN CASE s.kind # "pointer to struct" -> [ParsedModel(s) EXCEPT !.err = "point only"]
       [] s.kind = "pointer to struct" /\ \E i \in 1..Len(s.fields) : TagColumn(s.fields[i].tag) = "invalid tag" ->
            [ParsedModel(s) EXCEPT !.err = "invalid tag"]
       [] OTHER -> ApplyOpts(ParsedModel(s), Opts[e])

Models == [e \in DOMAIN Struct |-> RegisterModel(e)]

-----------------------------------------------------------------------------
(* orm/builder: text, arguments and the error that stops the build *)

NoTable == [ref |-> "nil"]
C(name) == [expr |-> "column", table |-> NoTable, name |-> name, alias |-> ""]

NoModel == [err |-> "nil"]
NewBuilder == [model |-> NoModel, sb |-> <<>>, args |-> <<>>, err |-> NoError]

WriteString(b, toks) == IF b.err = NoError THEN [b EXCEPT !.sb = @ \o toks] ELSE b
quote(b, name) == WriteString(b, <<name>>)
Panic == "panic: index out of range"

addArgs_Once(b, vals) ==
  IF b.err = NoError /\ ~\E i \in DOMAIN b.args : vals = <<b.args[i]>>
  THEN [b EXCEPT !.args = @ \o vals] ELSE b

addArgs_Prepends(b, vals) == IF b.err = NoError THEN [b EXCEPT !.args = vals \o @] ELSE b

addArgs(b, vals) == IF b.err = NoError THEN [b EXCEPT !.args = @ \o vals] ELSE b
Fail(b, e) == IF b.err = NoError THEN [b EXCEPT !.err = e] ELSE b

(* for i, x := range s { if i > 0 { "," } ... } *)
EachComma(b, s, Write(_, _)) ==
  LET written[n \in 0..Len(s)] ==
        CASE n = 0 -> b
          [] n = 1 -> Write(written[0], s[1])
          [] OTHER -> Write(WriteString(written[n - 1], <<",">>), s[n])
  IN written[Len(s)]

ColumnOf(b, m, prefix, c) ==
  IF c.name \notin DOMAIN m.fieldMap THEN Fail(b, "unknown field")
  ELSE WriteString(quote(WriteString(b, prefix), m.fields[m.fieldMap[c.name]].col),
                   IF c.alias = "" THEN <<>> ELSE <<"AS", c.alias>>)

buildColumn(r, b, c) ==
  CASE c.table.ref = "nil" -> ColumnOf(b, b.model, <<>>, c)
    [] c.table.ref = "table" ->
         LET m == r[c.table.entity]
         IN IF m.err # NoError THEN Fail(b, m.err)
            ELSE ColumnOf(b, m, IF c.table.alias = "" THEN <<>> ELSE <<c.table.alias, ".">>, c)
    [] OTHER -> Fail(b, "unsupported table reference")

(* Text and arguments are written; the model stays the one looked up. *)
Written(m, t) == [model |-> m, sb |-> t.sb, args |-> t.args, err |-> t.err]

(* The model is looked up once for a builder. *)
ModelOf(r, st, b) == IF b.model.err = "nil" THEN r[st.entity] ELSE b.model

(* Selector.Build: the text and the arguments of an earlier Build stay in  *)
(* the builder.                                                            *)
SelectWith(r, st, b, m) ==
  IF m.err # NoError THEN [b EXCEPT !.err = m.err]
  ELSE Written(m, SelectText(r, st, [b EXCEPT !.model = m, !.err = NoError]))

SelectBuild(r, st, b) == SelectWith(r, st, b, ModelOf(r, st, b))

-----------------------------------------------------------------------------
(* Inserter and the dialects *)

Assign(f, v) == [assign |-> "value", name |-> f, val |-> v]
AssignColumn(f) == [assign |-> "column", name |-> f]
NoUpsert == [assigns |-> <<>>, conflict |-> <<>>]

(* Assignments of both dialects; they differ in how a column refers to the *)
(* row that was not inserted.                                              *)
Inserted(col, dialect) ==
  IF dialect = "mysql" THEN <<"=", "VALUES", "(", col, ")">> ELSE <<"=", "excluded", ".", col>>

Assigns(b, assigns, dialect) ==
  EachComma(b, assigns,
    LAMBDA a, x :
      LET col == a.model.fields[a.model.fieldMap[x.name]].col
      IN CASE x.assign \notin {"value", "column"} -> Fail(a, "unsupported assignable")
           [] x.assign \in {"value", "column"} /\ x.name \notin DOMAIN a.model.fieldMap ->
                Fail(a, "unknown field")
           [] x.assign = "value" -> addArgs(WriteString(quote(a, col), <<"=", "?">>), <<x.val>>)
           [] OTHER -> WriteString(quote(a, col), Inserted(col, dialect)))

buildUpsertMySQL(b, u) ==
  Assigns(WriteString(b, <<"ON DUPLICATE KEY UPDATE">>), u.assigns, "mysql")

buildUpsertSQLite(r, b, u) ==
  Assigns(WriteString(EachComma(WriteString(b, <<"ON CONFLICT", "(">>), u.conflict,
                                LAMBDA a, f : buildColumn(r, a, C(f))),
                      <<")", "DO UPDATE SET">>),
          u.assigns, "sqlite")

buildUpsert(r, b, u, dialect) ==
  IF dialect = "mysql" THEN buildUpsertMySQL(b, u) ELSE buildUpsertSQLite(r, b, u)

UpsertClause(r, b, u, dialect) == IF u = NoUpsert THEN b ELSE buildUpsert(r, b, u, dialect)

(* Both valuers read the field of a row by its Go name. *)
Field(row, f) == row[f]

InsertRow(b, fields, row) ==
  WriteString(EachComma(WriteString(b, <<"(">>), fields,
                LAMBDA a, f : addArgs(WriteString(a, <<"?">>), <<Field(row, f.go)>>)),
              <<")">>)

(* The columns, with commas between them. *)
Listed(fields) ==
  [i \in 1..(2 * Len(fields) - 1) |-> IF i % 2 = 1 THEN fields[(i + 1) \div 2].col ELSE ","]

Restart_Appends(b, m) ==
  [model |-> m, sb |-> Append(b.sb, "INSERT INTO"), args |-> b.args, err |-> NoError]

Restart(b, m) == [model |-> m, sb |-> <<"INSERT INTO">>, args |-> b.args, err |-> NoError]

InsertText(r, st, b, fields, dialect) ==
  LET head == WriteString(b, Listed(fields) \o <<")", "VALUES">>)
      rows == EachComma([head EXCEPT !.args = <<>>], st.values, LAMBDA a, v : InsertRow(a, fields, v))
  IN WriteString(UpsertClause(r, rows, st.upsert, dialect), <<";">>)

InsertFields(st, m) ==
  IF st.columns = <<>> THEN m.fields
  ELSE [i \in DOMAIN st.columns |-> m.fields[m.fieldMap[st.columns[i]]]]

(* Inserter.Build starts from an empty text and, once it reaches the       *)
(* values, from an empty argument list.                                    *)
InsertWith(r, st, b, m, dialect) ==
  LET table == WriteString(Restart(b, m), <<m.table, "(">>)
  IN CASE st.values = <<>> -> [b EXCEPT !.err = "insert zero row"]
       [] st.values # <<>> /\ m.err # NoError -> [Restart(b, NoModel) EXCEPT !.err = m.err]
       [] st.values # <<>> /\ m.err = NoError /\ ~(Elements(st.columns) \subseteq DOMAIN m.fieldMap) ->
            Fail(table, "unknown column")
       [] OTHER -> Written(m, InsertText(r, st, table, InsertFields(st, m), dialect))

InsertBuild(r, st, b, dialect) == InsertWith(r, st, b, ModelOf(r, st, b), dialect)

-----------------------------------------------------------------------------
(* The life of one statement *)

VARIABLES
  db,      \* the DB: dialect, creator, middlewares and registry r
  st,      \* what the caller asked for
  b,       \* its builder
  out,     \* what the last Build, Get, GetMulti or Exec did
  calls    \* number of calls so far

statementVars == <<db, st, b, out, calls>>

Build(x) ==
  CASE st.kind = "select" -> SelectBuild(db.r, st, x)
    [] st.kind = "insert" -> InsertBuild(db.r, st, x, db.dialect)
    [] st.kind = "raw" -> [model |-> x.model, sb |-> st.raw.sql, args |-> st.raw.args, err |-> NoError]

Query(x) == [sql |-> x.sb, args |-> x.args]
Built(by, x) == IF x.err = NoError THEN <<[by |-> by, query |-> Query(x)]>> ELSE <<>>

(* What the database answers to a query; a row may carry a column the      *)
(* model does not know, or a value its field cannot hold.                  *)
Replies == {"error", "none", "row", "foreign column", "bad value"}

(* SetColumns looks up the field of every column of the row, scans and, in *)
(* the reflect valuer, sets the fields from what it scanned.               *)
KnowsColumns(m, reply) ==
  reply # "foreign column" /\ \A i \in DOMAIN m.fields : m.fields[i].col \in DOMAIN m.columnMap

FieldsRead(m) == [i \in DOMAIN m.fields |-> m.fields[m.columnMap[m.fields[i].col]].go]

reflectSetColumns(m, reply) ==
  CASE ~KnowsColumns(m, reply) -> [err |-> "unknown column", into |-> <<>>]
    [] KnowsColumns(m, reply) /\ reply = "bad value" -> [err |-> "scan error", into |-> <<>>]
    [] OTHER -> [err |-> NoError, into |-> FieldsRead(m)]

(* The unsafe valuer scans into the entity itself and drops Scan's error.  *)
unsafeSetColumns(m, reply) ==
  IF ~KnowsColumns(m, reply) THEN [err |-> "unknown column", into |-> <<>>]
  ELSE [err |-> NoError, into |-> IF reply = "bad value" THEN <<>> ELSE FieldsRead(m)]

SetColumns(m, reply) ==
  IF db.creator = "reflect" THEN reflectSetColumns(m, reply) ELSE unsafeSetColumns(m, reply)

(* A call on its way through the handlers: the builder it has reached, the *)
(* queries built so far, the deferred functions of slowquery that wait for *)
(* its return and, once it is on its way back, what the caller gets.       *)
Inward(x) == [b |-> x, built |-> <<>>, defers |-> 0, back |-> FALSE, err |-> NoError, into |-> <<>>]
Passed(s, q) ==
  [b |-> q, built |-> s.built \o Built("log", q), defers |-> s.defers, back |-> s.back,
   err |-> s.err, into |-> s.into]
Result(s, by, q, err, into) ==
  [b |-> q, built |-> s.built \o Built(by, q), defers |-> s.defers, back |-> TRUE,
   err |-> err, into |-> into]

Queried(s, q, reply) ==
  LET set == SetColumns(q.model, reply)
  IN CASE q.err # NoError -> Result(s, "send", q, q.err, <<>>)
       [] q.err = NoError /\ reply = "error" -> Result(s, "send", q, "query error", <<>>)
       [] q.err = NoError /\ reply = "none" -> Result(s, "send", q, "no rows", <<>>)
       [] OTHER -> Result(s, "send", q, set.err, set.into)

getHandler(s, reply) == Queried(s, Build(s.b), reply)

Executed(s, q, reply) ==
  Result(s, "send", q, IF q.err = NoError /\ reply = "error" THEN "exec error" ELSE q.err, <<>>)

execHandler(s, reply) == Executed(s, Build(s.b), reply)

(* The middlewares.  querylog and opentelemetry build the query before     *)
(* they pass it on, but only querylog minds an error; slowquery builds it  *)
(* after a query that took too long (one that did not passes like          *)
(* prometheus, which only measures).                                       *)
LogFirst(s, q, minds) ==
  IF q.err = Panic \/ (minds /\ q.err # NoError) THEN Result(s, "log", q, q.err, <<>>) ELSE Passed(s, q)

LogAfter(s) == Passed(s, Build(s.b))

querylog(s) == LogFirst(s, Build(s.b), TRUE)
opentelemetry(s) == LogFirst(s, Build(s.b), FALSE)
slowquery(s) == [s EXCEPT !.defers = @ + 1]
prometheus(s) == s

Enter(s, mdl) ==
  CASE s.back -> s
    [] ~s.back /\ mdl = "querylog" -> querylog(s)
    [] ~s.back /\ mdl = "opentelemetry" -> opentelemetry(s)
    [] ~s.back /\ mdl = "slowquery" -> slowquery(s)
    [] ~s.back /\ mdl = "prometheus" -> prometheus(s)

Handle(s, op, reply) ==
  CASE s.back -> s
    [] ~s.back /\ op = "get" -> getHandler(s, reply)
    [] ~s.back /\ op = "exec" -> execHandler(s, reply)

(* The root handler is wrapped from the last middleware to the first, so a *)
(* call enters the first one first; what was deferred runs on the way      *)
(* back.                                                                   *)
Entered(mdls, x) ==
  LET in[n \in 0..Len(mdls)] == IF n = 0 THEN Inward(x) ELSE Enter(in[n - 1], mdls[n])
  IN in[Len(mdls)]

Returned(s) ==
  LET left[n \in 0..s.defers] == IF n = 0 THEN s ELSE LogAfter(left[n - 1])
  IN left[s.defers]

Through(mdls, op, reply, x) == Returned(Handle(Entered(mdls, x), op, reply))

NewStatement(kind, e) ==
  [kind |-> kind, entity |-> e, table |-> NoTable, where |-> <<>>, columns |-> <<>>,
   values |-> <<>>, upsert |-> NoUpsert, raw |-> [sql |-> <<>>, args |-> <<>>]]

NewSelector(e) == NewStatement("select", e)
NewInserter(e) == NewStatement("insert", e)
RawQuery(e, q) == [NewStatement("raw", e) EXCEPT !.raw = q]

NoOut == [op |-> "none", fresh |-> FALSE, reply |-> "none", built |-> <<>>, err |-> NoError, into |-> <<>>]

StatementInit ==
  /\ db \in [dialect : {"mysql", "sqlite"}, creator : {"unsafe", "reflect"}, mdls : Mdls,
            r : {Models}]
  /\ \E e \in Entity : \/ st \in {NewSelector(e), NewInserter(e)}
                        \/ \E q \in Raws : st = RawQuery(e, q)
  /\ b = NewBuilder
  /\ out = NoOut
  /\ calls = 0

(* A call on the statement; a panic in Build ends it. *)
Call == /\ calls < MaxCalls /\ out.err # Panic
        /\ calls' = calls + 1
        /\ UNCHANGED db

Configure(kind, field, val) ==
  /\ Call /\ st.kind = kind
  /\ st' = [st EXCEPT ![field] = val]
  /\ out' = NoOut
  /\ UNCHANGED b

Where == \E ps \in Preds : Configure("select", "where", ps)
From == \E t \in Tables : Configure("select", "table", t)
Select == \E cs \in Cols : Configure("select", "columns", cs)
Columns == \E cs \in InsertCols : Configure("insert", "columns", cs)
Values == \E vs \in Rows : Configure("insert", "values", vs)
OnDuplicateKey == \E u \in Upserts : Configure("insert", "upsert", u)

Return(op, reply, s) ==
  /\ b' = s.b
  /\ out' = [op |-> op, fresh |-> b.sb = <<>> /\ b.args = <<>>, reply |-> reply,
             built |-> s.built, err |-> s.err, into |-> s.into]
  /\ UNCHANGED st

(* Build by the caller, or by GetMulti, which sends the query past the     *)
(* middlewares and returns nil, nil.                                       *)
CallBuild ==
  /\ Call
  /\ \E q \in {Build(b)} : Return("build", "none", Result(Inward(b), "caller", q, q.err, <<>>))

GetMulti ==
  /\ Call /\ st.kind = "select"
  /\ \E reply \in {"error", "row"} :
       \E q \in {Build(b)} : Return("getmulti", reply, Result(Inward(b), "send", q, q.err, <<>>))

(* A model that cannot be had ends Get and Exec before any middleware. *)
Run(op, reply, m) ==
  IF m.err # NoError THEN Return(op, "none", [Inward(b) EXCEPT !.err = m.err])
  ELSE Return(op, reply, Through(db.mdls, op, reply, [b EXCEPT !.model = m]))

Get == /\ Call /\ st.kind = "select"
       /\ \E reply \in Replies : Run("get", reply, db.r[st.entity])

Exec == /\ Call /\ st.kind = "insert"
        /\ \E reply \in {"error", "row"} :
             Run("exec", reply, IF b.model = NoModel THEN db.r[st.entity] ELSE b.model)

RawGet == /\ Call /\ st.kind = "raw"
          /\ \E reply \in Replies : Run("get", reply, db.r[st.entity])

RawExec == /\ Call /\ st.kind = "raw"
           /\ \E reply \in {"error", "row"} : Run("exec", reply, db.r[st.entity])

StatementNext ==
  \/ Where \/ From \/ Select \/ Columns \/ Values \/ OnDuplicateKey
  \/ CallBuild \/ Get \/ Exec \/ RawGet \/ RawExec \/ GetMulti

StatementSpec == StatementInit /\ [][StatementNext]_statementVars

-----------------------------------------------------------------------------
(* Properties *)

Queries == {out.built[i].query : i \in DOMAIN out.built}
Sent == {i \in DOMAIN out.built : out.built[i].by = "send"}
SentOnce == \E i \in Sent : Sent = {i}

(* An Inserter may be built again, by its caller or by the logging         *)
(* middlewares: every query of one Exec is the same query.                 *)
InsertStable == st.kind # "select" => \A q1, q2 \in Queries : q1 = q2

(* No option renamed a column and no two fields share one. *)
OwnColumns(m) ==
  /\ m.err = NoError /\ \A i \in DOMAIN Opts[st.entity] : Opts[st.entity][i].opt # "column"
  /\ \A i, j \in DOMAIN m.fields : m.fields[i].col = m.fields[j].col => i = j

(* An Exec that reports success has sent its query once and the database   *)
(* took it, and a Get that reports success on a DB opened with             *)
(* DBWithReflect has found a row and read all of it; with either valuer a  *)
(* row comes back into the fields that wrote it, each of them its own      *)
(* column, when no option renamed a column and no two fields share one.    *)
SuccessIsReal ==
  /\ out.err = NoError /\ (out.op = "exec" \/ (out.op = "get" /\ db.creator = "reflect")) =>
       SentOnce /\ out.reply = "row"
  /\ out.op = "get" /\ out.reply = "row" /\ SentOnce /\ OwnColumns(b.model) =>
       out.err = NoError /\ out.into = [i \in DOMAIN b.model.fields |-> b.model.fields[i].go]
=============================================================================
