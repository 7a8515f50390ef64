---------------------------- MODULE OrmStatement ----------------------------
(***************************************************************************)
(* The Selector of the ORM (src/orm): the expressions and tables a caller  *)
(* composes, the SQL text and the arguments that Selector.Build writes for *)
(* them, and what every built query keeps.  OrmCore has the rest of the    *)
(* statement's life; SelectorText is the value of its SelectText.          *)
(***************************************************************************)
EXTENDS OrmCore, TLC

-----------------------------------------------------------------------------
(* The expressions a caller composes *)

TableOf(e) == [ref |-> "table", entity |-> e, alias |-> ""]
TableAs(t, alias) == [t EXCEPT !.alias = alias]
Join(l, typ, r) == [ref |-> "join", left |-> l, typ |-> typ, right |-> r]
On(j, ps) == j @@ [on |-> ps, using |-> <<>>]
Using(j, cols) == j @@ [on |-> <<>>, using |-> cols]

TableC(t, name) == [C(name) EXCEPT !.table = t]
As(c, alias) == [c EXCEPT !.alias = alias]
Aggregate(fn, col) == [expr |-> "aggregate", fn |-> fn, arg |-> col, alias |-> ""]
Raw(sql, args) == [expr |-> "raw", sql |-> sql, args |-> args]
Value(v) == [expr |-> "value", val |-> v]
Nil == [expr |-> "nil"]

Predicate(l, op, r) == [expr |-> "predicate", left |-> l, op |-> op, right |-> r]
Compare(c, op, right) == Predicate(c, op, right)
Not(p) == Predicate(Nil, "NOT", p)
And(p, q) == Predicate(p, "AND", q)
Or(p, q) == Predicate(p, "OR", q)
AsPredicate(raw) == Predicate(raw, "", Nil)

-----------------------------------------------------------------------------
(* Selector.Build, with the registry r *)

RECURSIVE buildExpression(_, _, _)

Operand_Bare(r, a, e) == buildExpression(r, a, e)

Operand(r, a, e) ==
  IF e.expr = "predicate"
  THEN WriteString(buildExpression(r, WriteString(a, <<"(">>), e), <<")">>)
  ELSE buildExpression(r, a, e)

buildExpression(r, a, e) ==
  CASE e.expr = "nil" -> a
    [] e.expr = "predicate" ->
         Operand(r, WriteString(Operand(r, a, e.left), IF e.op = "" THEN <<>> ELSE <<e.op>>), e.right)
    [] e.expr = "column" -> buildColumn(r, a, As(e, ""))
    [] e.expr = "raw" ->
         WriteString(addArgs(WriteString(a, <<"(">> \o e.sql), e.args), <<")">>)
    [] e.expr = "value" -> addArgs(WriteString(a, <<"?">>), <<e.val>>)
    [] OTHER -> Fail(a, "unsupported expression")

AndFirst(ps, n) == FoldLeft(And, ps[1], SubSeq(ps, 2, n))

(* The loop over the ON predicates runs up to the number of WHERE          *)
(* predicates; it leaves predicates out, or runs past the last one.        *)
OnClause(r, a, on, where) ==
  CASE Len(on) = 0 -> a
    [] Len(on) > 0 /\ Len(where) <= Len(on) ->
         buildExpression(r, WriteString(a, <<"ON">>), AndFirst(on, Len(where)))
    [] OTHER -> Fail(WriteString(a, <<"ON">>), Panic)

UsingClause(r, a, using) ==
  IF using = <<>> THEN a
  ELSE WriteString(EachComma(WriteString(a, <<"USING", "(">>), using,
                             LAMBDA w, f : buildColumn(r, w, C(f))),
                   <<")">>)

RECURSIVE buildTable(_, _, _, _)
buildTable(r, a, t, where) ==
  CASE t.ref = "nil" -> quote(a, a.model.table)
    [] t.ref = "table" ->
         LET m == r[t.entity]
         IN IF m.err # NoError THEN Fail(a, m.err)
            ELSE WriteString(quote(a, m.table), IF t.alias = "" THEN <<>> ELSE <<"AS", t.alias>>)
    [] t.ref = "join" ->
         LET left == buildTable(r, WriteString(a, <<"(">>), t.left, where)
             right == buildTable(r, WriteString(left, <<t.typ>>), t.right, where)
         IN WriteString(OnClause(r, UsingClause(r, right, t.using), t.on, where), <<")">>)
    [] OTHER -> Fail(a, "unsupported table reference")

(* The parenthesis after an aggregate is written even when its column is   *)
(* unknown.                                                                *)
CloseParen(err, a) == IF err = NoError THEN [a EXCEPT !.sb = Append(@, ")")] ELSE a

SelectColumn(r, a, c) ==
  CASE c.expr = "column" -> buildColumn(r, a, c)
    [] c.expr = "aggregate" ->
         WriteString(CloseParen(a.err, buildColumn(r, WriteString(a, <<c.fn, "(">>), C(c.arg))),
                     IF c.alias = "" THEN <<>> ELSE <<"AS", c.alias>>)
    [] c.expr = "raw" -> addArgs(WriteString(a, c.sql), c.args)

buildColumns(r, a, cols) ==
  IF cols = <<>> THEN WriteString(a, <<"*">>)
  ELSE EachComma(a, cols, LAMBDA w, c : SelectColumn(r, w, c))

WhereClause(r, a, ps) ==
  IF ps = <<>> THEN a ELSE buildExpression(r, WriteString(a, <<"WHERE">>), AndFirst(ps, Len(ps)))

SelectClause(r, s, a, clause) ==
  CASE clause = "columns" -> buildColumns(r, a, s.columns)
    [] clause = "table" -> buildTable(r, a, s.table, s.where)
    [] clause = "where" -> WhereClause(r, a, s.where)
    [] OTHER -> WriteString(a, <<clause>>)

SelectorText(r, s, a) ==
  FoldLeft(LAMBDA w, clause : SelectClause(r, s, w, clause), a,
           <<"SELECT", "columns", "FROM", "table", "where", ";">>)

-----------------------------------------------------------------------------
(* Properties *)

(* Whatever was called before, on a statement used once or again, every    *)
(* query that reaches a log, a caller or the database has exactly one      *)
(* argument per placeholder.                                               *)
BoundArgs ==
  \A q \in Queries : Len(SelectSeq(q.sql, LAMBDA t : t = "?")) = Len(q.args)

RECURSIVE ExprArgs(_)
ExprArgs(e) ==
  CASE e.expr = "predicate" -> ExprArgs(e.left) \o ExprArgs(e.right)
    [] e.expr = "raw" -> e.args
    [] e.expr = "value" -> <<e.val>>
    [] OTHER -> <<>>

Each(s, Args(_)) == FoldLeft(LAMBDA all, x : all \o Args(x), <<>>, s)

RECURSIVE TableArgs(_)
TableArgs(t) ==
  IF t.ref # "join" THEN <<>>
  ELSE TableArgs(t.left) \o TableArgs(t.right)
       \o Each(t.on, ExprArgs)

(* buildTable leaves out the ON predicates that follow the first and whose *)
(* number exceeds that of the WHERE predicates.                            *)
RECURSIVE OnWhole(_)
OnWhole(t) ==
  t.ref = "join" => /\ OnWhole(t.left) /\ OnWhole(t.right)
                    /\ Len(t.on) <= 1 \/ Len(t.on) <= Len(st.where)

WantedArgs ==
  IF st.kind = "select"
  THEN Each(st.columns, ExprArgs) \o TableArgs(st.table) \o Each(st.where, ExprArgs)
  ELSE LET fields == IF st.columns = <<>> THEN [i \in DOMAIN b.model.fields |-> b.model.fields[i].go]
                     ELSE st.columns
       IN Each(st.values, LAMBDA v : [i \in DOMAIN fields |-> v[fields[i]]])
          \o Each(st.upsert.assigns, LAMBDA a : IF a.assign = "value" THEN <<a.val>> ELSE <<>>)

(* The first query built on a fresh statement binds all the values the     *)
(* caller gave, in the order in which the text asks for them: select list, *)
(* joins and conditions, or row by row in column order and then the        *)
(* assignments.  The exception is a join of which buildTable leaves out ON *)
(* predicates, with the values they compare with.                          *)
ArgsInOrder ==
  /\ st.kind # "raw" /\ out.fresh /\ out.built # <<>>
  /\ st.kind = "select" => OnWhole(st.table)
  => out.built[1].query.args = WantedArgs

RECURSIVE Shape(_)
Shape(e) ==
  CASE e.expr = "predicate" -> [e EXCEPT !.left = Shape(@), !.right = Shape(@)]
    [] e.expr = "value" -> Value("?")
    [] OTHER -> e

WhereText(ps) ==
  buildExpression(db.r, [NewBuilder EXCEPT !.model = b.model], AndFirst(ps, Len(ps)))

(* The parentheses buildExpression writes keep conditions apart: the WHERE *)
(* text that was built is the text of no other condition the caller could  *)
(* have given.                                                             *)
WhereUnambiguous ==
  st.where # <<>> /\ out.built # <<>> =>
    \A ps \in Preds \ {<<>>} :
      WhereText(ps).err = NoError /\ WhereText(ps).sb = WhereText(st.where).sb =>
        Shape(AndFirst(ps, Len(ps))) = Shape(AndFirst(st.where, Len(st.where)))

=============================================================================
