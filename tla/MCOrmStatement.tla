--------------------------- MODULE MCOrmStatement ---------------------------
(* A small world for OrmStatement: two related entities, one whose columns *)
(* are renamed by a tag and an option, and two that cannot be registered.  *)
EXTENDS OrmStatement

Id == <<"id">>
Name == <<"first", "name">>
Missing == <<"missing">>

Fd(name, tag) == [name |-> name, tag |-> tag]
Type(kind, name, fields) == [kind |-> kind, name |-> name, fields |-> fields, tableName |-> ""]
Ptr == "pointer to struct"

MCStruct ==
  [user  |-> Type(Ptr, <<"user">>, <<Fd(Id, <<>>), Fd(Name, <<>>)>>),
   order |-> [Type(Ptr, <<"order", "item">>, <<Fd(Id, << <<"column", "order_id">> >>), Fd(Name, <<>>)>>)
                EXCEPT !.tableName = "orders"],
   named |-> Type(Ptr, <<"named">>, <<Fd(Id, <<>>), Fd(Name, <<>>)>>),
   tag   |-> Type(Ptr, <<"tag">>, <<Fd(Id, << <<"column">> >>)>>),
   plain |-> Type("struct", <<"plain">>, <<>>)]

MCOpts ==
  [e \in DOMAIN MCStruct |->
     IF e = "named" THEN << [opt |-> "column", field |-> Name, name |-> "nick"],
                            [opt |-> "table", name |-> "named_t"] >>
     ELSE <<>>]

IdIs(v) == Compare(C(Id), "=", Value(v))
NameOver(v) == Compare(C(Name), ">", Value(v))
RawCond(v) == AsPredicate(Raw(<<"age", "<", "?">>, <<v>>))

MCPreds == { <<>>, <<IdIs("w1")>>, <<IdIs("w1"), NameOver("w2")>>,
             <<Or(IdIs("w1"), NameOver("w2")), RawCond("w3")>>,
             <<Or(IdIs("w1"), And(NameOver("w2"), RawCond("w3")))>>,
             <<Not(And(IdIs("w1"), NameOver("w2")))>>,
             <<And(Not(IdIs("w1")), NameOver("w2"))>>,
             <<Compare(C(Missing), "<", Value("w1"))>> }

U == TableAs(TableOf("user"), "u")
O == TableAs(TableOf("order"), "o")
SameId == Compare(TableC(U, Id), "=", TableC(O, Id))
OName(v) == Compare(TableC(O, Name), "=", Value(v))

MCTables == { TableOf("order"), TableOf("plain"),
              On(Join(U, "JOIN", O), <<SameId, OName("j1")>>),
              Using(Join(On(Join(U, "LEFT JOIN", O), <<OName("j1")>>), "RIGHT JOIN", TableOf("user")), <<Id, Name>>) }

MCCols == { <<As(C(Id), "a"), As(Aggregate("COUNT", Name), "n")>>, <<Aggregate("AVG", Missing)>>,
            <<Raw(<<"IF", "(", "?", ")">>, <<"c1">>), C(Name)>>, <<TableC(Join(U, "JOIN", O), Id)>> }

Row(i, n) == (Id :> i) @@ (Name :> n)
MCInsertCols == { <<Name>>, <<Name, Id>>, <<Id, Missing>> }
MCRows == { <<Row("v1", "v2")>>, <<Row("v1", "v2"), Row("v3", "v4")>> }
MCUpserts == { [assigns |-> <<Assign(Name, "u1"), AssignColumn(Id)>>, conflict |-> <<Id>>],
               [assigns |-> <<AssignColumn(Missing)>>, conflict |-> <<Missing>>],
               [assigns |-> << [assign |-> "other"] >>, conflict |-> <<>>] }
MCRaws == { [sql |-> <<"CALL", "?">>, args |-> <<"r1">>] }
MCMdls == { <<"prometheus", "opentelemetry">>, <<"slowquery", "querylog">> }

=============================================================================
