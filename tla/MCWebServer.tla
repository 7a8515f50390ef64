---------------------------- MODULE MCWebServer ----------------------------
(* A small instance of WebServer: static segments, two parameters, the wildcard  *)
(* and the paths addRoute rejects.                                         *)
EXTENDS WebServer

Get(segs) == [method |-> "GET", slash |-> TRUE, segs |-> segs]
Bad(segs) == [method |-> "GET", slash |-> FALSE, segs |-> segs]
Post(segs) == [method |-> "POST", slash |-> TRUE, segs |-> segs]

MCRoute ==
  {Get(<<>>), Bad(<<>>), Bad(<<Static("a")>>),
   Get(<<Static("a"), Static("b")>>), Get(<<Static("a"), Static("")>>),
   Get(<<Param("file")>>), Get(<<Param("y"), Static("b")>>),
   Get(<<Param("file"), Static(""), Static("b")>>), Get(<<Param("file"), Param("file")>>),
   Get(<<Static("a"), Param("y")>>), Get(<<Star>>), Get(<<Static("a"), Star>>),
   Post(<<Static("a"), Static("b")>>)}

MCRequest ==
  {<<>>, <<"">>, <<"", "a">>, <<"c.png">>, <<"d.png">>, <<"a", "b">>, <<"c.png", "b", "">>, <<"a", "", "b">>, <<"a", "c.png">>}

MCMdls ==
  {<<>>, <<"recover", "accesslog", "errhdl">>, <<"errhdl", "recover", "accesslog">>,
   <<"errhdl", "recoverNoLog">>, <<"recover", "accesslog", "recoverNoLog">>}
=============================================================================
