--------------------------- MODULE MCMessageCodec ---------------------------
(* Small messages: 97 and 98 stand for ordinary bytes.                     *)
EXTENDS MessageCodec

Plain == {<<>>, <<97>>, <<98, 97>>}

MCFixed == {[id |-> 123, version |-> 12, compresser |-> 1, serializer |-> 17],
            [id |-> 16909060, version |-> 0, compresser |-> 255, serializer |-> 10]}
MCName == Plain
MCMetas == UNION {[keys -> Plain \cup {<<pairSplitter>>, <<97, pairSplitter, 98>>}] : keys \in SUBSET Plain}
MCBody == {<<>>, <<97>>, <<splitter>>, <<pairSplitter, 97, splitter>>}
=============================================================================
