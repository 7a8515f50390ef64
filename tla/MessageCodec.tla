---------------------------- MODULE MessageCodec ----------------------------
(***************************************************************************)
(* The wire format of the RPC messages (src/micro/rpc/message): a request  *)
(* or a response is given its lengths, encoded and decoded.  A string is a *)
(* sequence of bytes.  Go visits the Meta map in any order, so EncodeReq   *)
(* takes the order as a parameter.  Go tells a nil slice or map from an    *)
(* empty one: both are empty here, and the field nils has the names of     *)
(* those that are nil.                                                     *)
(***************************************************************************)
EXTENDS Integers, FiniteSets, Sequences

CONSTANTS
  Fixed,   \* values of the fixed fields: [id, version, compresser, serializer]
  Name,    \* service and method names: no splitter in them
  Metas,   \* Meta maps: no splitter, and no pairSplitter in a key
  Body     \* values of Data and of Error

VARIABLES msg, order, wire, got, stage

codecVars == <<msg, order, wire, got, stage>>

splitter == 10
pairSplitter == 13
FixedPart == 15

Byte == 0..255
FitsUint32(n) == n \div 16777216 < 256

ASSUME CodecAssumption ==
  /\ Fixed \subseteq [id : Nat, version : Byte, compresser : Byte, serializer : Byte]
  /\ \A f \in Fixed : FitsUint32(f.id)
  /\ Name \subseteq Seq(Byte \ {splitter})
  /\ \A meta \in Metas :
       /\ IsFiniteSet(DOMAIN meta) /\ DOMAIN meta \subseteq Seq(Byte \ {splitter, pairSplitter})
       /\ meta \in [DOMAIN meta -> Seq(Byte \ {splitter})]
  /\ Body \subseteq Seq(Byte)

PutUint32(n) == <<(n \div 16777216) % 256, (n \div 65536) % 256, (n \div 256) % 256, n % 256>>
Uint32(bs) == bs[1] * 16777216 + bs[2] * 65536 + bs[3] * 256 + bs[4]

(* The length of the pairs of Meta, added up in some order of the map. *)
MetaLength(meta) ==
  LET len[keys \in SUBSET DOMAIN meta] ==
        IF keys = {} THEN 0
        ELSE LET key == CHOOSE k \in keys : TRUE
             IN len[keys \ {key}] + Len(key) + 1 + Len(meta[key]) + 1
  IN len[DOMAIN meta]

SetHeadLength_NoPairSplitter(req) ==
  FixedPart + Len(req.service) + 1 + Len(req.method) + 1
    + MetaLength(req.meta) - Cardinality(DOMAIN req.meta)

SetHeadLength(req) ==
  FixedPart + Len(req.service) + 1 + Len(req.method) + 1 + MetaLength(req.meta)

RespSetHeadLength(resp) == FixedPart + Len(resp.error)
SetBodyLength(resp) == Len(resp.data)

FixedHead(m) == PutUint32(m.headLength) \o PutUint32(m.bodyLength) \o PutUint32(m.fixed.id)
           \o <<m.fixed.version, m.fixed.compresser, m.fixed.serializer>>

(* The buffer has headLength + bodyLength bytes: copy stops at its end, and *)
(* what is not written stays zero.                                          *)
InBuffer(m, bs) ==
  [i \in 1..(m.headLength + m.bodyLength) |-> IF i <= Len(bs) THEN bs[i] ELSE 0]

(* The loop over Meta, in the order keys. *)
Pair(meta, key) == key \o <<pairSplitter>> \o meta[key] \o <<splitter>>
Pairs(meta, keys) ==
  LET written[n \in 0..Len(keys)] ==
        IF n = 0 THEN <<>> ELSE written[n - 1] \o Pair(meta, keys[n])
  IN written[Len(keys)]

EncodeReq(req, keys) ==
  InBuffer(req, FixedHead(req) \o req.service \o <<splitter>> \o req.method \o <<splitter>>
                \o Pairs(req.meta, keys) \o req.data)

EncodeResp(resp) == InBuffer(resp, FixedHead(resp) \o resp.error \o resp.data)

(* bytes.IndexByte, from 1; 0: not found. *)
IndexByte(bs, b) == IF \E i \in DOMAIN bs : bs[i] = b THEN CHOOSE i \in DOMAIN bs :
                      bs[i] = b /\ \A j \in 1..(i - 1) : bs[j] # b ELSE 0
Before(bs, b) == SubSeq(bs, 1, IndexByte(bs, b) - 1)
After(bs, b) == SubSeq(bs, IndexByte(bs, b) + 1, Len(bs))

(* One round of the loop over the pairs, while there is a splitter: the    *)
(* pair goes into metaMap, where it replaces one with the same key, and    *)
(* the loop goes on behind it.                                             *)
SetPair(meta, key, val) == [k \in DOMAIN meta \cup {key} |-> IF k = key THEN val ELSE meta[k]]

NextPair_PairLast(s) ==
  LET index == IndexByte(s.tmp, splitter)
      pairIndex == CHOOSE i \in 1..index : s.tmp[i] = pairSplitter /\ \A j \in i + 1..index : s.tmp[j] # pairSplitter
  IN IF index = 0 THEN s
     ELSE [tmp |-> After(s.tmp, splitter),
           meta |-> SetPair(s.meta, SubSeq(s.tmp, 1, pairIndex - 1), SubSeq(s.tmp, pairIndex + 1, index - 1))]

NextPair(s) ==
  LET index == IndexByte(s.tmp, splitter)
      pairIndex == IndexByte(s.tmp, pairSplitter)
  IN IF index = 0 THEN s
     ELSE [tmp |-> After(s.tmp, splitter),
           meta |-> SetPair(s.meta, SubSeq(s.tmp, 1, pairIndex - 1), SubSeq(s.tmp, pairIndex + 1, index - 1))]

(* A round takes a byte at least, so there are no more rounds than bytes.  *)
NoMeta == [k \in {} |-> <<>>]
DecodeMeta(tmp) ==
  LET loop[n \in 0..Len(tmp)] ==
        IF n = 0 THEN [tmp |-> tmp, meta |-> NoMeta] ELSE NextPair(loop[n - 1])
  IN loop[Len(tmp)].meta

DecodeFixed(bs) ==
  [id |-> Uint32(SubSeq(bs, 9, 12)), version |-> bs[13], compresser |-> bs[14], serializer |-> bs[15]]

DecodeReq(bs) ==
  LET h == Uint32(SubSeq(bs, 1, 4))
      tmp == SubSeq(bs, FixedPart + 1, h)
      rest == After(tmp, splitter)
      pairs == After(rest, splitter)
  IN [kind |-> "req", headLength |-> h, bodyLength |-> Uint32(SubSeq(bs, 5, 8)), fixed |-> DecodeFixed(bs),
      service |-> Before(tmp, splitter), method |-> Before(rest, splitter),
      meta |-> DecodeMeta(pairs), data |-> SubSeq(bs, h + 1, Len(bs)),
      nils |-> IF Len(pairs) > 0 THEN {} ELSE {"meta"}]

DecodeResp(bs) ==
  LET h == Uint32(SubSeq(bs, 1, 4))
      b == Uint32(SubSeq(bs, 5, 8))
  IN [kind |-> "resp", headLength |-> h, bodyLength |-> b, fixed |-> DecodeFixed(bs),
      error |-> IF h > FixedPart THEN SubSeq(bs, FixedPart + 1, h) ELSE <<>>,
      data |-> IF b # 0 THEN SubSeq(bs, h + 1, Len(bs)) ELSE <<>>,
      nils |-> {f \in {"error", "data"} : IF f = "error" THEN h <= FixedPart ELSE b = 0}]

Request ==
  {m \in [kind : {"req"}, headLength : {0}, bodyLength : {0}, fixed : Fixed, service : Name, method : Name,
          meta : Metas, data : Body, nils : SUBSET {"meta", "data"}] :
     /\ "meta" \in m.nils => DOMAIN m.meta = {}
     /\ "data" \in m.nils => m.data = <<>>}
Response ==
  {m \in [kind : {"resp"}, headLength : {0}, bodyLength : {0}, fixed : Fixed, error : Body, data : Body,
          nils : SUBSET {"error", "data"}] :
     /\ "error" \in m.nils => m.error = <<>>
     /\ "data" \in m.nils => m.data = <<>>}

(* Every message can say its size in the two uint32 of its head. *)
Size(m) == (IF m.kind = "req" THEN SetHeadLength(m) ELSE RespSetHeadLength(m)) + SetBodyLength(m)
ASSUME SizeAssumption == \A m \in Request \cup Response : FitsUint32(Size(m))

CodecInit ==
  /\ msg \in Request \cup Response
  /\ order = <<>> /\ wire = <<>> /\ got = msg /\ stage = "new"

(* The caller sets both lengths before it encodes. *)
SetLengths ==
  /\ stage = "new" /\ stage' = "sized"
  /\ msg' = [msg EXCEPT !.headLength = IF msg.kind = "req" THEN SetHeadLength(msg) ELSE RespSetHeadLength(msg),
                        !.bodyLength = SetBodyLength(msg)]
  /\ UNCHANGED <<order, wire, got>>

(* The orders in which Go may visit a map: every key has one place. *)
Orders(keys) ==
  {f \in [1..Cardinality(keys) -> keys] :
     \A k \in keys : \E i \in DOMAIN f : \A j \in DOMAIN f : f[j] = k <=> j = i}

Encode ==
  /\ stage = "sized" /\ stage' = "encoded"
  /\ \/ /\ msg.kind = "req"
        /\ order' \in Orders(DOMAIN msg.meta) /\ wire' = EncodeReq(msg, order')
     \/ msg.kind = "resp" /\ order' = <<>> /\ wire' = EncodeResp(msg)
  /\ UNCHANGED <<msg, got>>

Decode ==
  /\ stage = "encoded" /\ stage' = "decoded"
  /\ got' = IF msg.kind = "req" THEN DecodeReq(wire) ELSE DecodeResp(wire)
  /\ UNCHANGED <<msg, order, wire>>

CodecNext == SetLengths \/ Encode \/ Decode

CodecSpec == CodecInit /\ [][CodecNext]_codecVars

-----------------------------------------------------------------------------
(* Properties *)

(* The lengths set before encoding are exact: EncodeReq and EncodeResp     *)
(* fill the buffer to its last byte, cut nothing off, and the body starts  *)
(* where headLength says, in whatever order the Meta pairs are written.    *)
WireExact ==
  stage \in {"encoded", "decoded"} =>
    /\ Len(wire) = msg.headLength + msg.bodyLength
    /\ SubSeq(wire, msg.headLength + 1, Len(wire)) = msg.data
    /\ msg.kind = "req" => wire[msg.headLength] = splitter

(* The nil fields of a decoded message: a Meta without pairs becomes nil,  *)
(* and so do an empty Error and the empty Data of a response; the Data of  *)
(* a request never is.                                                     *)
NilsOf(m) ==
  IF m.kind = "req" THEN {f \in {"meta"} : DOMAIN m.meta = {}}
  ELSE {f \in {"error", "data"} : IF f = "error" THEN m.error = <<>> ELSE m.data = <<>>}

(* DecodeReq undoes EncodeReq and DecodeResp EncodeResp, for every order   *)
(* of the Meta pairs, for empty names, keys and values, for a body with    *)
(* splitters in it and for values with the pair splitter: an error message *)
(* and a body are told apart by headLength alone.  What is not restored is *)
(* which of the empty slices and maps were nil: after the trip that        *)
(* follows from the kind of message alone.  So the request without Data of *)
(* request_test.go, whose Data is nil, does not come back equal to itself. *)
RoundTrip == stage = "decoded" => got = [msg EXCEPT !.nils = NilsOf(msg)]
=============================================================================
