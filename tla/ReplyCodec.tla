------------------------------ MODULE ReplyCodec -----------------------------
(***************************************************************************)
(* The reply translator of src/tendisplus/script/lua_state.cpp: the        *)
(* decoder redisProtocolToLuaType (wire reply -> Lua value, used on the    *)
(* replies of redis.call) and the encoder luaReplyToRedisReply (Lua value  *)
(* -> wire reply, used on the script's return value), built on the line   *)
(* layer of ReplyLines.                                                    *)
(*                                                                         *)
(* The operators are RECURSIVE, so this module is for TLC only.            *)
(***************************************************************************)
EXTENDS ReplyLines

-----------------------------------------------------------------------------
(* Decoder *)

(***************************************************************************)
(* redisProtocolToLuaType dispatches on the first byte and gives the value *)
(* pushed and the position after the reply; an unknown byte pushes        *)
(* nothing.  redisProtocolToLuaType_MultiBulk decodes length -1 as false,  *)
(* otherwise its elements in order.                                        *)
(***************************************************************************)
RECURSIVE redisProtocolToLuaType(_, _), DecodeMultiBulk(_, _), DecodeItems(_, _, _)
redisProtocolToLuaType(w, p) ==
    CASE w[p] = ":" -> DecodeInt(w, p)
      [] w[p] = "$" -> DecodeBulk(w, p)
      [] w[p] = "+" -> DecodeStatus(w, p)
      [] w[p] = "-" -> DecodeError(w, p)
      [] w[p] = "*" -> DecodeMultiBulk(w, p)
      [] OTHER -> [v |-> Nothing, p |-> p]

DecodeMultiBulk(w, p) ==
    LET e == FindCR(w, p + 1)
        n == string2ll(w, p + 1, e)
        items == DecodeItems(w, e + 2, n)
    IN IF n = -1 THEN [v |-> LBool(FALSE), p |-> e + 2]
       ELSE [v |-> LTable(items.vs, Nil, Nil), p |-> items.p]

\* The loop of redisProtocolToLuaType_MultiBulk: k elements from p.
DecodeItems(w, p, k) ==
    IF k = 0 THEN [vs |-> <<>>, p |-> p]
    ELSE LET h == redisProtocolToLuaType(w, p)
             rest == DecodeItems(w, h.p, k - 1)
         IN [vs |-> <<h.v>> \o rest.vs, p |-> rest.p]

-----------------------------------------------------------------------------
(* Encoder *)

RECURSIVE NatChars(_)
NatChars(n) ==
    IF n < 10 THEN <<DigitChar[n]>> ELSE NatChars(n \div 10) \o <<DigitChar[n % 10]>>

IntChars(n) == IF n < 0 THEN <<"-">> \o NatChars(-n) ELSE NatChars(n)

\* Command::fmtBulk, fmtNull, fmtOne, fmtLongLong, fmtMultiBulkLen.
FmtBulk(s) == <<"$">> \o IntChars(Len(s)) \o CRLF \o s \o CRLF
FmtNull == <<"$", "-", "1">> \o CRLF
FmtOne == <<":", "1">> \o CRLF
FmtLongLong(n) == <<":">> \o IntChars(n) \o CRLF
FmtMultiBulkLen(n) == <<"*">> \o IntChars(n) \o CRLF

\* The array loop: indices 1, 2, ... up to the first nil.
ArrayLen(arr) ==
    IF \E i \in DOMAIN arr : arr[i] = Nil
    THEN (CHOOSE i \in DOMAIN arr : arr[i] = Nil /\ \A j \in 1..(i - 1) : arr[j] # Nil) - 1
    ELSE Len(arr)

(***************************************************************************)
(* luaReplyToRedisReply: a string becomes a bulk reply, true :1 and false  *)
(* a nil bulk, a number an integer reply, a table with a string "err" an   *)
(* error line, a table with a string "ok" a bulk reply of the status text, *)
(* any other table a multi-bulk of its elements up to the first nil, and   *)
(* anything else a nil bulk.                                               *)
(***************************************************************************)
RECURSIVE luaReplyToRedisReply(_), EncodeItems(_, _)
luaReplyToRedisReply(v) ==
    CASE v.t = "str" -> FmtBulk(v.s)
      [] v.t = "bool" -> IF v.b THEN FmtOne ELSE FmtNull
      [] v.t = "num" -> FmtLongLong(v.n)
      [] v.t = "table" /\ v.err.t = "str" -> ErrorLine(v.err.s)
      [] v.t = "table" /\ v.ok.t = "str" -> FmtBulk(strmapchars(v.ok.s))
      [] v.t = "table" -> FmtMultiBulkLen(ArrayLen(v.arr))
                            \o EncodeItems(v.arr, ArrayLen(v.arr))
      [] OTHER -> FmtNull

EncodeItems(arr, n) ==
    IF n = 0 THEN <<>> ELSE EncodeItems(arr, n - 1) \o luaReplyToRedisReply(arr[n])

=============================================================================
