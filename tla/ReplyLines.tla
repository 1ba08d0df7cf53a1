------------------------------ MODULE ReplyLines ------------------------------
(***************************************************************************)
(* The line layer of the reply translator of                               *)
(* src/tendisplus/script/lua_state.cpp: the Lua values it builds, the CR   *)
(* search every redisProtocolToLuaType_* decoder starts with, the header   *)
(* number parse (string2ll), the integer, bulk, status and error decoders, *)
(* and the error line luaReplyToRedisReply writes.  Nothing here is        *)
(* RECURSIVE (string2ll's digit loop is a recursive function), so the      *)
(* module can be reasoned about with TLAPS; ReplyCodec adds the nested     *)
(* multi-bulk decoder and the encoder.                                     *)
(*                                                                         *)
(* A wire reply is a sequence of characters; "CR", "LF" and "SP" stand     *)
(* for \r, \n and a space, the other characters are one-letter strings.    *)
(* A Lua value is a record tagged by its Lua type; a table keeps its       *)
(* integer keys as a sequence (Nil marks a hole) and its "err" and "ok"    *)
(* fields.                                                                 *)
(***************************************************************************)
EXTENDS Integers, Sequences

CRLF == <<"CR", "LF">>

DigitChar == [d \in 0..9 |-> CASE d = 0 -> "0" [] d = 1 -> "1" [] d = 2 -> "2"
                               [] d = 3 -> "3" [] d = 4 -> "4" [] d = 5 -> "5"
                               [] d = 6 -> "6" [] d = 7 -> "7" [] d = 8 -> "8"
                               [] d = 9 -> "9"]

CharDigit(ch) == CHOOSE d \in 0..9 : DigitChar[d] = ch

\* Lua values.
Nil == [t |-> "nil"]
Nothing == [t |-> "nothing"]    \* nothing pushed on the Lua stack
LNum(n) == [t |-> "num", n |-> n]
LStr(s) == [t |-> "str", s |-> s]
LBool(b) == [t |-> "bool", b |-> b]
LTable(arr, err, ok) == [t |-> "table", arr |-> arr, err |-> err, ok |-> ok]

\* strchr(p, '\r'): the first CR at or after position p.
FindCR(w, p) ==
    CHOOSE i \in p..Len(w) : w[i] = "CR" /\ \A j \in p..(i - 1) : w[j] # "CR"

\* string2ll on w[a..b-1] (a <= b): an optional '-' then decimal digits.
DigitsValue(w, a, b) ==
    LET dv[k \in a..b] == IF k = a THEN 0 ELSE dv[k - 1] * 10 + CharDigit(w[k - 1])
    IN dv[b]

string2ll(w, a, b) ==
    IF a < b /\ w[a] = "-" THEN -DigitsValue(w, a + 1, b) ELSE DigitsValue(w, a, b)

\* redisProtocolToLuaType_Int: the integer up to the CR.
DecodeInt(w, p) ==
    LET e == FindCR(w, p + 1)
    IN [v |-> LNum(string2ll(w, p + 1, e)), p |-> e + 2]

\* redisProtocolToLuaType_Bulk: length -1 is false, else length bytes.
DecodeBulk(w, p) ==
    LET e == FindCR(w, p + 1)
        n == string2ll(w, p + 1, e)
    IN IF n = -1 THEN [v |-> LBool(FALSE), p |-> e + 2]
       ELSE [v |-> LStr(SubSeq(w, e + 2, e + 1 + n)), p |-> e + 2 + n + 2]

\* Mutant: the status decoder steps over the CR but not the LF.
DecodeStatusNoLF(w, p) ==
    LET e == FindCR(w, p + 1)
    IN [v |-> LTable(<<>>, Nil, LStr(SubSeq(w, p + 1, e - 1))), p |-> e + 1]

\* Mutant: the status line pushed under the "err" field.
DecodeStatusAsError(w, p) ==
    LET e == FindCR(w, p + 1)
    IN [v |-> LTable(<<>>, LStr(SubSeq(w, p + 1, e - 1)), Nil), p |-> e + 2]

\* redisProtocolToLuaType_Status: a table {ok = line}.
DecodeStatus(w, p) ==
    LET e == FindCR(w, p + 1)
    IN [v |-> LTable(<<>>, Nil, LStr(SubSeq(w, p + 1, e - 1))), p |-> e + 2]

\* redisProtocolToLuaType_Error: a table {err = line}.
DecodeError(w, p) ==
    LET e == FindCR(w, p + 1)
    IN [v |-> LTable(<<>>, LStr(SubSeq(w, p + 1, e - 1)), Nil), p |-> e + 2]

\* Mutant: the CR/LF replacement left out.
strmapcharsOmitted(s) == s

\* redis_port::strmapchars(s, "\r\n", "  ", 2).
strmapchars(s) == [i \in DOMAIN s |-> IF s[i] \in {"CR", "LF"} THEN "SP" ELSE s[i]]

\* luaReplyToRedisReply on a table whose "err" field is the string s.
ErrorLine(s) == <<"-">> \o strmapchars(s) \o CRLF

=============================================================================
