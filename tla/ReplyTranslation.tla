--------------------------- MODULE ReplyTranslation --------------------------
(***************************************************************************)
(* The two uses of the reply translator: a delegated command's wire reply  *)
(* is decoded for the script (luaRedisGenericCommand, line 462), and the   *)
(* script's return value is encoded for the client (evalGenericCommand,    *)
(* line 1131).  The wire grammar of spec 4.1 is written here as the        *)
(* reference the code is checked against: Wire(r) is the bytes of reply r *)
(* and LuaOf(r) the Lua value the spec says it decodes to.                 *)
(***************************************************************************)
EXTENDS ReplyCodec

CONSTANTS
    Ints,        \* integers that integer replies carry
    Texts,       \* payloads of bulk replies (may hold CR and LF)
    Lines,       \* payloads of status and error lines (no CR or LF)
    Returns      \* Lua values a script may return besides decoded replies

\* Wire replies of the grammar, nested to depth two.
RInt(n) == [k |-> "int", n |-> n]
RBulk(s) == [k |-> "bulk", s |-> s]
RNilBulk == [k |-> "nilbulk"]
RStatus(s) == [k |-> "status", s |-> s]
RError(s) == [k |-> "error", s |-> s]
RNilArray == [k |-> "nilarray"]
RArray(items) == [k |-> "array", items |-> items]

Leaves == {RInt(n) : n \in Ints} \cup {RBulk(s) : s \in Texts}
          \cup {RStatus(s) : s \in Lines} \cup {RError(s) : s \in Lines}
          \cup {RNilBulk, RNilArray, RArray(<<>>)}

Inner == Leaves \cup {RArray(<<x>>) : x \in Leaves}

Replies == Inner \cup {RArray(<<x>>) : x \in Inner}
           \cup {RArray(<<x, y>>) : x, y \in Leaves}

\* Spec 4.1: the bytes of a reply.
RECURSIVE Wire(_), WireItems(_, _)
Wire(r) ==
    CASE r.k = "int" -> <<":">> \o IntChars(r.n) \o CRLF
      [] r.k = "bulk" -> <<"$">> \o IntChars(Len(r.s)) \o CRLF \o r.s \o CRLF
      [] r.k = "nilbulk" -> <<"$", "-", "1">> \o CRLF
      [] r.k = "status" -> <<"+">> \o r.s \o CRLF
      [] r.k = "error" -> <<"-">> \o r.s \o CRLF
      [] r.k = "nilarray" -> <<"*", "-", "1">> \o CRLF
      [] r.k = "array" -> <<"*">> \o IntChars(Len(r.items)) \o CRLF
                          \o WireItems(r.items, Len(r.items))

WireItems(items, n) ==
    IF n = 0 THEN <<>> ELSE WireItems(items, n - 1) \o Wire(items[n])

\* Spec 4.1: the Lua value a reply decodes to.
RECURSIVE LuaOf(_)
LuaOf(r) ==
    CASE r.k = "int" -> LNum(r.n)
      [] r.k = "bulk" -> LStr(r.s)
      [] r.k \in {"nilbulk", "nilarray"} -> LBool(FALSE)
      [] r.k = "status" -> LTable(<<>>, Nil, LStr(r.s))
      [] r.k = "error" -> LTable(<<>>, LStr(r.s), Nil)
      [] r.k = "array" -> LTable([i \in DOMAIN r.items |-> LuaOf(r.items[i])], Nil, Nil)

\* Spec 8: encode(false) is the nil bulk, so *-1 comes back as $-1.
NilArrayAsNilBulk(r) == IF r.k = "nilarray" THEN RNilBulk ELSE r

RECURSIVE Normalised(_)
Normalised(r) ==
    IF r.k = "array"
    THEN RArray([i \in DOMAIN r.items |-> Normalised(r.items[i])])
    ELSE NilArrayAsNilBulk(r)

VARIABLES
    reply,   \* the wire reply of the delegated command being decoded
    ret      \* the Lua value the script returned, being encoded

vars == <<reply, ret>>

Init ==
    /\ reply \in Replies
    /\ ret \in Returns

\* luaRedisGenericCommand decodes the reply of the command it ran.
DecodeCommandReply ==
    /\ \E r \in Replies : reply' = r
    /\ UNCHANGED ret

\* The script returns the decoded reply ("return redis.call(...)") and
\* evalGenericCommand encodes it.
ReturnCommandReply ==
    /\ ret' = redisProtocolToLuaType(Wire(reply), 1).v
    /\ UNCHANGED reply

\* The script returns a value it built itself.
ReturnOwnValue ==
    /\ \E v \in Returns : ret' = v
    /\ UNCHANGED reply

Next == DecodeCommandReply \/ ReturnCommandReply \/ ReturnOwnValue

Spec == Init /\ [][Next]_vars

-----------------------------------------------------------------------------
(***************************************************************************)
(* Decoding composes (spec 4.1): redisProtocolToLuaType, started on a      *)
(* well-formed reply, stops exactly after its last byte, also for bulk     *)
(* payloads holding CR LF and for nested multi-bulks.                      *)
(***************************************************************************)
DecodeConsumesWholeReply ==
    redisProtocolToLuaType(Wire(reply), 1).p = Len(Wire(reply)) + 1

(***************************************************************************)
(* redisProtocolToLuaType gives the Lua value spec 4.1 prescribes for      *)
(* every reply: nil bulk and nil multi-bulk as false, status and error as  *)
(* single-field tables, multi-bulk as a 1-based array.                     *)
(***************************************************************************)
DecodeMatchesSpec ==
    redisProtocolToLuaType(Wire(reply), 1).v = LuaOf(reply)

(***************************************************************************)
(* luaReplyToRedisReply keeps the line framing (spec 4.1: CR and LF in     *)
(* err and ok are replaced): whatever the script returns, the reply sent   *)
(* to the client decodes as exactly one reply.                             *)
(***************************************************************************)
EncodeIsFramed ==
    LET w == luaReplyToRedisReply(ret)
    IN redisProtocolToLuaType(w, 1).p = Len(w) + 1

(***************************************************************************)
(* Round trip (spec 8): a command reply returned unchanged by the script   *)
(* reaches the client as the same bytes, nil multi-bulk excepted.          *)
(***************************************************************************)
RoundTrip ==
    luaReplyToRedisReply(redisProtocolToLuaType(Wire(reply), 1).v)
        = Wire(Normalised(reply))

=============================================================================
