--------------------------- MODULE ReplyLinesProofs ---------------------------
(***************************************************************************)
(* Proofs about the line layer of the reply translator, for every payload: *)
(* each redisProtocolToLuaType_* decoder stops right after its own CR LF,  *)
(* whatever the bytes that follow it (a bulk payload may hold CR LF), and  *)
(* the error line luaReplyToRedisReply writes for {err = s} is read back   *)
(* as exactly one error line carrying s with its CR and LF blanked.        *)
(***************************************************************************)
EXTENDS ReplyLines, TLAPS

(***************************************************************************)
(* strchr(p, '\r') finds the first CR: a position holding CR with no CR    *)
(* between p and it is what FindCR returns.                                *)
(***************************************************************************)
LEMMA FindCRFirst ==
    ASSUME NEW U, NEW w \in Seq(U), NEW p \in Nat, NEW i \in p..Len(w),
           w[i] = "CR", \A j \in p..(i - 1) : w[j] # "CR"
    PROVE  FindCR(w, p) = i
<1>1. \A k \in p..Len(w) : (w[k] = "CR" /\ \A j \in p..(k - 1) : w[j] # "CR") => k = i
  BY SMT
<1>. QED
  BY <1>1 DEF FindCR

(***************************************************************************)
(* The shape every reply line has: a type byte c, a header h without CR,   *)
(* CR LF, then whatever follows (t).  The CR search started after the type *)
(* byte stops at the header's end, and the header is read back whole.      *)
(***************************************************************************)
LEMMA LineLayout ==
    ASSUME NEW U, NEW c \in U, NEW h \in Seq(U), NEW t \in Seq(U),
           "CR" \in U, "LF" \in U,
           \A k \in 1..Len(h) : h[k] # "CR"
    PROVE  LET w == <<c>> \o h \o CRLF \o t
           IN  /\ w \in Seq(U)
               /\ Len(w) = Len(h) + Len(t) + 3
               /\ w[1] = c
               /\ FindCR(w, 2) = Len(h) + 2
               /\ SubSeq(w, 2, Len(h) + 1) = h
               /\ SubSeq(w, Len(h) + 4, Len(w)) = t
<1> DEFINE w == <<c>> \o h \o CRLF \o t
<1>1. CRLF \in Seq(U)
  BY DEF CRLF
<1>2. /\ w \in Seq(U)
      /\ Len(w) = Len(h) + Len(t) + 3
      /\ w[1] = c
      /\ \A k \in 1..Len(h) : w[k + 1] = h[k]
      /\ w[Len(h) + 2] = "CR"
      /\ \A k \in 1..Len(t) : w[Len(h) + 3 + k] = t[k]
  BY <1>1 DEF CRLF
<1>3. FindCR(w, 2) = Len(h) + 2
  <2>1. \A j \in 2..(Len(h) + 1) : w[j] # "CR"
    <3> SUFFICES ASSUME NEW j \in 2..(Len(h) + 1) PROVE w[j] # "CR"
      OBVIOUS
    <3>1. j - 1 \in 1..Len(h) /\ w[j] = h[j - 1]
      BY <1>2
    <3>. QED
      BY <3>1
  <2>2. /\ 2 \in Nat /\ Len(h) + 2 \in 2..Len(w)
        /\ \A j \in 2..((Len(h) + 2) - 1) : w[j] # "CR"
    BY <1>2, <2>1
  <2>. QED
    BY <1>2, <2>2, FindCRFirst
<1>4. SubSeq(w, 2, Len(h) + 1) = h
  BY <1>2
<1>5. SubSeq(w, Len(h) + 4, Len(w)) = t
  BY <1>2
<1>. QED
  BY <1>2, <1>3, <1>4, <1>5

(***************************************************************************)
(* redis_port::strmapchars keeps the length and leaves no CR or LF.        *)
(***************************************************************************)
LEMMA StrmapcharsBlanks ==
    ASSUME NEW U, NEW s \in Seq(U), "SP" \in U
    PROVE  /\ strmapchars(s) \in Seq(U)
           /\ Len(strmapchars(s)) = Len(s)
           /\ \A k \in 1..Len(s) : strmapchars(s)[k] \notin {"CR", "LF"}
           /\ \A k \in 1..Len(s) : s[k] \notin {"CR", "LF"} => strmapchars(s)[k] = s[k]
<1> DEFINE m == strmapchars(s)
<1>1. m = [k \in 1..Len(s) |-> IF s[k] \in {"CR", "LF"} THEN "SP" ELSE s[k]]
  BY DEF strmapchars
<1>2. \A k \in 1..Len(s) : m[k] \in U
  BY <1>1
<1>3. m \in Seq(U) /\ Len(m) = Len(s)
  <2>1. m \in [1..Len(s) -> U]
    BY <1>1, <1>2
  <2>. QED
    BY <2>1
<1>4. \A k \in 1..Len(s) : m[k] \notin {"CR", "LF"}
  BY <1>1
<1>. QED
  BY <1>1, <1>3, <1>4

-----------------------------------------------------------------------------
(***************************************************************************)
(* redisProtocolToLuaType_Status on a status line +s CR LF (s holds no CR, *)
(* as in a well-formed reply) pushes {ok = s} and returns the position     *)
(* right after the line, whatever follows it.                              *)
(***************************************************************************)
THEOREM StatusLineDecoded ==
    ASSUME NEW U, NEW s \in Seq(U), NEW t \in Seq(U),
           "+" \in U, "CR" \in U, "LF" \in U,
           \A k \in 1..Len(s) : s[k] # "CR"
    PROVE  DecodeStatus(<<"+">> \o s \o CRLF \o t, 1)
               = [v |-> LTable(<<>>, Nil, LStr(s)), p |-> Len(s) + 4]
<1> DEFINE w == <<"+">> \o s \o CRLF \o t
<1>1. FindCR(w, 1 + 1) = Len(s) + 2 /\ SubSeq(w, 1 + 1, (Len(s) + 2) - 1) = s
  BY LineLayout, SMTT(30)
<1>2. DecodeStatus(w, 1) = [v |-> LTable(<<>>, Nil, LStr(s)), p |-> (Len(s) + 2) + 2]
  BY <1>1 DEF DecodeStatus
<1>. QED
  BY <1>2

(***************************************************************************)
(* redisProtocolToLuaType_Error on an error line -s CR LF pushes           *)
(* {err = s} and returns the position right after the line.                *)
(***************************************************************************)
THEOREM ErrorLineDecoded ==
    ASSUME NEW U, NEW s \in Seq(U), NEW t \in Seq(U),
           "-" \in U, "CR" \in U, "LF" \in U,
           \A k \in 1..Len(s) : s[k] # "CR"
    PROVE  DecodeError(<<"-">> \o s \o CRLF \o t, 1)
               = [v |-> LTable(<<>>, LStr(s), Nil), p |-> Len(s) + 4]
<1> DEFINE w == <<"-">> \o s \o CRLF \o t
<1>1. FindCR(w, 1 + 1) = Len(s) + 2 /\ SubSeq(w, 1 + 1, (Len(s) + 2) - 1) = s
  BY LineLayout, SMTT(30)
<1>2. DecodeError(w, 1) = [v |-> LTable(<<>>, LStr(s), Nil), p |-> (Len(s) + 2) + 2]
  BY <1>1 DEF DecodeError
<1>. QED
  BY <1>2

(***************************************************************************)
(* Framing of a script's error reply: whatever string s a script puts in   *)
(* the "err" field of the table it returns (CR and LF included),           *)
(* luaReplyToRedisReply writes a line that redisProtocolToLuaType_Error    *)
(* reads back as one error reply, with s's CR and LF blanked, ending at    *)
(* the last byte written: a client is never made to read a second, forged  *)
(* reply out of an error message.                                          *)
(***************************************************************************)
THEOREM ErrorReplyFramed ==
    ASSUME NEW U, NEW s \in Seq(U), {"-", "SP", "CR", "LF"} \subseteq U
    PROVE  DecodeError(ErrorLine(s), 1)
               = [v |-> LTable(<<>>, LStr(strmapchars(s)), Nil),
                  p |-> Len(ErrorLine(s)) + 1]
<1> DEFINE m == strmapchars(s)
<1>1. /\ m \in Seq(U) /\ Len(m) = Len(s)
      /\ \A k \in 1..Len(m) : m[k] # "CR"
  BY StrmapcharsBlanks
<1>2. ErrorLine(s) = <<"-">> \o m \o CRLF \o <<>>
  BY <1>1 DEF ErrorLine, CRLF
<1>3. Len(ErrorLine(s)) = Len(m) + 3
  BY <1>1, <1>2 DEF CRLF
<1>4. DecodeError(<<"-">> \o m \o CRLF \o <<>>, 1)
          = [v |-> LTable(<<>>, LStr(m), Nil), p |-> Len(m) + 4]
  <2>1. <<>> \in Seq(U)
    OBVIOUS
  <2>. QED
    BY <1>1, <2>1, ErrorLineDecoded
<1>. QED
  BY <1>2, <1>3, <1>4

(***************************************************************************)
(* redisProtocolToLuaType_Int on :ds CR LF: the digits ds (no CR) are      *)
(* parsed by string2ll and decoding resumes right after the line.          *)
(***************************************************************************)
THEOREM IntLineDecoded ==
    ASSUME NEW U, NEW ds \in Seq(U), NEW t \in Seq(U),
           ":" \in U, "CR" \in U, "LF" \in U,
           \A k \in 1..Len(ds) : ds[k] # "CR"
    PROVE  LET w == <<":">> \o ds \o CRLF \o t
           IN  DecodeInt(w, 1) = [v |-> LNum(string2ll(w, 2, Len(ds) + 2)),
                                  p |-> Len(ds) + 4]
<1> DEFINE w == <<":">> \o ds \o CRLF \o t
<1>1. FindCR(w, 1 + 1) = Len(ds) + 2
  BY LineLayout, SMTT(30)
<1>. QED
  BY <1>1 DEF DecodeInt

(***************************************************************************)
(* The bulk layout $ds CR LF r, for any rest r: the CR search stops at the *)
(* header, and the bytes after the header's CR LF are r.                   *)
(***************************************************************************)
LEMMA BulkLayout ==
    ASSUME NEW U, NEW ds \in Seq(U), NEW r \in Seq(U),
           "$" \in U, "CR" \in U, "LF" \in U,
           \A k \in 1..Len(ds) : ds[k] # "CR"
    PROVE  LET w == <<"$">> \o ds \o CRLF \o r
           IN  /\ w \in Seq(U)
               /\ FindCR(w, 2) = Len(ds) + 2
               /\ Len(w) = Len(ds) + Len(r) + 3
               /\ \A k \in 1..Len(r) : w[Len(ds) + 3 + k] = r[k]
<1> DEFINE w == <<"$">> \o ds \o CRLF \o r
<1>1. /\ w \in Seq(U)
      /\ FindCR(w, 2) = Len(ds) + 2
      /\ Len(w) = Len(ds) + Len(r) + 3
      /\ SubSeq(w, Len(ds) + 4, Len(w)) = r
  BY LineLayout, SMTT(30)
<1>2. \A k \in 1..Len(r) : w[Len(ds) + 3 + k] = r[k]
  <2> SUFFICES ASSUME NEW k \in 1..Len(r) PROVE w[Len(ds) + 3 + k] = r[k]
    OBVIOUS
  <2>1. /\ k \in 1..(1 + Len(w) - (Len(ds) + 4))
        /\ k + (Len(ds) + 4) - 1 = Len(ds) + 3 + k
    BY <1>1
  <2>2. SubSeq(w, Len(ds) + 4, Len(w))[k] = w[Len(ds) + 3 + k]
    BY <2>1 DEF SubSeq
  <2>. QED
    BY <1>1, <2>2
<1>. QED
  BY <1>1, <1>2

(***************************************************************************)
(* redisProtocolToLuaType_Bulk on $ds CR LF s CR LF t, when the length     *)
(* header ds reads as Len(s): the CR search stops at the header, not at a  *)
(* CR inside the payload, the payload is pushed whole (CR LF included) and *)
(* decoding resumes right after its trailing CR LF, whatever follows.      *)
(***************************************************************************)
THEOREM BulkDecoded ==
    ASSUME NEW U, NEW ds \in Seq(U), NEW s \in Seq(U), NEW t \in Seq(U),
           "$" \in U, "CR" \in U, "LF" \in U,
           \A k \in 1..Len(ds) : ds[k] # "CR",
           string2ll(<<"$">> \o ds \o CRLF \o (s \o CRLF \o t), 2, Len(ds) + 2) = Len(s)
    PROVE  DecodeBulk(<<"$">> \o ds \o CRLF \o (s \o CRLF \o t), 1)
               = [v |-> LStr(s), p |-> Len(ds) + Len(s) + 6]
<1> SUFFICES ASSUME NEW r \in Seq(U), Len(r) >= Len(s),
                    \A k \in 1..Len(s) : r[k] = s[k],
                    string2ll(<<"$">> \o ds \o CRLF \o r, 2, Len(ds) + 2) = Len(s)
             PROVE  DecodeBulk(<<"$">> \o ds \o CRLF \o r, 1)
                        = [v |-> LStr(s), p |-> Len(ds) + Len(s) + 6]
  <2>1. /\ s \o CRLF \o t \in Seq(U)
        /\ Len(s \o CRLF \o t) >= Len(s)
        /\ \A k \in 1..Len(s) : (s \o CRLF \o t)[k] = s[k]
    BY DEF CRLF
  <2>. QED
    BY <2>1, Zenon
<1> DEFINE w == <<"$">> \o ds \o CRLF \o r
<1>1. /\ w \in Seq(U)
      /\ FindCR(w, 2) = Len(ds) + 2
      /\ Len(w) = Len(ds) + Len(r) + 3
      /\ \A k \in 1..Len(r) : w[Len(ds) + 3 + k] = r[k]
  BY BulkLayout, SMTT(30)
<1>2. SubSeq(w, (Len(ds) + 2) + 2, (Len(ds) + 2) + 1 + Len(s)) = s
  BY <1>1
<1>3. DecodeBulk(w, 1)
        = [v |-> LStr(SubSeq(w, (Len(ds) + 2) + 2, (Len(ds) + 2) + 1 + Len(s))),
           p |-> (Len(ds) + 2) + 2 + Len(s) + 2]
  <2>1. /\ FindCR(w, 1 + 1) = Len(ds) + 2
        /\ string2ll(w, 1 + 1, Len(ds) + 2) = Len(s)
        /\ Len(s) # -1
    BY <1>1
  <2>. QED
    BY <2>1, Zenon DEF DecodeBulk
<1>4. (Len(ds) + 2) + 2 + Len(s) + 2 = Len(ds) + Len(s) + 6
  OBVIOUS
<1>. QED
  BY <1>2, <1>3, <1>4, Zenon

=============================================================================
