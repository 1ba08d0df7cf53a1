------------------------ MODULE MC_ReplyTranslation -------------------------
EXTENDS ReplyTranslation

\* Multi-digit, zero and negative integers.
MCInts == {12, -3}

\* Empty payload and a payload holding CR LF.
MCTexts == {<<>>, <<"a", "CR", "LF">>}

MCLines == {<<"O", "K">>}

\* Values only a script builds: err and ok texts holding CR or LF, a table
\* with a hole, a table whose "err" is not a string, true, nil, a number.
MCReturns ==
    {LTable(<<>>, LStr(<<"a", "CR", "LF", "b">>), Nil),
     LTable(<<>>, Nil, LStr(<<"LF", "a">>)),
     LTable(<<LNum(1), Nil, LNum(2)>>, Nil, Nil),
     LTable(<<LStr(<<"a">>)>>, LNum(5), Nil),
     LTable(<<LTable(<<>>, LStr(<<"CR">>), Nil), LBool(TRUE)>>, Nil, Nil),
     LBool(TRUE), Nil, LNum(-3)}
=============================================================================
