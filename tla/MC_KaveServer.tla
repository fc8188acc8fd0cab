----------------------------- MODULE MC_KaveServer ---------------------------
EXTENDS KaveServer

Req(o, k, v) == [op |-> o, key |-> k, val |-> v]

\* Client 1 sets a key and reads it back; client 2 echoes an empty message
\* and reads the same key, racing client 1's SET.
MCScript == ("c1" :> << Req("SET", <<"a">>, <<"b">>), Req("GET", <<"a">>, <<>>) >>)
            @@ ("c2" :> << Req("ECHO", <<>>, <<>>), Req("GET", <<"a">>, <<>>) >>)

\* Scenario 5 of spec 8: a SET then a GET of the same key.
MCScriptSetGet == "c1" :> << Req("SET", <<"a">>, <<"b">>), Req("GET", <<"a">>, <<>>) >>

\* A key holding a newline, legal since keys are length-framed (spec 8).
MCScriptNewlineKey == "c1" :> << Req("SET", <<NL>>, <<"b">>), Req("GET", <<NL>>, <<>>) >>

MCKeysNewline == {<<NL>>}

\* Client 1 as in MCScript; client 2 sends one empty ECHO.
MCScriptLive == ("c1" :> << Req("SET", <<"a">>, <<"b">>), Req("GET", <<"a">>, <<>>) >>)
                @@ ("c2" :> << Req("ECHO", <<>>, <<>>) >>)

\* A SET and GET of a ten-byte value, so that the value length, the SET reply
\* count and the GET reply length all have two digits.
MCValue10 == [i \in 1..10 |-> IF i % 2 = 0 THEN "b" ELSE ":"]
MCScriptLong == "c1" :> << Req("SET", <<"a">>, MCValue10), Req("GET", <<"a">>, <<>>) >>
MCValuesLong == {MCValue10}

MCHash(k) == {k}

MCKeys == {<<"a">>}
MCValues == {<<"b">>}
=============================================================================
