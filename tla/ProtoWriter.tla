------------------------------ MODULE ProtoWriter ----------------------------
(***************************************************************************)
(* The response framing of Proto (src/src/proto.rs, write_* methods).      *)
(* A byte is a one-character string; a byte string is a sequence of them.  *)
(* Each write_* emits its whole frame with write_all_buf; the frame is the *)
(* byte sequence the operator below returns.                               *)
(***************************************************************************)
EXTENDS Naturals, Sequences

NL == "\n"
Colon == ":"

\* The ASCII digit of d \in 0..9.
DigitChar(d) == <<"0", "1", "2", "3", "4", "5", "6", "7", "8", "9">>[d + 1]

\* Variant of ToDecimal that emits the digits least significant first.
RECURSIVE ToDecimalReversed(_)
ToDecimalReversed(n) == IF n < 10 THEN <<DigitChar(n)>>
                        ELSE <<DigitChar(n % 10)>> \o ToDecimalReversed(n \div 10)

\* usize::to_string: the decimal digits of n, most significant first.
RECURSIVE ToDecimal(_)
ToDecimal(n) == IF n < 10 THEN <<DigitChar(n)>>
                ELSE ToDecimal(n \div 10) \o <<DigitChar(n % 10)>>

\* write_null: `null\n`.
WriteNull == <<"n", "u", "l", "l", NL>>

\* write_echo: `<len>:<data>\n`.
WriteEcho(data) == ToDecimal(Len(data)) \o <<Colon>> \o data \o <<NL>>

\* write_get_result: the same framing as write_echo.
WriteGetResult(data) == ToDecimal(Len(data)) \o <<Colon>> \o data \o <<NL>>

\* write_set_result: `<len of len_v>:<len_v>\n` where len_v is the decimal
\* length of the stored value.
WriteSetResult(data) ==
    LET lenV == ToDecimal(Len(data))
    IN  ToDecimal(Len(lenV)) \o <<Colon>> \o lenV \o <<NL>>
=============================================================================
