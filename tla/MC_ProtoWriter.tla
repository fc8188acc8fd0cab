---------------------------- MODULE MC_ProtoWriter ---------------------------
(***************************************************************************)
(* The response frames of ProtoWriter for every payload length up to       *)
(* MaxLen, read back with a reference decoder written from the framing     *)
(* rule of spec 4.1 (`<decimal length>:<payload>\n`, no leading zeros),    *)
(* not from the writer.  n walks 0..MaxLen, so every change in the number  *)
(* of digits of a length (9 to 10, 99 to 100, 999 to 1000) is checked.     *)
(***************************************************************************)
EXTENDS ProtoWriter, SequencesExt

CONSTANT MaxLen

VARIABLE n

Init == n = 0
Next == n < MaxLen /\ n' = n + 1
Spec == Init /\ [][Next]_n

\* Reference decoder: the value of a canonical decimal digit string.
DigitsOf == {DigitChar(d) : d \in 0..9}
RECURSIVE DecVal(_)
DecVal(ds) == IF ds = <<>> THEN 0
              ELSE 10 * DecVal(Front(ds)) + (CHOOSE d \in 0..9 : DigitChar(d) = Last(ds))
Canonical(ds) == /\ ds /= <<>>
                 /\ \A i \in DOMAIN ds : ds[i] \in DigitsOf
                 /\ Len(ds) > 1 => ds[1] /= "0"

\* A frame `<len>:<payload>\n` whose length field is canonical and counts
\* exactly the payload bytes; PayloadOf is the payload it frames.
ColonOf(f) == SelectInSeq(f, LAMBDA x : x = Colon)
FrameOk(f) ==
    LET c == ColonOf(f)
    IN  /\ c > 1
        /\ Canonical(SubSeq(f, 1, c - 1))
        /\ DecVal(SubSeq(f, 1, c - 1)) = Len(f) - c - 1
        /\ f[Len(f)] = NL
PayloadOf(f) == SubSeq(f, ColonOf(f) + 1, Len(f) - 1)

\* A payload of n bytes; ':' and '\n' inside it must not confuse the frame.
Data == [i \in 1..n |-> IF i % 2 = 0 THEN Colon ELSE NL]

\* Every frame write_echo, write_get_result and write_set_result emits for
\* an n-byte payload decodes back: the echoed or stored bytes themselves,
\* and for a SET the canonical decimal of n, whatever its number of digits.
FramesDecode ==
    /\ FrameOk(WriteEcho(Data)) /\ PayloadOf(WriteEcho(Data)) = Data
    /\ FrameOk(WriteGetResult(Data)) /\ PayloadOf(WriteGetResult(Data)) = Data
    /\ LET f == WriteSetResult(Data)
       IN  FrameOk(f) /\ Canonical(PayloadOf(f)) /\ DecVal(PayloadOf(f)) = n
=============================================================================
