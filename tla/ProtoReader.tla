------------------------------ MODULE ProtoReader ----------------------------
(***************************************************************************)
(* Proto::read and Proto::read_buf of src/src/proto.rs, for every session  *)
(* of a set Sessions.                                                      *)
(*                                                                         *)
(* buf[s] and fresh[s] are the fields self.buf and self.fresh, which live  *)
(* across calls of read().  rd[s] holds the locals of the current call     *)
(* (state, op, between_colons, needs_read, ptr, the length and payload     *)
(* buffers, residual) and, once the call has returned, its result ret.    *)
(* ptr is the 0-based index into buf[s], as in the code.                   *)
(*                                                                         *)
(* The byte source: wire[s] holds the bytes the peer has written and the   *)
(* server has not read yet, eof[s] whether the peer has closed the stream  *)
(* ("open", "clean" with a TLS close_notify, "abrupt" without one), kill   *)
(* whether the shutdown broadcast has been sent.                           *)
(*                                                                         *)
(* One action per iteration of 'state_loop: the refill of needs_read (the  *)
(* await, with each outcome of the select! an action) and one action per  *)
(* arm of `match state`, each with its inner while loop.                  *)
(***************************************************************************)
EXTENDS Naturals, Sequences, SequencesExt, ProtoWriter

CONSTANTS Sessions,
          MinChunk   \* fewest bytes a read returns while that many are queued

VARIABLES buf, fresh, rd, wire, eof, kill

readerVars == <<buf, fresh, rd>>

MIN_BUF_SIZE == 4
BUF_SIZE == 256

\* A byte from_utf8 rejects wherever it stands.
InvalidUtf8Byte == "0xFF"

ReqOps == {"GET", "SET", "ECHO"}

\* The ProtoOp a call returns: a request, or SysClose, Cancelled, or an Err.
ProtoOp(o, k, v) == [op |-> o, key |-> k, val |-> v]
Outcome(o) == ProtoOp(o, <<>>, <<>>)

\* The opcode tokens matched on buf[ptr..ptr+4], and where ptr is then set.
OpToken == ("GET" :> <<"G", "E", "T", ":">>) @@ ("SET" :> <<"S", "E", "T", ":">>)
           @@ ("ECHO" :> <<"E", "C", "H", "O">>)
OpPtr == ("GET" :> 3) @@ ("SET" :> 3) @@ ("ECHO" :> 4)

\* The locals of read() as the call begins: needs_read is self.fresh.
ReadEntry(s) ==
    [state |-> "Start", op |-> "GET", between |-> FALSE, needsRead |-> fresh[s],
     ptr |-> 0, keyLenBuf |-> <<>>, keyLen |-> 0, key |-> <<>>, echo |-> <<>>,
     valueLenBuf |-> <<>>, valueLen |-> 0, value |-> <<>>, residual |-> <<>>,
     ret |-> Outcome("None")]

ReaderInit == /\ buf = [s \in Sessions |-> <<>>]
              /\ fresh = [s \in Sessions |-> TRUE]
              /\ rd = [s \in Sessions |-> [ReadEntry(s) EXCEPT !.needsRead = TRUE]]

\* `str::from_utf8(..)?.parse::<usize>()`: an optional '+', then one or more
\* ASCII digits (values in the model stay far below usize::MAX).
Digits == {DigitChar(d) : d \in 0..9}
UsizeDigits(acc) == IF acc /= <<>> /\ Head(acc) = "+" THEN Tail(acc) ELSE acc
IsUsize(acc) == UsizeDigits(acc) /= <<>> /\ \A i \in DOMAIN UsizeDigits(acc) : UsizeDigits(acc)[i] \in Digits
DigitVal(c) == CHOOSE d \in 0..9 : DigitChar(d) = c
\* Variant of DigitsVal that keeps only the last digit of a length.
DigitsValLastOnly(ds) == IF ds = <<>> THEN 0 ELSE DigitVal(Last(ds))

RECURSIVE DigitsVal(_)
DigitsVal(ds) == IF ds = <<>> THEN 0 ELSE 10 * DigitsVal(Front(ds)) + DigitVal(Last(ds))
UsizeVal(acc) == DigitsVal(UsizeDigits(acc))

Min2(a, b) == IF a < b THEN a ELSE b

InCall(s) == rd[s].state /= "Returned"
Refilling(s) == InCall(s) /\ rd[s].needsRead
InArm(s, st) == rd[s].state = st /\ ~rd[s].needsRead

Return(s, r) == rd' = [rd EXCEPT ![s].state = "Returned", ![s].ret = r]

-----------------------------------------------------------------------------
(* The refill: buf.clear(); buf.shrink_to(BUF_SIZE); then read_buf races   *)
(* kill.recv() against reader.read_buf in tokio::select!.                  *)

\* After Read(n): prepend the residual, reset ptr, clear needs_read.
Filled(s, bytes) ==
    /\ buf' = [buf EXCEPT ![s] = rd[s].residual \o bytes]
    /\ rd' = [rd EXCEPT ![s].residual = <<>>, ![s].ptr = 0, ![s].needsRead = FALSE]

\* The sizes a read of the queued bytes may return.
ChunkSizes(s) == {n \in 1..Min2(Len(wire[s]), BUF_SIZE) : n >= Min2(MinChunk, Len(wire[s]))}

ReadChunk(s) ==
    /\ Refilling(s)
    /\ \E n \in ChunkSizes(s) :
          /\ Filled(s, SubSeq(wire[s], 1, n))
          /\ wire' = [wire EXCEPT ![s] = SubSeq(@, n + 1, Len(@))]
    /\ UNCHANGED <<fresh, eof, kill>>

\* A clean close: read_buf returns Ok(0), which is ProtoRead::Read(0).
ReadZero(s) ==
    /\ Refilling(s) /\ wire[s] = <<>> /\ eof[s] = "clean"
    /\ Filled(s, <<>>)
    /\ UNCHANGED <<fresh, wire, eof, kill>>

\* Variant: the UnexpectedEof error retried instead of returned.
ReadEofRetried(s) ==
    /\ Refilling(s) /\ wire[s] = <<>> /\ eof[s] = "abrupt"
    /\ UNCHANGED <<buf, rd, fresh, wire, eof, kill>>

\* A close without close_notify: UnexpectedEof, returned as SysClose.
ReadEof(s) ==
    /\ Refilling(s) /\ wire[s] = <<>> /\ eof[s] = "abrupt"
    /\ buf' = [buf EXCEPT ![s] = <<>>]
    /\ Return(s, Outcome("SysClose"))
    /\ UNCHANGED <<fresh, wire, eof, kill>>

\* Variant: the kill signal honoured only by a fresh Proto's first read.
ReadCancelledFirstOnly(s) ==
    /\ Refilling(s) /\ kill /\ fresh[s]
    /\ buf' = [buf EXCEPT ![s] = <<>>]
    /\ Return(s, Outcome("Cancelled"))
    /\ UNCHANGED <<fresh, wire, eof, kill>>

\* The kill branch of the select! wins: Cancelled.
ReadCancelled(s) ==
    /\ Refilling(s) /\ kill
    /\ buf' = [buf EXCEPT ![s] = <<>>]
    /\ Return(s, Outcome("Cancelled"))
    /\ UNCHANGED <<fresh, wire, eof, kill>>

-----------------------------------------------------------------------------
(* The arms of `match state`.                                              *)

\* State::Start on a fresh Proto: go to ReadOp and clear the flag.
StartFresh(s) ==
    /\ InArm(s, "Start") /\ fresh[s]
    /\ rd' = [rd EXCEPT ![s].state = "ReadOp"]
    /\ fresh' = [fresh EXCEPT ![s] = FALSE]
    /\ UNCHANGED <<buf, wire, eof, kill>>

\* Variant of StartResidual that steps one byte past the newline.
StartResidualSkipsTwo(s) ==
    /\ InArm(s, "Start") /\ ~fresh[s]
    /\ LET b  == buf[s]
           nl == SelectInSubSeq(b, rd[s].ptr + 1, Len(b), LAMBDA c : c = NL)
       IN  rd' = IF nl /= 0
                 THEN [rd EXCEPT ![s].ptr = nl + 1, ![s].state = "ReadOp",
                                 ![s].residual = @ \o SubSeq(b, nl + 1, Len(b))]
                 ELSE [rd EXCEPT ![s].ptr = Len(b), ![s].needsRead = TRUE]
    /\ UNCHANGED <<buf, fresh, wire, eof, kill>>

\* State::Start on a used Proto: skip buf up to and including the first
\* '\n' at or after ptr, saving what follows it as the residual; with no
\* '\n' left, ask for a read.
StartResidual(s) ==
    /\ InArm(s, "Start") /\ ~fresh[s]
    /\ LET b  == buf[s]
           nl == SelectInSubSeq(b, rd[s].ptr + 1, Len(b), LAMBDA c : c = NL)
       IN  rd' = IF nl /= 0
                 THEN [rd EXCEPT ![s].ptr = nl, ![s].state = "ReadOp",
                                 ![s].residual = @ \o SubSeq(b, nl + 1, Len(b))]
                 ELSE [rd EXCEPT ![s].ptr = Len(b), ![s].needsRead = TRUE]
    /\ UNCHANGED <<buf, fresh, wire, eof, kill>>

\* Variant: a short buffer mid-way neither errors nor sets needs_read.
ReadOpNoRefill(s) ==
    /\ InArm(s, "ReadOp")
    /\ LET b == buf[s]
           p == rd[s].ptr
       IN  IF p + MIN_BUF_SIZE > Len(b)
           THEN IF p = 0 THEN Return(s, Outcome("Err")) ELSE UNCHANGED rd
           ELSE LET tok == SubSeq(b, p + 1, p + MIN_BUF_SIZE)
                IN  IF \E o \in ReqOps : OpToken[o] = tok
                    THEN LET o == CHOOSE o \in ReqOps : OpToken[o] = tok
                         IN  rd' = [rd EXCEPT ![s].op = o, ![s].ptr = OpPtr[o],
                                              ![s].state = "ReadKeyLen"]
                    ELSE Return(s, Outcome("Err"))
    /\ UNCHANGED <<buf, fresh, wire, eof, kill>>

\* State::ReadOp: match the four bytes at ptr; too few bytes is an error at
\* the start of the buffer and a refill elsewhere.  On a match ptr is SET to
\* 3 (GET, SET) or 4 (ECHO), whatever ptr was.
ReadOp(s) ==
    /\ InArm(s, "ReadOp")
    /\ LET b == buf[s]
           p == rd[s].ptr
       IN  IF p + MIN_BUF_SIZE > Len(b)
           THEN IF p = 0 THEN Return(s, Outcome("Err"))
                ELSE rd' = [rd EXCEPT ![s].needsRead = TRUE]
           ELSE LET tok == SubSeq(b, p + 1, p + MIN_BUF_SIZE)
                IN  IF \E o \in ReqOps : OpToken[o] = tok
                    THEN LET o == CHOOSE o \in ReqOps : OpToken[o] = tok
                         IN  rd' = [rd EXCEPT ![s].op = o, ![s].ptr = OpPtr[o],
                                              ![s].state = "ReadKeyLen"]
                    ELSE Return(s, Outcome("Err"))
    /\ UNCHANGED <<buf, fresh, wire, eof, kill>>

\* Variant of LenScan that leaves ptr on the closing ':'.
RECURSIVE LenScanKeepsColon(_, _, _, _)
LenScanKeepsColon(b, p, between, acc) ==
    IF p >= Len(b) THEN [res |-> "more", ptr |-> p, between |-> between, acc |-> acc]
    ELSE IF ~between
         THEN IF b[p + 1] /= Colon
              THEN [res |-> "err", ptr |-> p, between |-> between, acc |-> acc]
              ELSE LenScanKeepsColon(b, p + 1, TRUE, acc)
         ELSE IF b[p + 1] = Colon
              THEN [res |-> "done", ptr |-> p, between |-> FALSE, acc |-> acc]
              ELSE LenScanKeepsColon(b, p + 1, TRUE, Append(acc, b[p + 1]))

\* The while loop of ReadKeyLen / ReadValueLen from index p: a ':' opens
\* the field, bytes up to the next ':' are its digits.  res is "err" (no
\* opening ':'), "done" (closing ':' consumed) or "more" (buffer exhausted).
RECURSIVE LenScan(_, _, _, _)
LenScan(b, p, between, acc) ==
    IF p >= Len(b) THEN [res |-> "more", ptr |-> p, between |-> between, acc |-> acc]
    ELSE IF ~between
         THEN IF b[p + 1] /= Colon
              THEN [res |-> "err", ptr |-> p, between |-> between, acc |-> acc]
              ELSE LenScan(b, p + 1, TRUE, acc)
         ELSE IF b[p + 1] = Colon
              THEN [res |-> "done", ptr |-> p + 1, between |-> FALSE, acc |-> acc]
              ELSE LenScan(b, p + 1, TRUE, Append(acc, b[p + 1]))

\* State::ReadKeyLen: on the closing ':' parse key_len and go to ReadEcho
\* (ECHO) or ReadKey.
ReadKeyLen(s) ==
    /\ InArm(s, "ReadKeyLen")
    /\ LET r == LenScan(buf[s], rd[s].ptr, rd[s].between, rd[s].keyLenBuf)
       IN  CASE r.res = "err" -> Return(s, Outcome("Err"))
             [] r.res = "more" ->
                  rd' = [rd EXCEPT ![s].ptr = r.ptr, ![s].between = r.between,
                                   ![s].keyLenBuf = r.acc, ![s].needsRead = TRUE]
             [] r.res = "done" /\ ~IsUsize(r.acc) -> Return(s, Outcome("Err"))
             [] OTHER ->
                  rd' = [rd EXCEPT ![s].ptr = r.ptr, ![s].between = r.between,
                                   ![s].keyLenBuf = r.acc, ![s].keyLen = UsizeVal(r.acc),
                                   ![s].state = IF rd[s].op = "ECHO" THEN "ReadEcho" ELSE "ReadKey"]
    /\ UNCHANGED <<buf, fresh, wire, eof, kill>>

\* State::ReadValueLen: the same loop into value_len_buf, then ReadValue.
ReadValueLen(s) ==
    /\ InArm(s, "ReadValueLen")
    /\ LET r == LenScan(buf[s], rd[s].ptr, rd[s].between, rd[s].valueLenBuf)
       IN  CASE r.res = "err" -> Return(s, Outcome("Err"))
             [] r.res = "more" ->
                  rd' = [rd EXCEPT ![s].ptr = r.ptr, ![s].between = r.between,
                                   ![s].valueLenBuf = r.acc, ![s].needsRead = TRUE]
             [] r.res = "done" /\ ~IsUsize(r.acc) -> Return(s, Outcome("Err"))
             [] OTHER ->
                  rd' = [rd EXCEPT ![s].ptr = r.ptr, ![s].between = r.between,
                                   ![s].valueLenBuf = r.acc, ![s].valueLen = UsizeVal(r.acc),
                                   ![s].state = "ReadValue"]
    /\ UNCHANGED <<buf, fresh, wire, eof, kill>>

\* The while loop of ReadEcho / ReadKey / ReadValue: copy bytes from ptr
\* until the payload has `need` bytes or the buffer is exhausted.
Copied(b, p, have, need) ==
    LET n == Min2(need - Len(have), Len(b) - p)
    IN  [ptr |-> p + n, data |-> have \o SubSeq(b, p + 1, p + n)]

\* One payload arm: field fills to length need, then the state goes to next.
PayloadArm(s, st, field, need, next) ==
    /\ InArm(s, st)
    /\ LET c == Copied(buf[s], rd[s].ptr, rd[s][field], need)
       IN  rd' = [rd EXCEPT ![s][field] = c.data, ![s].ptr = c.ptr,
                            ![s].state = IF Len(c.data) >= need THEN next ELSE st,
                            ![s].needsRead = Len(c.data) < need]
    /\ UNCHANGED <<buf, fresh, wire, eof, kill>>

ReadEcho(s) == PayloadArm(s, "ReadEcho", "echo", rd[s].keyLen, "Done")

ReadKey(s) == PayloadArm(s, "ReadKey", "key", rd[s].keyLen,
                         IF rd[s].op = "GET" THEN "Done" ELSE "ReadValueLen")

ReadValue(s) == PayloadArm(s, "ReadValue", "value", rd[s].valueLen, "Done")

\* State::Done: the key must be UTF-8; return the request.
Done(s) ==
    /\ InArm(s, "Done")
    /\ LET r == rd[s]
       IN  IF \E i \in DOMAIN r.key : r.key[i] = InvalidUtf8Byte
           THEN Return(s, Outcome("Err"))
           ELSE Return(s, CASE r.op = "ECHO" -> ProtoOp("ECHO", <<>>, r.echo)
                            [] r.op = "GET"  -> ProtoOp("GET", r.key, <<>>)
                            [] OTHER         -> ProtoOp("SET", r.key, r.value))
    /\ UNCHANGED <<buf, fresh, wire, eof, kill>>

ReaderStep(s) ==
    \/ ReadChunk(s) \/ ReadZero(s) \/ ReadEof(s) \/ ReadCancelled(s)
    \/ StartFresh(s) \/ StartResidual(s) \/ ReadOp(s)
    \/ ReadKeyLen(s) \/ ReadValueLen(s)
    \/ ReadEcho(s) \/ ReadKey(s) \/ ReadValue(s) \/ Done(s)
=============================================================================
