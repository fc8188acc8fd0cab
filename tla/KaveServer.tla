------------------------------ MODULE KaveServer -----------------------------
(***************************************************************************)
(* Sessions of the kave server sharing one LSMStore.  Each session is a    *)
(* ProtoReader driven by the session driver (spec 4.4): call read(),       *)
(* dispatch the request to the store, write the reply, call read() again,  *)
(* until SysClose, Cancelled or an error.  Each session has one client     *)
(* that writes the requests of its Script, each with one write, and then   *)
(* closes the stream.                                                      *)
(*                                                                         *)
(* The driver takes the store lock, calls the store and writes the reply   *)
(* in one step: nothing else touches the session between them, and the     *)
(* store call is atomic (LSMStore), so splitting the step adds only        *)
(* interleavings of independent actions.                                   *)
(***************************************************************************)
EXTENDS ProtoReader, LSMStore, KaveReplies

CONSTANTS Script,      \* Script[s]: the requests client s sends, in order
          Pipelined,   \* may a client send before it has its last reply?
          CloseModes   \* how clients may close: "clean", "abrupt", "abandon",
                       \* "flood"

VARIABLES sent,        \* sent[s]: requests client s has written
          out,         \* out[s]: reply frames written, not yet read by s
          answered,    \* answered[s]: replies client s has read
          sess,        \* sess[s]: "running", "ended" or "panicked"
          decoded      \* decoded[s]: every reply written to s, as s reads it

vars == <<buf, fresh, rd, wire, eof, kill, memtable, bloom, got,
          sent, out, answered, sess, decoded>>

Init == /\ ReaderInit
        /\ StoreInit
        /\ wire = [s \in Sessions |-> <<>>]
        /\ eof = [s \in Sessions |-> "open"]
        /\ kill = FALSE
        /\ sent = [s \in Sessions |-> 0]
        /\ out = [s \in Sessions |-> <<>>]
        /\ answered = [s \in Sessions |-> 0]
        /\ sess = [s \in Sessions |-> "running"]
        /\ decoded = [s \in Sessions |-> <<>>]

-----------------------------------------------------------------------------
(* The client: requests framed as in spec 4.1.                             *)

Encode(r) ==
    CASE r.op = "GET" ->
           <<"G", "E", "T", Colon>> \o ToDecimal(Len(r.key)) \o <<Colon>> \o r.key \o <<NL>>
      [] r.op = "SET" ->
           <<"S", "E", "T", Colon>> \o ToDecimal(Len(r.key)) \o <<Colon>> \o r.key
             \o <<Colon>> \o ToDecimal(Len(r.val)) \o <<Colon>> \o r.val \o <<NL>>
      [] OTHER ->
           <<"E", "C", "H", "O", Colon>> \o ToDecimal(Len(r.val)) \o <<Colon>> \o r.val \o <<NL>>

Send(s) ==
    /\ sess[s] = "running" /\ eof[s] = "open"
    /\ sent[s] < Len(Script[s])
    /\ Pipelined \/ answered[s] = sent[s]
    /\ wire' = [wire EXCEPT ![s] = @ \o Encode(Script[s][sent[s] + 1])]
    /\ sent' = [sent EXCEPT ![s] = @ + 1]
    /\ UNCHANGED <<buf, fresh, rd, eof, kill, memtable, bloom, got, out, answered, sess>>

Receive(s) ==
    /\ out[s] /= <<>>
    /\ out' = [out EXCEPT ![s] = Tail(@)]
    /\ answered' = [answered EXCEPT ![s] = @ + 1]
    /\ UNCHANGED <<buf, fresh, rd, wire, eof, kill, memtable, bloom, got, sent, sess>>

Close(s) ==
    /\ eof[s] = "open"
    /\ sent[s] = Len(Script[s])
    /\ Pipelined \/ answered[s] = sent[s]
    /\ \E m \in CloseModes \ {"abandon", "flood"} : eof' = [eof EXCEPT ![s] = m]
    /\ UNCHANGED <<buf, fresh, rd, wire, kill, memtable, bloom, got, sent, out, answered, sess>>

\* A client that gives up in the middle of a request (CloseModes holds
\* "abandon"): it writes a prefix of its next request that stops before the
\* last payload byte, then closes cleanly with a close_notify.
Abandon(s) ==
    /\ "abandon" \in CloseModes
    /\ eof[s] = "open"
    /\ sent[s] < Len(Script[s])
    /\ Pipelined \/ answered[s] = sent[s]
    /\ LET req == Encode(Script[s][sent[s] + 1])
       IN  \E n \in 1..(Len(req) - 2) :
              wire' = [wire EXCEPT ![s] = @ \o SubSeq(req, 1, n)]
    /\ eof' = [eof EXCEPT ![s] = "clean"]
    /\ UNCHANGED <<buf, fresh, rd, kill, memtable, bloom, got, sent, out, answered, sess>>

\* Bytes a flooding client sends in place of a length: neither digits nor ':'.
Garbage == <<"x", "x">>

\* A client that never finishes a length field (CloseModes holds "flood"):
\* it writes the opcode of its next request and the ':' that opens the key
\* length, then Garbage, and leaves the stream open.
Flood(s) ==
    /\ "flood" \in CloseModes
    /\ eof[s] = "open"
    /\ sent[s] < Len(Script[s])
    /\ Pipelined \/ answered[s] = sent[s]
    /\ LET req == Encode(Script[s][sent[s] + 1])
           opEnd == SelectInSeq(req, LAMBDA x : x = Colon)
       IN  wire' = [wire EXCEPT ![s] = @ \o SubSeq(req, 1, opEnd) \o Garbage]
    /\ eof' = [eof EXCEPT ![s] = "flooded"]
    /\ UNCHANGED <<buf, fresh, rd, kill, memtable, bloom, got, sent, out, answered, sess>>

\* The shutdown broadcast.
Shutdown ==
    /\ ~kill
    /\ kill' = TRUE
    /\ UNCHANGED <<buf, fresh, rd, wire, eof, memtable, bloom, got, sent, out, answered, sess>>

-----------------------------------------------------------------------------
(* The session driver.                                                     *)

Served(s, o) == sess[s] = "running" /\ rd[s].state = "Returned" /\ rd[s].ret.op = o

\* Reply, then the next call of read().
Reply(s, frame) ==
    /\ out' = [out EXCEPT ![s] = Append(@, frame)]
    /\ rd' = [rd EXCEPT ![s] = ReadEntry(s)]

\* GET: store.get; a hit is written with write_get_result, a miss with
\* write_null.  A panic in get ends the session task.
ServeGet(s) ==
    /\ Served(s, "GET")
    /\ Get(rd[s].ret.key)
    /\ IF got'.panic
       THEN /\ sess' = [sess EXCEPT ![s] = "panicked"]
            /\ UNCHANGED <<rd, out>>
       ELSE /\ Reply(s, IF got'.res = {} THEN WriteNull
                        ELSE WriteGetResult(CHOOSE v \in got'.res : TRUE))
            /\ UNCHANGED sess
    /\ UNCHANGED <<buf, fresh, wire, eof, kill, sent, answered>>

\* Variant of ServeSet whose transaction lost its instruction.
ServeSetEmptyTxn(s) ==
    /\ Served(s, "SET")
    /\ Transact(<<>>)
    /\ Reply(s, WriteSetResult(rd[s].ret.val))
    /\ UNCHANGED <<buf, fresh, wire, eof, kill, sent, answered, sess>>

\* SET: a transaction of one Set, then write_set_result of the value.
ServeSet(s) ==
    /\ Served(s, "SET")
    /\ Transact(<<[kind |-> "Set", key |-> rd[s].ret.key, value |-> rd[s].ret.val]>>)
    /\ Reply(s, WriteSetResult(rd[s].ret.val))
    /\ UNCHANGED <<buf, fresh, wire, eof, kill, sent, answered, sess>>

\* ECHO: write_echo of the message.
ServeEcho(s) ==
    /\ Served(s, "ECHO")
    /\ Reply(s, WriteEcho(rd[s].ret.val))
    /\ UNCHANGED <<buf, fresh, wire, eof, kill, memtable, bloom, got, sent, answered, sess>>

\* SysClose, Cancelled or an error ends the session.
Finish(s) ==
    /\ sess[s] = "running" /\ rd[s].state = "Returned"
    /\ rd[s].ret.op \notin ReqOps
    /\ sess' = [sess EXCEPT ![s] = "ended"]
    /\ UNCHANGED <<buf, fresh, rd, wire, eof, kill, memtable, bloom, got, sent, out, answered>>

ReaderAction(s) ==
    /\ sess[s] = "running"
    /\ ReaderStep(s)
    /\ UNCHANGED <<memtable, bloom, got, sent, out, answered, sess>>

SystemNext == \/ Shutdown
        \/ \E s \in Sessions :
              \/ Send(s) \/ Receive(s) \/ Close(s) \/ Abandon(s) \/ Flood(s)
              \/ ReaderAction(s)
              \/ ServeGet(s) \/ ServeSet(s) \/ ServeEcho(s) \/ Finish(s)

\* What the client reads from frame f written for a request with opcode op
\* (spec 4.1): `null`, or digits, ':', exactly that many payload bytes and
\* '\n', the payload being the bytes, or for a SET the decimal count it
\* carries; a frame that breaks the framing rule reads as malformed.
DecodeReply(op, f) ==
    LET c    == SelectInSeq(f, LAMBDA x : x = Colon)
        head == SubSeq(f, 1, c - 1)
        body == SubSeq(f, c + 1, Len(f) - 1)
        framed == /\ c > 0 /\ IsUsize(head)
                  /\ Len(f) = c + UsizeVal(head) + 1 /\ f[Len(f)] = NL
    IN  CASE f = WriteNull                  -> NullReply
          [] ~framed                        -> [malformed |-> f]
          [] op /= "SET"                    -> BytesReply(body)
          [] IsUsize(body)                  -> CountReply(UsizeVal(body))
          [] OTHER                          -> [malformed |-> f]

\* decoded is a history variable: a step that writes a frame to s records
\* what s will read from it (the reply to s's next undecoded request); it
\* has no influence on any other variable.
Decode ==
    decoded' = [s \in Sessions |->
                  IF Len(out'[s]) > Len(out[s])
                  THEN Append(decoded[s], DecodeReply(Script[s][Len(decoded[s]) + 1].op, Last(out'[s])))
                  ELSE decoded[s]]

Next == SystemNext /\ Decode

Spec == Init /\ [][Next]_vars

\* Every server step is weakly fair (tokio runs every ready task); the
\* cancel branch of select! is strongly fair: select! picks a ready branch
\* at random, so a branch that is ready again and again eventually wins.
\* The client reads its replies eventually; it need not send its whole
\* script or ever close, and the shutdown is not forced.
Fairness ==
    \A s \in Sessions :
        /\ WF_vars(ReaderAction(s) /\ Decode)
        /\ SF_vars(sess[s] = "running" /\ ReadCancelled(s)
                   /\ UNCHANGED <<memtable, bloom, got, sent, out, answered, sess>>
                   /\ Decode)
        /\ WF_vars(ServeGet(s) /\ Decode) /\ WF_vars(ServeSet(s) /\ Decode)
        /\ WF_vars(ServeEcho(s) /\ Decode)
        /\ WF_vars(Finish(s) /\ Decode)
        /\ WF_vars(Receive(s) /\ Decode)

FairSpec == Spec /\ Fairness

-----------------------------------------------------------------------------
(* Properties.                                                             *)

TypeOK ==
    /\ fresh \in [Sessions -> BOOLEAN]
    /\ kill \in BOOLEAN
    /\ eof \in [Sessions -> {"open", "clean", "abrupt", "flooded"}]
    /\ sess \in [Sessions -> {"running", "ended", "panicked"}]
    /\ \A s \in Sessions :
          /\ InCall(s) => rd[s].ptr \in 0..Len(buf[s])
          /\ sent[s] \in 0..Len(Script[s])
          /\ answered[s] + Len(out[s]) <= sent[s]
    /\ StoreTypeOK

\* Requests the driver has taken from read() so far.
Dispatched(s) == answered[s] + Len(out[s])

\* Chunking invariance of Proto::read (spec 4.2, 8): every request read()
\* returns is the next request the client sent, whatever the chunking, the
\* residual bytes of earlier calls and the reuse of self.buf across calls.
ReaderFaithful ==
    \A s \in Sessions :
        (sess[s] = "running" /\ rd[s].state = "Returned" /\ rd[s].ret.op \in ReqOps)
        => /\ Dispatched(s) < sent[s]
           /\ rd[s].ret = Script[s][Dispatched(s) + 1]

AbstractKV == [k \in Keys |-> IF k \in DOMAIN memtable THEN memtable[k] ELSE {}]

\* The refinement mapping to the service: the store read through its
\* tombstones, the replies as the clients read them, and the sessions still
\* running.
Service == INSTANCE KaveService
             WITH kv <- AbstractKV,
                  replies <- decoded,
                  live <- [s \in Sessions |-> sess[s] = "running"]

\* The server implements KaveService: whatever the chunking, the residuals
\* and the interleaving of sessions on the store lock, each session answers
\* exactly the requests its client sent, in order, each with the reply the
\* shared store owes it at that moment (null, the value, the length of a
\* SET's value, the echoed bytes), one SET transaction per SET request,
\* and nothing after it ends.
ImplementsService == Service!Spec

\* A stream of well-formed requests is never rejected (spec 8: chunking
\* invariance): read() does not return an error for it.
WellFormedAccepted ==
    \A s \in Sessions : ~(rd[s].state = "Returned" /\ rd[s].ret.op = "Err")

\* Every request a client sends is answered, unless its session ends.
EveryRequestAnswered ==
    \A s \in Sessions : \A i \in 1..Len(Script[s]) :
        sent[s] >= i ~> (answered[s] >= i \/ sess[s] /= "running")

\* Every session ends once its client has closed the stream.
ClosedSessionsEnd ==
    \A s \in Sessions : eof[s] \in {"clean", "abrupt"} ~> sess[s] /= "running"

\* After the shutdown broadcast every session ends.
ShutdownDrains ==
    kill ~> \A s \in Sessions : sess[s] /= "running"
=============================================================================
