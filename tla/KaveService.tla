----------------------------- MODULE KaveService -----------------------------
(***************************************************************************)
(* What the kave server promises its clients (spec 4.4, 5, 8), without the *)
(* bytes: every session answers the requests its client has sent, one at a *)
(* time and in the order sent, each one atomically against a single       *)
(* key-value map shared by all sessions.  A SET stores its value and is    *)
(* answered with the value's length; a GET is answered with the key's     *)
(* value or null; an ECHO with its message.  A session may end at any      *)
(* time (close, error, shutdown); it answers nothing after that.           *)
(***************************************************************************)
EXTENDS Naturals, Sequences, KaveReplies

CONSTANTS Sessions, Keys, Values, Script

VARIABLES kv,       \* the shared map: {} absent, {v} present
          sent,     \* sent[s]: requests client s has sent
          replies,  \* replies[s]: the replies session s has given, in order
          live      \* live[s]: session s has not ended

Init == /\ kv = [k \in Keys |-> {}]
        /\ sent = [s \in Sessions |-> 0]
        /\ replies = [s \in Sessions |-> <<>>]
        /\ live = [s \in Sessions |-> TRUE]

served(s) == Len(replies[s])

\* The effect of one request on the map, and the reply it is owed there.
Effect(r, m) == IF r.op = "SET" THEN [m EXCEPT ![r.key] = {r.val}] ELSE m
Response(r, m) ==
    CASE r.op = "GET" -> IF m[r.key] = {} THEN NullReply
                         ELSE BytesReply(CHOOSE v \in m[r.key] : TRUE)
      [] r.op = "SET" -> CountReply(Len(r.val))
      [] OTHER        -> BytesReply(r.val)

ClientSend(s) ==
    /\ sent[s] < Len(Script[s])
    /\ sent' = [sent EXCEPT ![s] = @ + 1]
    /\ UNCHANGED <<kv, replies, live>>

Serve(s) ==
    /\ live[s] /\ served(s) < sent[s]
    /\ LET r == Script[s][served(s) + 1]
       IN  /\ kv' = Effect(r, kv)
           /\ replies' = [replies EXCEPT ![s] = Append(@, Response(r, kv))]
    /\ UNCHANGED <<sent, live>>

End(s) ==
    /\ live[s]
    /\ live' = [live EXCEPT ![s] = FALSE]
    /\ UNCHANGED <<kv, sent, replies>>

Next == \E s \in Sessions : ClientSend(s) \/ Serve(s) \/ End(s)

vars == <<kv, sent, replies, live>>

Spec == Init /\ [][Next]_vars
=============================================================================
