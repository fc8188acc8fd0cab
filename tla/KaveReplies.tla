----------------------------- MODULE KaveReplies -----------------------------
(***************************************************************************)
(* The replies of the kave protocol as a client reads them (spec 4.1):     *)
(* `null` for an absent key, a payload of bytes (a GET hit, an ECHO), or   *)
(* the count a SET acknowledgement carries.  Each kind is a record with a  *)
(* field of its own, so replies of different kinds are simply unequal.     *)
(***************************************************************************)
NullReply == [null |-> TRUE]
BytesReply(b) == [bytes |-> b]
CountReply(n) == [count |-> n]
=============================================================================
