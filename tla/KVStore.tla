------------------------------- MODULE KVStore -------------------------------
(***************************************************************************)
(* What the kave Store capability promises (spec 4.7, 6): `get` returns    *)
(* the value of the last instruction on the key of the last transaction    *)
(* that touched it, or absent; `transact` applies a whole instruction list *)
(* at once.  A key's value is an Option, written as a set of at most one   *)
(* element: {} is absent (never written or deleted), {v} is live.          *)
(***************************************************************************)
EXTENDS Naturals, Sequences, FiniteSetsExt, SequencesExt

CONSTANTS Keys, Values, MaxTxnLen

VARIABLES kv, got

Option == {{}} \cup {{v} : v \in Values}

Instr == [kind : {"Set"}, key : Keys, value : Values]
         \cup [kind : {"Delete"}, key : Keys]

Txns == BoundedSeq(Instr, MaxTxnLen)

\* The response of the last store call: a get's key and result, or the
\* instruction list a transact applied (its Ok(())).
NoGet == [key |-> <<>>, panic |-> FALSE, res |-> {}, txn |-> <<>>]

Init == /\ kv = [k \in Keys |-> {}]
        /\ got = NoGet

Get(k) == /\ got' = [NoGet EXCEPT !.key = k, !.res = kv[k]]
          /\ UNCHANGED kv

\* The effect on k of a transaction is that of its last instruction on k.
LastWrite(txn, k, old) ==
    LET on == {i \in DOMAIN txn : txn[i].key = k}
    IN  IF on = {} THEN old
        ELSE LET last == txn[Max(on)]
             IN  IF last.kind = "Set" THEN {last.value} ELSE {}

Transact(txn) == /\ kv' = [k \in Keys |-> LastWrite(txn, k, kv[k])]
                 /\ got' = [NoGet EXCEPT !.txn = txn]

Next == \/ \E k \in Keys : Get(k)
        \/ \E txn \in Txns : Transact(txn)

Spec == Init /\ [][Next]_<<kv, got>>
=============================================================================
