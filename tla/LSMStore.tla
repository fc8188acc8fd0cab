------------------------------- MODULE LSMStore ------------------------------
(***************************************************************************)
(* The LSMStore of src/src/store/lsm.rs: a memtable (RBMap from key to     *)
(* Option<Vec<u8>>, None being a tombstone) and a Bloom filter, both       *)
(* behind one tokio Mutex.  Neither `get` nor `transact` awaits after      *)
(* taking the lock, so each call is one atomic step.                       *)
(*                                                                         *)
(* memtable is a function whose domain is the set of keys the RBMap holds; *)
(* its values are Options: {} a tombstone, {v} a live value.  The Bloom    *)
(* filter is its bit set; Hash(k) is the set of bits Murmur3 sets for k.   *)
(* got records the response of the last call: what a `get` returned     *)
(* (panic: it unwrapped a missing entry) or the list a transact applied. *)
(***************************************************************************)
EXTENDS Naturals, Sequences, SequencesExt, TLC

CONSTANTS Keys, Values, MaxTxnLen, Hash(_)

VARIABLES memtable, bloom, got

storeVars == <<memtable, bloom, got>>

KV == INSTANCE KVStore WITH kv <- [k \in Keys |-> IF k \in DOMAIN memtable
                                                   THEN memtable[k] ELSE {}]

\* LSMStore::new: empty memtable, empty filter.
StoreInit == /\ memtable = << >>
             /\ bloom = {}
             /\ got = KV!NoGet

\* BloomFilter::contains: every bit of the key is set.
BloomContains(k) == Hash(k) \subseteq bloom

\* Store::get: a filter miss answers None; on a hit the memtable entry is
\* unwrapped (a missing entry panics) and a tombstone reads as None.
GetResult(k) ==
    IF ~BloomContains(k) THEN [KV!NoGet EXCEPT !.key = k]
    ELSE IF k \notin DOMAIN memtable THEN [KV!NoGet EXCEPT !.key = k, !.panic = TRUE]
    ELSE [KV!NoGet EXCEPT !.key = k, !.res = memtable[k]]

Get(k) == /\ got' = GetResult(k)
          /\ UNCHANGED <<memtable, bloom>>

\* Variant of ApplyInstr as a slip in Store::transact would write it: a
\* Delete that writes nothing.
ApplyInstrDeleteNoop(st, i) ==
    IF i.kind = "Set"
    THEN [mt |-> (i.key :> {i.value}) @@ st.mt, bl |-> st.bl \cup Hash(i.key)]
    ELSE st

\* One instruction of the loop in Store::transact: Set inserts the value and
\* the key's filter bits, Delete inserts a tombstone and leaves the filter.
ApplyInstr(st, i) ==
    IF i.kind = "Set"
    THEN [mt |-> (i.key :> {i.value}) @@ st.mt, bl |-> st.bl \cup Hash(i.key)]
    ELSE [mt |-> (i.key :> {}) @@ st.mt, bl |-> st.bl]

\* Store::transact: the instructions in list order, under the lock.
Transact(txn) ==
    LET fin == FoldLeft(ApplyInstr, [mt |-> memtable, bl |-> bloom], txn)
    IN  /\ memtable' = fin.mt
        /\ bloom' = fin.bl
        /\ got' = [KV!NoGet EXCEPT !.txn = txn]

StoreNext == \/ \E k \in Keys : Get(k)
             \/ \E txn \in KV!Txns : Transact(txn)

StoreSpec == StoreInit /\ [][StoreNext]_storeVars

StoreTypeOK ==
    /\ DOMAIN memtable \subseteq Keys
    /\ \A k \in DOMAIN memtable : memtable[k] \in KV!Option
    /\ got.panic \in BOOLEAN /\ got.res \in KV!Option

(***************************************************************************)
(* Properties.                                                             *)
(***************************************************************************)

\* The store implements the Store capability: with the filter consulted
\* first and tombstones never entered into it, every get still returns the
\* value of the last Set/Delete of the key across all transactions.
StoreRefinesKV == KV!Spec

\* A get never takes the `unwrap()` on a key the filter reports present but
\* the memtable does not hold (lsm.rs get: `mem_result.unwrap()`).
GetNeverPanics == got.panic = FALSE
=============================================================================
