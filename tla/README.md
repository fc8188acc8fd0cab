# TLA+ models of kave

kave is a key-value server. Clients talk to it over TLS using a line protocol of framed requests:

- `GET:<n>:<key>\n`
- `SET:<n>:<key>:<m>:<value>\n`
- `ECHO:<n>:<msg>\n`

Each request gets a framed reply of the form `<n>:<payload>\n`, or `null\n` for a missing key. This directory holds TLA+ modules of the parts of the repository whose behaviour TLC can explore, along with the configurations that check them.

## The system and its parts

| Part | Source | State | Operations |
|------|--------|-------|------------|
| Protocol reader | `src/src/proto.rs` `Proto::read`, `Proto::read_buf` | `buf` (reused across calls), `fresh`, and the call's locals: state, op, ptr, length buffers, key, value, residual | `read()`: a state machine with the arms Start, ReadOp, ReadKeyLen, ReadEcho, ReadKey, ReadValueLen, ReadValue and Done. It refills through `read_buf`, which `select!`s between the kill broadcast and the socket. |
| Protocol writer | `proto.rs` `write_*` | none of its own | writes one frame per reply, then flushes |
| LSM store | `src/src/store/lsm.rs` | memtable (an ordered map from key to Option), Bloom filter | `get`, `transact` (a list of Set/Delete instructions) |
| Session driver / server | `server.rs`, which is not in the repository | one task per connection, plus a shutdown broadcast | loops over read, dispatch to the store and write the reply, and stops on SysClose, Cancelled or an error |
| Commit log, MemoryStore, client, TLS | not in the repository, or pure I/O | | not modelled |
| `error.rs` | `src/src/error.rs` | none | error conversions; every error counts as one outcome `Err` |

How the parts interact:

- Each connection's task owns a `Proto`.
- All tasks share one store behind a tokio `Mutex`.
- A task holds that lock across one store call and nothing else. `get` and `transact` never await, so each store call is atomic with respect to the other sessions.
- Shutdown sends on a broadcast channel. A session observes it only while it waits for bytes in `read_buf`.

What is hard:

- `read()` keeps `buf` between calls. It holds "residual" bytes read past the end of a request, and it must give the same requests however the stream is chunked (spec §8).
- Several sessions interleave on the store.
- Shutdown races the socket read.
- A Bloom filter stands in front of the memtable.

## Modules

The modules are listed in dependency order.

- **`KVStore`** is the abstract store: a total map from keys to `{}` (absent) or `{v}`.
  - `Transact` applies the last write to each key.
  - `Get` reads the map.
  - It is what the LSM store promises.
- **`LSMStore`** models `LSMStore::{new, get, transact}`.
  - `memtable` is a partial function from keys to Options, where a tombstone is `{}`.
  - `bloom` is a set of bits, and `Hash(k)` is the set of bits of key `k`. It is a constant operator, so a cfg picks the false-positive pattern.
  - `Transact` folds `ApplyInstr` over the instructions, as the loop at lsm.rs:59-69 does.
  - `Get` reproduces the `contains` / `unwrap` sequence and records a panic in `got.panic`.
  - `KV == INSTANCE KVStore WITH kv <- ...` is the refinement mapping. The memtable read through the tombstones gives the abstract map.
  - `got` is the response of the last store call. That is a get's result, or the instruction list a transaction applied. Because every transaction is recorded there, refinement can't treat a transaction that wrongly changes nothing as a stutter. `StoreTypeOK` is checked as part of `TypeOK` in `server_safety`.
- **`ProtoWriter`** defines the frame of each `write_*` as a byte sequence. `ToDecimal` is `usize::to_string`.
- **`MC_ProtoWriter`** checks those frames against an independent reference decoder. The reference parses `<digits>:<payload>\n`, requires canonical decimal digits and converts them with the recursive `DecVal`. Its state is only a payload length `n` that grows from 0 to `MaxLen`.
- **`KaveReplies`** holds the three reply values that both server modules use: `NullReply`, `BytesReply(b)` and `CountReply(n)`.
- **`ProtoReader`** models `Proto::read` for a set of `Sessions`.
  - One action models each iteration of `'state_loop`. Each arm (`StartFresh`, `StartResidual`, `ReadOp`, `ReadKeyLen`, `ReadEcho`, `ReadKey`, `ReadValueLen`, `ReadValue`, `Done`) takes the whole arm, including its inner `while` loop. The digit scan is the recursive `LenScan`, and the payload copy is `Copied`.
  - A refill (`needs_read`) is one action for each outcome of `read_buf`:
    - `ReadChunk`: `Ok(n)` with n > 0;
    - `ReadZero`: `Ok(0)` after a clean TLS close;
    - `ReadEof`: `UnexpectedEof` after an abrupt close;
    - `ReadCancelled`: the kill branch.
  - `wire[s]` holds the bytes the client has written and the server has not read yet. `eof[s]` records how the client closed.
  - `MinChunk` is the fewest bytes a read returns while more are available.
- **`KaveService`** is the abstract promise of the server, with no bytes in it. Each session serves the requests its client has sent, one at a time and in the order sent. Each request acts atomically on one shared key-value map: a SET stores its value, while GET and ECHO leave the map alone. A session may end at any time and serves nothing afterwards. `replies[s]` is the sequence of replies session `s` has given. A GET is answered with the key's value or null, a SET with its value's length and an ECHO with its message, each against the map at the moment of serving.
- **`KaveServer`** composes `ProtoReader` and `LSMStore` with the session driver and the clients.
  - The driver is modelled from spec §4.4/§5, because `server.rs` is absent:
    - `ServeGet`, `ServeSet` and `ServeEcho` call the store, write the reply and start the next `read()`;
    - `Finish` ends the session on a non-request outcome;
    - `Shutdown` is the broadcast.
  - `Service == INSTANCE KaveService WITH ...` is the refinement mapping. It gives the store read through its tombstones, the replies decoded so far, and whether each session is still running.
  - `decoded` is a history variable. On the step that writes a reply frame to `out`, `Decode` parses that frame with the client's decoder (`DecodeReply`) and appends the result. It never constrains the system: `Next == SystemNext /\ Decode`. The frame bytes are thus compared with the abstract reply once per written frame, instead of being re-decoded on every transition.
  - Each client writes the requests of its `Script`, one write per request. Unless `Pipelined`, it waits for each reply first. It then closes cleanly or abruptly, as `CloseModes` allows. With `"abandon"` in `CloseModes`, a client may instead write part of its next request, stopping before the last payload byte, and close cleanly (`Abandon`). With `"flood"`, it may write the opcode and opening `:` of its next request followed by `Garbage` (non-digit bytes, no closing `:`), and leave the stream open (`Flood`, which sets `eof` to `"flooded"`).
- **`MC_LSMStore`** and **`MC_KaveServer`** give the constants for TLC: scripts, keys, values and hash functions.

Bytes are one-character strings, and `"0xFF"` stands for a byte that is not valid UTF-8. Keys and values are short byte sequences. A key containing `\n` is used where that case matters.

## Runs

| Run | cfg | Expect | What it shows |
|-----|-----|--------|---------------|
| lsm_refines | MC_LSMStore.cfg | pass | Setup: 3 keys, 2 values, transactions of up to 2 instructions, a filter without false positives. Result: every behaviour of the LSM store implements `KVStore` (`StoreRefinesKV`), tombstones and Deletes that leave the filter alone included. |
| lsm_falsepos | MC_LSMStore_falsepos.cfg | violation | `Hash` gives k1 and k2 the bits {1,2} and {2,3}, and gives k3 the bits {1,3}. After k1 and k2 are set, `get(k3)` passes the filter and panics at lsm.rs:49. |
| server_safety | MC_KaveServer.cfg | pass | Setup: two sessions, non-pipelined clients, every chunking (MinChunk 1), clean and abrupt close, shutdown. Results: `ReaderFaithful` holds, so read() returns no request other than the one the client sent next. `ImplementsService` holds, so the server implements `KaveService`: every session answers exactly the requests its client sent, in order. Each reply frame decodes to what the shared map owes at the moment of serving. 690,008 distinct states, about 35 s. |
| server_one_session | MC_KaveServer_long.cfg | pass | One session sends a SET and a GET of a ten-byte value made of `:` and `b`, under every chunking and under the fairness below. Its client may close cleanly or abruptly, abandon a request, or flood a length field. `ReaderFaithful` and `ImplementsService` hold: a two-digit length split across reads is scanned correctly, the colons in the payload are copied as data, and the two-digit SET count (`2:10`) and GET reply decode to what the store owes. `ShutdownDrains` holds: the shutdown broadcast ends even a session spinning on a clean close mid-request or waiting on a flooded length, because every refill passes through the `select!`. 14,810 distinct states, about 5 s. |
| server_liveness | MC_KaveServer_live.cfg | pass | Under the fairness below: every request is answered or its session ends, a closed stream ends its session, and a shutdown ends every session. |
| server_pipelined | MC_KaveServer_pipelined.cfg | violation | A client sends `SET a b` and then, without waiting, `GET a` (spec scenario 5). read() returns `GET b`. |
| server_newline_lag | MC_KaveServer_newlinelag.cfg | violation | The client waits for each reply and reads return at least 4 bytes. If a read ends just before a request's `\n`, the next request is rejected. |
| server_newline_key | MC_KaveServer_newlinekey.cfg | violation | `SET` of the key `"\n"` delivered in one piece makes the next `read()` fail. |
| server_clean_close | MC_KaveServer_cleanclose.cfg | violation | A clean close ends the session with an error instead of `SysClose`. |
| server_abandon | MC_KaveServer_abandon.cfg | violation | The client writes a prefix of its first request that stops before the last payload byte (TLC's trace: `SET:1:a:1:`) and closes cleanly. Every refill returns `Ok(0)`, and the arm that needs bytes (here `ReadValue`, `ReadKeyLen` for a shorter prefix) asks again forever, so `ClosedSessionsEnd` fails. |

| writer_frames | MC_ProtoWriter.cfg | pass | For every payload length 0..1000, the frames of `write_echo`, `write_get_result` and `write_set_result` parse under the reference decoder and give back the payload, or the length in canonical decimal for SET. The mutant, which writes the digits in reverse order, fails at length 10. |

Each pass run has one mutant per property, listed in `PROJECT.json`. A mutant replaces one mapped definition with a plausible bug, and TLC finds that property violated.

## Findings

1. **Absolute `ptr` in ReadOp** (proto.rs:359/363/367). `ptr = 3` (or 4) is right only if the request starts at index 0.
   - `Start` rescans `self.buf` from index 0 on every call.
   - So when a request follows an earlier one in the same buffer (pipelining), or follows a lagging `\n`, the reader parses stale bytes.
   - The result is a wrong request (`server_pipelined`) or an error on well-formed input (`server_newline_lag`).
2. **A newline in a key** (proto.rs:313). The next call's `Start` stops at the first `\n` of the buffer, which is inside the previous key (`server_newline_key`). Spec §8 permits such keys.
3. **Clean EOF is not EOF** (proto.rs:181). `Ok(0)` becomes `Read(0)`, and read() fails in ReadOp (`server_clean_close`). Spec §4.2/§7 say EOF is `EndOfStream`, not an error. If the peer closes cleanly in the middle of a request, the call instead loops on empty reads (finding 5).
4. **Bloom false positive panics** (lsm.rs:49), shown by `lsm_falsepos`.
5. **A session spins forever on a clean close mid-request** (proto.rs:287). The `Read(n)` arm accepts `n = 0`. The arm that needs bytes asks for a refill again, and `read_buf` answers `Ok(0)` immediately, so the task never returns. This is `server_abandon`. Only a shutdown ends such a session (`server_one_session`).

The reader rejects an opcode split across reads at the start of the buffer (`p + 4 > len` with `p = 0`). The code acknowledges this limitation, so it is not a finding. `server_newline_lag` uses MinChunk 4 to avoid it.

## Bounds

| Run | Bounds |
|-----|--------|
| Server safety | Two sessions. Scripts `SET a b; GET a` and `ECHO ""; GET a`. One key and one value of one byte each. |
| One session | Script `SET a <10 bytes>; GET a`, every chunking (MinChunk 1), every client mode. Ten is the smallest length with two digits, and `Abandon` may stop at any of the request's first 19 bytes. |
| Server liveness | Scripts `SET a b; GET a` and `ECHO ""`. Reads of at least 4 bytes and abrupt close only, which keeps the run under five minutes. |
| Abandon (violation) | One session with script `SET a b; GET a`, every chunking, and every place to stop inside the first request. |
| Store | Three keys, two values, transactions of length ≤ 2. |
| Writer frames | Payload lengths 0 to 1000. This crosses every change in digit count of the length (9→10, 99→100, 999→1000), and with it the length-of-length of a SET reply. |

Why the server safety bounds are enough:

- Every arm of `read()` runs: the residual, refills in the middle of a token, the empty ECHO and a GET hit after another session's SET.
- Every split point of each request is reached.
- Both sessions interleave on the store.

Why the store bounds are enough: every Set/Delete pair on one key or on two keys is explored, including shared filter bits when `Hash` overlaps.

## Fairness

The fairness assumptions are:

- Server steps are weakly fair (`ReaderAction`, `Serve*`, `Finish`). tokio keeps polling every task that is ready.
- The kill branch of `select!` is strongly fair. `select!` picks a ready branch at random, so a branch that is ready again and again is eventually taken.
- Clients read their replies eventually (`Receive`).
- Clients are under no obligation to send, to close, or to shut the server down. The properties hold with idle clients.

## Not modelled

- `usize` overflow of declared lengths. Lengths reach two digits (`server_one_session`) and four digits on the writer side (`writer_frames`). Rust's `parse::<usize>` returns an error on overflow rather than wrapping, so the reader has no wrap-around to model.
- Memory growth from a large declared length (proto.rs:195 TODO). The reader allocates `BUF_SIZE` per buffer and grows a key or value only by bytes actually received, so a large declared length costs memory only as its bytes arrive. Spec §9 leaves the cap open, so there is no value to check against. This is listed as a hazard without a property.
- UTF-8 validity beyond one invalid byte.
- Buffer capacity (`shrink_to`, `MIN_BUF_SIZE` reserve). These change only allocation, not contents.
- The TLS handshake, certificates and the accept loop.
- Write errors while a reply is written, because the driver that handles them is absent.
- The commit log and the `MemoryStore` backend, which are not in the repository. The commit log is never called.
- `error.rs`, which converts error kinds into one enum and holds no state. Every error is the single outcome `Err`.
- The ordering of the memtable (`RBMap`), because `get` never relies on it.

## Plan for later work

- Extend the model with `Delete` requests if the protocol adds them.
- Add an abstract "request stream" specification that `ProtoReader` refines under the chunkings it handles correctly.
- Add a bound on declared lengths, with a resource property, if the code gains a cap. Spec §9 leaves the cap as an open question, and the code has none to check.
