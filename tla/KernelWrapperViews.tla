------------------------- MODULE KernelWrapperViews -------------------------
(***************************************************************************)
(* Two helpers of the C++ wrapper, src/src/kernel/hyliumkernel_wrapper.h,  *)
(* with the C functions they drive in hyliumkernel.cpp:                    *)
(*  - Range and Iterator, the random-access view the wrapper puts over a  *)
(*    counted C collection (a transaction's inputs and outputs, a block's  *)
(*    transactions, spent outputs, coins, chain entries);                  *)
(*  - write_bytes, which collects an object's serialization through the   *)
(*    hylk_WriteBytes callback of hylk_*_to_bytes (WriterStream).          *)
(* size_t arithmetic is taken modulo SIZE_T, a stand-in for 2^64 larger   *)
(* than every size the properties use: what matters is that an index     *)
(* below zero wraps to one no collection has.                             *)
(***************************************************************************)
EXTENDS Integers, Sequences

SIZE_T == 2 ^ 16

\* A collection of n elements whose C getter asserts the index is below
\* the count; element i is i itself.  Get is hylk_transaction_get_output_at;
\* the other getters the wrapper's Ranges are built on have the same form.
Get(n, i) == IF i < n THEN [abort |-> FALSE, val |-> i] ELSE [abort |-> TRUE, val |-> 0]
hylk_transaction_get_input_at(n, i) == Get(n, i)
hylk_block_get_transaction_at(n, i) == Get(n, i)
hylk_block_spent_outputs_get_transaction_spent_outputs_at(n, i) == Get(n, i)
hylk_transaction_spent_outputs_get_coin_at(n, i) == Get(n, i)

\* The collections a Range is put over, and the getter of each.
Collections == {"outputs", "inputs", "transactions", "tx_spent_outputs", "coins"}
GetAt(c, n, i) ==
    CASE c = "outputs"          -> Get(n, i)
      [] c = "inputs"           -> hylk_transaction_get_input_at(n, i)
      [] c = "transactions"     -> hylk_block_get_transaction_at(n, i)
      [] c = "tx_spent_outputs" -> hylk_block_spent_outputs_get_transaction_spent_outputs_at(n, i)
      [] c = "coins"            -> hylk_transaction_spent_outputs_get_coin_at(n, i)

\* Iterator(ptr, idx) and its operators on m_idx.
Iterator(c, idx) == [coll |-> c, idx |-> idx % SIZE_T]
Deref(n, it) == GetAt(it.coll, n, it.idx)
Inc(it) == Iterator(it.coll, it.idx + 1)
Dec(it) == Iterator(it.coll, it.idx - 1)
Eq(it, other) == it.coll = other.coll /\ it.idx = other.idx
Diff(it, other) == it.idx - other.idx

\* Range over collection c of size n: begin, end, operator[], at, front, back.
begin(c, n) == Iterator(c, 0)

\* Mutant: end() one short of size().
end_short(c, n) == Iterator(c, n - 1)

end(c, n) == Iterator(c, n)
Index(c, n, i) == GetAt(c, n, i % SIZE_T)
at(c, n, i) == IF i >= n THEN [abort |-> FALSE, throws |-> "out_of_range"]
               ELSE [abort |-> Index(c, n, i).abort, throws |-> "none", val |-> Index(c, n, i).val]
front(c, n) == Index(c, n, 0)
back(c, n) == Index(c, n, n - 1)

\* A range-based for loop: it = begin(); while (it != end()) { *it; ++it; }
\* fuel bounds the iterations; "runaway" marks a loop that would not stop.
RECURSIVE ForEach(_, _, _, _, _)
ForEach(n, it, e, out, fuel) ==
    IF Eq(it, e) THEN [abort |-> FALSE, vals |-> out]
    ELSE IF fuel = 0 THEN [abort |-> TRUE, vals |-> <<"runaway">>]
    ELSE IF Deref(n, it).abort THEN [abort |-> TRUE, vals |-> out]
    ELSE ForEach(n, Inc(it), e, Append(out, Deref(n, it).val), fuel - 1)
RangeFor(c, n) == ForEach(n, begin(c, n), end(c, n), <<>>, n + 2)

\* Reverse traversal (std::reverse_iterator): from end(), --it then *it.
RECURSIVE Backward(_, _, _, _, _)
Backward(n, it, b, out, fuel) ==
    IF Eq(it, b) THEN [abort |-> FALSE, vals |-> out]
    ELSE IF fuel = 0 THEN [abort |-> TRUE, vals |-> <<"runaway">>]
    ELSE IF Deref(n, Dec(it)).abort THEN [abort |-> TRUE, vals |-> out]
    ELSE Backward(n, Dec(it), b, Append(out, Deref(n, Dec(it)).val), fuel - 1)
RangeReverse(c, n) == Backward(n, end(c, n), begin(c, n), <<>>, n + 2)

-----------------------------------------------------------------------------
(***************************************************************************)
(* Serialization through a callback.  An object serializes as a sequence  *)
(* of chunks, each passed to one writer call; fail is the index of the    *)
(* call whose bytes.insert throws (bad_alloc), or 0.                       *)
(***************************************************************************)

\* The write lambda of write_bytes: append the chunk and return 0, or
\* store the exception and return -1.
WriteCall(chunk, fails, st) ==
    IF fails THEN [ret |-> -1, bytes |-> st.bytes, exception |-> "bad_alloc"]
    ELSE [ret |-> 0, bytes |-> st.bytes \o chunk, exception |-> st.exception]

\* WriterStream::write for each chunk in turn; a non-zero return throws
\* runtime_error, which ends the serialization (ret -1 marks the throw).
RECURSIVE Stream(_, _, _, _)
Stream(chunks, fail, i, st) ==
    IF i > Len(chunks) THEN [st EXCEPT !.ret = 0]
    ELSE LET r == WriteCall(chunks[i], i = fail, st)
         IN  IF r.ret # 0 THEN r ELSE Stream(chunks, fail, i + 1, r)

Fresh == [ret |-> 0, bytes |-> <<>>, exception |-> "null"]

\* Mutant: the catch of hylk_transaction_to_bytes returns 0.
hylk_transaction_to_bytes_swallow(chunks, fail) ==
    LET r == Stream(chunks, fail, 1, Fresh) IN [r EXCEPT !.ret = 0]

\* hylk_transaction_to_bytes: the stream's throw is caught and -1 returned.
hylk_transaction_to_bytes(chunks, fail) ==
    LET r == Stream(chunks, fail, 1, Fresh)
    IN  [r EXCEPT !.ret = IF r.ret # 0 THEN -1 ELSE 0]

\* hylk_block_to_bytes serializes the block through the same WriterStream
\* and catch.
hylk_block_to_bytes(chunks, fail) ==
    LET r == Stream(chunks, fail, 1, Fresh)
    IN  [r EXCEPT !.ret = IF r.ret # 0 THEN -1 ELSE 0]

\* hylk_script_pubkey_to_bytes: one writer call, its result returned.
hylk_script_pubkey_to_bytes(chunk, fail) == WriteCall(chunk, fail = 1, Fresh)

\* write_bytes: the bytes, or std::rethrow_exception of the stored
\* exception when to_bytes returns non-zero.
write_bytes(r) ==
    IF r.ret # 0 THEN [throws |-> r.exception, bytes |-> <<>>]
    ELSE [throws |-> "none", bytes |-> r.bytes]

=============================================================================
