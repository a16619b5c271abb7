------------------------------ MODULE Calldata ------------------------------
(***************************************************************************)
(* The calldata of swap() (pathfinder/encode.go), word by word: byte       *)
(* offsets are multiples of 32 and a word is a number.  A step is          *)
(* [pool, type, tokenIn, tokenOut, extra], extra being <<>> or a parsed    *)
(* "fee=..,ts=..,hooks=.." string <<fee, ts, hooks>>.                      *)
(***************************************************************************)
EXTENDS Integers, Sequences, SequencesExt

CONSTANTS V4PoolManager,  \* the singleton's address
          WordRange       \* 2^256

ASSUME WordAssumption == WordRange \in Nat \ {0}

V4Type == 9

\* (fee, tickSpacing in two's complement, hooks, wrapNative = 0).
encodeV4ExtraData(x) == <<x[1], IF x[2] >= 0 THEN x[2] ELSE x[2] + WordRange, x[3], 0>>

\* A V4 step goes to the pool manager and carries its pool key.
Substituted(s) == s.type = V4Type /\ s.extra # <<>>
Target(s) == IF Substituted(s) THEN V4PoolManager ELSE s.pool
EncodedExtra(s) == IF Substituted(s) THEN encodeV4ExtraData(s.extra) ELSE <<>>

\* debugSwapSingle: five static words, the offset 192, and the bytes.
encodeSwapSingleInner(s, amountIn) ==
  <<Target(s), s.type, s.tokenIn, s.tokenOut, amountIn, 192, 32 * Len(EncodedExtra(s))>>
  \o EncodedExtra(s)

\* The tokens of the steps, in pairs.
tokenPairs(steps) == FlattenSeq([i \in DOMAIN steps |-> <<steps[i].tokenIn, steps[i].tokenOut>>])

\* Sizes and byte offsets of the sections after a head of six words.
ArraySize(n) == 32 + n * 32
ExtraSize(ed) == 32 + 32 * Len(ed)
Offsets(n) ==
  LET pools == 6 * 32
  IN [pools |-> pools, types |-> pools + ArraySize(n), tokens |-> pools + 2 * ArraySize(n),
      amounts |-> pools + 2 * ArraySize(n) + ArraySize(2 * n),
      extras |-> pools + 3 * ArraySize(n) + ArraySize(2 * n)]

\* Mutant: the padded contents of earlier extras are not counted.
ExtraOffsetFlat(extras, i) == 32 * Len(extras) + 32 * (i - 1)

\* The sum of the sizes of the extras before the i-th.
ExtraOffset(extras, i) ==
  32 * Len(extras) + FoldLeft(LAMBDA a, ed : a + ExtraSize(ed), 0, SubSeq(extras, 1, i - 1))

(* encodeSwapMultiInner writes the sections one after the other; only the  *)
(* first step has an amount.                                               *)
encodeSwapMultiInner(steps, amountIn, minOutput) ==
  LET n == Len(steps)
      o == Offsets(n)
      extras == [i \in 1..n |-> EncodedExtra(steps[i])]
      array(s) == <<Len(s)>> \o s
  IN <<o.pools, o.types, o.tokens, o.amounts, o.extras, minOutput>>
     \o array([i \in 1..n |-> Target(steps[i])])
     \o array([i \in 1..n |-> steps[i].type])
     \o array(tokenPairs(steps))
     \o array([i \in 1..n |-> IF i = 1 THEN amountIn ELSE 0])
     \o array([i \in 1..n |-> ExtraOffset(extras, i)])
     \o FlattenSeq([i \in 1..n |-> <<32 * Len(extras[i])>> \o extras[i]])

\* A word of an array section written at its byte offset.
At32(off, s, w) ==
  IF w = off \div 32 THEN Len(s) ELSE s[w - (off \div 32)]

(* encodeSwapRaw writes every word at the offset computed for it, with an  *)
(* explicit amount per step (encodeMergedSteps).                           *)
encodeSwapRaw(steps, amounts, minOutput) ==
  LET n == Len(steps)
      o == Offsets(n)
      extras == [i \in 1..n |-> EncodedExtra(steps[i])]
      offs == [i \in 1..n |-> ExtraOffset(extras, i)]
      head == <<o.pools, o.types, o.tokens, o.amounts, o.extras, minOutput>>
      start(i) == (o.extras + 32 + offs[i]) \div 32
      total == (o.extras + 32 + ExtraOffset(extras, n + 1)) \div 32
      in(w, off, len) == off \div 32 <= w /\ w <= off \div 32 + len
      word(w) ==
        CASE w < 6 -> head[w + 1]
          [] in(w, o.pools, n)   -> At32(o.pools, [i \in 1..n |-> Target(steps[i])], w)
          [] in(w, o.types, n)   -> At32(o.types, [i \in 1..n |-> steps[i].type], w)
          [] in(w, o.tokens, 2 * n) -> At32(o.tokens, tokenPairs(steps), w)
          [] in(w, o.amounts, n) -> At32(o.amounts, amounts, w)
          [] in(w, o.extras, n)  -> At32(o.extras, offs, w)
          [] OTHER -> LET i == CHOOSE i \in 1..n : start(i) <= w /\ w <= start(i) + Len(extras[i])
                      IN IF w = start(i) THEN 32 * Len(extras[i]) ELSE extras[i][w - start(i)]
  IN [k \in 1..total |-> word(k - 1)]

(* The ABI decoder of the router: every array is read where its head word  *)
(* points.                                                                 *)
decodeSwap(words) ==
  LET at(byte) == words[(byte \div 32) + 1]
      array(off) == [i \in 1..at(off) |-> at(off + 32 * i)]
      ptr(i) == words[5] + 32 + at(words[5] + 32 * i)
      bytes(p) == [k \in 1..(at(p) \div 32) |-> at(p + 32 * k)]
  IN [pools |-> array(words[1]), types |-> array(words[2]), tokens |-> array(words[3]),
      amounts |-> array(words[4]), minOutput |-> words[6],
      extras |-> [i \in 1..at(words[5]) |-> bytes(ptr(i))]]
=============================================================================
