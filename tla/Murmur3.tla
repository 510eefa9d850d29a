------------------------------ MODULE Murmur3 ------------------------------
(***************************************************************************)
(* murmur_hash.c: murmur3_32, the fingerprint murmur3_batch_fingerprint    *)
(* the heuristics key the cost store with, and the hash setup_module_config *)
(* takes of a module config buffer.                                         *)
(*                                                                         *)
(* A uint32_t is a pair <<hi, lo>> of 16-bit halves, because TLC's        *)
(* integers are 32-bit signed: every operation is taken modulo 2^32 on the *)
(* halves, and no intermediate value exceeds 2^31.  A key is a sequence of *)
(* bytes; a block is read little-endian, as on the x86-64 and AArch64      *)
(* targets.                                                                *)
(***************************************************************************)
EXTENDS Integers, Sequences

Half == 65536

\* A uint32_t holding 0 <= v < 2^31.
Word(v) == <<v \div Half, v % Half>>

\* XOR and OR of bytes, bit by bit, as tables: applying a function
\* evaluates its argument there, which keeps TLC's evaluation of the hash's
\* nested word operations shallow.
BitOf(x, pos) == (x \div 2^pos) % 2
ByteXor == [pr \in (0..255) \X (0..255) |->
              LET d == [j \in 0..7 |-> 2^j * ((BitOf(pr[1], j) + BitOf(pr[2], j)) % 2)]
              IN  d[0] + d[1] + d[2] + d[3] + d[4] + d[5] + d[6] + d[7]]
ByteOr == [pr \in (0..255) \X (0..255) |->
             LET d == [j \in 0..7 |-> 2^j * ((BitOf(pr[1], j) + BitOf(pr[2], j)
                                              + BitOf(pr[1], j) * BitOf(pr[2], j)) % 2)]
             IN  d[0] + d[1] + d[2] + d[3] + d[4] + d[5] + d[6] + d[7]]
HXor(x, y) == ByteXor[<<x \div 256, y \div 256>>] * 256 + ByteXor[<<x % 256, y % 256>>]
HOr(x, y) == ByteOr[<<x \div 256, y \div 256>>] * 256 + ByteOr[<<x % 256, y % 256>>]

WXor(a, b) == <<HXor(a[1], b[1]), HXor(a[2], b[2])>>
WOr(a, b) == <<HOr(a[1], b[1]), HOr(a[2], b[2])>>

WAdd(a, b) ==
  LET lo == a[2] + b[2]
  IN  <<(a[1] + b[1] + lo \div Half) % Half, lo % Half>>

\* The full 32-bit product of two 16-bit halves, split by bytes of x.
HalfMul(x, y) ==
  LET p0 == (x % 256) * y
      p1 == (x \div 256) * y
      low == (p1 % 256) * 256 + p0
  IN  <<(p1 \div 256 + low \div Half) % Half, low % Half>>

\* a * b on uint32_t: the high halves' product falls out of the word.
WMul(a, b) ==
  LET p == HalfMul(a[2], b[2])
  IN  <<(p[1] + HalfMul(a[1], b[2])[2] + HalfMul(a[2], b[1])[2]) % Half, p[2]>>

\* a << r for 0 < r < 16.
WShl(a, r) ==
  <<(a[1] * 2^r + a[2] \div 2^(16 - r)) % Half, (a[2] * 2^r) % Half>>

\* a >> r for 0 < r < 32.
WShr(a, r) ==
  IF r >= 16 THEN <<0, a[1] \div 2^(r - 16)>>
  ELSE <<a[1] \div 2^r, (a[1] % 2^r) * 2^(16 - r) + a[2] \div 2^r>>

\* (x << r) | (x >> (32 - r)), as murmur3_32 writes the rotation.
Rotl(a, r) == WOr(WShl(a, r), WShr(a, 32 - r))

c1 == <<52382, 11601>>    \* 0xcc9e2d51
c2 == <<7047, 13715>>     \* 0x1b873593
r1 == 15
r2 == 13
m == Word(5)
n == <<58964, 27492>>     \* 0xe6546b64

\* k *= c1; k = rotl(k, r1); k *= c2: applied to a block and to the tail.
ScrambleK(k) == WMul(Rotl(WMul(k, c1), r1), c2)

\* One iteration of the block loop.
MixBlock(h, k) == WAdd(WMul(Rotl(WXor(h, ScrambleK(k)), r2), m), n)

\* blocks[i], the little-endian uint32_t at key + 4 * i.
Block(key, i) ==
  <<key[4 * i + 4] * 256 + key[4 * i + 3], key[4 * i + 2] * 256 + key[4 * i + 1]>>

\* Fault variant: the switch on len & 3 with a break after every case, so
\* only a one-byte tail reaches h.
MixTailBreak(h, key) ==
  IF Len(key) % 4 = 1
    THEN WXor(h, ScrambleK(Word(key[Len(key)])))
    ELSE h

\* The switch on len & 3: tail[j] lands in bits 8j..8j+7 of k1, so the
\* XORs into k1 = 0 are a sum, and the case 1 code scrambles k1 into h.
MixTail(h, key) ==
  LET nb == Len(key) \div 4
      tail(j) == IF j <= Len(key) % 4 THEN key[4 * nb + j] * 256^(j - 1) ELSE 0
      k1 == tail(1) + tail(2) + tail(3)
  IN  IF Len(key) % 4 = 0 THEN h ELSE WXor(h, ScrambleK(Word(k1)))

\* The finalisation: h ^= len and the avalanche of shifts and products.
FMix(h, len) ==
  LET h1 == WXor(h, Word(len))
      h2 == WMul(WXor(h1, WShr(h1, 16)), <<34283, 51819>>)    \* 0x85ebca6b
      h3 == WMul(WXor(h2, WShr(h2, 13)), <<49842, 44597>>)    \* 0xc2b2ae35
  IN  WXor(h3, WShr(h3, 16))

\* for (int i = 0; i < nblocks; i++): the block loop from h = seed.
RECURSIVE MixBlocks(_, _, _)
MixBlocks(h, key, i) ==
  IF i = Len(key) \div 4 THEN h
  ELSE MixBlocks(MixBlock(h, Block(key, i)), key, i + 1)

murmur3_32(key, seed) == FMix(MixTail(MixBlocks(seed, key, 0), key), Len(key))

\* An int's four bytes, little-endian, in two's complement.
IntBytes(v) ==
  LET u == IF v >= 0 THEN v ELSE (v + 2147483647) + 1
      top == IF v >= 0 THEN 0 ELSE 128
  IN  [byte \in 1..4 |-> ((u \div 256^(byte - 1)) % 256) + (IF byte = 4 THEN top ELSE 0)]

\* Fault variant: a fingerprint struct without pipeline_id.
FingerprintNoPipeline(batch, config_hash) ==
  murmur3_32(IntBytes(batch.num_images) \o IntBytes(batch.batch_size), config_hash)

\* The ImageBatchFingerprint struct: three ints, no padding.
murmur3_batch_fingerprint(batch, config_hash) ==
  murmur3_32(IntBytes(batch.num_images) \o IntBytes(batch.batch_size)
               \o IntBytes(batch.pipeline_id), config_hash)

\* setup_module_config: hash = murmur3_32(buffer, buf_size, 42).
ModuleConfigHash(buffer) == murmur3_32(buffer, Word(42))

(***************************************************************************)
(* Published test vectors of MurmurHash3 x86_32: every tail length, the   *)
(* zero, one and all-ones seeds, and a key of several blocks and a tail.  *)
(***************************************************************************)
TestVectors ==
  { [key |-> <<>>, seed |-> <<0, 0>>, hash |-> <<0, 0>>],
    [key |-> <<>>, seed |-> <<0, 1>>, hash |-> <<20814, 10423>>],
    [key |-> <<>>, seed |-> <<65535, 65535>>, hash |-> <<33265, 28473>>],
    [key |-> <<255, 255, 255, 255>>, seed |-> <<0, 0>>, hash |-> <<30249, 15184>>],
    [key |-> <<33, 67, 101, 135>>, seed |-> <<0, 0>>, hash |-> <<62811, 20843>>],
    [key |-> <<33, 67, 101, 135>>, seed |-> <<20610, 60910>>, hash |-> <<9058, 63966>>],
    [key |-> <<33, 67, 101>>, seed |-> <<0, 0>>, hash |-> <<32330, 34356>>],
    [key |-> <<33, 67>>, seed |-> <<0, 0>>, hash |-> <<41207, 45178>>],
    [key |-> <<33>>, seed |-> <<0, 0>>, hash |-> <<29286, 7412>>],
    [key |-> <<0, 0, 0, 0>>, seed |-> <<0, 0>>, hash |-> <<9058, 63966>>],
    [key |-> <<0, 0, 0>>, seed |-> <<0, 0>>, hash |-> <<34288, 46119>>],
    [key |-> <<0, 0>>, seed |-> <<0, 0>>, hash |-> <<12532, 49926>>],
    [key |-> <<72, 101, 108, 108, 111, 44, 32, 119, 111, 114, 108, 100, 33>>,
     seed |-> <<38727, 45708>>, hash |-> <<9352, 19642>>] }

\* murmur3_32, with its 32-bit arithmetic, rotations, little-endian block
\* reads and fall-through tail, computes MurmurHash3 x86_32: it gives the
\* published hash for every test vector.  TLC checks this at the start of
\* every run that uses the module.
ASSUME \A v \in TestVectors : murmur3_32(v.key, v.seed) = v.hash

=============================================================================
