--------------------------------- MODULE Path ---------------------------------
(***************************************************************************)
(* A route through pools: tokens, and between two of them the fee of the   *)
(* pool that exchanges them. In the code a path is the bytes of these one  *)
(* after the other, here a sequence; tokens are numbers, to be compared.   *)
(***************************************************************************)
EXTENDS Integers, SequencesExt

\* A further pool is a fee and a token more than the three of the first.
HasMultiplePools(path) == Len(path) >= 5

NumPools(path) == (Len(path) - 1) \div 2

SkipToken(path) == SubSeq(path, 3, Len(path))

LastToken(path) == path[Len(path)]
TokensOf(path) == {path[2 * i - 1] : i \in 1 .. NumPools(path) + 1}

\* PoolAddress.getPoolKey: the tokens of a pool are ordered.
PoolKey(tokenA, tokenB, fee) == <<Min({tokenA, tokenB}), Max({tokenA, tokenB}), fee>>

\* The pool of a hop
FirstPoolKey(path) == PoolKey(path[1], path[3], path[2])
Hop(path, i) == SubSeq(path, 2 * i - 1, 2 * i + 1)
PoolsOf(path) == {FirstPoolKey(Hop(path, i)) : i \in 1 .. NumPools(path)}

\* Some pool stands for two hops.
Repeats(path) == Cardinality(PoolsOf(path)) < NumPools(path)
===============================================================================
