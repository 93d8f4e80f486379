------------------------------ MODULE MCSendCli ------------------------------
(* `ccip-cli send` for TLC.  A u64 has 6 bits, so "99" overflows it.  The   *)
(* selector texts are a valid decimal, a valid 0x-hex, the empty text       *)
(* (BigInt reads it as 0), a negative, an overflowing and a malformed one.  *)
EXTENDS SendCli

MCWidth == 6

MCSelectors == { <<"2">>, <<"0", "x", "f">>, <<>>, <<"-", "1">>, <<"9", "9">>, <<"1", "x">> }

\* A 2-byte receiver whose first byte happens to read as a BCS length of 1,
\* another 2-byte receiver, and an empty one.
MCReceivers == { <<"0", "x", "0", "1", "a", "b">>, <<"0", "x", "a", "b", "c", "d">>, <<>> }

\* --data / --extra-args: the '' default, and one byte that happens to be
\* the BCS of an empty vector.
MCPayloads == { <<>>, <<"0", "x", "0", "0">> }

\* The chainlink-sui layout: the onramp package publishes onramp and
\* onramp_state_helper, the pool package one pool module whose lock_or_burn
\* takes the coin by value.
SeparateLayout(pool) ==
    [mods |-> { <<OnrampPkg, "onramp">>, <<OnrampPkg, "onramp_state_helper">>, <<PoolPkg, pool>> },
     coin |-> "val"]

\* A pool package that also publishes an onramp module, the only layout in
\* which the code's ccip_send target (pool-pkg::onramp) resolves, with
\* lock_or_burn taking the coin by value or, as the builder's comments have
\* it, by &mut.
CombinedLayout(pool, coin) ==
    [mods |-> SeparateLayout(pool).mods \cup { <<PoolPkg, "onramp">> }, coin |-> coin]

PoolModules == {"burn_mint_token_pool", "lock_release_token_pool"}
MCSeparate == { SeparateLayout(m) : m \in PoolModules }
MCAllLayouts == MCSeparate \cup { CombinedLayout(m, c) : m \in PoolModules, c \in {"val", "mut"} }
=============================================================================
