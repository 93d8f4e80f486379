# TLA+ models of the chainlink-sui TypeScript PTB clients

This directory models the two TypeScript programs in this repository. Both build
and submit Sui *programmable transaction blocks* (PTBs) against the CCIP Move packages:

| program | source | what it does |
|---|---|---|
| offramp script | `src/ts-experiments/src/ptb-offramp.ts` | loads `state.json` (or env defaults), makes a keypair, tops up gas from the faucet, builds the *completion flow* `dummy_init_execute` → `makeMoveVec<CompletedDestTokenTransfer>[]` → `finish_execute`, signs, executes and prints events |
| `ccip-cli send` | `src/ts-sdk-examples/index.ts` | commander CLI: parses options, checks key and package ids, parses the selector and byte vectors, calls the builder, signs and executes, prints the response |
| dispatch builder | `src/ts-sdk-examples/onramp.ts` | `buildCcipSendPTB`: `create_token_transfer_params` → pool `lock_or_burn` (burn-mint or lock-release) → `ccip_send` |

How the parts interact. Each program is one sequential async `main`/action.
It awaits RPC calls, and every call can fail. Its only side effect is the
final `signAndExecuteTransaction`. The Sui SDK and the network act as an
external collaborator:

- When the block is built, every Move function must resolve and every object id must exist. Otherwise the call throws.
- When the caller sets no gas budget (the send command), the build dry-runs the block to estimate one, and throws if the dry run fails or aborts. The offramp script sets a budget (`ptb-offramp.ts:194`), so its block is not dry-run.
- Execution then either applies the whole block or aborts it. An abort does not throw: it comes back as effects with status `failure`.

The Move rules the block must obey:

- a value passed by value is moved and may not be used again;
- a hot potato (a value with no `drop` ability) must be consumed inside the block;
- a `tx.pure` argument must already be valid BCS for the parameter type.

## Modules

| module | models | state ↔ code |
|---|---|---|
| `Ptb` | the PTB vocabulary and the execution contract the programs rely on | handles `InputArg`/`PureArg`/`ResultArg`, `MoveCall`, `MakeMoveVec`. `Modes` records each called function's parameter modes (by-ref, by-mut, by-value), read from the argument comments in `onramp.ts` and `ptb-offramp.ts`. The comments disagree on the coin parameter of `lock_or_burn`: by value at line 56, `&mut Coin<T>` at lines 13 and 99. `PoolSigs(coin)` is the table for a pool that takes it in either mode. The checks take the table as a parameter. `WellFormed` (no forward reference, no use after move, no unconsumed potato, valid pure BCS), `Unresolved` and `ExecStatuses` state what build and execution do. |
| `Batch` | the abstract batch of spec §3–4: calls appended while building (a call refers only to earlier results); `finalize`; submission applies all or nothing; discard | `batch`, `phase`, `applied` |
| `OfframpPTB` | `main()` of `ptb-offramp.ts` | `pc` is the await point. The other variables: `ids` tells whether the config names the live deployment, an earlier one, or the placeholders of `main()` (`LoadConfig` follows `loadDeploymentState`: a current or an old `state.json`, or null when the file is missing or unparsable, then the environment); `net` is the network of `config.suiUrl`; `faucet` is the faucet's answer; `balance` is in units of 0.5 SUI, capped; `pending` is a faucet transfer not yet visible; `tx` holds the commands built; `gas` is the gas budget; `status` is the effects status or `rejected`; `log` holds the messages a property is about; `exitCode`. There is one action per statement group, and each RPC has its throwing alternative. `FundFromFaucet` always asks the localnet faucet, so a grant reaches the signer only when `net` is localnet. `FaucetTransferLands` is the environment step: the transfer becomes visible at any time, possibly after the fixed 3 s wait. `BuildForSigning` resolves the ids: the placeholders never resolve, while an earlier deployment's ids resolve as long as that deployment still exists on the network. It may also throw on an RPC error. It snapshots the signer's coins of that moment as `payment`, as the SDK's gas selection does, and throws when there are none; `Execute` checks the budget against `payment`, so a faucet coin that lands after the build does not pay for the block. `Execute` includes a block that ran but whose response was lost (the `WaitForLocalExecution` wait or the connection failed), so the call throws. |
| `CliCodec` | `parseU64BigInt`, `parseVecU8` and the JS/Node conversions they call | `JsBigInt` is ECMAScript StringToBigInt: trim; empty means 0; 0x/0o/0b prefixes; a signed decimal; otherwise a SyntaxError. `HexDecode` is Node `Buffer.from(s,'hex')`: it stops at the first bad pair and drops an odd nibble. `Base64Decode` is Node `Buffer.from(s,'base64')`: it skips characters outside both alphabets, stops at `=`, and a single leftover sextet yields nothing. It also holds reference encoders (`DecimalText`, `HexText`, `HexBytesText`, `Base64Text`) used as oracles. |
| `SendCli` | `index.ts` module load, `send` action and `buildCcipSendPTB` | The variables: `pc`; `key` is unset, base64 or bech32 (`fromSecretKey(string)` accepts only the bech32 `suiprivkey` form); `opts` is the parsed options; `deployed` is the set of `<<package, module>>` pairs published; `sel` is the parsed selector or the `SyntaxErr`; `tx`; `signed`; `status`; `log`; `exitCode`. `u64` is scaled to `Width` bits. `opts` includes `--data` and `--extra-args`. Each deployment records the published modules and the coin mode of its pools. `BuildForSigning` resolves the calls and performs the SDK's dry run: no gas budget is set, so a block that is not well formed is never signed, and the build throws instead. `Execute` may also lose the response of a block that ran. `LockOrBurn` follows the `switch`: any kind but burn_mint falls to the lock-release call through `default:`. `AddPoolCall` evaluates the `tx.pure.u64` range check and `tx.object(managedTokenState!)`, either of which throws mid-build. |
| `MCOfframpPTB`, `MCSendCli`, `MCCliCodec`, `MCCliInput` | TLC instantiations | constants and input sets, below |

Both programs are shown to implement `Batch` with `INSTANCE Batch WITH batch <- tx, phase <- Phase, applied <- (status = "success")`, checked as the `BatchRefinement` property.

## Runs

| run | cfg | expect | checks | shows |
|---|---|---|---|---|
| offramp | `MCOfframpPTB.cfg` | pass | TypeOK, BlockWellFormed, NotExecutedExitsOne, Termination, BatchRefinement | Under every RPC failure, config source, network, faucet outcome and transfer timing, the completion block is well formed when submitted and the script terminates. Every path on which no block ran exits 1. It refines `Batch`. |
| offramp_exit | `MCOfframpPTB_exit.cfg` | violation | ExitStatusMatchesOutcome | The exit status does not tell the caller whether the block was applied. A block whose response was lost (`ptb-offramp.ts:219`, `380-382`) exits 1 with `Execution failed`, and a caller that retries replays the completion flow. A block aborted in Move exits 0 with `completed successfully` (`ptb-offramp.ts:377`). |
| offramp_ids | `MCOfframpPTB_ids.cfg` | violation | MissingIdsFailEarly | Without `state.json` and the id variables, `main()` uses the placeholder ids at `ptb-offramp.ts:336-342`. It then queries the balance and the faucet, and fails only at signing. Spec §4.1 asks for a failure before any network interaction. |
| offramp_faucet | `MCOfframpPTB_faucet.cfg` | violation | FaucetServesNetwork | With a non-localnet `suiUrl`, the top-up still goes to the localnet faucet (`ptb-offramp.ts:286`), although line 364 says it is for testnet/devnet. |
| codec | `MCCliCodec.cfg` | pass | SelectorEncodingsAgree | The spec §8 scalar round trip: decimal and 0x-hex of the same number parse alike. |
| bytes_roundtrip | `MCCliCodec_bytes.cfg` | violation | ByteEncodingsAgree | The spec §8 byte round trip fails. `parseVecU8` treats any text starting with `0x` as hex (`index.ts:17`), and base64 can start with `0x` too. The base64 of D3 10 is `0xA=`, which decodes to no bytes. |
| selector_malformed | `MCCliInput.cfg` | violation | SelectorRejectsMalformed | `parseU64BigInt` does not reject malformed text. `BigInt("")` is 0, and blanks and `0b`/`0o` are also accepted (`index.ts:23`). |
| send | `MCSendCli.cfg` | pass | TypeOK, SignedOnlyWhenValid, BlockMatchesPoolKind, NotExecutedExitsOne, BatchRefinement | A block is signed only after its dry run succeeds, and only after the key and package checks, with a selector that fits u64 and with the pool state present. An unknown pool kind appends no call (the builder's `default:` would treat it as lock_release). The second call targets the module of the chosen pool kind. Every path without execution exits 1. It refines `Batch`. |
| send_key | `MCSendCli_key.cfg` | violation | MissingKeyDiagnosed | With `SUI_PRIVATE_KEY` unset, the process dies at import (`index.ts:11`). The diagnostic at line 57 is unreachable. |
| send_target | `MCSendCli_target.cfg` | violation | SendInOnrampPackage | `ccip_send` is addressed to `a.poolPkg` (`onramp.ts:86`). |
| send_move | `MCSendCli_move.cfg` | violation | BlockWellFormed | The fee coin is moved into `lock_or_burn` and then used by `ccip_send` (`onramp.ts:56/99`). The dry run therefore fails, and no send signs a block. |
| send_receiver | `MCSendCli_receiver.cfg` | violation | BytesDelivered | `tx.pure(Uint8Array)` sends the receiver, data and extra args without a BCS length, so `ccip_send` does not get them (`onramp.ts:95-100`). With the default `''` the data is not valid BCS, and `--data 0x00` arrives as an empty vector. |

Every property of a passing run has a mutant in `PROJECT.json`. Each mutant is a plausible code slip: a dropped vector argument, a wrong result index, a missing exit code, a recheck loop, a wrapped selector, a skipped `tx.pure.u64` range check, a fallthrough pool switch, or a parser that strips the `0x`. TLC finds the property violated under each one.

## Bounds and why they suffice

- **Offramp.** The balance unit is 0.5 SUI. The threshold `LowBalance = 2` is 1 SUI, `GasBudget = 1` is 0.5 SUI, the faucet grant is 2, and the cap is 3. These values cover a balance below gas, one between gas and the threshold, and one above the threshold. They also allow a grant that lands before the recheck, after it, or never. Every `state.json` case is covered, with environment ids that are live, stale or absent (placeholders), and a localnet or remote url. Every throw point is enabled, and an earlier deployment's ids may or may not resolve. A grant can also land between the build and the execution, so the stale-payment case is explored. The run reaches 782 states.
- **Send.** `Width = 6` (so `U64Max = 63`). The selectors are `"2"`, `"0xf"`, `""`, `"-1"`, `"99"` and `"1x"`. Between them they cover a decimal and a hex value in range, the empty string, a negative, an overflow and a SyntaxError. The receivers are `"0x01ab"`, `"0xabcd"` and `""`. `--data` and `--extra-args` are `""` or `"0x00"`; the latter happens to be the BCS of an empty vector. The key is unset, base64 or bech32. Pool packages and the managed state may be present or absent. The pool kind is burn_mint, lock_release or other. The run reaches 98,850 states.
  - `Deployments` in the passing run offers two layouts. The real chainlink-sui layout publishes `onramp` only in the onramp package, so `ccip_send` never resolves and `Execute` is unreachable. The second, hypothetical layout also publishes it in the pool package. With the real pool, which takes the coin by value, every block fails its dry run. So the hypothetical layout is also explored with a pool that borrows the coin, as the builder's comments describe it. Under that layout, a receiver of `0x01ab` with `--data`/`--extra-args` `0x00` forms a block that passes the dry run, and the submission path is explored. The violation runs use the real layout only.
- **Codec.**
  - Bytes are drawn from {0, 1, 16, 127, 128, 171, 211, 251, 255}, in sequences of length ≤ 3. These values include the base64 sextet edges (`+`/`/` and the `-`/`_` of base64url) and every padding length. They also include D3 followed by 10, whose base64 starts with `0x`.
  - Numbers run up to 300, past one and two hex digits.
  - Malformed selector text is every string of length ≤ 3 over `0 1 x b A = space -`.

## Fairness

`Spec` of `OfframpPTB` takes `WF_vars(Script)`. The script is a single async function that always takes its next step once the awaited call settles; every RPC settles, by success or by throw. `FaucetTransferLands` carries no fairness: the model must not rely on the faucet. `Termination` holds because nothing waits for funds. The fairness assumes every RPC settles. The scripts set no timeout of their own, so a connection that hangs would hang the script; the lost-response outcome of `Execute` stands for a connection that fails instead. The mutant that loops until funded breaks it. Both programs really do exit, so the runs set `CHECK_DEADLOCK FALSE`.

## Not modelled

- The SDK's serialization, signing and transport are not modelled: they are external to this repository. Of its gas-coin selection, only the snapshot at build time is kept (`payment`), because it changes the script's control; how coins are merged or chosen is not.
- Only the contract in `Ptb` is assumed of them.
- File I/O in `loadDeploymentState` is reduced to its four outcomes: missing, unparsable, current and old.
- The text of log lines and the decoding and printing of events is abstracted. `ProcessEvents` keeps only its branch on the effects status.
- In `send`, the fullnode URL choice and `--coin-type` are not modelled: they do not change control.
- `parseVecU8` never rejects malformed text: it has no failure path. That is plain from the code, and no run checks it.
- No property asks that the offramp touch only the current deployment. The code has no freshness check for `state.json`, and the spec names none.
- The base64 semantics follow Node's JS decoder (Node ≤ 20). Newer Node versions use simdutf, which may stop at the first invalid character instead. The `0x` misreading in `bytes_roundtrip` happens before either decoder is called.

- The lines of the three sources that no definition maps are imports, TypeScript interfaces, log and print statements, and comment blocks. None of them changes state, so no further part of these programs is left to model. The faucet and the Sui network stay `partly` modelled: their behaviour comes from their contract, not from code in this repository.

## Plan for later work

- Model the Go relayer's PTB construction (`relayer/chainwriter/ptb`) if it comes under `src/`, and compose it with `Ptb`.
