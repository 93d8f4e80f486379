------------------------------ MODULE SendCli ------------------------------
(***************************************************************************)
(* ts-sdk-examples: the `ccip-cli send` command of index.ts and the        *)
(* dispatch-flow builder buildCcipSendPTB of onramp.ts.                    *)
(*                                                                         *)
(* One run of the process: module load (the keypair is derived from       *)
(* SUI_PRIVATE_KEY at import time), commander's option parsing, the send   *)
(* action's checks and parses, the three commands of the block, and        *)
(* signAndExecuteTransaction, which first builds the block (resolving      *)
(* every Move function) and then executes it.  The environment chooses the *)
(* process environment, the argv, the deployment and the network's         *)
(* answers.  u64 is scaled to Width bits.                                  *)
(***************************************************************************)
EXTENDS Integers, Sequences, Ptb, CliCodec

CONSTANTS
    Width,        \* bits of a u64 in the model
    Selectors,    \* --dest-chain-selector texts
    Receivers,    \* --receiver texts
    Payloads,     \* --data and --extra-args texts ('' when not given)
    Deployments   \* possible deployments: the <<package, module>> pairs published
                  \* (mods) and how the pools' lock_or_burn takes the coin (coin)

ASSUME Width \in 1..16

U64Max == 2 ^ Width - 1

OnrampPkg == "onrampPkg"
PoolPkg   == "poolPkg"
PoolKinds == {"burn_mint", "lock_release"}
PoolModule == [burn_mint |-> "burn_mint_token_pool", lock_release |-> "lock_release_token_pool"]

\* argv as commander hands it to the action; "other" is any other --pool-kind.
Opts == [poolKind : PoolKinds \cup {"other"},
         managedTokenState : BOOLEAN,     \* --managed-token-state given
         onrampPkg : BOOLEAN,             \* --onramp-pkg or SUI_ONRAMP_PACKAGE_ID
         poolPkg : BOOLEAN,               \* --pool-pkg or SUI_TOKEN_POOL_ID
         destChainSelector : Selectors,
         receiver : Receivers,
         data : Payloads,
         extraArgs : Payloads]

VARIABLES
    pc,
    key,       \* SUI_PRIVATE_KEY: "unset", base64 text, or a bech32 suiprivkey
    opts,
    deployed,  \* what the network publishes
    sel,       \* parsed destination chain selector
    tx,        \* commands of the Transaction
    signed,    \* the SDK has built and signed the block
    status,    \* "none", "rejected" (block thrown away), "success", "failure"
    log,       \* diagnostics a property is about
    exitCode

vars == <<pc, key, opts, deployed, sel, tx, signed, status, log, exitCode>>

Pc == {"load", "parse", "checkKey", "pkgs", "args", "create", "pool", "send",
       "sign", "exec", "print", "catch", "done"}

Goto(from, to) == pc = from /\ pc' = to

Init ==
    /\ pc = "load"
    /\ key \in {"unset", "base64", "bech32"}
    /\ opts \in Opts
    /\ deployed \in Deployments
    /\ sel = 0
    /\ tx = <<>>
    /\ signed = FALSE
    /\ status = "none"
    /\ log = {}
    /\ exitCode = 0

-----------------------------------------------------------------------------
(* Top level of index.ts: Ed25519Keypair.fromSecretKey(privateKey!) runs   *)
(* on import.  It throws for an unset key and for any string that is not a *)
(* bech32 "suiprivkey" key; nothing catches it and the process dies.       *)
LoadModule ==
    /\ pc = "load"
    /\ IF key = "bech32"
       THEN pc' = "parse" /\ UNCHANGED <<log, exitCode>>
       ELSE pc' = "done" /\ log' = log \cup {"crash"} /\ exitCode' = 1
    /\ UNCHANGED <<key, opts, deployed, sel, tx, signed, status>>

\* Mutant: --pool-kind declared without its argParser.
ParseArgvUnchecked ==
    /\ Goto("parse", "checkKey")
    /\ UNCHANGED <<key, opts, deployed, sel, tx, signed, status, log, exitCode>>

(* program.parseAsync: the --pool-kind argParser throws a plain Error for  *)
(* any other kind; commander rethrows it and the unhandled rejection ends  *)
(* the process with status 1.                                              *)
ParseArgv ==
    /\ pc = "parse"
    /\ IF opts.poolKind \in PoolKinds
       THEN pc' = "checkKey" /\ UNCHANGED <<log, exitCode>>
       ELSE pc' = "done" /\ log' = log \cup {"crash"} /\ exitCode' = 1
    /\ UNCHANGED <<key, opts, deployed, sel, tx, signed, status>>

(* action: "SUI_PRIVATE_KEY is required", exitCode = 1, return.            *)
CheckKey ==
    /\ pc = "checkKey"
    /\ IF key = "unset"
       THEN pc' = "done" /\ log' = log \cup {"keyRequired"} /\ exitCode' = 1
       ELSE pc' = "pkgs" /\ UNCHANGED <<log, exitCode>>
    /\ UNCHANGED <<key, opts, deployed, sel, tx, signed, status>>

(* action: the fullnode URL is resolved, then onramp-pkg and pool-pkg are  *)
(* required.                                                               *)
CheckPackages ==
    /\ pc = "pkgs"
    /\ pc' = IF opts.onrampPkg /\ opts.poolPkg THEN "args" ELSE "catch"
    /\ UNCHANGED <<key, opts, deployed, sel, tx, signed, status, log, exitCode>>

\* Mutant: the selector wrapped into range, as BigInt.asUintN(64, v) would.
ParseBuildArgsWrapped ==
    /\ pc = "args"
    /\ LET r == ParseU64BigInt(opts.destChainSelector) IN
       IF r.ok THEN pc' = "create" /\ sel' = r.val % (U64Max + 1)
               ELSE pc' = "catch" /\ UNCHANGED sel
    /\ UNCHANGED <<key, opts, deployed, tx, signed, status, log, exitCode>>

\* Mutant: the whole parse result stored instead of its value.
ParseBuildArgsRecord ==
    /\ pc = "args"
    /\ LET r == ParseU64BigInt(opts.destChainSelector) IN
       IF r.ok THEN pc' = "create" /\ sel' = r
               ELSE pc' = "catch" /\ UNCHANGED sel
    /\ UNCHANGED <<key, opts, deployed, tx, signed, status, log, exitCode>>

(* action: buildArgs; parseU64BigInt may throw a SyntaxError, parseVecU8   *)
(* never throws.                                                           *)
ParseBuildArgs ==
    /\ pc = "args"
    /\ LET r == ParseU64BigInt(opts.destChainSelector) IN
       IF r.ok THEN pc' = "create" /\ sel' = r.val
               ELSE pc' = "catch" /\ UNCHANGED sel
    /\ UNCHANGED <<key, opts, deployed, tx, signed, status, log, exitCode>>

-----------------------------------------------------------------------------
(* buildCcipSendPTB                                                        *)
CcipRef == InputArg("ccipObjectRef")
State   == InputArg("onrampState")
Clock   == InputArg("clock")
TokenParams == ResultArg(1)

CreateTokenTransferParams ==
    MoveCall(OnrampPkg, "onramp_state_helper", "create_token_transfer_params",
             <<CcipRef, State, Clock>>)

\* switch (a.poolKind): case 'burn_mint', then case 'lock_release' and
\* default share the lock-release call.
LockOrBurn(kind, s) ==
    MoveCall(PoolPkg, IF kind = "burn_mint" THEN PoolModule.burn_mint ELSE PoolModule.lock_release,
             "lock_or_burn",
             IF kind = "burn_mint"
             THEN <<CcipRef, TokenParams, InputArg("feeTokenCoin"), PureArg("u64", s),
                    Clock, InputArg("denyList"), InputArg("managedTokenState")>>
             ELSE <<CcipRef, TokenParams, InputArg("feeTokenCoin"), PureArg("u64", s),
                    Clock, InputArg("managedTokenState")>>)

\* Mutant: the token params handle taken from the wrong command.
CcipSendWrongResult(s, r, d, e) ==
    MoveCall(PoolPkg, "onramp", "ccip_send",
             <<CcipRef, State, Clock, PureArg("u64", s), PureArg("vector<u8>", r),
               PureArg("vector<u8>", d), ResultArg(3), InputArg("feeTokenMetadata"),
               InputArg("feeTokenCoin"), PureArg("vector<u8>", e)>>)

\* tx.pure(a.receiver), tx.pure(a.data), tx.pure(a.extraArgs ?? ...): each
\* Uint8Array is sent as if it were already BCS.
CcipSend(s, r, d, e) ==
    MoveCall(PoolPkg, "onramp", "ccip_send",
             <<CcipRef, State, Clock, PureArg("u64", s), PureArg("vector<u8>", r),
               PureArg("vector<u8>", d), TokenParams, InputArg("feeTokenMetadata"),
               InputArg("feeTokenCoin"), PureArg("vector<u8>", e)>>)

\* tx.pure.u64 serialises at once and throws outside 0..2^64-1.
FitsU64(v) == v \in 0..U64Max

AddCreateTokenParams ==
    /\ Goto("create", "pool")
    /\ tx' = Append(tx, CreateTokenTransferParams)
    /\ UNCHANGED <<key, opts, deployed, sel, signed, status, log, exitCode>>

\* Mutant: the burn_mint case without its break falls through.
AddPoolCallFallthrough ==
    /\ pc = "pool"
    /\ IF FitsU64(sel) /\ opts.managedTokenState
       THEN /\ pc' = "send"
            /\ tx' = IF opts.poolKind = "burn_mint"
                     THEN tx \o <<LockOrBurn("burn_mint", sel), LockOrBurn("lock_release", sel)>>
                     ELSE Append(tx, LockOrBurn(opts.poolKind, sel))
            /\ UNCHANGED status
       ELSE /\ pc' = "catch"
            /\ status' = "rejected"
            /\ UNCHANGED tx
    /\ UNCHANGED <<key, opts, deployed, sel, signed, log, exitCode>>

\* Mutant: the selector is not range-checked when the argument is made.
AddPoolCallUnchecked ==
    /\ pc = "pool"
    /\ IF opts.managedTokenState
       THEN /\ pc' = "send"
            /\ tx' = Append(tx, LockOrBurn(opts.poolKind, sel))
            /\ UNCHANGED status
       ELSE /\ pc' = "catch"
            /\ status' = "rejected"
            /\ UNCHANGED tx
    /\ UNCHANGED <<key, opts, deployed, sel, signed, log, exitCode>>

(* switch (a.poolKind): the argument list is evaluated before the call is  *)
(* appended; tx.pure.u64 throws for a selector out of range and           *)
(* tx.object(undefined) for a missing managed token state.                 *)
AddPoolCall ==
    /\ pc = "pool"
    /\ IF FitsU64(sel) /\ opts.managedTokenState
       THEN /\ pc' = "send"
            /\ tx' = Append(tx, LockOrBurn(opts.poolKind, sel))
            /\ UNCHANGED status
       ELSE /\ pc' = "catch"
            /\ status' = "rejected"
            /\ UNCHANGED tx
    /\ UNCHANGED <<key, opts, deployed, sel, signed, log, exitCode>>

AddCcipSend ==
    /\ Goto("send", "sign")
    /\ tx' = Append(tx, CcipSend(sel, ParseVecU8(opts.receiver), ParseVecU8(opts.data),
                              ParseVecU8(opts.extraArgs)))
    /\ UNCHANGED <<key, opts, deployed, sel, signed, status, log, exitCode>>

-----------------------------------------------------------------------------
\* Signatures of the deployed Move functions.
Sigs == PoolSigs(deployed.coin)

(* signAndExecuteTransaction, first half: the SDK builds the block; a Move *)
(* function the named package does not publish, an unknown object id or an *)
(* RPC error makes it throw.  Neither the builder nor the action sets a    *)
(* gas budget, so the build dry-runs the block to estimate one and throws  *)
(* ("Dry run failed") unless the dry run succeeds: an ill-formed block, or *)
(* one that aborts in Move, is never signed.                               *)
BuildForSigning ==
    /\ pc = "sign"
    /\ \/ /\ Unresolved(tx, deployed.mods) = {}
          /\ WellFormed(Sigs, tx)
          /\ pc' = "exec" /\ signed' = TRUE /\ UNCHANGED status
       \/ pc' = "catch" /\ status' = "rejected" /\ UNCHANGED signed
    /\ UNCHANGED <<key, opts, deployed, sel, tx, log, exitCode>>

(* Second half: the RPC may throw; otherwise the effects carry the status  *)
(* and a Move abort does not throw (shared objects may have changed since  *)
(* the dry run). The response of a block that ran can be lost on the way   *)
(* back, and the call then throws as well.                                 *)
Execute ==
    /\ pc = "exec"
    /\ \/ pc' \in {"print", "catch"} /\ status' \in ExecStatuses(Sigs, tx)
       \/ pc' = "catch" /\ status' = "rejected"
    /\ UNCHANGED <<key, opts, deployed, sel, tx, signed, log, exitCode>>

(* "Transaction submitted:" and the JSON of the response.                  *)
PrintResult ==
    /\ Goto("print", "done")
    /\ log' = log \cup {"result"}
    /\ UNCHANGED <<key, opts, deployed, sel, tx, signed, status, exitCode>>

\* Mutant: the catch prints the error but leaves process.exitCode alone.
CatchNoExitCode ==
    /\ Goto("catch", "done")
    /\ log' = log \cup {"error"}
    /\ UNCHANGED <<key, opts, deployed, sel, tx, signed, status, exitCode>>

(* catch (err): "Error: ...", process.exitCode = 1.                        *)
Catch ==
    /\ Goto("catch", "done")
    /\ log' = log \cup {"error"}
    /\ exitCode' = 1
    /\ UNCHANGED <<key, opts, deployed, sel, tx, signed, status>>

Next ==
    \/ LoadModule \/ ParseArgv \/ CheckKey \/ CheckPackages \/ ParseBuildArgs
    \/ AddCreateTokenParams \/ AddPoolCall \/ AddCcipSend
    \/ BuildForSigning \/ Execute \/ PrintResult \/ Catch

Spec == Init /\ [][Next]_vars
-----------------------------------------------------------------------------
(* Type invariant. Every pure u64 argument in the block is in the u64      *)
(* range: tx.pure.u64 serialises, and range-checks, when the argument is  *)
(* made (onramp.ts:57,75,94).                                              *)
TypeOK ==
    /\ pc \in Pc
    /\ key \in {"unset", "base64", "bech32"}
    /\ opts \in Opts
    /\ deployed \in Deployments
    /\ sel \in Int
    /\ \A i \in DOMAIN tx : IsCommand(tx[i])
    /\ \A i \in DOMAIN tx : \A j \in DOMAIN tx[i].args :
          tx[i].args[j].kind = "pure" /\ tx[i].args[j].ty = "u64"
             => tx[i].args[j].val \in 0..U64Max
    /\ signed \in BOOLEAN
    /\ status \in {"none", "rejected", "success", "failure"}
    /\ log \subseteq {"crash", "keyRequired", "result", "error"}
    /\ exitCode \in {0, 1}

TypedSelector == ParseU64BigInt(opts.destChainSelector)

(* A block is signed only after every check of the action has passed, and *)
(* it carries the selector exactly as typed: the text parsed, its value    *)
(* fits a u64, and both u64 arguments (lock_or_burn and ccip_send) hold    *)
(* that value, never a wrapped or truncated one.                           *)
SignedOnlyWhenValid ==
    signed =>
        /\ key = "bech32"
        /\ opts.poolKind \in PoolKinds /\ opts.managedTokenState
        /\ opts.onrampPkg /\ opts.poolPkg
        /\ TypedSelector.ok /\ FitsU64(TypedSelector.val)
        /\ \A p \in Positions(tx) :
              ArgAt(tx, p).kind = "pure" /\ ArgAt(tx, p).ty = "u64"
                 => ArgAt(tx, p).val = TypedSelector.val

(* spec.md section 8: an unrecognised --pool-kind fails before any call is *)
(* appended (the builder's default case would take it for lock_release),  *)
(* and the block buildCcipSendPTB returns has exactly three calls in       *)
(* order, the second targeting the pool module of the chosen kind.         *)
BlockMatchesPoolKind ==
    /\ opts.poolKind \notin PoolKinds => tx = <<>>
    /\ Len(tx) > 0 /\ tx[Len(tx)].fn = "ccip_send" =>
        /\ [i \in DOMAIN tx |-> tx[i].fn] =
              <<"create_token_transfer_params", "lock_or_burn", "ccip_send">>
        /\ tx[2].mod = PoolModule[opts.poolKind]

(* The process exits with status 1 whenever no block was executed: every   *)
(* throw of the action, from the package checks to the RPC, reaches the    *)
(* catch that sets process.exitCode.                                      *)
NotExecutedExitsOne ==
    pc = "done" /\ status \notin {"success", "failure"} => exitCode = 1

(* spec.md section 7: a missing SUI_PRIVATE_KEY is a ConfigurationError    *)
(* reported by its own diagnostic (the action's "SUI_PRIVATE_KEY is        *)
(* required").                                                             *)
MissingKeyDiagnosed ==
    pc = "done" /\ key = "unset" => "keyRequired" \in log

(* ccip_send is called in the onramp package given by --onramp-pkg.       *)
SendInOnrampPackage ==
    \A i \in DOMAIN tx : tx[i].fn = "ccip_send" => tx[i].pkg = OnrampPkg

(* The block buildCcipSendPTB returns can run: nothing is used after it   *)
(* was moved (the fee coin goes by value into lock_or_burn and by &mut     *)
(* into ccip_send), every hot potato is consumed, no handle names a later  *)
(* call.                                                                   *)
BlockWellFormed == Len(tx) = 3 => WellFormed(Sigs, tx)

(* spec.md sections 4.1 and 6: ccip_send receives as its receiver, data   *)
(* and extra args exactly the bytes parseVecU8 read from --receiver,      *)
(* --data and --extra-args.                                               *)
BytesDelivered ==
    Len(tx) = 3 =>
        \A p \in {<<5, opts.receiver>>, <<6, opts.data>>, <<10, opts.extraArgs>>} :
            /\ DecodesAsVecU8(tx[3].args[p[1]].val)
            /\ VecU8Value(tx[3].args[p[1]].val) = ParseVecU8(p[2])

(* buildCcipSendPTB and signAndExecuteTransaction refine Batch.tla.        *)
Phase ==
    CASE status \in {"success", "failure"} -> "submitted"
      [] status = "rejected"               -> "discarded"
      [] signed                            -> "final"
      [] OTHER                             -> "building"

Abstract == INSTANCE Batch WITH batch <- tx, phase <- Phase, applied <- (status = "success")
BatchRefinement == Abstract!Spec

=============================================================================
