----------------------------- MODULE OfframpPTB -----------------------------
(***************************************************************************)
(* ts-experiments/src/ptb-offramp.ts: main() loads the deployment ids,     *)
(* creates an OfframpPTBExecutor, tops the signer up from the faucet when  *)
(* its balance is low, then builds and submits the completion-flow PTB     *)
(* (dummy_init_execute -> empty vector -> finish_execute) and reports.     *)
(*                                                                         *)
(* The network is the environment: RPC calls may throw, the faucet may     *)
(* fail, and a granted faucet transfer lands on the signer's balance at    *)
(* any later moment, possibly after the script has re-read the balance.    *)
(* Balances are counted in units of 0.5 SUI (500_000_000 MIST).            *)
(***************************************************************************)
EXTENDS Naturals, Sequences, Ptb

CONSTANTS
    GasBudget,     \* txb.setGasBudget(500_000_000)
    LowBalance,    \* parseInt(balance) < 1000000000
    FaucetGrant,   \* amount one faucet request credits
    BalanceCap     \* balances saturate here; larger values behave alike

ASSUME GasBudget \in 1..BalanceCap /\ LowBalance \in 1..BalanceCap
ASSUME FaucetGrant \in 1..BalanceCap

VARIABLES
    pc,        \* where main() / the executor is
    ids,       \* "live": config names the deployed objects; "stale": ids of an earlier
               \* deployment (an old state.json); "default": the hard-coded placeholders of main()
    net,       \* network of config.suiUrl: "localnet" or a "remote" one
    faucet,    \* answer of the faucet: "none" (not asked), "granted", "failed"
    balance,   \* on-chain balance of the signer address
    pending,   \* a granted faucet transfer not yet applied
    tx,        \* commands appended to the Transaction so far
    gas,       \* gas budget set on the Transaction (0 = unset)
    payment,   \* value of the gas coins the SDK picked when it built the block
    status,    \* "none", "success", "failure" (effects), "rejected" (threw)
    log,       \* messages printed that a property is about
    exitCode

vars == <<pc, ids, net, faucet, balance, pending, tx, gas, payment, status, log, exitCode>>

OfframpPkg == "offrampPkg"
Deployed == { <<OfframpPkg, "offramp">> }
Pc == { "load", "executor", "balance", "fund", "recheck", "init", "vec",
        "finish", "gas", "sign", "exec", "events", "report", "catch", "done" }

Goto(from, to) == pc = from /\ pc' = to

\* An exception thrown inside main()'s try block goes to its catch.
Throw(from) == Goto(from, "catch")

Credit(b) == IF b + FaucetGrant > BalanceCap THEN BalanceCap ELSE b + FaucetGrant

Init ==
    /\ pc = "load"
    /\ ids = "live"
    /\ net = "localnet"
    /\ faucet = "none"
    /\ balance \in 0..BalanceCap
    /\ pending = FALSE
    /\ tx = <<>>
    /\ gas = 0
    /\ payment = 0
    /\ status = "none"
    /\ log = {}
    /\ exitCode = 0

-----------------------------------------------------------------------------
\* loadDeploymentState(): the parsed state.json of a current or an earlier
\* deployment, or null when the file is missing or does not parse.
StateFiles == {"missing", "unparsable", "current", "old"}
LoadDeploymentState(f) == IF f \in {"missing", "unparsable"} THEN "null" ELSE f

(* main(): ids and network_url from the deployment state; without one, the *)
(* CCIP_* / OFFRAMP_* variables (or hard-coded ids that name nothing) and  *)
(* SUI_URL (or localnet).                                                   *)
LoadConfig ==
    /\ Goto("load", "executor")
    /\ \E f \in StateFiles, envIds \in {"live", "stale", "default"}, url \in {"localnet", "remote"} :
          LET st == LoadDeploymentState(f) IN
          /\ ids' = CASE st = "current" -> "live"
                     [] st = "old"     -> "stale"
                     [] OTHER          -> envIds
          /\ net' = url
    /\ UNCHANGED <<faucet, payment, balance, pending, tx, gas, status, log, exitCode>>

(* new OfframpPTBExecutor(config): keypair from PRIVATE_KEY_B64, which     *)
(* may not decode, or a fresh keypair whose address holds nothing.        *)
CreateExecutor ==
    /\ pc = "executor"
    /\ \/ pc' = "balance" /\ UNCHANGED balance
       \/ pc' = "balance" /\ balance' = 0
       \/ pc' = "catch" /\ UNCHANGED balance
    /\ UNCHANGED <<ids, net, faucet, payment, pending, tx, gas, status, log, exitCode>>

(* executor.getBalance(), then the low-balance branch of main().           *)
GetBalance ==
    /\ pc = "balance"
    /\ \/ pc' = IF balance < LowBalance THEN "fund" ELSE "init"
       \/ Throw("balance")
    /\ UNCHANGED <<ids, net, faucet, payment, balance, pending, tx, gas, status, log, exitCode>>

(* fundFromFaucet(): requestSuiFromFaucetV2 to the localnet faucet host,  *)
(* then a fixed 3 s sleep; a faucet error is logged and swallowed.  A      *)
(* grant reaches the signer only when config.suiUrl is that localnet.     *)
FundFromFaucet ==
    /\ Goto("fund", "recheck")
    /\ \/ faucet' = "granted" /\ pending' = (net = "localnet")
       \/ faucet' = "failed" /\ UNCHANGED pending
    /\ UNCHANGED <<ids, net, payment, balance, tx, gas, status, log, exitCode>>

\* Mutant: poll the faucet until the balance is no longer low.
RecheckUntilFunded ==
    /\ \/ pc = "recheck" /\ pc' = IF balance < LowBalance THEN "fund" ELSE "init"
       \/ Throw("recheck")
    /\ UNCHANGED <<ids, net, faucet, payment, balance, pending, tx, gas, status, log, exitCode>>

(* The balance after funding is read and printed; main() goes on to the   *)
(* PTB whatever it is.                                                    *)
Recheck ==
    /\ \/ Goto("recheck", "init")
       \/ Throw("recheck")
    /\ UNCHANGED <<ids, net, faucet, payment, balance, pending, tx, gas, status, log, exitCode>>

(* Environment: the faucet's transfer reaches the signer's balance.        *)
FaucetTransferLands ==
    /\ pending
    /\ pending' = FALSE
    /\ balance' = Credit(balance)
    /\ UNCHANGED <<pc, ids, net, faucet, payment, tx, gas, status, log, exitCode>>

-----------------------------------------------------------------------------
(* executeOfframpPTB(): the three commands and the gas budget.            *)
\* Message parameters of executeOfframpPTB: selector 2, a 32-byte zero
\* message id, the sender address bytes (any 32 bytes), "Hello World".
SourceChainSelector == 2
MessageId   == [i \in 1..32 |-> 0]
SenderBytes == [i \in 1..32 |-> 0]
HelloWorld  == <<72, 101, 108, 108, 111, 32, 87, 111, 114, 108, 100>>

InitExecuteCall ==
    MoveCall(OfframpPkg, "offramp", "dummy_init_execute",
             << InputArg("offrampState"), PureArg("u64", SourceChainSelector),
                PureArg("vector<u8>", BcsVecU8(MessageId)),
                PureArg("vector<u8>", BcsVecU8(SenderBytes)),
                PureArg("vector<u8>", BcsVecU8(HelloWorld)) >>)

TokenPoolPotatoes == MakeMoveVec("CompletedDestTokenTransfer", <<>>)

FinishExecuteCall(init, potatoes) ==
    MoveCall(OfframpPkg, "offramp", "finish_execute",
             << InputArg("offrampState"), ResultArg(init), ResultArg(potatoes) >>)

AddInitExecute ==
    /\ Goto("init", "vec")
    /\ tx' = Append(tx, InitExecuteCall)
    /\ UNCHANGED <<ids, net, faucet, payment, balance, pending, gas, status, log, exitCode>>

AddPotatoVector ==
    /\ Goto("vec", "finish")
    /\ tx' = Append(tx, TokenPoolPotatoes)
    /\ UNCHANGED <<ids, net, faucet, payment, balance, pending, gas, status, log, exitCode>>

\* Mutant: finish_execute without the token pool potatoes vector.
AddFinishExecuteNoVector ==
    /\ Goto("finish", "gas")
    /\ tx' = Append(tx, MoveCall(OfframpPkg, "offramp", "finish_execute",
                                 << InputArg("offrampState"), ResultArg(1) >>))
    /\ UNCHANGED <<ids, net, faucet, payment, balance, pending, gas, status, log, exitCode>>

\* Mutant: the init_execute result taken one command too late.
AddFinishExecuteOffByOne ==
    /\ Goto("finish", "gas")
    /\ tx' = Append(tx, FinishExecuteCall(3, 2))
    /\ UNCHANGED <<ids, net, faucet, payment, balance, pending, gas, status, log, exitCode>>

AddFinishExecute ==
    /\ Goto("finish", "gas")
    /\ tx' = Append(tx, FinishExecuteCall(1, 2))
    /\ UNCHANGED <<ids, net, faucet, payment, balance, pending, gas, status, log, exitCode>>

\* Mutant: a budget ten times too large.
SetGasBudgetTenfold ==
    /\ Goto("gas", "sign")
    /\ gas' = 10 * GasBudget
    /\ UNCHANGED <<ids, net, faucet, payment, balance, pending, tx, status, log, exitCode>>

SetGasBudget ==
    /\ Goto("gas", "sign")
    /\ gas' = GasBudget
    /\ UNCHANGED <<ids, net, faucet, payment, balance, pending, tx, status, log, exitCode>>

(* signAndExecuteTransaction, first half: the SDK builds the block,        *)
(* resolving every object and Move function and taking the signer's SUI    *)
(* coins of that moment as the gas payment.  The placeholder ids name      *)
(* nothing; the ids of an earlier deployment resolve while that deployment *)
(* is still on the network (a persistent one) and not after a localnet     *)
(* restart.  With no coin at all, or on an RPC error, the build throws.    *)
BuildForSigning ==
    /\ pc = "sign"
    /\ \/ /\ ids \in {"live", "stale"}
          /\ Unresolved(tx, Deployed) = {}
          /\ balance > 0
          /\ pc' = "exec" /\ payment' = balance /\ UNCHANGED status
       \/ pc' = "catch" /\ status' = "rejected" /\ UNCHANGED payment
    /\ UNCHANGED <<ids, net, faucet, balance, pending, tx, gas, log, exitCode>>

(* Second half: validators reject a block whose gas payment cannot cover   *)
(* its budget (a faucet coin that landed after the build is not part of    *)
(* it), the RPC may fail, otherwise the block runs and the effects carry  *)
(* its status; a Move abort does not throw. The response of a block that  *)
(* ran can still be lost (WaitForLocalExecution times out, the connection *)
(* drops): then the call throws all the same.                              *)
Execute ==
    /\ pc = "exec"
    /\ \/ /\ payment >= gas
          /\ status' \in ExecStatuses(Modes, tx)
          /\ pc' \in {"events", "catch"}
       \/ /\ pc' = "catch"
          /\ status' = "rejected"
    /\ UNCHANGED <<ids, net, faucet, payment, balance, pending, tx, gas, log, exitCode>>

(* processTransactionEvents(): logs the events of a successful block, or  *)
(* "Transaction failed" otherwise, and returns normally in both cases.     *)
ProcessEvents ==
    /\ Goto("events", "report")
    /\ log' = log \cup {IF status = "success" THEN "events" ELSE "txFailed"}
    /\ UNCHANGED <<ids, net, faucet, payment, balance, pending, tx, gas, status, exitCode>>

(* main(): "PTB execution completed successfully!" after the return.       *)
Report ==
    /\ Goto("report", "done")
    /\ log' = log \cup {"completed"}
    /\ UNCHANGED <<ids, net, faucet, payment, balance, pending, tx, gas, status, exitCode>>

\* Mutant: the catch logs but does not call process.exit(1).
CatchNoExit ==
    /\ Goto("catch", "done")
    /\ log' = log \cup {"execFailed"}
    /\ UNCHANGED <<ids, net, faucet, payment, balance, pending, tx, gas, status, exitCode>>

(* main()'s catch: "Execution failed", process.exit(1).                    *)
Catch ==
    /\ Goto("catch", "done")
    /\ exitCode' = 1
    /\ log' = log \cup {"execFailed"}
    /\ UNCHANGED <<ids, net, faucet, payment, balance, pending, tx, gas, status>>

Script ==
    \/ LoadConfig \/ CreateExecutor \/ GetBalance \/ FundFromFaucet \/ Recheck
    \/ AddInitExecute \/ AddPotatoVector \/ AddFinishExecute \/ SetGasBudget
    \/ BuildForSigning \/ Execute \/ ProcessEvents \/ Report \/ Catch

Next == Script \/ FaucetTransferLands

\* main() runs to completion once started: every await resolves or rejects.
Spec == Init /\ [][Next]_vars /\ WF_vars(Script)

-----------------------------------------------------------------------------
(* Type invariant. The gas budget is unset or the 500_000_000 MIST that   *)
(* setGasBudget gives (ptb-offramp.ts:194).                               *)
TypeOK ==
    /\ pc \in Pc
    /\ ids \in {"live", "stale", "default"}
    /\ net \in {"localnet", "remote"}
    /\ faucet \in {"none", "granted", "failed"}
    /\ balance \in 0..BalanceCap
    /\ pending \in BOOLEAN
    /\ \A i \in DOMAIN tx : IsCommand(tx[i])
    /\ gas \in {0, GasBudget}
    /\ payment \in 0..BalanceCap
    /\ status \in {"none", "success", "failure", "rejected"}
    /\ log \subseteq {"events", "txFailed", "completed", "execFailed"}
    /\ exitCode \in {0, 1}

(* The block executeOfframpPTB hands to signAndExecuteTransaction is one   *)
(* the network can run: the hot potato of dummy_init_execute and the       *)
(* empty CompletedDestTokenTransfer vector are both moved into             *)
(* finish_execute, no handle names a later command, nothing is used after  *)
(* it was moved, and every call names the published offramp module.       *)
BlockWellFormed ==
    gas > 0 => WellFormed(Modes, tx) /\ Unresolved(tx, Deployed) = {}

(* main() exits with status 1 whenever no block was executed: an RPC      *)
(* error, an undecodable key, stale ids or an uncovered gas budget all    *)
(* reach the catch, whose process.exit(1) ends the script.               *)
NotExecutedExitsOne ==
    pc = "done" /\ status \notin {"success", "failure"} => exitCode = 1

(* spec.md sections 6 and 7: the exit status tells the caller whether the *)
(* block was applied; main() prints "PTB execution completed successfully" *)
(* and exits 0, or "Execution failed" and exits 1.                         *)
ExitStatusMatchesOutcome ==
    pc = "done" => (exitCode = 0 <=> status = "success")

\* The steps at which main() awaits an RPC to the node or the faucet.
NetworkSteps == {"balance", "fund", "recheck", "sign", "exec"}

(* spec.md section 4.1: a missing required identifier fails before any     *)
(* network interaction; main() instead falls back to placeholder ids and   *)
(* goes on to getBalance and the faucet.                                   *)
MissingIdsFailEarly ==
    ids = "default" => pc \notin NetworkSteps

(* main() asks the faucet "for testnet/devnet" when the balance is low:   *)
(* a grant goes to the signer on the network the script talks to.         *)
FaucetServesNetwork ==
    faucet = "granted" => net = "localnet"

(* main() finishes: the faucet wait is a single fixed sleep and the        *)
(* balance is re-read once, whether or not the transfer has landed.        *)
Termination == <>(pc = "done")

(* The builder refines the abstract batch of Batch.tla: calls appended     *)
(* only refer back, the gas budget finalises the block, it is submitted    *)
(* once or discarded, and applied only if its effects say success.         *)
Phase ==
    CASE status \in {"success", "failure"} -> "submitted"
      [] status = "rejected"               -> "discarded"
      [] gas > 0                           -> "final"
      [] OTHER                             -> "building"

Abstract == INSTANCE Batch WITH batch <- tx, phase <- Phase, applied <- (status = "success")
BatchRefinement == Abstract!Spec

=============================================================================
