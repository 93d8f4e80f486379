-------------------------------- MODULE Ptb --------------------------------
(***************************************************************************)
(* The programmable transaction block (PTB) as both scripts build it with  *)
(* the @mysten/sui Transaction object, and the contract of the network     *)
(* that executes it.  A command is a Move call or a MakeMoveVec; its       *)
(* arguments are handles returned by tx.object, tx.pure and earlier        *)
(* tx.moveCall / tx.makeMoveVec calls.                                     *)
(*                                                                         *)
(* The Move signatures are not part of this repository: the parameter      *)
(* modes below are the ones the scripts' own comments document             *)
(* ("&mut OnRampState", "&mut Coin<T>", "Coin<T> input", "hot potato").    *)
(***************************************************************************)
EXTENDS Integers, Sequences, FiniteSets

\* Handles: tx.object(id), tx.pure.*(v) and the result of command i.  A
\* pure u64 keeps its number; a pure vector<u8> keeps the BCS bytes the
\* SDK sends: tx.pure.vector('u8', b) sends BcsVecU8(b), while
\* tx.pure(b) with a Uint8Array sends b itself as already-serialised BCS.
InputArg(o)  == [kind |-> "input", obj |-> o]
PureArg(t, v) == [kind |-> "pure", ty |-> t, val |-> v]
ResultArg(i) == [kind |-> "result", cmd |-> i]

\* tx.moveCall({target | package, module, function}, arguments) and
\* tx.makeMoveVec({type, elements}).
MoveCall(pkg, mod, fn, args) ==
    [kind |-> "call", pkg |-> pkg, mod |-> mod, fn |-> fn, args |-> args]
MakeMoveVec(ty, elems) ==
    [kind |-> "vec", pkg |-> "none", mod |-> "none", fn |-> ty, args |-> elems]

IsArg(a) ==
    CASE a.kind = "input"                        -> a = InputArg(a.obj)
      [] a.kind = "pure" /\ a.ty = "u64"         -> a = PureArg("u64", a.val) /\ a.val \in Int
      [] a.kind = "pure" /\ a.ty = "vector<u8>"  -> a = PureArg(a.ty, a.val) /\ a.val \in Seq(0..255)
      [] a.kind = "result"                       -> a = ResultArg(a.cmd) /\ a.cmd \in Nat
      [] OTHER                                   -> FALSE

IsCommand(c) ==
    /\ c = [kind |-> c.kind, pkg |-> c.pkg, mod |-> c.mod, fn |-> c.fn, args |-> c.args]
    /\ c.kind \in {"call", "vec"}
    /\ \A j \in DOMAIN c.args : IsArg(c.args[j])

\* BCS of a vector<u8>: ULEB128 length, then the bytes (lengths stay < 128).
BcsVecU8(b) == <<Len(b)>> \o b

\* The network reads a vector<u8> argument only if its BCS is exactly one
\* length byte followed by that many bytes; it then holds the bytes.
DecodesAsVecU8(v) == Len(v) >= 1 /\ v[1] < 128 /\ Len(v) = v[1] + 1
VecU8Value(v) == SubSeq(v, 2, Len(v))

-----------------------------------------------------------------------------
(* Parameter modes of the called functions: "ref" (&T), "mut" (&mut T) or *)
(* "val" (T, moved).  Pure arguments are copied, so only object inputs and *)
(* results can be moved.  Returns names the functions whose result has no  *)
(* drop ability and must be consumed in the same block.                    *)
Modes == [
  dummy_init_execute           |-> <<"mut", "val", "val", "val", "val">>,
  finish_execute               |-> <<"mut", "val", "val">>,
  create_token_transfer_params |-> <<"ref", "mut", "ref">>,
  lock_or_burn_burn_mint       |-> <<"ref", "mut", "val", "val", "ref", "ref", "mut">>,
  lock_or_burn_lock_release    |-> <<"ref", "mut", "val", "val", "ref", "mut">>,
  ccip_send                    |-> <<"mut", "mut", "ref", "val", "val", "val",
                                     "val", "ref", "mut", "val">> ]

SigKey(c) ==
    IF c.fn = "lock_or_burn"
    THEN IF c.mod = "burn_mint_token_pool" THEN "lock_or_burn_burn_mint"
                                           ELSE "lock_or_burn_lock_release"
    ELSE c.fn

\* Results that are hot potatoes: the receiver params of init_execute, the
\* token transfer params, and a vector of CompletedDestTokenTransfer.
ReturnsPotato(c) ==
    c.kind = "vec" \/ c.fn \in {"dummy_init_execute", "create_token_transfer_params"}

\* The coin parameter of lock_or_burn: the pool's Move function takes a
\* Coin<T> by value ("coin (if the pool needs a Coin<T> input)"), while the
\* builder's field comments describe the same coin as "&mut Coin<T>".
\* PoolSigs(coin) is the signature table of a deployment whose pools take it
\* in mode coin.
PoolSigs(coin) ==
    [Modes EXCEPT !.lock_or_burn_burn_mint[3] = coin,
                  !.lock_or_burn_lock_release[3] = coin]

Mode(sigs, c, j) == IF c.kind = "vec" THEN "val" ELSE sigs[SigKey(c)][j]

-----------------------------------------------------------------------------
(* Well-formedness of a block, as the network checks it when it runs it.  *)

\* Positions <<i, j>>: argument j of command i.
Positions(tx) == UNION { {<<i, j>> : j \in DOMAIN tx[i].args} : i \in DOMAIN tx }
ArgAt(tx, p) == tx[p[1]].args[p[2]]
Moves(sigs, tx, p) ==
    /\ ArgAt(tx, p).kind \in {"input", "result"}
    /\ Mode(sigs, tx[p[1]], p[2]) = "val"
Later(p, q) == q[1] > p[1] \/ (q[1] = p[1] /\ q[2] # p[2])

\* A Result handle names an earlier command of the same block.
ForwardRef(tx) ==
    \E p \in Positions(tx) : ArgAt(tx, p).kind = "result" /\ ArgAt(tx, p).cmd >= p[1]

\* A value moved by one argument is used again at a later position.
UseAfterMove(sigs, tx) ==
    \E p, q \in Positions(tx) : Moves(sigs, tx, p) /\ Later(p, q) /\ ArgAt(tx, q) = ArgAt(tx, p)

\* A hot potato is never moved into a later command.
UnconsumedPotato(sigs, tx) ==
    \E i \in DOMAIN tx :
        /\ ReturnsPotato(tx[i])
        /\ ~\E q \in Positions(tx) : ArgAt(tx, q) = ResultArg(i) /\ Moves(sigs, tx, q)

\* A vector<u8> argument whose bytes are not valid BCS.
BadPure(tx) ==
    \E p \in Positions(tx) :
        ArgAt(tx, p).kind = "pure" /\ ArgAt(tx, p).ty = "vector<u8>"
        /\ ~DecodesAsVecU8(ArgAt(tx, p).val)

WellFormed(sigs, tx) ==
    ~ForwardRef(tx) /\ ~UseAfterMove(sigs, tx) /\ ~UnconsumedPotato(sigs, tx) /\ ~BadPure(tx)

\* Commands whose package does not publish the called module; the SDK
\* fails to resolve them when it builds the block, before anything is sent.
Unresolved(tx, Deployed) ==
    { i \in DOMAIN tx : tx[i].kind = "call" /\ <<tx[i].pkg, tx[i].mod>> \notin Deployed }

\* Effects status of a block that reached execution: an ill-formed block
\* always fails; a well-formed one succeeds or aborts inside Move.
ExecStatuses(sigs, tx) == IF WellFormed(sigs, tx) THEN {"success", "failure"} ELSE {"failure"}
=============================================================================
