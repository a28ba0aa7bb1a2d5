---------------------------- MODULE WorkerWallet ----------------------------
(***************************************************************************)
(* The internal wallet of the escrow contract (src/lib.rs): worker         *)
(* accounts keyed by an ed25519 public key, with a nonce and with balances *)
(* in native NEAR and in the escrow token.  The contract holds the tokens  *)
(* themselves in one account of the token contract, `pool'.                *)
(*                                                                         *)
(* A signed message is modelled by the worker's decision to have it        *)
(* relayed: the signature covers the current nonce, so a handler that      *)
(* takes one runs whenever the worker wants it to and advances the nonce.  *)
(***************************************************************************)
EXTENDS Naturals

CONSTANTS
    Accounts,    \* NEAR accounts
    Pubkeys,     \* ed25519 keys of workers without a NEAR account
    NoOne,       \* None, of an account or a key
    Deposits,    \* amounts of NEAR that a caller may attach
    MaxNonce,    \* u64::MAX: the nonce saturates
    MaxBalance   \* bound: NEAR held by a worker before it deposits more

ASSUME WalletAssumption ==
    /\ NoOne \notin Accounts \cup Pubkeys
    /\ Deposits \subseteq Nat
    /\ MaxNonce \in Nat
    /\ MaxBalance \in Nat

VARIABLES
    wallet,      \* workers, balances and paused_workers, by key
    pool         \* the contract's balance in the token contract

Worker == [registered : BOOLEAN, paused : BOOLEAN, nonce : 0 .. MaxNonce,
           near : Nat, ft : Nat]

Unregistered == [registered |-> FALSE, paused |-> FALSE, nonce |-> 0,
                 near |-> 0, ft |-> 0]

WalletTypeOK ==
    /\ wallet \in [Pubkeys -> Worker]
    /\ pool \in Nat

WalletInit ==
    /\ wallet = [p \in Pubkeys |-> Unregistered]
    /\ pool = 0

\* Mutant: the nonce does not saturate.
BumpedPastMax(w) == [w EXCEPT !.nonce = @ + 1]

\* The message is signed over the stored nonce, which it uses up.
Bumped(w) == [w EXCEPT !.nonce = IF @ < MaxNonce THEN @ + 1 ELSE @]

Credited(w, ft, near) == [w EXCEPT !.ft = @ + ft, !.near = @ + near]

\* The checks that every signed handler makes on the worker.
Known(p) == wallet[p].registered /\ ~wallet[p].paused

-----------------------------------------------------------------------------
RegisterWorker(p) ==
    /\ ~wallet[p].registered
    /\ ~wallet[p].paused
    /\ wallet' = [wallet EXCEPT ![p].registered = TRUE]
    /\ UNCHANGED pool

DepositToWorker(p, amount) ==
    /\ amount > 0
    /\ Known(p)
    /\ wallet[p].near < MaxBalance
    /\ wallet' = [wallet EXCEPT ![p] = Credited(@, 0, amount)]
    /\ UNCHANGED pool

WithdrawNear(p, amount) ==
    /\ Known(p)
    /\ wallet[p].near >= amount
    /\ wallet' = [wallet EXCEPT ![p] = Bumped([wallet[p] EXCEPT !.near = @ - amount])]
    /\ UNCHANGED pool

\* The balance is debited when the transfer is scheduled; no callback looks at
\* what became of it, and the token contract may refuse it.
WithdrawToken(p, amount, delivered) ==
    /\ Known(p)
    /\ wallet[p].ft >= amount
    /\ delivered => pool >= amount
    /\ wallet' = [wallet EXCEPT ![p] = Bumped([wallet[p] EXCEPT !.ft = @ - amount])]
    /\ pool' = IF delivered THEN pool - amount ELSE pool

\* A paused worker may still link an account, which no handler ever reads.
LinkNearAccount(p) ==
    /\ wallet[p].registered
    /\ wallet' = [wallet EXCEPT ![p] = Bumped(@)]
    /\ UNCHANGED pool

PauseWorker(p) ==
    /\ wallet[p].registered
    /\ wallet' = [wallet EXCEPT ![p].paused = TRUE]
    /\ UNCHANGED pool

UnpauseWorker(p) ==
    /\ wallet' = [wallet EXCEPT ![p].paused = FALSE]
    /\ UNCHANGED pool

\* What a worker, or anyone on its behalf, does with the wallet.
WalletUse(p) ==
    \/ \E amount \in Deposits : DepositToWorker(p, amount)
    \/ \E amount \in 1 .. wallet[p].near : WithdrawNear(p, amount)
    \/ \E amount \in 1 .. wallet[p].ft, delivered \in BOOLEAN :
          WithdrawToken(p, amount, delivered)

WalletAdmin(p) ==
    \/ LinkNearAccount(p)
    \/ PauseWorker(p)
    \/ UnpauseWorker(p)
=============================================================================
