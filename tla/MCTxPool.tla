------------------------------ MODULE MCTxPool ------------------------------
(* Constants for model-checking TxPool: an account that cannot pay for all  *)
(* of its two transfers and its bond, and one that spends what it gets.     *)
EXTENDS TxPool

CONSTANTS alice, bob, nobody

Transfer(from, to, amount, fee, time) ==
  [from |-> from, to |-> to, amount |-> amount, fee |-> fee, time |-> time]

MCAccounts == {alice, bob}
MCDeposit == (alice :> 9) @@ (bob :> 0)
MCTxs == { Transfer(alice, bob, 4, 2, 1), Transfer(alice, bob, 1, 4, 1),
           Transfer(bob, alice, 1, 2, 1), Transfer(alice, nobody, 2, 2, 0) }

\* The stake and the bond fee, with a fee that is higher than it has to be.
GenerousBond == { Transfer(alice, nobody, 6, 4, 0) }
=============================================================================
