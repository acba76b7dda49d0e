-------------------------------- MODULE Ledger --------------------------------
(***************************************************************************)
(* What Blockchain promises to a node that only adds and synchronizes      *)
(* blocks: the committed chain is only ever extended, and a block that was *)
(* announced by the 'block' event is part of it for good.  A crash is not  *)
(* visible.                                                                *)
(***************************************************************************)
EXTENDS Naturals, Sequences, SequencesExt

VARIABLES
  chain,      \* the chain a start of the node loads
  announced   \* the last block given to the listeners of 'block'

Init == chain = << >> /\ announced = << >>

Extend ==
  /\ Len(chain') > Len(chain)
  /\ IsPrefix(chain, chain')
  /\ UNCHANGED announced

Announce ==
  /\ Len(chain) > Len(announced)
  /\ announced' = chain
  /\ UNCHANGED chain

Next == Extend \/ Announce

Spec == Init /\ [][Next]_<< chain, announced >>
=============================================================================
