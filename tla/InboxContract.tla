---------------------------- MODULE InboxContract ---------------------------
(***************************************************************************)
(* What the inbox promises, without queue, workers or sweeps: an accepted  *)
(* event is attempted a bounded number of times, is settled only after an  *)
(* attempt, and is never attempted or unsettled afterwards                 *)
(* (app/services/webhook_events.py, module docstring and claim).           *)
(***************************************************************************)
EXTENDS Naturals

CONSTANTS Keys, MaxAttempts

VARIABLE ledger  \* ledger[k]: how far the promise about k has been kept

ContractInit == ledger = [k \in Keys |-> [phase |-> "unknown", tries |-> 0]]

Accept(K) ==
  /\ K # {}
  /\ \A k \in K : ledger[k].phase = "unknown"
  /\ ledger' = [k \in Keys |-> IF k \in K THEN [phase |-> "open", tries |-> 0]
                                          ELSE ledger[k]]

Attempt(k) ==
  /\ ledger[k].phase = "open"
  /\ ledger[k].tries < MaxAttempts
  /\ ledger' = [ledger EXCEPT ![k].tries = @ + 1]

Settle(k) ==
  /\ ledger[k].phase = "open"
  /\ ledger[k].tries > 0
  /\ ledger' = [ledger EXCEPT ![k].phase = "settled"]

ContractNext ==
  \/ \E K \in SUBSET Keys : Accept(K)
  \/ \E k \in Keys : Attempt(k) \/ Settle(k)

ContractSpec == ContractInit /\ [][ContractNext]_ledger

=============================================================================
