------------------------------ MODULE Contracts ------------------------------
(***************************************************************************)
(* The contract service (ContractService): lifecycle of B2B contracts, the *)
(* cancellation of a contract's open orders, the price list with its       *)
(* quotas, and the job that expires contracts.  Lifecycle operations lock  *)
(* the contract row first and are one step.  The price-list operations and *)
(* the expiry job check what they read without a lock and write later: a   *)
(* step for the check and one for the write.                               *)
(***************************************************************************)
EXTENDS Orders

CONSTANTS Terms,    \* Terms[c]: what price items of c are set to, as <<price, quantity>>;
                    \* quantity 0 is no limit
          Dated     \* contracts with an end date; the others run until terminated

ASSUME ContractsAssumption ==
  Terms \in [Contracts -> SUBSET (Nat \X Nat)] /\ Dated \subseteq Contracts

SetContractStatus(c, s) == con' = [con EXCEPT ![c] = s]

-----------------------------------------------------------------------------
(* Lifecycle *)

\* Mutant: no check and no index.
OtherActive_Unchecked(c) == FALSE

\* get_active_for_client, backed by uq_one_active_contract_per_client.
OtherActive(c) == \E d \in Contracts \ {c} : Owner[d] = Owner[c] /\ con[d] = "ACTIVE"

create_contract(c) ==
  /\ con[c] = "ABSENT" /\ ~OtherActive(c)
  /\ con' = [con EXCEPT ![c] = "DRAFT"]
  /\ UNCHANGED <<orderVars, requestVars, ended, scan, priceVars, used, ledgerVars>>

\* DRAFT -> ACTIVE
activate_contract(c) ==
  /\ con[c] = "DRAFT" /\ ~OtherActive(c)
  /\ SetContractStatus(c, "ACTIVE")
  /\ UNCHANGED <<orderVars, requestVars, ended, scan, priceVars, used, ledgerVars>>

\* Mutant: a terminated contract is reinstated.
reinstate_contract_Closed(c) ==
  /\ con[c] \in {"SUSPENDED", "TERMINATED"} /\ ~OtherActive(c)
  /\ SetContractStatus(c, "ACTIVE")
  /\ UNCHANGED <<orderVars, requestVars, ended, scan, priceVars, used, ledgerVars>>

\* SUSPENDED -> ACTIVE
reinstate_contract(c) ==
  /\ con[c] = "SUSPENDED" /\ ~OtherActive(c)
  /\ SetContractStatus(c, "ACTIVE")
  /\ UNCHANGED <<orderVars, requestVars, ended, scan, priceVars, used, ledgerVars>>

\* bulk_cancel_by_contract: FOR UPDATE SKIP LOCKED.
Cancellable(c) ==
  {o \in Orders : contract[o] = c /\ status[o] \in {"NEW", "ASSIGNED"} /\ hold[o] = "free"}

\* _cancel_inflight_orders for the contracts of C.
CancelInflight(C) ==
  LET S == UNION {Cancellable(c) : c \in C}
  IN  CancelAll(S, {o \in S : reserved[o]})

suspend_contract(c) ==
  /\ con[c] = "ACTIVE"
  /\ SetContractStatus(c, "SUSPENDED")
  /\ CancelInflight({c})
  /\ UNCHANGED <<hold, cancelling, ended, scan, priceVars, ledgerVars>>

terminate_contract(c) ==
  /\ con[c] \in {"ACTIVE", "SUSPENDED"}
  /\ SetContractStatus(c, "TERMINATED")
  /\ CancelInflight({c})
  /\ UNCHANGED <<hold, cancelling, ended, scan, priceVars, ledgerVars>>

\* update_contract: the end date is moved; no lock, no status check.
update_contract(c, past) ==
  /\ con[c] # "ABSENT" /\ c \in Dated /\ ended[c] # past
  /\ ended' = [ended EXCEPT ![c] = past]
  /\ UNCHANGED <<orderVars, requestVars, con, scan, priceVars, used, ledgerVars>>

\* The calendar passes the end date.
EndDatePasses(c) ==
  /\ con[c] # "ABSENT" /\ c \in Dated /\ ~ended[c]
  /\ ended' = [ended EXCEPT ![c] = TRUE]
  /\ UNCHANGED <<orderVars, requestVars, con, scan, priceVars, used, ledgerVars>>

-----------------------------------------------------------------------------
(* The expiry job *)

\* get_expirable: ACTIVE contracts past their end date, read without a lock.
run_expire_job_scan ==
  /\ scan = {}
  /\ scan' = {c \in Contracts : con[c] = "ACTIVE" /\ ended[c]}
  /\ scan' # {}
  /\ UNCHANGED <<orderVars, requestVars, con, ended, priceVars, used, ledgerVars>>

\* The writes, in one transaction, for every contract that was read.
run_expire_job ==
  /\ scan # {}
  /\ CancelInflight(scan)
  /\ con' = [c \in Contracts |-> IF c \in scan THEN "EXPIRED" ELSE con[c]]
  /\ scan' = {}
  /\ UNCHANGED <<hold, cancelling, ended, priceVars, ledgerVars>>

\* The job raised or died: rolled back.
run_expire_job_aborted ==
  /\ scan # {} /\ scan' = {}
  /\ UNCHANGED <<orderVars, requestVars, con, ended, priceVars, used, ledgerVars>>

-----------------------------------------------------------------------------
(* The price list *)

Edit(kind, c, p, terms) ==
  [kind |-> kind, c |-> c, p |-> p, price |-> terms[1], quantity |-> terms[2]]

Edits ==
  UNION {{Edit(kind, c, p, terms) :
            kind \in {"insert", "update"}, p \in Products, terms \in Terms[c]}
           \union {Edit("delete", c, p, <<0, 0>>) : p \in Products} : c \in Contracts}

\* The checks of set_price_item (insert or update) and remove_price_item.
EditAllowed(e) ==
  CASE e.kind = "insert" -> <<e.c, e.p>> \notin pricelist
    [] e.kind = "update" -> /\ <<e.c, e.p>> \in pricelist
                            /\ e.quantity = 0 \/ used[e.c][e.p] <= e.quantity
    [] e.kind = "delete" -> <<e.c, e.p>> \in pricelist /\ used[e.c][e.p] = 0

price_item_check(e) ==
  /\ edit = None /\ con[e.c] # "ABSENT" /\ EditAllowed(e)
  /\ edit' = e
  /\ UNCHANGED <<orderVars, requestVars, contractVars, pricelist, quantity, price, used,
                 ledgerVars>>

\* set_price_item writes: a new row starts with quantity_used = 0.
set_price_item ==
  /\ edit # None /\ edit.kind \in {"insert", "update"}
  /\ pricelist' = pricelist \union {<<edit.c, edit.p>>}
  /\ quantity' = [quantity EXCEPT ![edit.c][edit.p] = edit.quantity]
  /\ price' = [price EXCEPT ![edit.c][edit.p] = edit.price]
  /\ edit' = None
  /\ UNCHANGED <<orderVars, requestVars, contractVars, used, ledgerVars>>

\* remove_price_item deletes the row by id, its counter with it.
remove_price_item ==
  /\ edit # None /\ edit.kind = "delete"
  /\ pricelist' = pricelist \ {<<edit.c, edit.p>>}
  /\ used' = [used EXCEPT ![edit.c][edit.p] = 0]
  /\ quantity' = [quantity EXCEPT ![edit.c][edit.p] = 0]
  /\ price' = [price EXCEPT ![edit.c][edit.p] = 0]
  /\ edit' = None
  /\ UNCHANGED <<orderVars, requestVars, contractVars, ledgerVars>>

price_item_aborted ==
  /\ edit # None /\ edit' = None
  /\ UNCHANGED <<orderVars, requestVars, contractVars, pricelist, quantity, price, used,
                 ledgerVars>>
=============================================================================
