-------------------------------- MODULE Shop --------------------------------
(***************************************************************************)
(* The storefront with its clients: a tab of a shopper, or clients of the  *)
(* API that send whatever it accepts.  Next to it a stock desk whose       *)
(* StockRepository is the optimistic adapter, as inventory.module.ts says  *)
(* it could be wired.                                                      *)
(*                                                                         *)
(* Storefront and desk share neither rows nor ids: a cart does not look at *)
(* the stock, and the reservations of a checkout are OrderSaga's.  A       *)
(* behaviour therefore has requests to one of them only, which is all      *)
(* there is to see of both.                                                *)
(***************************************************************************)
EXTENDS BrowserTab

CONSTANTS
    StockSku,       \* SKUs of the stock desk
    StockQuantity,  \* amounts that its operations ask for
    MaxUnits,       \* bound: units a row is registered with
    MaxAttempts,    \* attempts of the optimistic adapter
    MaxCalls        \* bound: transactions of the stock desk

VARIABLES registered, stock, version, work, calls

Desk == INSTANCE OptimisticStock WITH
    Sku <- StockSku, Quantity <- StockQuantity, Caller <- Slot

ASSUME DeskAssumption == Desk!OptimisticAssumption

deskVars == <<registered, stock, version, work, calls>>
allVars == <<shopVars, tabVars, deskVars>>

ShopInit == Init /\ TabInit /\ Desk!Init

Browse(r) ==
    /\ calls = 0
    /\ page = Closed
    /\ Begin(r)
    /\ UNCHANGED <<tabVars, deskVars>>

\* The shopper goes to the page, or does something on it.
Shopping(r) ==
    /\ calls = 0
    /\ Touch(r)
    /\ UNCHANGED deskVars
Turning == (Turn \/ TabHazard) /\ UNCHANGED <<shopVars, deskVars>>

Serve(r) == Proceed(r) /\ Answered(r, posts) /\ UNCHANGED <<screenVars, deskVars>>
Hearing == Hear /\ UNCHANGED <<shopVars, deskVars>>
Drawing == Draw /\ UNCHANGED <<shopVars, deskVars>>

Ask(c) ==
    /\ requests = 0
    /\ page = Closed
    /\ \/ \E s \in StockSku, units \in 0..MaxUnits : Desk!Create(c, s, units)
       \/ \E s \in StockSku, op \in Desk!StockOperations, q \in StockQuantity :
            Desk!BeginMutate(c, s, op, q)
       \/ Desk!Rollback(c)
    /\ UNCHANGED <<shopVars, tabVars>>
Work(c) == Desk!Advance(c) /\ UNCHANGED <<shopVars, tabVars>>

ShopNext ==
    \/ \E r \in Slot : Browse(r) \/ Shopping(r) \/ Serve(r) \/ Ask(r) \/ Work(r)
    \/ Turning
    \/ Hearing
    \/ Drawing

(***************************************************************************)
(* A request that the API has taken up goes on: its steps are awaited one  *)
(* by one and PostgreSQL ends every wait.  Answers arrive and the router   *)
(* ends its renders.  Nobody has to send requests, and nothing has to      *)
(* fail.                                                                   *)
(***************************************************************************)
ShopFairness ==
    /\ \A r \in Slot : WF_allVars(Serve(r) \/ Work(r))
    /\ WF_allVars(Hearing)
    /\ WF_allVars(Drawing)

ShopSpec == ShopInit /\ [][ShopNext]_allVars /\ ShopFairness

-----------------------------------------------------------------------------
(* Properties of the whole.                                                 *)

\* Rows of the shop can be read back, and so can those of the stock.
TypeOK ==
    /\ ShopTypeOK
    /\ TabTypeOK
    /\ \A s \in registered : stock[s].reserved \in 0..stock[s].onHand

LedgerSpec == Desk!LedgerSpec
ContentionIsEarned == Desk!ContentionIsEarned

\* Every request is answered: neither saves that wait for each other nor
\* attempts that lose to others keep one for ever, no button of the tab stays
\* pending and its renders come to an end.
RequestsAnswered ==
    /\ \A r \in Slot : []<>(Free(r) /\ work[r].pc = "idle")
    /\ []<>Settled

=============================================================================
