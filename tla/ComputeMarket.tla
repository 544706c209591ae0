---------------------------- MODULE ComputeMarket ----------------------------
(***************************************************************************)
(* The market for compute jobs and the token ledger beneath it: jobs are   *)
(* posted, bid for and matched, and the price is held in the account       *)
(* ESCROW_POOL until the job is completed.  Amounts are whole numbers; the *)
(* account KERNEL_ROOT, which holds the initial grant, is left out.        *)
(***************************************************************************)
EXTENDS Naturals, FiniteSetsExt

CONSTANTS Trader,      \* requesters and workers
          Job,         \* job identifiers
          Pool,        \* the account ESCROW_POOL
          MaxPrice,    \* bound on prices and on single transfers
          MaxMinted    \* bound on the tokens minted

ASSUME MarketAssumption ==
  Pool \notin Trader /\ IsFiniteSet(Trader) /\ IsFiniteSet(Job) /\ MaxPrice \in Nat

VARIABLES balances,    \* _balances
          minted,      \* tokens minted so far
          open_jobs,   \* job_id -> its JobSpec
          bids,        \* job_id -> its bids
          escrow,      \* job_id -> locked amount
          stranded     \* tokens locked for a job that was matched again

marketVars == <<balances, minted, open_jobs, bids, escrow, stranded>>

Price == 0 .. MaxPrice
Holder == Trader \cup {Pool}

MarketInit ==
  /\ balances = [a \in Holder |-> 0]
  /\ minted = 0
  /\ open_jobs = [j \in {} |-> 0]
  /\ bids = [j \in Job |-> {}]
  /\ escrow = [j \in {} |-> 0]
  /\ stranded = 0

With(f, j, v) == [x \in DOMAIN f \cup {j} |-> IF x = j THEN v ELSE f[x]]
Without(f, j) == [x \in DOMAIN f \ {j} |-> f[x]]

(* The balances after a transfer that is carried out, one after the other. *)
Moved(sender, receiver, amount) ==
  LET paid == [balances EXCEPT ![sender] = @ - amount]
  IN  [paid EXCEPT ![receiver] = @ + amount]

CanTransfer(sender, amount) == amount > 0 /\ balances[sender] >= amount

mint(a, amount) ==
  /\ minted + amount <= MaxMinted
  /\ balances' = [balances EXCEPT ![a] = @ + amount]
  /\ minted' = minted + amount
  /\ UNCHANGED <<open_jobs, bids, escrow, stranded>>

transfer(sender, receiver, amount) ==
  /\ CanTransfer(sender, amount)
  /\ balances' = Moved(sender, receiver, amount)
  /\ UNCHANGED <<minted, open_jobs, bids, escrow, stranded>>

(* A job may be posted again under its identifier, open, matched or done.  *)
post_job(j, requester, max_price) ==
  /\ balances[requester] >= max_price
  /\ open_jobs' = With(open_jobs, j, [requester_id |-> requester, max_price |-> max_price])
  /\ bids' = [bids EXCEPT ![j] = {}]
  /\ UNCHANGED <<balances, minted, escrow, stranded>>

submit_bid(j, price) ==
  /\ j \in DOMAIN open_jobs
  /\ price <= open_jobs[j].max_price
  /\ bids' = [bids EXCEPT ![j] = @ \cup {price}]
  /\ UNCHANGED <<balances, minted, open_jobs, escrow, stranded>>

(* The lowest bid wins if the requester can still pay it; what was locked  *)
(* under the same identifier is overwritten.                               *)
match_job(j) ==
  /\ j \in DOMAIN open_jobs /\ bids[j] # {}
  /\ CanTransfer(open_jobs[j].requester_id, Min(bids[j]))
  /\ balances' = Moved(open_jobs[j].requester_id, Pool, Min(bids[j]))
  /\ escrow' = With(escrow, j, Min(bids[j]))
  /\ stranded' = IF j \in DOMAIN escrow THEN stranded + escrow[j] ELSE stranded
  /\ open_jobs' = Without(open_jobs, j)
  /\ UNCHANGED <<minted, bids>>

(* Mutant: the escrow entry outlives the payment.                          *)
CompleteKeepingEscrow(j, worker) ==
  /\ j \in DOMAIN escrow
  /\ CanTransfer(Pool, escrow[j])
  /\ balances' = Moved(Pool, worker, escrow[j])
  /\ UNCHANGED <<minted, open_jobs, bids, escrow, stranded>>

(* Whoever reports the job complete is paid.                               *)
complete_job(j, worker) ==
  /\ j \in DOMAIN escrow
  /\ CanTransfer(Pool, escrow[j])
  /\ balances' = Moved(Pool, worker, escrow[j])
  /\ escrow' = Without(escrow, j)
  /\ UNCHANGED <<minted, open_jobs, bids, stranded>>

MarketNext ==
  \/ \E a, b \in Trader, amount \in Price \ {0} : mint(a, amount) \/ transfer(a, b, amount)
  \/ \E j \in Job :
       \/ \E a \in Trader, price \in Price : post_job(j, a, price)
       \/ \E price \in Price : submit_bid(j, price)
       \/ match_job(j)
       \/ \E a \in Trader : complete_job(j, a)

MarketSpec == MarketInit /\ [][MarketNext]_marketVars

-----------------------------------------------------------------------------
(* The pool holds what the jobs in execution are owed, and beyond it only  *)
(* what was locked for a job that was posted and matched again before it   *)
(* was done: so every job in execution can be paid, in any order.          *)
PoolHoldsEscrow == balances[Pool] = SumFunction(escrow) + stranded

(* Tokens come from minting only and never disappear: transfers, also to   *)
(* oneself, matches, matches again and completions move them.              *)
SupplyIsMinted == SumFunction(balances) = minted
=============================================================================
