---------------------------- MODULE LedgerProofs ----------------------------
(***************************************************************************)
(* Conviction voting and the compute market, for any accounts, stakes and  *)
(* proposals, traders, jobs and prices: delegations stay acyclic, verdicts *)
(* stay what they are, stake that counts is locked, and the pool holds     *)
(* what is in escrow.  The last two are about sums, and rest on what       *)
(* changes the sum of a function, and by how much.                         *)
(***************************************************************************)
EXTENDS ConvictionVoting, ComputeMarket, FiniteSetTheorems, WellFoundedInduction, TLAPS

-----------------------------------------------------------------------------
(* Delegation.                                                             *)

DelegationInv ==
    /\ DOMAIN delegations \subseteq Account
    /\ \A a \in DOMAIN delegations : delegations[a].delegate \in Account
    /\ DelegationsAcyclic

\* A set of accounts in which everyone delegates within the set.
Closed(S) == \A a \in S : a \in DOMAIN delegations /\ delegations[a].delegate \in S

\* DelegationsAcyclic says that only the empty set is closed.
LEMMA AcyclicMeansNoneClosed ==
    DelegationsAcyclic <=> \A S \in SUBSET Account : Closed(S) => S = {}
BY Zenon DEF DelegationsAcyclic, Closed

\* Removing delegations (undelegate, expiry) creates no cycle.
LEMMA FewerDelegations ==
    ASSUME DelegationInv, NEW D \in SUBSET DOMAIN delegations,
           delegations' = [k \in D |-> delegations[k]]
    PROVE  DelegationInv'
<1>1. DOMAIN delegations' = D /\ \A k \in D : delegations'[k] = delegations[k]
  BY Zenon
<1>2. DelegationsAcyclic'
  BY Zenon, <1>1 DEF DelegationInv, DelegationsAcyclic
<1> QED BY Zenon, <1>1, <1>2 DEF DelegationInv

\* If the walk of would_create_cycle ends without meeting `from', the accounts
\* on it are closed under delegation and do not include `from'.
LEMMA WalkedAccounts ==
    ASSUME NEW from \in Account, NEW to \in Account, from # to,
           ~would_create_cycle(from, to)
    PROVE  \E C \in SUBSET Account :
              /\ to \in C
              /\ from \notin C
              /\ \A a \in C : a \in DOMAIN delegations => delegations[a].delegate \in C
<1>0. PICK n \in 1 .. Cardinality(Account) :
          \E walk \in [1 .. n -> Account] : EndingWalk(walk, from, to)
  BY Zenon DEF would_create_cycle
<1>1. PICK walk \in [1 .. n -> Account] : EndingWalk(walk, from, to)
  BY Zenon, <1>0
<1>2. n \in Nat /\ n >= 1
  <2>1. \A k : k \in 1 .. Cardinality(Account) => k \in Int /\ k >= 1
    OBVIOUS
  <2> QED BY <2>1
<1>3. Len(walk) = n
  BY <1>2
<1> DEFINE C == {walk[i] : i \in 1 .. n}
<1>4. C \subseteq Account /\ to \in C
  BY <1>1, <1>2 DEF EndingWalk
<1>5. \A i \in 1 .. n : walk[i] # from
  <2>1. \A i \in 1 .. n : i = 1 \/ (i - 1 \in 1 .. n - 1 /\ i - 1 + 1 = i)
    BY ONLY SMT, <1>2
  <2> QED
    BY Zenon, <1>1, <1>2, <1>3, <2>1 DEF EndingWalk
<1>6. \A i \in 1 .. n : walk[i] \in DOMAIN delegations => delegations[walk[i]].delegate \in C
  <2> SUFFICES ASSUME NEW i \in 1 .. n, walk[i] \in DOMAIN delegations
               PROVE  delegations[walk[i]].delegate \in C
    BY Zenon
  <2>1. i # n
    BY Zenon, <1>1, <1>3 DEF EndingWalk
  <2>2. i \in 1 .. n - 1 /\ i + 1 \in 1 .. n
    BY <2>1, <1>2
  <2>3. delegations[walk[i]].delegate = walk[i + 1]
    BY Zenon, <2>2, <1>1, <1>3 DEF EndingWalk
  <2> QED BY Zenon, <2>2, <2>3
<1> QED BY Zenon, <1>4, <1>5, <1>6

\* A delegation that passes the check of would_create_cycle closes no cycle.
LEMMA OneMoreDelegation ==
    ASSUME DelegationInv, NEW a \in Account, NEW to \in Account, NEW e, delegate(a, to, e)
    PROVE  DelegationInv'
<1>1. /\ DOMAIN delegations' = DOMAIN delegations \cup {a}
      /\ \A k \in DOMAIN delegations' :
            delegations'[k] = IF k = a THEN [delegate |-> to, expires_epoch |-> e]
                              ELSE delegations[k]
  BY Zenon DEF delegate, Put
<1>2. delegations'[a].delegate = to
  BY <1>1
<1>3. PICK C \in SUBSET Account :
          /\ to \in C
          /\ a \notin C
          /\ \A k \in C : k \in DOMAIN delegations => delegations[k].delegate \in C
  BY Zenon, WalkedAccounts DEF delegate
<1>4. ASSUME NEW S \in SUBSET Account,
             \A k \in S : k \in DOMAIN delegations' /\ delegations'[k].delegate \in S
      PROVE  S = {}
  <2>1. \A k \in S : k # a => k \in DOMAIN delegations /\ delegations[k].delegate \in S
    BY Zenon, <1>4, <1>1
  <2>2. CASE a \notin S
    <3>1. Closed(S)
      BY Zenon, <2>1, <2>2 DEF Closed
    <3> QED BY Zenon, <3>1, AcyclicMeansNoneClosed DEF DelegationInv
  <2>3. CASE a \in S
    <3>1. to \in S \cap C
      BY Zenon, <2>3, <1>2, <1>3, <1>4
    <3>2. Closed(S \cap C)
      BY Zenon, <2>1, <1>3 DEF Closed
    <3> QED BY Zenon, <3>1, <3>2, AcyclicMeansNoneClosed DEF DelegationInv
  <2> QED BY Zenon, <2>2, <2>3
<1>5. DelegationsAcyclic'
  <2> SUFFICES ASSUME NEW S \in (SUBSET Account) \ {{}}
               PROVE  \E k \in S : k \in DOMAIN delegations' => delegations'[k].delegate \notin S
    BY Zenon DEF DelegationsAcyclic
  <2> QED BY Zenon, <1>4
<1> QED BY Zenon, <1>1, <1>2, <1>5 DEF DelegationInv

LEMMA NextDelegationInv == DelegationInv /\ [VotingNext]_voting_vars => DelegationInv'
<1> SUFFICES ASSUME DelegationInv, [VotingNext]_voting_vars PROVE DelegationInv'
  BY Zenon
<1>1. CASE delegations' = delegations
  BY Zenon, <1>1 DEF DelegationInv, DelegationsAcyclic
<1>2. CASE advance_epoch
  BY Zenon, <1>2, FewerDelegations,
     {k \in DOMAIN delegations : Unexpired(delegations[k], current_epoch + 1)}
        \in SUBSET DOMAIN delegations
  DEF advance_epoch
<1>3. ASSUME NEW a \in Delegator, NEW to \in Account, NEW e \in Expiry, delegate(a, to, e)
      PROVE  DelegationInv'
  BY Zenon, <1>3, OneMoreDelegation, AccountsAssumption
<1>4. ASSUME NEW a \in Delegator, undelegate(a)
      PROVE  DelegationInv'
  BY Zenon, <1>4, FewerDelegations, DOMAIN delegations \ {a} \in SUBSET DOMAIN delegations
  DEF undelegate
<1>5. \A a, t, type : submit_proposal(a, t, type) => DelegationInv'
  BY Zenon, <1>1 DEF submit_proposal
<1>6. \A id, a : second_proposal(id, a) => DelegationInv'
  BY Zenon, <1>1 DEF second_proposal
<1>7. \A id, a, d, s, c : vote(id, a, d, s, c) => DelegationInv'
  BY Zenon, <1>1 DEF vote
<1>8. \A id : finalize_proposal(id) => DelegationInv'
  BY Zenon, <1>1 DEF finalize_proposal
<1>9. CASE set_total_stake \/ UNCHANGED voting_vars
  BY Zenon, <1>1, <1>9 DEF set_total_stake, voting_vars
<1> QED
  BY Zenon, <1>2, <1>3, <1>4, <1>5, <1>6, <1>7, <1>8, <1>9 DEF VotingNext

\* Delegations never form a cycle, for any set of accounts and any order of
\* delegate, undelegate and expiry: the check of would_create_cycle is enough.
THEOREM NoDelegationCycle == VotingSpec => []DelegationsAcyclic
<1>1. VotingInit => DelegationInv
  BY DEF VotingInit, DelegationInv, DelegationsAcyclic
<1>2. DelegationInv => DelegationsAcyclic
  BY Zenon DEF DelegationInv
<1> QED BY <1>1, <1>2, NextDelegationInv, PTL DEF VotingSpec

-----------------------------------------------------------------------------
(* Verdicts.                                                               *)

\* A proposal was submitted in a past epoch or in this one, opened no earlier,
\* and decided in a later epoch: its name can no longer be submitted.
Dated(id, p, epoch) ==
    /\ id.epoch \in Nat /\ id.epoch <= epoch
    /\ p.voting_start_epoch \in Nat
    /\ p.status = "Pending" => p.voting_start_epoch = 0
    /\ p.status = "Voting" => id.epoch <= p.voting_start_epoch
    /\ Finalized(p) => id.epoch < epoch

VerdictInv ==
    /\ current_epoch \in Nat
    /\ \A id \in DOMAIN proposals : Dated(id, proposals[id], current_epoch)

\* Every voting period lasts at least three epochs.
LEMMA PeriodIsPositive == \A type : voting_period(type) \in Nat /\ voting_period(type) > 0
BY DEF voting_period

\* What a step may do to a proposal: nothing, or start, open, extend or decide
\* one that is not decided; in each case it stays dated.
LEMMA StepKeepsVerdicts ==
    ASSUME VerdictInv, [VotingNext]_voting_vars
    PROVE  /\ VerdictInv'
           /\ \A id \in DOMAIN proposals :
                 Finalized(proposals[id]) =>
                     id \in DOMAIN proposals' /\ proposals'[id] = proposals[id]
<1> DEFINE Goal == /\ VerdictInv'
                   /\ \A id \in DOMAIN proposals :
                         Finalized(proposals[id]) =>
                             id \in DOMAIN proposals' /\ proposals'[id] = proposals[id]
<1> SUFFICES Goal
  BY Zenon
<1>1. ASSUME NEW id, NEW p, proposals' = Put(proposals, id, p),
             current_epoch' = current_epoch, Dated(id, p, current_epoch),
             id \in DOMAIN proposals => ~Finalized(proposals[id])
      PROVE  Goal
  <2>1. /\ DOMAIN proposals' = DOMAIN proposals \cup {id}
        /\ proposals'[id] = p
        /\ \A k \in DOMAIN proposals : k # id => proposals'[k] = proposals[k]
    BY Zenon, <1>1 DEF Put
  <2>2. \A k \in DOMAIN proposals' : Dated(k, proposals'[k], current_epoch)
    BY Zenon, <2>1, <1>1 DEF VerdictInv
  <2>3. VerdictInv'
    BY Zenon, <2>2, <1>1 DEF VerdictInv
  <2> QED BY Zenon, <2>1, <2>3, <1>1
<1>2. CASE proposals' = proposals /\ current_epoch' = current_epoch
  BY Zenon, <1>2 DEF VerdictInv
<1>3. CASE advance_epoch
  <2>1. proposals' = proposals /\ current_epoch' = current_epoch + 1 /\ current_epoch \in Nat
    BY Zenon, <1>3 DEF advance_epoch, VerdictInv
  <2>2. \A id \in DOMAIN proposals : Dated(id, proposals[id], current_epoch + 1)
    BY <2>1 DEF VerdictInv, Dated
  <2> QED BY <2>1, <2>2 DEF VerdictInv
<1>4. ASSUME NEW a \in Proposer, NEW t \in Title, NEW type \in Type, submit_proposal(a, t, type)
      PROVE  Goal
  <2> DEFINE id == proposal_id(a, t, current_epoch)
             p == new_proposal(type, total_stake)
  <2>1. proposals' = Put(proposals, id, p) /\ current_epoch' = current_epoch
    BY Zenon, <1>4 DEF submit_proposal
  <2>2. id.epoch = current_epoch /\ current_epoch \in Nat
    BY Zenon DEF proposal_id, VerdictInv
  <2>3. Dated(id, p, current_epoch)
    BY <2>2 DEF Dated, new_proposal, Finalized
  <2>4. id \in DOMAIN proposals => ~Finalized(proposals[id])
    BY <2>2 DEF VerdictInv, Dated
  <2> HIDE DEF id, p, Goal
  <2> QED BY Zenon, <2>1, <2>3, <2>4, <1>1
<1>5. ASSUME NEW id \in DOMAIN proposals, NEW a \in Account, second_proposal(id, a)
      PROVE  Goal
  <2>1. PICK p : /\ proposals' = Put(proposals, id, p)
                 /\ p.status \in {"Voting", "Pending"}
                 /\ p.voting_start_epoch =
                       IF p.status = "Voting" /\ proposals[id].voting_start_epoch = 0
                       THEN current_epoch ELSE proposals[id].voting_start_epoch
    BY <1>5 DEF second_proposal, add_second
  <2>2. proposals[id].status = "Pending" /\ current_epoch' = current_epoch
    BY Zenon, <1>5 DEF second_proposal, CanSecond
  <2>3. Dated(id, proposals[id], current_epoch) /\ current_epoch \in Nat
    BY Zenon DEF VerdictInv
  <2>4. Dated(id, p, current_epoch) /\ ~Finalized(proposals[id])
    BY Zenon, <2>1, <2>2, <2>3 DEF Dated, Finalized
  <2> HIDE DEF Goal
  <2> QED BY Zenon, <2>1, <2>2, <2>4, <1>1
<1>6. ASSUME NEW id \in DOMAIN proposals, NEW a \in Voter, NEW d \in Direction,
             NEW s \in Stake, NEW c \in Conviction, vote(id, a, d, s, c)
      PROVE  Goal
  <2>1. PICK p : /\ proposals' = Put(proposals, id, p)
                 /\ p.status = proposals[id].status
                 /\ p.voting_start_epoch = proposals[id].voting_start_epoch
    BY <1>6 DEF vote
  <2>2. proposals[id].status = "Voting" /\ current_epoch' = current_epoch
    BY Zenon, <1>6 DEF vote, accepts_vote
  <2>3. Dated(id, proposals[id], current_epoch)
    BY Zenon DEF VerdictInv
  <2>4. Dated(id, p, current_epoch) /\ ~Finalized(proposals[id])
    BY Zenon, <2>1, <2>2, <2>3 DEF Dated, Finalized
  <2> HIDE DEF Goal
  <2> QED BY Zenon, <2>1, <2>2, <2>4, <1>1
<1>7. ASSUME NEW id \in DOMAIN proposals, finalize_proposal(id)
      PROVE  Goal
  <2> DEFINE p == finalize(proposals[id])
  <2>1. /\ proposals' = Put(proposals, id, p)
        /\ proposals[id].status = "Voting"
        /\ current_epoch >= voting_end(proposals[id])
        /\ current_epoch' = current_epoch
    BY Zenon, <1>7 DEF finalize_proposal, CanFinalize
  <2>2. Dated(id, proposals[id], current_epoch) /\ current_epoch \in Nat
    BY Zenon DEF VerdictInv
  <2>3. id.epoch < current_epoch
    BY <2>1, <2>2, PeriodIsPositive DEF Dated, voting_end
  <2>4. /\ p.status \in {"Passed", "Rejected"}
        /\ p.voting_start_epoch = proposals[id].voting_start_epoch
    BY Zenon DEF finalize
  <2>5. Dated(id, p, current_epoch) /\ ~Finalized(proposals[id])
    BY Zenon, <2>1, <2>2, <2>3, <2>4 DEF Dated, Finalized
  <2> HIDE DEF p, Goal
  <2> QED BY Zenon, <2>1, <2>5, <1>1
<1> HIDE DEF Goal
<1>8. CASE set_total_stake \/ \E a \in Delegator :
               undelegate(a) \/ \E to \in Account, e \in Expiry : delegate(a, to, e)
  BY Zenon, <1>8, <1>2 DEF set_total_stake, delegate, undelegate
<1>9. CASE UNCHANGED voting_vars
  BY Zenon, <1>9, <1>2 DEF voting_vars
<1> QED BY Zenon, <1>3, <1>4, <1>5, <1>6, <1>7, <1>8, <1>9 DEF VotingNext

\* Once finalize_proposal has given a verdict, no call changes it or the votes
\* it rests on, for any proposals, voters and number of epochs.
THEOREM VerdictsAreFinal == VotingSpec => FinalizedIsFinal
<1>1. VotingInit => VerdictInv
  BY DEF VotingInit, VerdictInv
<1>2. VerdictInv /\ [VotingNext]_voting_vars => VerdictInv'
  BY Zenon, StepKeepsVerdicts
<1>3. VerdictInv /\ [VotingNext]_voting_vars =>
         [\A id \in DOMAIN proposals :
            Finalized(proposals[id]) =>
                id \in DOMAIN proposals' /\ proposals'[id] = proposals[id]]_voting_vars
  BY Zenon, StepKeepsVerdicts
<1> QED BY <1>1, <1>2, <1>3, PTL DEF VotingSpec, FinalizedIsFinal

-----------------------------------------------------------------------------
(* Sums.  SumFunction is a fold that removes one element of the domain     *)
(* after the other; the fact behind all others is that any element may be  *)
(* removed first, which takes inductions over the size of the domain.      *)

(* Induction over the natural numbers, for a set in place of a predicate.  *)
LEMMA ReachesAll ==
  ASSUME NEW T \in SUBSET Nat, 0 \in T, \A n \in T : n + 1 \in T
  PROVE  T = Nat
<1> DEFINE R == OpToRel(<, Nat)
<1> SUFFICES ASSUME Nat \ T # {} PROVE FALSE
  BY Zenon
<1>1. PICK m \in Nat \ T : \A n \in Nat \ T : ~(<<n, m>> \in R)
  BY Zenon, WFMin, NatLessThanWellFounded
<1>2. m \in Nat /\ m \notin T /\ m # 0
  BY ONLY Zenon, <1>1, 0 \in T
<1>3. PICK n \in Nat : n + 1 = m /\ n < m
  <2>1. m - 1 \in Nat /\ (m - 1) + 1 = m /\ m - 1 < m
    BY ONLY <1>2
  <2> QED
    BY ONLY Zenon, <2>1
<1>4. <<n, m>> \in R
  BY ONLY Zenon, <1>2, <1>3 DEF OpToRel
<1>5. n \in T
  BY ONLY Zenon, <1>1, <1>3, <1>4
<1> QED
  BY ONLY Zenon, <1>2, <1>3, <1>5, \A k \in T : k + 1 \in T

Picked(s) == CHOOSE x \in s : TRUE

(* One round of the fold.                                                  *)
Round(f, g, s) == IF s = {} THEN 0 ELSE f[Picked(s)] + g[s \ {Picked(s)}]

IsFold(f, g, D) == g = [s \in SUBSET D |-> Round(f, g, s)]

(* SumFunction, spelled out.                                               *)
LEMMA SumIsFold ==
  ASSUME NEW f
  PROVE  SumFunction(f) = (CHOOSE g : IsFold(f, g, DOMAIN f))[DOMAIN f]
BY Zenon DEF SumFunction, FoldFunction, FoldFunctionOnSet, SumFunctionOnSet, MapThenFoldSet, Round, Picked, IsFold

(* A finite set without one of its elements is smaller by one.             *)
LEMMA Smaller ==
  ASSUME NEW D, IsFiniteSet(D), NEW s \in SUBSET D, NEW x \in s
  PROVE  /\ Cardinality(s) \in Nat \ {0} /\ s \ {x} \in SUBSET D
         /\ Cardinality(s \ {x}) = Cardinality(s) - 1
BY Zenon, FS_Subset, FS_CardinalityType, FS_RemoveElement, FS_EmptySet

(* The element picked is one of the set.                                   *)
LEMMA PickedIn == ASSUME NEW s, s # {} PROVE Picked(s) \in s
BY Zenon DEF Picked

(* The recursion of the fold has a solution, with numbers as values.       *)
LEMMA FoldExists ==
  ASSUME NEW D, IsFiniteSet(D), NEW f \in [D -> Nat]
  PROVE  \E g \in [SUBSET D -> Nat] : IsFold(f, g, D)
<1> DEFINE Upto(g, n) == \A s \in SUBSET D : Cardinality(s) <= n => g[s] = Round(f, g, s)
           T == {n \in Nat : \E g \in [SUBSET D -> Nat] : Upto(g, n)}
<1>1. \A s \in SUBSET D : Cardinality(s) \in Nat /\ (Cardinality(s) = 0 => s = {})
  BY Zenon, FS_Subset, FS_CardinalityType, FS_EmptySet
<1>2. 0 \in T
  <2> DEFINE g == [s \in SUBSET D |-> 0]
  <2>1. g \in [SUBSET D -> Nat]
    BY Zenon
  <2>2. Upto(g, 0)
    BY <1>1 DEF Round
  <2> QED
    BY Zenon, <2>1, <2>2
<1>3. ASSUME NEW n \in T PROVE n + 1 \in T
  <2>1. PICK g \in [SUBSET D -> Nat] : Upto(g, n)
    BY Zenon
  <2> DEFINE h == [s \in SUBSET D |-> IF Cardinality(s) <= n THEN g[s] ELSE Round(f, g, s)]
  <2>2. ASSUME NEW s \in SUBSET D, s # {}
        PROVE  /\ Picked(s) \in s /\ f[Picked(s)] \in Nat
               /\ s \ {Picked(s)} \in SUBSET D
               /\ Cardinality(s \ {Picked(s)}) = Cardinality(s) - 1
    BY <2>2, PickedIn, Smaller
  <2>3. ASSUME NEW s \in SUBSET D PROVE Round(f, g, s) \in Nat
    <3>1. CASE s = {}
      BY ONLY Zenon, <3>1 DEF Round
    <3>2. CASE s # {}
      <4>1. f[Picked(s)] \in Nat /\ g[s \ {Picked(s)}] \in Nat
        BY Zenon, <2>1, <2>2, <3>2
      <4> QED
        BY ONLY <3>2, <4>1 DEF Round
    <3> QED
      BY Zenon, <3>1, <3>2
  <2>4. h \in [SUBSET D -> Nat]
    BY Zenon, <2>3
  <2>5. ASSUME NEW s \in SUBSET D, Cardinality(s) <= n + 1 PROVE h[s] = Round(f, h, s)
    <3>1. h[s] = Round(f, g, s)
      BY Zenon, <2>1
    <3>2. CASE s = {}
      BY Zenon, <3>1, <3>2 DEF Round
    <3>3. CASE s # {}
      <4>1. Cardinality(s \ {Picked(s)}) <= n
        <5>1. Cardinality(s) \in Nat /\ Cardinality(s \ {Picked(s)}) = Cardinality(s) - 1 /\ n \in Nat
          BY Zenon, <1>1, <2>2, <3>3
        <5> QED
          BY ONLY <2>5, <5>1
      <4>2. h[s \ {Picked(s)}] = g[s \ {Picked(s)}]
        BY Zenon, <2>2, <3>3, <4>1
      <4> QED
        BY Zenon, <3>1, <3>3, <4>2 DEF Round
    <3> QED
      BY Zenon, <3>2, <3>3
  <2>6. Upto(h, n + 1)
    BY Zenon, <2>5
  <2> HIDE DEF h, Upto
  <2> QED
    BY <2>4, <2>6
<1>4. T = Nat
  BY Zenon, <1>2, <1>3, ReachesAll
<1>5. PICK g \in [SUBSET D -> Nat] : Upto(g, Cardinality(D))
  BY Zenon, <1>4, FS_CardinalityType
<1>6. \A s \in SUBSET D : Cardinality(s) <= Cardinality(D)
  BY Zenon, FS_Subset
<1>7. IsFold(f, g, D)
  BY Zenon, <1>5, <1>6 DEF IsFold
<1> QED
  BY Zenon, <1>7

Alike(f, g, D) == \A x \in D : f[x] = g[x]

(* Two folds agree on the sets they share, if their functions do.          *)
LEMMA FoldsAgree ==
  ASSUME NEW D, IsFiniteSet(D), NEW E, E \subseteq D, NEW f, NEW e, Alike(e, f, E),
         NEW g, IsFold(f, g, D), NEW h, IsFold(e, h, E)
  PROVE  Alike(h, g, SUBSET E)
<1> USE DEF Alike
<1> DEFINE T == {n \in Nat : \A s \in SUBSET E : Cardinality(s) = n => h[s] = g[s]}
<1>1. \A s \in SUBSET E : /\ h[s] = Round(e, h, s) /\ g[s] = Round(f, g, s)
                          /\ Cardinality(s) \in Nat /\ (Cardinality(s) = 0 => s = {})
  BY Zenon, FS_Subset, FS_CardinalityType, FS_EmptySet DEF IsFold
<1>2. 0 \in T
  BY Zenon, <1>1 DEF Round
<1>3. ASSUME NEW n \in T PROVE n + 1 \in T
  <2> SUFFICES ASSUME NEW s \in SUBSET E, Cardinality(s) = n + 1 PROVE h[s] = g[s]
    OBVIOUS
  <2>1. CASE s = {}
    BY Zenon, <1>1, <2>1 DEF Round
  <2>2. CASE s # {}
    <3>1. Picked(s) \in s /\ s \ {Picked(s)} \in SUBSET E /\ Cardinality(s \ {Picked(s)}) = Cardinality(s) - 1
      BY Zenon, <2>2, PickedIn, Smaller, FS_Subset
    <3>2. Cardinality(s \ {Picked(s)}) = n
      BY <3>1
    <3>3. h[s \ {Picked(s)}] = g[s \ {Picked(s)}] /\ e[Picked(s)] = f[Picked(s)]
      BY Zenon, <3>1, <3>2
    <3> QED
      BY <1>1, <2>2, <3>3 DEF Round
  <2> QED
    BY Zenon, <2>1, <2>2
<1>4. T = Nat
  BY Zenon, <1>2, <1>3, ReachesAll
<1> QED
  BY Zenon, <1>1, <1>4

RemovesAny(f, g, D) == \A s \in SUBSET D : \A x \in s : g[s] = f[x] + g[s \ {x}]

(* Any element may be taken first.                                         *)
LEMMA AnyFirst ==
  ASSUME NEW D, IsFiniteSet(D), NEW f \in [D -> Nat], NEW g \in [SUBSET D -> Nat], IsFold(f, g, D)
  PROVE  RemovesAny(f, g, D)
<1> USE DEF RemovesAny
<1> DEFINE Any(s) == \A x \in s : g[s] = f[x] + g[s \ {x}]
           T == {n \in Nat : \A s \in SUBSET D : Cardinality(s) = n => Any(s)}
<1>1. \A s \in SUBSET D : Cardinality(s) \in Nat /\ (Cardinality(s) = 0 => s = {})
  BY Zenon, FS_Subset, FS_CardinalityType, FS_EmptySet
<1>2. 0 \in T
  BY Zenon, <1>1
<1>3. ASSUME NEW n \in T PROVE n + 1 \in T
  <2> SUFFICES ASSUME NEW s \in SUBSET D, Cardinality(s) = n + 1, NEW x \in s
               PROVE  g[s] = f[x] + g[s \ {x}]
    OBVIOUS
  <2> DEFINE y == Picked(s)
  <2>1. y \in s /\ g[s] = f[y] + g[s \ {y}]
    BY Zenon, PickedIn DEF IsFold, Round
  <2> HIDE DEF y
  <2>2. CASE x = y
    BY Zenon, <2>1, <2>2
  <2>3. CASE x # y
    <3>1. /\ s \ {x} \in SUBSET D /\ Cardinality(s \ {x}) = n
          /\ s \ {y} \in SUBSET D /\ Cardinality(s \ {y}) = n
      BY <2>1, Smaller
    <3>2. Any(s \ {x}) /\ Any(s \ {y})
      BY Zenon, <3>1
    <3>3. /\ g[s \ {x}] = f[y] + g[(s \ {x}) \ {y}]
          /\ g[s \ {y}] = f[x] + g[(s \ {y}) \ {x}]
          /\ (s \ {x}) \ {y} = (s \ {y}) \ {x}
      BY Zenon, <2>1, <2>3, <3>2
    <3> DEFINE rest == g[(s \ {x}) \ {y}]
    <3>4. f[x] \in Nat /\ f[y] \in Nat /\ rest \in Nat
      BY Zenon, <2>1
    <3>5. g[s] = f[y] + g[s \ {y}] /\ g[s \ {x}] = f[y] + rest /\ g[s \ {y}] = f[x] + rest
      BY <2>1, <3>3, Zenon
    <3> HIDE DEF rest
    <3> QED
      BY ONLY <3>4, <3>5
  <2> QED
    BY Zenon, <2>2, <2>3
<1>4. T = Nat
  BY Zenon, <1>2, <1>3, ReachesAll
<1> QED
  BY Zenon, <1>1, <1>4

(* A finite function to numbers.                                           *)
Amounts(f) == IsFiniteSet(DOMAIN f) /\ f \in [DOMAIN f -> Nat]

(* Every solution of the recursion gives the sum.                          *)
LEMMA SumOfFold ==
  ASSUME NEW f, Amounts(f), NEW g \in [SUBSET DOMAIN f -> Nat], IsFold(f, g, DOMAIN f)
  PROVE  SumFunction(f) = g[DOMAIN f]
<1> DEFINE h == CHOOSE c : IsFold(f, c, DOMAIN f)
<1>1. IsFold(f, h, DOMAIN f)
  BY Zenon
<1> HIDE DEF h
<1>2. h[DOMAIN f] = g[DOMAIN f]
  <2>1. IsFiniteSet(DOMAIN f) /\ DOMAIN f \subseteq DOMAIN f /\ Alike(f, f, DOMAIN f)
    BY Zenon DEF Amounts, Alike
  <2>2. Alike(h, g, SUBSET DOMAIN f)
    BY <1>1, <2>1, FoldsAgree, Zenon
  <2> QED
    BY <2>2, Zenon DEF Alike
<1> QED
  BY Zenon, <1>2, SumIsFold DEF h

Removed(f, j) == [x \in DOMAIN f \ {j} |-> f[x]]

(* An element taken out of the domain takes its value out of the sum.      *)
LEMMA SumRemoved ==
  ASSUME NEW f, Amounts(f), NEW j \in DOMAIN f
  PROVE  /\ Amounts(Removed(f, j)) /\ SumFunction(Removed(f, j)) \in Nat
         /\ SumFunction(f) = f[j] + SumFunction(Removed(f, j))
<1> DEFINE D == DOMAIN f
           e == Removed(f, j)
           E == D \ {j}
<1>1. DOMAIN e = E /\ E \subseteq D /\ e \in [E -> Nat] /\ Alike(e, f, E)
  BY Zenon DEF Removed, Amounts, Alike
<1>2. IsFiniteSet(D) /\ f \in [D -> Nat]
  BY Zenon DEF Amounts
<1>3. IsFiniteSet(E)
  BY Zenon, <1>2, FS_Subset
<1>4. PICK g \in [SUBSET D -> Nat] : IsFold(f, g, D)
  BY Zenon, <1>2, FoldExists
<1>5. PICK h \in [SUBSET E -> Nat] : IsFold(e, h, E)
  BY Zenon, <1>1, <1>3, FoldExists
<1>6. h[E] = g[E]
  <2>1. Alike(h, g, SUBSET E)
    BY <1>1, <1>2, <1>4, <1>5, FoldsAgree, Zenon
  <2> QED
    BY <2>1, Zenon DEF Alike
<1>7. SumFunction(f) = g[D]
  BY Zenon, <1>4, SumOfFold
<1>8. Amounts(e)
  BY Zenon, <1>1, <1>3 DEF Amounts
<1>9. SumFunction(e) = h[E]
  BY Zenon, <1>1, <1>5, <1>8, SumOfFold
<1>10. g[D] = f[j] + g[D \ {j}]
  <2>1. RemovesAny(f, g, D)
    BY <1>2, <1>4, AnyFirst, Zenon
  <2>2. D \in SUBSET D /\ j \in D
    BY Zenon
  <2> QED
    BY <2>1, <2>2, Zenon DEF RemovesAny
<1> QED
  BY Zenon, <1>5, <1>6, <1>7, <1>8, <1>9, <1>10

(* Nothing sums up to 0.                                                   *)
LEMMA SumEmpty == SumFunction([j \in {} |-> 0]) = 0
<1> DEFINE f == [j \in {} |-> 0]
<1>1. DOMAIN f = {} /\ Amounts(f)
  BY Zenon, FS_EmptySet DEF Amounts
<1>2. PICK g \in [SUBSET DOMAIN f -> Nat] : IsFold(f, g, DOMAIN f)
  BY Zenon, <1>1, FoldExists DEF Amounts
<1>3. g[{}] = 0
  BY Zenon, <1>1, <1>2 DEF IsFold, Round
<1> QED
  BY Zenon, <1>1, <1>2, <1>3, SumOfFold

(* Numbers sum up to a number.                                             *)
LEMMA SumIsNat == ASSUME NEW f, Amounts(f) PROVE SumFunction(f) \in Nat
<1>1. PICK g \in [SUBSET DOMAIN f -> Nat] : IsFold(f, g, DOMAIN f)
  BY Zenon, FoldExists DEF Amounts
<1>2. SumFunction(f) = g[DOMAIN f]
  BY Zenon, <1>1, SumOfFold
<1> QED
  BY Zenon, <1>2

Inserted(f, j, v) == [x \in DOMAIN f \cup {j} |-> IF x = j THEN v ELSE f[x]]

(* The sum after one value is set, whether it was there before or not.     *)
LEMMA SumInserted ==
  ASSUME NEW f, Amounts(f), NEW j, NEW v \in Nat
  PROVE  /\ Amounts(Inserted(f, j, v))
         /\ j \notin DOMAIN f => SumFunction(Inserted(f, j, v)) = v + SumFunction(f)
         /\ j \in DOMAIN f => SumFunction(Inserted(f, j, v)) + f[j] = v + SumFunction(f)
<1> DEFINE e == Inserted(f, j, v)
<1>1. DOMAIN e = DOMAIN f \cup {j} /\ e \in [DOMAIN e -> Nat] /\ e[j] = v
  BY Zenon DEF Inserted, Amounts
<1>2. Amounts(e)
  BY Zenon, <1>1, FS_AddElement DEF Amounts
<1>3. SumFunction(e) = v + SumFunction(Removed(e, j)) /\ SumFunction(Removed(e, j)) \in Nat
  BY Zenon, <1>1, <1>2, SumRemoved
<1>4. CASE j \notin DOMAIN f
  <2>1. DOMAIN f = (DOMAIN f \cup {j}) \ {j}
    BY Zenon, <1>4
  <2>2. Removed(e, j) = f
    BY Zenon, <1>1, <2>1 DEF Removed, Inserted, Amounts
  <2> QED
    BY Zenon, <1>2, <1>3, <1>4, <2>2
<1>5. CASE j \in DOMAIN f
  <2>1. Removed(e, j) = Removed(f, j)
    BY Zenon, <1>1, <1>5 DEF Removed, Inserted
  <2>2. SumFunction(f) = f[j] + SumFunction(Removed(f, j)) /\ f[j] \in Nat
    BY Zenon, <1>5, SumRemoved DEF Amounts
  <2>3. SumFunction(e) = v + SumFunction(Removed(f, j)) /\ SumFunction(Removed(f, j)) \in Nat
    BY Zenon, <1>3, <2>1
  <2>4. SumFunction(e) + f[j] = v + SumFunction(f)
    BY ONLY <2>2, <2>3, v \in Nat
  <2> QED
    BY Zenon, <1>2, <1>5, <2>4
<1> QED
  BY Zenon, <1>4, <1>5

Part(f, S) == [x \in S |-> f[x]]

(* Part of the domain sums up to no more than the whole.                   *)
LEMMA SumOfPart ==
  ASSUME NEW f, Amounts(f), NEW S \in SUBSET DOMAIN f
  PROVE  Amounts(Part(f, S)) /\ SumFunction(Part(f, S)) <= SumFunction(f)
<1> DEFINE D == DOMAIN f
           T == {n \in Nat : \A R \in SUBSET D : S \subseteq R /\ Cardinality(R \ S) = n
                                => SumFunction(Part(f, S)) <= SumFunction(Part(f, R))}
<1>1. ASSUME NEW R \in SUBSET D
      PROVE  /\ Amounts(Part(f, R)) /\ SumFunction(Part(f, R)) \in Nat
             /\ IsFiniteSet(R \ S) /\ Cardinality(R \ S) \in Nat
  <2>1. Amounts(Part(f, R))
    BY Zenon, FS_Subset DEF Amounts, Part
  <2>2. IsFiniteSet(R \ S)
    BY Zenon, FS_Subset DEF Amounts
  <2> QED
    BY Zenon, <2>1, <2>2, SumIsNat, FS_CardinalityType
<1>2. 0 \in T
  <2> SUFFICES ASSUME NEW R \in SUBSET D, S \subseteq R, Cardinality(R \ S) = 0
               PROVE  SumFunction(Part(f, S)) <= SumFunction(Part(f, R))
    BY Zenon
  <2>1. R = S
    BY Zenon, <1>1, FS_EmptySet
  <2> QED
    BY <1>1, <2>1
<1>3. ASSUME NEW n \in T PROVE n + 1 \in T
  <2> SUFFICES ASSUME NEW R \in SUBSET D, S \subseteq R, Cardinality(R \ S) = n + 1
               PROVE  SumFunction(Part(f, S)) <= SumFunction(Part(f, R))
    OBVIOUS
  <2>1. PICK j : j \in R \ S
    BY <1>1, FS_EmptySet
  <2>2. R \ {j} \in SUBSET D /\ S \subseteq R \ {j} /\ (R \ {j}) \ S = (R \ S) \ {j}
    BY Zenon, <2>1
  <2>3. Cardinality((R \ {j}) \ S) = n
    <3>1. Cardinality((R \ S) \ {j}) = Cardinality(R \ S) - 1
      BY Zenon, <1>1, <2>1, FS_RemoveElement
    <3>2. n \in Nat /\ Cardinality(R \ S) = n + 1
      BY Zenon
    <3> QED
      BY ONLY <2>2, <3>1, <3>2
  <2>4. SumFunction(Part(f, S)) <= SumFunction(Part(f, R \ {j}))
    BY Zenon, <2>2, <2>3
  <2>5. DOMAIN Part(f, R) = R /\ Part(f, R)[j] = f[j] /\ f[j] \in Nat /\ j \in R
    BY Zenon, <2>1 DEF Part, Amounts
  <2>6. Removed(Part(f, R), j) = Part(f, R \ {j})
    BY Zenon, <2>5 DEF Removed, Part
  <2>7. SumFunction(Part(f, R)) = f[j] + SumFunction(Part(f, R \ {j}))
    BY Zenon, <1>1, <2>5, <2>6, SumRemoved
  <2>8. SumFunction(Part(f, S)) \in Nat /\ SumFunction(Part(f, R \ {j})) \in Nat
    BY Zenon, <1>1, <2>2
  <2> QED
    BY ONLY <2>4, <2>5, <2>7, <2>8
<1>4. T = Nat
  BY Zenon, <1>2, <1>3, ReachesAll
<1>5. SumFunction(Part(f, S)) <= SumFunction(Part(f, D))
  BY Zenon, <1>1, <1>4
<1>6. Part(f, D) = f
  BY Zenon DEF Part, Amounts
<1> QED
  BY Zenon, <1>1, <1>5, <1>6

-----------------------------------------------------------------------------
(* Locked stake.  A lock outlasts the period of the vote it is for, so the *)
(* stake counted beyond an epoch is locked beyond it, for the current      *)
(* epoch and each one to come (Covered).                                   *)

\* What the votes of a proposal may be: none before the vote opens.
Ballot(p) ==
    /\ p.voting_start_epoch \in Nat
    /\ IsFiniteSet(p.votes)
    /\ \A v \in p.votes : v.stake \in Nat
    /\ p.status = "Pending" => p.votes = {}

Covered(a, e) == SumFunction(Stakes(Counted(a, e))) <= SumFunction(After(locked_stakes[a], e))

StakeInv ==
    /\ current_epoch \in Nat
    /\ IsFiniteSet(DOMAIN proposals)
    /\ \A id \in DOMAIN proposals : Ballot(proposals[id])
    /\ DOMAIN locked_stakes = Account
    /\ \A a \in Account : Amounts(locked_stakes[a]) /\ DOMAIN locked_stakes[a] \subseteq Nat
    /\ \A a \in Account : \A e \in Nat : current_epoch <= e => Covered(a, e)

\* The votes of account a on proposal id with record p that count beyond e.
CountedOn(id, p, a, e) ==
    IF p.status = "Voting" /\ e < voting_end(p) THEN {id} \X {v \in p.votes : v.voter_id = a} ELSE {}

LEMMA CountedByProposal ==
    ASSUME NEW a, NEW e, NEW x
    PROVE  x \in Counted(a, e) <=> \E id \in DOMAIN proposals : x \in CountedOn(id, proposals[id], a, e)
BY Zenon DEF Counted, CountedOn

LEMMA CountedNames ==
    ASSUME NEW id, NEW p, NEW a, NEW e, NEW x \in CountedOn(id, p, a, e)
    PROVE  x = <<id, x[2]>> /\ x[1] = id /\ x[2] \in p.votes
BY DEF CountedOn

\* One proposal changes: the votes on the others count as before.
LEMMA CountedAfterPut ==
    ASSUME NEW id, NEW p, proposals' = Put(proposals, id, p), NEW a, NEW e, NEW x
    PROVE  x \in Counted(a, e)' <=>
               \/ x \in CountedOn(id, p, a, e)
               \/ x \in Counted(a, e) /\ x[1] # id
<1>1. /\ DOMAIN proposals' = DOMAIN proposals \cup {id} /\ proposals'[id] = p
      /\ \A k \in DOMAIN proposals : k # id => proposals'[k] = proposals[k]
  BY Zenon DEF Put
<1>2. x \in Counted(a, e)' <=> \E k \in DOMAIN proposals' : x \in CountedOn(k, proposals'[k], a, e)
  BY Zenon DEF Counted, CountedOn
<1>3. x \in Counted(a, e) <=> \E k \in DOMAIN proposals : x \in CountedOn(k, proposals[k], a, e)
  BY Zenon, CountedByProposal
<1>4. \A k, q : x \in CountedOn(k, q, a, e) => x[1] = k
  BY Zenon, CountedNames
<1> QED
  BY ONLY Zenon, <1>1, <1>2, <1>3, <1>4

\* Finitely many votes count, with stakes that are numbers.
LEMMA CountedAmounts ==
    ASSUME IsFiniteSet(DOMAIN proposals), \A id \in DOMAIN proposals : Ballot(proposals[id]),
           NEW a, NEW e
    PROVE  Amounts(Stakes(Counted(a, e)))
<1> DEFINE K == {k \in DOMAIN proposals : proposals[k].status = "Voting" /\ e < voting_end(proposals[k])}
           V(id) == {id} \X {v \in proposals[id].votes : v.voter_id = a}
           f == [id \in K |-> V(id)]
           S == {f[id] : id \in K}
<1>1. IsFiniteSet(K)
  BY Zenon, FS_Subset
<1>2. IsFiniteSet(S)
  <2>1. f \in Surjection(K, S)
    BY Zenon DEF Surjection
  <2> HIDE DEF K, f, S
  <2> QED
    BY Zenon, <1>1, <2>1, FS_Surjection
<1>3. \A T \in S : IsFiniteSet(T)
  <2> SUFFICES ASSUME NEW id \in K PROVE IsFiniteSet(V(id))
    BY Zenon
  <2>1. IsFiniteSet({v \in proposals[id].votes : v.voter_id = a})
    BY Zenon, FS_Subset DEF Ballot
  <2>2. IsFiniteSet({id})
    BY Zenon, FS_Singleton
  <2> QED
    BY Zenon, <2>1, <2>2, FS_Product
<1>4. IsFiniteSet(UNION S)
  <2> HIDE DEF S
  <2> QED
    BY Zenon, <1>2, <1>3, FS_UNION
<1>5. Counted(a, e) = UNION S
  BY Zenon DEF Counted
<1>6. \A x \in Counted(a, e) : x[2].stake \in Nat
  BY CountedByProposal, CountedNames DEF Ballot
<1> QED
  BY Zenon, <1>4, <1>5, <1>6 DEF Amounts, Stakes

\* The locks that outlast an epoch are some of the locks.
LEMMA AfterAmounts ==
    ASSUME NEW locks, Amounts(locks), NEW e
    PROVE  Amounts(After(locks, e)) /\ After(locks, e) = Part(locks, {u \in DOMAIN locks : u > e})
<1>1. {u \in DOMAIN locks : u > e} \in SUBSET DOMAIN locks
  BY Zenon
<1>2. After(locks, e) = Part(locks, {u \in DOMAIN locks : u > e})
  BY Zenon DEF After, Part
<1> QED
  BY Zenon, <1>1, <1>2, SumOfPart

\* Fewer votes count, or the same, and the locks stay: the stake stays covered.
LEMMA FewerCounted ==
    ASSUME StakeInv, UNCHANGED <<locked_stakes, current_epoch>>, NEW a \in Account, NEW e \in Nat,
           current_epoch <= e, Counted(a, e)' \subseteq Counted(a, e)
    PROVE  Covered(a, e)'
<1> DEFINE f == Stakes(Counted(a, e))
           S == Counted(a, e)'
<1>1. Amounts(f) /\ S \in SUBSET DOMAIN f
  BY Zenon, CountedAmounts DEF StakeInv, Stakes
<1>2. Stakes(S) = Part(f, S)
  BY Zenon DEF Stakes, Part
<1>3. SumFunction(Stakes(S)) <= SumFunction(f)
  BY Zenon, <1>1, <1>2, SumOfPart
<1>4. SumFunction(f) <= SumFunction(After(locked_stakes[a], e))
  BY Zenon DEF StakeInv, Covered
<1>5. /\ SumFunction(f) \in Nat /\ SumFunction(Stakes(S)) \in Nat
      /\ SumFunction(After(locked_stakes[a], e)) \in Nat
  BY Zenon, <1>1, <1>2, SumOfPart, SumIsNat, AfterAmounts DEF StakeInv
<1>6. Covered(a, e)' <=> SumFunction(Stakes(S)) <= SumFunction(After(locked_stakes[a], e))
  BY Zenon DEF Covered, Stakes
<1> HIDE DEF f, S
<1> QED
  BY ONLY <1>3, <1>4, <1>5, <1>6

\* A step that replaces one proposal by one with no counted votes.
LEMMA NothingCountedOn ==
    ASSUME StakeInv, NEW id, NEW p, proposals' = Put(proposals, id, p), Ballot(p),
           UNCHANGED <<locked_stakes, current_epoch>>,
           \A a \in Account : \A e \in Nat : current_epoch <= e => CountedOn(id, p, a, e) = {}
    PROVE  StakeInv'
<1>1. /\ DOMAIN proposals' = DOMAIN proposals \cup {id} /\ proposals'[id] = p
      /\ \A k \in DOMAIN proposals : k # id => proposals'[k] = proposals[k]
  BY Zenon DEF Put
<1>2. IsFiniteSet(DOMAIN proposals')
  BY <1>1, FS_AddElement DEF StakeInv
<1>3. \A k \in DOMAIN proposals' : Ballot(proposals'[k])
  BY Zenon, <1>1 DEF StakeInv
<1>4. ASSUME NEW a \in Account, NEW e \in Nat, current_epoch <= e PROVE Covered(a, e)'
  BY Zenon, <1>4, CountedAfterPut, FewerCounted
<1> QED
  BY Zenon, <1>2, <1>3, <1>4 DEF StakeInv, Ballot

\* A new lock adds its stake to what is locked beyond every epoch before its
\* end, and takes nothing away.
LEMMA LockAdds ==
    ASSUME NEW locks, Amounts(locks), DOMAIN locks \subseteq Nat, NEW u \in Nat, NEW s \in Nat, NEW e \in Nat
    PROVE  /\ Amounts(add_lock(locks, u, s)) /\ DOMAIN add_lock(locks, u, s) \subseteq Nat
           /\ SumFunction(After(add_lock(locks, u, s), e)) =
                 SumFunction(After(locks, e)) + IF u > e THEN s ELSE 0
<1> DEFINE v == s + IF u \in DOMAIN locks THEN locks[u] ELSE 0
           new == add_lock(locks, u, s)
           old == After(locks, e)
<1>1. v \in Nat
  BY DEF Amounts
<1>2. new = Inserted(locks, u, v)
  BY Zenon DEF add_lock, Put, Inserted
<1>3. Amounts(new) /\ DOMAIN new = DOMAIN locks \cup {u}
  BY <1>1, <1>2, SumInserted DEF Inserted
<1>4. Amounts(old) /\ SumFunction(old) \in Nat
  BY Zenon, AfterAmounts, SumIsNat
<1>5. CASE u > e
  <2>1. After(new, e) = Inserted(old, u, v)
    BY Zenon, <1>2, <1>5 DEF After, Inserted
  <2>2. u \in DOMAIN old <=> u \in DOMAIN locks
    BY Zenon, <1>5 DEF After
  <2>3. CASE u \in DOMAIN locks
    <3>1. v = s + locks[u] /\ old[u] = locks[u] /\ locks[u] \in Nat
      BY Zenon, <1>5, <2>3 DEF After, Amounts
    <3>2. SumFunction(After(new, e)) + old[u] = v + SumFunction(old)
      BY <1>1, <1>4, <2>1, <2>2, <2>3, SumInserted
    <3>3. SumFunction(After(new, e)) \in Nat
      BY Zenon, <1>3, AfterAmounts, SumIsNat
    <3> HIDE DEF v, new, old
    <3>4. SumFunction(After(new, e)) = SumFunction(old) + s
      BY ONLY <1>4, <3>1, <3>2, <3>3, s \in Nat
    <3> QED
      BY Zenon, <1>3, <1>5, <3>4 DEF new, old
  <2>4. CASE u \notin DOMAIN locks
    <3>1. v = s
      BY <2>4
    <3>2. SumFunction(After(new, e)) = v + SumFunction(old)
      BY <1>1, <1>4, <2>1, <2>2, <2>4, SumInserted
    <3> HIDE DEF v, new, old
    <3>3. SumFunction(After(new, e)) = SumFunction(old) + s
      BY ONLY <1>4, <3>1, <3>2, s \in Nat
    <3> QED
      BY Zenon, <1>3, <1>5, <3>3 DEF new, old
  <2> QED
    BY Zenon, <2>3, <2>4
<1>6. CASE ~(u > e)
  <2>1. After(new, e) = old
    BY Zenon, <1>2, <1>6 DEF After, Inserted
  <2> QED
    BY <1>3, <1>4, <1>6, <2>1
<1> QED
  BY Zenon, <1>5, <1>6

\* Every lock period is a number of epochs.
LEMMA LockIsNat == \A c \in 0 .. 6 : lock_period(c) \in Nat
<1> SUFFICES ASSUME NEW c \in 0 .. 6 PROVE lock_period(c) \in Nat
  BY Zenon
<1>1. c \in {0, 1, 2, 3, 4, 5, 6}
  OBVIOUS
<1> QED
  BY <1>1 DEF lock_period

\* A vote locks what it adds, at least until the period it counts in is over.
LEMMA VoteIsCovered ==
    ASSUME StakeInv, NEW id \in DOMAIN proposals, NEW voter \in Account, NEW d, NEW s \in Nat,
           NEW c \in 0 .. 6, vote(id, voter, d, s, c)
    PROVE  StakeInv'
<1> DEFINE p == proposals[id]
           v == [voter_id |-> voter, direction |-> d, stake |-> s, conviction |-> c]
           q == [type |-> p.type, status |-> p.status, voting_start_epoch |-> p.voting_start_epoch,
                 seconds |-> p.seconds, votes |-> p.votes \cup {v},
                 total_eligible_stake |-> p.total_eligible_stake]
           u == unlock_epoch(p, c)
<1>1. /\ proposals' = Put(proposals, id, q) /\ current_epoch' = current_epoch
      /\ locked_stakes' = [locked_stakes EXCEPT ![voter] = add_lock(@, u, s)]
      /\ p.status = "Voting" /\ \A w \in p.votes : w.voter_id # voter
  BY Zenon DEF vote, accepts_vote
<1>2. v.voter_id = voter /\ v.stake = s /\ v \notin p.votes
  BY ONLY Zenon, <1>1
<1>3. /\ q.votes = p.votes \cup {v} /\ q.status = "Voting" /\ voting_end(q) = voting_end(p)
      /\ q.voting_start_epoch = p.voting_start_epoch
  BY ONLY Zenon, <1>1 DEF voting_end
<1>4. Ballot(p)
  BY Zenon DEF StakeInv
<1>5. voting_end(p) \in Nat /\ u \in Nat /\ u >= voting_end(p)
  <2>1. voting_end(p) \in Nat /\ lock_period(c) \in Nat
    BY ONLY <1>4, LockIsNat, PeriodIsPositive, c \in 0 .. 6 DEF voting_end, Ballot
  <2> QED
    BY ONLY <2>1 DEF unlock_epoch
<1> HIDE DEF p, v, q, u
<1>6. Ballot(q)
  BY ONLY <1>2, <1>3, <1>4, s \in Nat, FS_AddElement DEF Ballot
<1>7. /\ DOMAIN proposals' = DOMAIN proposals \cup {id} /\ proposals'[id] = q
      /\ \A k \in DOMAIN proposals : k # id => proposals'[k] = proposals[k]
  BY Zenon, <1>1 DEF Put
<1>8. IsFiniteSet(DOMAIN proposals') /\ \A k \in DOMAIN proposals' : Ballot(proposals'[k])
  BY Zenon, <1>6, <1>7, FS_AddElement DEF StakeInv
<1>9. \A a \in Account : Amounts(locked_stakes[a]) /\ DOMAIN locked_stakes[a] \subseteq Nat
  BY Zenon DEF StakeInv
<1>10. /\ DOMAIN locked_stakes' = Account /\ locked_stakes'[voter] = add_lock(locked_stakes[voter], u, s)
       /\ \A a \in Account : a # voter => locked_stakes'[a] = locked_stakes[a]
  BY Zenon, <1>1 DEF StakeInv
<1>11. \A a \in Account : Amounts(locked_stakes'[a]) /\ DOMAIN locked_stakes'[a] \subseteq Nat
  <2>1. Amounts(locked_stakes'[voter]) /\ DOMAIN locked_stakes'[voter] \subseteq Nat
    BY Zenon, <1>5, <1>9, <1>10, LockAdds
  <2> QED
    BY Zenon, <1>9, <1>10, <2>1
<1>12. ASSUME NEW a \in Account, NEW e \in Nat, current_epoch <= e PROVE Covered(a, e)'
  <2> DEFINE f == Stakes(Counted(a, e))
             g == Stakes(Counted(a, e)')
             old == SumFunction(After(locked_stakes[a], e))
             new == SumFunction(After(locked_stakes'[a], e))
  <2>1. Amounts(f) /\ SumFunction(f) \in Nat
    BY Zenon, CountedAmounts, SumIsNat DEF StakeInv
  <2>2. old \in Nat /\ SumFunction(f) <= old
    <3>1. old \in Nat
      BY ONLY Zenon, <1>9, a \in Account, AfterAmounts, SumIsNat
    <3>2. Covered(a, e)
      BY ONLY Zenon, StakeInv, a \in Account, e \in Nat, <1>12 DEF StakeInv
    <3> QED
      BY ONLY Zenon, <3>1, <3>2 DEF Covered
  <2>3. Covered(a, e)' <=> SumFunction(g) <= new
    BY Zenon DEF Covered, Stakes
  <2>4. \A x : x \in Counted(a, e)' <=> x \in CountedOn(id, q, a, e) \/ (x \in Counted(a, e) /\ x[1] # id)
    BY Zenon, <1>1, CountedAfterPut
  <2>5. \A x : x \in Counted(a, e) /\ x[1] = id <=> x \in CountedOn(id, p, a, e)
    <3>1. \A x, k, r : x \in CountedOn(k, r, a, e) => x[1] = k
      BY Zenon, CountedNames
    <3> QED
      BY Zenon, <3>1, CountedByProposal DEF p
  <2>6. CASE a = voter /\ e < voting_end(p)
    <3>1. CountedOn(id, q, a, e) = CountedOn(id, p, a, e) \cup {<<id, v>>}
      BY <1>1, <1>2, <1>3, <2>6 DEF CountedOn
    <3>2. Counted(a, e)' = Counted(a, e) \cup {<<id, v>>}
      BY Zenon, <2>4, <2>5, <3>1
    <3>3. <<id, v>> \notin Counted(a, e)
      BY <1>2, <2>5, CountedNames
    <3>4. g = Inserted(f, <<id, v>>, s)
      BY <1>2, <3>2 DEF Inserted, Stakes
    <3>5. SumFunction(g) = s + SumFunction(f)
      BY ONLY <2>1, <3>3, <3>4, s \in Nat, SumInserted DEF Stakes
    <3>6. new = old + s
      <4>1. u > e
        BY ONLY <1>5, <2>6, e \in Nat
      <4> QED
        BY <1>5, <1>9, <1>10, <2>6, <4>1, LockAdds
    <3> HIDE DEF f, g, old, new
    <3> QED
      BY ONLY <2>1, <2>2, <2>3, <3>5, <3>6, s \in Nat
  <2>7. CASE ~(a = voter /\ e < voting_end(p))
    <3>0. p.status = "Voting"
      BY ONLY Zenon, <1>1
    <3>1. CountedOn(id, q, a, e) = CountedOn(id, p, a, e)
      BY ONLY Zenon, <1>2, <1>3, <2>7, <3>0 DEF CountedOn
    <3>2. Counted(a, e)' = Counted(a, e)
      BY Zenon, <2>4, <2>5, <3>1
    <3>3. g = f
      BY Zenon, <3>2
    <3>4. new \in Nat /\ new >= old
      <4>1. CASE a # voter
        BY <1>10, <2>2, <4>1
      <4>2. CASE a = voter
        <5>1. new = old + (IF u > e THEN s ELSE 0)
          <6>1. Amounts(locked_stakes[voter]) /\ DOMAIN locked_stakes[voter] \subseteq Nat
            BY Zenon, <1>9
          <6>2. SumFunction(After(add_lock(locked_stakes[voter], u, s), e)) =
                  SumFunction(After(locked_stakes[voter], e)) + (IF u > e THEN s ELSE 0)
            BY ONLY Zenon, <1>5, <6>1, LockAdds, s \in Nat, e \in Nat
          <6> QED
            BY ONLY Zenon, <1>10, <4>2, <6>2
        <5> HIDE DEF old, new
        <5> QED
          BY ONLY <2>2, <5>1, s \in Nat
      <4> QED
        BY Zenon, <4>1, <4>2
    <3> HIDE DEF f, g, old, new
    <3> QED
      BY ONLY <2>1, <2>2, <2>3, <3>3, <3>4
  <2> QED
    BY Zenon, <2>6, <2>7
<1>13. /\ current_epoch' \in Nat
       /\ \A a \in Account : \A e \in Nat : current_epoch' <= e => Covered(a, e)'
  BY Zenon, <1>1, <1>12 DEF StakeInv
<1> QED
  BY ONLY Zenon, <1>8, <1>10, <1>11, <1>13 DEF StakeInv, Ballot

LEMMA StakeStep == StakeInv /\ [VotingNext]_voting_vars => StakeInv'
<1> SUFFICES ASSUME StakeInv, [VotingNext]_voting_vars PROVE StakeInv'
  BY Zenon
<1>1. CASE UNCHANGED <<proposals, locked_stakes, current_epoch>>
  <2>1. \A a \in Account : \A e \in Nat : Counted(a, e)' = Counted(a, e)
    BY ONLY Zenon, <1>1 DEF Counted, voting_end
  <2>2. \A a \in Account : \A e \in Nat : Covered(a, e)' <=> Covered(a, e)
    BY ONLY Zenon, <1>1, <2>1 DEF Covered, Stakes, After
  <2>3. \A k : Ballot(proposals'[k]) <=> Ballot(proposals[k])
    BY ONLY Zenon, <1>1 DEF Ballot
  <2> QED
    BY ONLY Zenon, <1>1, <2>2, <2>3, StakeInv DEF StakeInv
<1>2. CASE advance_epoch
  <2>1. /\ proposals' = proposals /\ current_epoch' = current_epoch + 1 /\ current_epoch \in Nat
        /\ locked_stakes' = [a \in Account |-> After(locked_stakes[a], current_epoch + 1)]
    BY Zenon, <1>2 DEF advance_epoch, StakeInv
  <2>2. ASSUME NEW a \in Account
        PROVE  /\ Amounts(locked_stakes'[a]) /\ DOMAIN locked_stakes'[a] \subseteq Nat
               /\ \A e \in Nat : current_epoch + 1 <= e => Covered(a, e)'
    <3>1. Amounts(locked_stakes[a]) /\ DOMAIN locked_stakes[a] \subseteq Nat
      BY Zenon DEF StakeInv
    <3>2. Amounts(locked_stakes'[a]) /\ DOMAIN locked_stakes'[a] \subseteq Nat
      BY Zenon, <2>1, <3>1, AfterAmounts DEF After
    <3>3. ASSUME NEW e \in Nat, current_epoch + 1 <= e PROVE Covered(a, e)'
      <4>1. Covered(a, e)
        BY <2>1, <3>3 DEF StakeInv
      <4>2. {k \in DOMAIN locked_stakes'[a] : k > e} = {k \in DOMAIN locked_stakes[a] : k > e}
        BY <2>1, <3>1, <3>3 DEF After
      <4>3. \A k \in DOMAIN locked_stakes'[a] : locked_stakes'[a][k] = locked_stakes[a][k]
        BY Zenon, <2>1 DEF After
      <4>4. After(locked_stakes'[a], e) = After(locked_stakes[a], e)
        BY ONLY Zenon, <4>2, <4>3 DEF After
      <4>5. Counted(a, e)' = Counted(a, e)
        BY Zenon, <2>1 DEF Counted, voting_end
      <4> QED
        BY ONLY Zenon, <4>1, <4>4, <4>5 DEF Covered, Stakes
    <3> QED
      BY Zenon, <3>2, <3>3
  <2>3. current_epoch' \in Nat /\ IsFiniteSet(DOMAIN proposals') /\ DOMAIN locked_stakes' = Account
    BY <2>1 DEF StakeInv
  <2>4. \A id \in DOMAIN proposals' : Ballot(proposals'[id])
    BY Zenon, <2>1 DEF StakeInv
  <2>5. \A a \in Account : \A e \in Nat : current_epoch' <= e => Covered(a, e)'
    BY Zenon, <2>1, <2>2
  <2> QED
    BY ONLY Zenon, <2>2, <2>3, <2>4, <2>5 DEF StakeInv, Ballot
<1>3. ASSUME NEW a \in Proposer, NEW t \in Title, NEW type \in Type, submit_proposal(a, t, type)
      PROVE  StakeInv'
  <2> DEFINE p == new_proposal(type, total_stake)
  <2>1. Ballot(p) /\ p.status = "Pending"
    BY Zenon, FS_EmptySet DEF new_proposal, Ballot
  <2>2. /\ proposals' = Put(proposals, proposal_id(a, t, current_epoch), p)
        /\ UNCHANGED <<locked_stakes, current_epoch>>
    BY Zenon, <1>3 DEF submit_proposal
  <2> HIDE DEF p
  <2>3. \A b \in Account : \A e \in Nat : CountedOn(proposal_id(a, t, current_epoch), p, b, e) = {}
    BY Zenon, <2>1 DEF CountedOn
  <2> QED
    BY Zenon, <2>1, <2>2, <2>3, NothingCountedOn
<1>4. ASSUME NEW id \in DOMAIN proposals, NEW a \in Account, second_proposal(id, a)
      PROVE  StakeInv'
  <2>1. Ballot(proposals[id]) /\ proposals[id].status = "Pending" /\ current_epoch \in Nat
    BY Zenon, <1>4 DEF StakeInv, second_proposal, CanSecond
  <2> DEFINE o == add_second(proposals[id], a)
             start == IF o.status = "Voting" /\ o.voting_start_epoch = 0
                         THEN current_epoch ELSE o.voting_start_epoch
             p == [type |-> o.type, status |-> o.status, voting_start_epoch |-> start,
                   seconds |-> o.seconds, votes |-> o.votes,
                   total_eligible_stake |-> o.total_eligible_stake]
  <2>2. /\ proposals' = Put(proposals, id, p) /\ p.votes = proposals[id].votes
        /\ p.voting_start_epoch \in {current_epoch, proposals[id].voting_start_epoch}
    <3>1. proposals' = Put(proposals, id, p)
      BY ONLY Zenon, <1>4 DEF second_proposal
    <3>2. o.votes = proposals[id].votes /\ o.voting_start_epoch = proposals[id].voting_start_epoch
      BY Zenon DEF add_second
    <3> HIDE DEF o
    <3> QED
      BY Zenon, <3>1, <3>2
  <2> HIDE DEF p
  <2>3. UNCHANGED <<locked_stakes, current_epoch>>
    BY Zenon, <1>4 DEF second_proposal
  <2>4. p.votes = {} /\ Ballot(p)
    BY Zenon, <2>1, <2>2 DEF Ballot
  <2>5. \A b \in Account : \A e \in Nat : CountedOn(id, p, b, e) = {}
    BY Zenon, <2>4 DEF CountedOn
  <2> QED
    BY Zenon, <2>2, <2>3, <2>4, <2>5, NothingCountedOn
<1>5. ASSUME NEW id \in DOMAIN proposals, NEW a \in Voter, NEW d \in Direction,
             NEW s \in Stake, NEW c \in Conviction, vote(id, a, d, s, c)
      PROVE  StakeInv'
  <2>1. a \in Account /\ s \in Nat /\ c \in 0 .. 6
    BY Zenon, AccountsAssumption, NumbersAssumption
  <2> QED
    BY Zenon, <1>5, <2>1, VoteIsCovered
<1>6. ASSUME NEW id \in DOMAIN proposals, finalize_proposal(id)
      PROVE  StakeInv'
  <2> DEFINE p == finalize(proposals[id])
  <2>1. /\ proposals' = Put(proposals, id, p) /\ UNCHANGED <<locked_stakes, current_epoch>>
        /\ Ballot(proposals[id])
    BY ONLY Zenon, <1>6, StakeInv DEF finalize_proposal, StakeInv
  <2>2. p.status \in {"Passed", "Rejected"} /\ Ballot(p)
    BY Zenon, <2>1 DEF finalize, Ballot
  <2> HIDE DEF p
  <2>3. \A b \in Account : \A e \in Nat : CountedOn(id, p, b, e) = {}
    BY Zenon, <2>2 DEF CountedOn
  <2> QED
    BY Zenon, <2>1, <2>2, <2>3, NothingCountedOn
<1>7. CASE set_total_stake \/ \E a \in Delegator :
               undelegate(a) \/ \E to \in Account, e \in Expiry : delegate(a, to, e)
  <2>1. UNCHANGED <<proposals, locked_stakes, current_epoch>>
    BY ONLY Zenon, <1>7 DEF set_total_stake, delegate, undelegate
  <2> QED
    BY ONLY Zenon, <1>1, <2>1
<1>8. CASE UNCHANGED voting_vars
  BY Zenon, <1>1, <1>8 DEF voting_vars
<1> QED
  BY ONLY Zenon, [VotingNext]_voting_vars, <1>2, <1>3, <1>4, <1>5, <1>6, <1>7, <1>8 DEF VotingNext

LEMMA StakeStarts == VotingInit => StakeInv
<1> SUFFICES ASSUME VotingInit PROVE StakeInv
  BY Zenon
<1>1. DOMAIN proposals = {} /\ locked_stakes = [a \in Account |-> << >>] /\ current_epoch = 0
  BY DEF VotingInit
<1>2. IsFiniteSet(DOMAIN proposals)
  BY Zenon, <1>1, FS_EmptySet
<1>3. ASSUME NEW a \in Account
      PROVE  Amounts(locked_stakes[a]) /\ DOMAIN locked_stakes[a] = {}
  BY <1>1, FS_EmptySet DEF Amounts
<1>4. ASSUME NEW a \in Account, NEW e \in Nat PROVE Covered(a, e)
  <2>1. Counted(a, e) = {}
    BY Zenon, <1>1 DEF Counted
  <2>2. Stakes(Counted(a, e)) = [j \in {} |-> 0] /\ After(locked_stakes[a], e) = [j \in {} |-> 0]
    BY Zenon, <1>3, <2>1 DEF Stakes, After
  <2> QED
    BY <2>2, SumEmpty DEF Covered
<1> QED
  BY Zenon, <1>1, <1>2, <1>3, <1>4 DEF StakeInv

\* For any accounts, stakes, convictions and proposals, and any order of the
\* calls, an account has locked at least the stake that its votes on running
\* proposals carry.
THEOREM VotesAreLocked == VotingSpec => []CountedStakeIsLocked
<1>1. StakeInv => CountedStakeIsLocked
  BY DEF StakeInv, Covered, CountedStakeIsLocked, get_locked_stake
<1> QED
  BY <1>1, StakeStarts, StakeStep, PTL DEF VotingSpec

-----------------------------------------------------------------------------
(* The compute market.                                                     *)

MarketType ==
  /\ balances \in [Holder -> Nat]
  /\ \A j \in DOMAIN open_jobs : open_jobs[j].requester_id \in Trader
  /\ bids \in [Job -> SUBSET Price]
  /\ DOMAIN escrow \subseteq Job /\ escrow \in [DOMAIN escrow -> Nat]
  /\ stranded \in Nat

MarketInv == MarketType /\ PoolHoldsEscrow

LEMMA EscrowAmounts == MarketType => Amounts(escrow)
BY Zenon, MarketAssumption, FS_Subset DEF MarketType, Amounts

LEMMA LowestBid == ASSUME NEW S \in SUBSET Nat, S # {} PROVE Min(S) \in S
<1> DEFINE R == OpToRel(<, Nat)
<1>1. PICK m \in S : \A n \in S : ~(<<n, m>> \in R)
  BY Zenon, WFMin, NatLessThanWellFounded
<1>2. ASSUME NEW n \in S PROVE m <= n
  <2>1. m \in Nat /\ n \in Nat /\ ~(<<n, m>> \in R)
    BY Zenon, <1>1
  <2>2. n < m => <<n, m>> \in R
    BY ONLY Zenon, <2>1 DEF OpToRel
  <2> HIDE DEF R
  <2> QED
    BY ONLY <2>1, <2>2
<1> QED
  BY Zenon, <1>1, <1>2 DEF Min

LEMMA MarketStep == MarketInv /\ [MarketNext]_marketVars => MarketInv'
<1> SUFFICES ASSUME MarketInv, [MarketNext]_marketVars PROVE MarketInv'
  BY Zenon
<1>1. /\ balances \in [Holder -> Nat] /\ stranded \in Nat /\ bids \in [Job -> SUBSET Price]
      /\ \A j \in DOMAIN open_jobs : open_jobs[j].requester_id \in Trader
      /\ balances[Pool] = SumFunction(escrow) + stranded
      /\ Amounts(escrow) /\ SumFunction(escrow) \in Nat
      /\ Pool \in Holder /\ Trader \subseteq Holder /\ Pool \notin Trader
  BY Zenon, EscrowAmounts, SumIsNat, MarketAssumption DEF MarketInv, MarketType, PoolHoldsEscrow, Holder
<1>2. Price \subseteq Nat
  BY MarketAssumption DEF Price
<1>3. ASSUME NEW a \in Trader, NEW amount \in Price, mint(a, amount) PROVE MarketInv'
  <2>1. balances' = [balances EXCEPT ![a] = @ + amount] /\ UNCHANGED <<open_jobs, bids, escrow, stranded>>
    BY Zenon, <1>3 DEF mint
  <2>2. balances' \in [Holder -> Nat] /\ balances'[Pool] = balances[Pool]
    BY <1>1, <1>2, <2>1
  <2> QED
    BY Zenon, <2>1, <2>2 DEF MarketInv, MarketType, PoolHoldsEscrow
<1>4. ASSUME NEW a \in Trader, NEW b \in Trader, NEW amount \in Price, transfer(a, b, amount) PROVE MarketInv'
  <2>1. /\ balances' = [[balances EXCEPT ![a] = @ - amount] EXCEPT ![b] = @ + amount]
        /\ balances[a] >= amount /\ UNCHANGED <<open_jobs, bids, escrow, stranded>>
    BY Zenon, <1>4 DEF transfer, Moved, CanTransfer
  <2>2. balances' \in [Holder -> Nat] /\ balances'[Pool] = balances[Pool]
    BY <1>1, <1>2, <2>1
  <2> QED
    BY Zenon, <2>1, <2>2 DEF MarketInv, MarketType, PoolHoldsEscrow
<1>5. ASSUME NEW j \in Job, NEW a \in Trader, NEW price \in Price, post_job(j, a, price) PROVE MarketInv'
  <2>1. /\ open_jobs' = With(open_jobs, j, [requester_id |-> a, max_price |-> price])
        /\ bids' = [bids EXCEPT ![j] = {}] /\ UNCHANGED <<balances, escrow, stranded>>
    BY Zenon, <1>5 DEF post_job
  <2>2. \A i \in DOMAIN open_jobs' : open_jobs'[i].requester_id \in Trader
    BY Zenon, <1>1, <2>1 DEF With
  <2>3. bids' \in [Job -> SUBSET Price]
    BY Zenon, <1>1, <2>1
  <2> QED
    BY Zenon, <2>1, <2>2, <2>3 DEF MarketInv, MarketType, PoolHoldsEscrow
<1>6. ASSUME NEW j \in Job, NEW price \in Price, submit_bid(j, price) PROVE MarketInv'
  <2>1. bids' = [bids EXCEPT ![j] = @ \cup {price}] /\ UNCHANGED <<balances, open_jobs, escrow, stranded>>
    BY Zenon, <1>6 DEF submit_bid
  <2>2. bids' \in [Job -> SUBSET Price]
    BY Zenon, <1>1, <2>1
  <2> QED
    BY Zenon, <2>1, <2>2 DEF MarketInv, MarketType, PoolHoldsEscrow
<1>7. ASSUME NEW j \in Job, match_job(j) PROVE MarketInv'
  <2> DEFINE v == Min(bids[j])
             r == open_jobs[j].requester_id
  <2>1. /\ balances' = [[balances EXCEPT ![r] = @ - v] EXCEPT ![Pool] = @ + v] /\ balances[r] >= v
        /\ escrow' = With(escrow, j, v)
        /\ stranded' = IF j \in DOMAIN escrow THEN stranded + escrow[j] ELSE stranded
        /\ open_jobs' = Without(open_jobs, j) /\ bids' = bids
        /\ j \in DOMAIN open_jobs /\ bids[j] # {}
    BY Zenon, <1>7 DEF match_job, Moved, CanTransfer
  <2>2. v \in Nat
    BY Zenon, <1>1, <1>2, <2>1, LowestBid
  <2>3. r \in Trader
    BY Zenon, <1>1, <2>1
  <2> HIDE DEF v, r
  <2>4. balances' \in [Holder -> Nat] /\ balances'[Pool] = balances[Pool] + v
    <3>1. r \in Holder /\ Pool \in Holder /\ r # Pool /\ balances \in [Holder -> Nat]
      BY Zenon, <1>1, <2>3
    <3>2. balances' = [[balances EXCEPT ![r] = @ - v] EXCEPT ![Pool] = @ + v] /\ balances[r] >= v
      BY Zenon, <2>1
    <3> QED
      BY ONLY <2>2, <3>1, <3>2
  <2>5. /\ Amounts(escrow')
        /\ j \notin DOMAIN escrow => SumFunction(escrow') = v + SumFunction(escrow)
        /\ j \in DOMAIN escrow => SumFunction(escrow') + escrow[j] = v + SumFunction(escrow)
    <3>1. escrow' = Inserted(escrow, j, v)
      BY Zenon, <2>1 DEF With, Inserted
    <3> QED
      BY Zenon, <1>1, <2>2, <3>1, SumInserted
  <2>6. SumFunction(escrow') \in Nat
    BY Zenon, <2>5, SumIsNat
  <2>7. stranded' \in Nat /\ balances'[Pool] = SumFunction(escrow') + stranded'
    <3>0. /\ stranded \in Nat /\ SumFunction(escrow) \in Nat
          /\ balances'[Pool] = SumFunction(escrow) + stranded + v
      BY ONLY Zenon, <1>1, <2>4
    <3>1. CASE j \in DOMAIN escrow
      <4>1. escrow[j] \in Nat
        BY Zenon, <1>1, <3>1 DEF Amounts
      <4>2. stranded' = stranded + escrow[j] /\ SumFunction(escrow') + escrow[j] = v + SumFunction(escrow)
        BY Zenon, <2>1, <2>5, <3>1
      <4> QED
        BY ONLY <2>2, <2>6, <3>0, <4>1, <4>2
    <3>2. CASE j \notin DOMAIN escrow
      <4>1. stranded' = stranded /\ SumFunction(escrow') = v + SumFunction(escrow)
        BY Zenon, <2>1, <2>5, <3>2
      <4> QED
        BY ONLY <2>2, <2>6, <3>0, <4>1
    <3> QED
      BY Zenon, <3>1, <3>2
  <2>8. DOMAIN escrow' \subseteq Job /\ escrow' \in [DOMAIN escrow' -> Nat]
    BY ONLY Zenon, <1>7, <2>1, <2>5, MarketInv DEF With, Amounts, MarketInv, MarketType
  <2>9. \A i \in DOMAIN open_jobs' : open_jobs'[i].requester_id \in Trader
    BY Zenon, <1>1, <2>1 DEF Without
  <2> QED
    BY ONLY Zenon, <1>1, <2>1, <2>4, <2>7, <2>8, <2>9 DEF MarketInv, MarketType, PoolHoldsEscrow
<1>8. ASSUME NEW j \in Job, NEW a \in Trader, complete_job(j, a) PROVE MarketInv'
  <2>1. /\ balances' = [[balances EXCEPT ![Pool] = @ - escrow[j]] EXCEPT ![a] = @ + escrow[j]]
        /\ balances[Pool] >= escrow[j] /\ j \in DOMAIN escrow
        /\ escrow' = Without(escrow, j) /\ UNCHANGED <<open_jobs, bids, stranded>>
    BY Zenon, <1>8 DEF complete_job, Moved, CanTransfer
  <2>2. escrow[j] \in Nat
    BY Zenon, <1>1, <2>1 DEF Amounts
  <2>3. balances' \in [Holder -> Nat] /\ balances'[Pool] = balances[Pool] - escrow[j]
    BY <1>1, <2>1, <2>2
  <2>4. Amounts(escrow') /\ SumFunction(escrow') \in Nat /\ SumFunction(escrow) = escrow[j] + SumFunction(escrow')
    BY Zenon, <1>1, <2>1, SumRemoved DEF Without, Removed
  <2>5. balances'[Pool] = SumFunction(escrow') + stranded'
    BY ONLY <1>1, <2>1, <2>2, <2>3, <2>4
  <2>6. DOMAIN escrow' \subseteq Job /\ escrow' \in [DOMAIN escrow' -> Nat]
    BY Zenon, <2>1, <2>4 DEF Without, Amounts, MarketInv, MarketType
  <2> QED
    BY Zenon, <1>1, <2>1, <2>3, <2>5, <2>6 DEF MarketInv, MarketType, PoolHoldsEscrow
<1>9. CASE UNCHANGED marketVars
  BY Zenon, <1>9 DEF marketVars, MarketInv, MarketType, PoolHoldsEscrow
<1> QED
  BY Zenon, <1>3, <1>4, <1>5, <1>6, <1>7, <1>8, <1>9 DEF MarketNext

LEMMA MarketStarts == MarketInit => MarketInv
<1> SUFFICES ASSUME MarketInit PROVE MarketInv
  BY Zenon
<1>1. /\ balances = [a \in Holder |-> 0] /\ bids = [j \in Job |-> {}] /\ stranded = 0
      /\ DOMAIN open_jobs = {} /\ escrow = [j \in {} |-> 0]
  BY Zenon DEF MarketInit
<1>2. SumFunction(escrow) = 0
  BY Zenon, <1>1, SumEmpty
<1>3. balances[Pool] = 0
  BY Zenon, <1>1 DEF Holder
<1>4. MarketType
  BY Zenon, <1>1 DEF MarketType
<1> QED
  BY <1>1, <1>2, <1>3, <1>4 DEF MarketInv, PoolHoldsEscrow

(* For any traders, jobs and prices, and any order of posts, bids, matches *)
(* and completions, the account ESCROW_POOL holds the sum of what the jobs *)
(* in execution are owed and what was locked for jobs matched twice.       *)
THEOREM EscrowIsCovered == MarketSpec => []PoolHoldsEscrow
<1>1. MarketInv => PoolHoldsEscrow
  BY Zenon DEF MarketInv
<1> QED
  BY <1>1, MarketStarts, MarketStep, PTL DEF MarketSpec

(* Accounts that hold nothing hold nothing together.                       *)
LEMMA SumOfZeros == ASSUME NEW D, IsFiniteSet(D) PROVE SumFunction([a \in D |-> 0]) = 0
<1> DEFINE f == [a \in D |-> 0]
           g == [s \in SUBSET D |-> 0]
<1>1. DOMAIN f = D /\ f \in [D -> {0}] /\ f \in [D -> Nat] /\ g \in [SUBSET D -> Nat]
  BY Zenon, 0 \in Nat
<1>2. ASSUME NEW s \in SUBSET D PROVE Round(f, g, s) = 0
  <2>1. CASE s = {}
    BY Zenon, <2>1 DEF Round
  <2>2. CASE s # {}
    <3>1. Picked(s) \in D /\ s \ {Picked(s)} \in SUBSET D
      BY Zenon, <2>2, PickedIn
    <3>2. f[Picked(s)] = 0 /\ g[s \ {Picked(s)}] = 0
      BY Zenon, <3>1
    <3>3. Round(f, g, s) = 0 + 0
      BY Zenon, <2>2, <3>2 DEF Round
    <3> QED
      BY ONLY SMT, <3>3
  <2> QED
    BY Zenon, <2>1, <2>2
<1>3. IsFold(f, g, D)
  BY Zenon, <1>2 DEF IsFold
<1>4. g[D] = 0
  BY Zenon
<1> HIDE DEF f, g
<1>5. SumFunction(f) = g[D]
  BY Zenon, <1>1, <1>3, SumOfFold DEF Amounts
<1> QED
  BY Zenon, <1>4, <1>5 DEF f

(* One balance set anew changes the sum by as much.                        *)
LEMMA SumChanged ==
  ASSUME NEW D, IsFiniteSet(D), NEW f \in [D -> Nat], NEW e \in [D -> Nat],
         NEW a \in D, \A x \in D \ {a} : e[x] = f[x]
  PROVE  /\ SumFunction(e) + f[a] = e[a] + SumFunction(f)
         /\ SumFunction(f) \in Nat /\ SumFunction(e) \in Nat
<1>1. Amounts(f) /\ DOMAIN f = D /\ e[a] \in Nat
  BY Zenon DEF Amounts
<1>2. e = Inserted(f, a, e[a])
  <2>1. D \cup {a} = D
    BY Zenon
  <2>2. e = [x \in D |-> IF x = a THEN e[a] ELSE f[x]]
    BY Zenon
  <2> QED
    BY Zenon, <1>1, <2>1, <2>2 DEF Inserted
<1>3. Amounts(e) /\ SumFunction(e) + f[a] = e[a] + SumFunction(f)
  BY Zenon, <1>1, <1>2, SumInserted
<1> QED
  BY Zenon, <1>1, <1>3, SumIsNat

Paid(f, a, b, v) == [[f EXCEPT ![a] = @ - v] EXCEPT ![b] = @ + v]

(* A transfer takes from one what it gives another, who may be the same.   *)
LEMMA MovedKeepsSum ==
  ASSUME NEW D, IsFiniteSet(D), NEW f \in [D -> Nat], NEW a \in D, NEW b \in D,
         NEW v \in Nat, f[a] >= v
  PROVE  SumFunction(Paid(f, a, b, v)) = SumFunction(f)
<1> DEFINE e == [f EXCEPT ![a] = f[a] - v]
           g == [e EXCEPT ![b] = e[b] + v]
<1>1. f[a] \in Nat /\ f[a] - v \in Nat
  <2>1. f[a] \in Nat
    BY Zenon
  <2> QED
    BY ONLY SMT, <2>1, v \in Nat, f[a] >= v
<1>2. e \in [D -> Nat] /\ e[a] = f[a] - v /\ \A x \in D \ {a} : e[x] = f[x]
  BY Zenon, <1>1
<1>3. Paid(f, a, b, v) = g
  BY Zenon DEF Paid
<1> HIDE DEF e
<1>4. e[b] \in Nat /\ e[b] + v \in Nat
  <2>1. e[b] \in Nat
    BY Zenon, <1>2
  <2> QED
    BY ONLY SMT, <2>1, v \in Nat
<1>5. g \in [D -> Nat] /\ g[b] = e[b] + v /\ \A x \in D \ {b} : g[x] = e[x]
  BY Zenon, <1>2, <1>4
<1> HIDE DEF g
<1>6. /\ SumFunction(e) + f[a] = e[a] + SumFunction(f)
      /\ SumFunction(f) \in Nat /\ SumFunction(e) \in Nat
  BY Zenon, <1>2, SumChanged
<1>7. SumFunction(g) + e[b] = g[b] + SumFunction(e) /\ SumFunction(g) \in Nat
  BY Zenon, <1>2, <1>5, SumChanged
<1>8. SumFunction(g) = SumFunction(f)
  <2>1. e[a] = f[a] - v /\ g[b] = e[b] + v
    BY Zenon, <1>2, <1>5
  <2> QED
    BY ONLY SMT, <1>1, <1>4, <1>6, <1>7, <2>1, v \in Nat
<1> QED
  BY Zenon, <1>3, <1>8

SupplyInv == MarketInv /\ minted \in Nat /\ SupplyIsMinted

LEMMA SupplyStarts == MarketInit => SupplyInv
<1> SUFFICES ASSUME MarketInit PROVE SupplyInv
  BY Zenon
<1>1. IsFiniteSet(Holder)
  BY Zenon, MarketAssumption, FS_AddElement DEF Holder
<1>2. balances = [a \in Holder |-> 0] /\ minted = 0
  BY Zenon DEF MarketInit
<1>3. SumFunction(balances) = 0
  BY Zenon, <1>1, <1>2, SumOfZeros
<1> QED
  BY Zenon, <1>2, <1>3, MarketStarts, 0 \in Nat DEF SupplyInv, SupplyIsMinted

LEMMA SupplyStep == SupplyInv /\ [MarketNext]_marketVars => SupplyInv'
<1> SUFFICES ASSUME SupplyInv, [MarketNext]_marketVars PROVE SupplyInv'
  BY Zenon
<1>1. /\ balances \in [Holder -> Nat] /\ bids \in [Job -> SUBSET Price]
      /\ \A j \in DOMAIN open_jobs : open_jobs[j].requester_id \in Trader
      /\ minted \in Nat /\ SumFunction(balances) = minted /\ Amounts(escrow)
      /\ Pool \in Holder /\ Trader \subseteq Holder /\ IsFiniteSet(Holder)
  BY Zenon, EscrowAmounts, MarketAssumption, FS_AddElement
  DEF SupplyInv, SupplyIsMinted, MarketInv, MarketType, Holder
<1>2. Price \subseteq Nat
  BY MarketAssumption DEF Price
<1>3. MarketInv'
  BY Zenon, MarketStep DEF SupplyInv
<1>4. ASSUME SumFunction(balances') = SumFunction(balances), minted' = minted PROVE SupplyInv'
  BY Zenon, <1>1, <1>3, <1>4 DEF SupplyInv, SupplyIsMinted
<1>5. ASSUME NEW a \in Holder, NEW b \in Holder, NEW v \in Nat, balances[a] >= v,
             balances' = Moved(a, b, v), minted' = minted
      PROVE  SupplyInv'
  <2>1. balances' = Paid(balances, a, b, v)
    BY Zenon, <1>5 DEF Moved, Paid
  <2>2. SumFunction(Paid(balances, a, b, v)) = SumFunction(balances)
    <3>1. balances \in [Holder -> Nat] /\ IsFiniteSet(Holder)
      BY Zenon, <1>1
    <3>2. a \in Holder /\ b \in Holder /\ v \in Nat /\ balances[a] >= v
      BY Zenon, <1>5
    <3> QED
      BY ONLY Zenon, <3>1, <3>2, MovedKeepsSum
  <2> QED
    BY Zenon, <1>4, <1>5, <2>1, <2>2
<1>6. ASSUME NEW a \in Trader, NEW amount \in Price, mint(a, amount) PROVE SupplyInv'
  <2>1. balances' = [balances EXCEPT ![a] = @ + amount] /\ minted' = minted + amount
    BY Zenon, <1>6 DEF mint
  <2>2. a \in Holder /\ amount \in Nat /\ balances[a] \in Nat
    BY Zenon, <1>1, <1>2, <1>6
  <2>3. balances[a] + amount \in Nat
    BY ONLY SMT, <2>2
  <2>4. balances' \in [Holder -> Nat] /\ balances'[a] = balances[a] + amount
        /\ \A x \in Holder \ {a} : balances'[x] = balances[x]
    <3>1. balances \in [Holder -> Nat]
      BY Zenon, <1>1
    <3> QED
      BY ONLY SMT, <2>1, <2>2, <2>3, <3>1
  <2>5. SumFunction(balances') + balances[a] = balances'[a] + SumFunction(balances) /\ SumFunction(balances') \in Nat
    BY ONLY Zenon, <1>1, <2>2, <2>4, SumChanged
  <2>6. minted' \in Nat /\ SumFunction(balances') = minted'
    BY ONLY SMT, <1>1, <2>1, <2>2, <2>4, <2>5
  <2> QED
    BY Zenon, <1>3, <2>6 DEF SupplyInv, SupplyIsMinted
<1>7. ASSUME NEW a \in Trader, NEW b \in Trader, NEW amount \in Price, transfer(a, b, amount) PROVE SupplyInv'
  BY Zenon, <1>1, <1>2, <1>5, <1>7 DEF transfer, CanTransfer
<1>8. ASSUME NEW j \in Job, match_job(j) PROVE SupplyInv'
  <2> DEFINE v == Min(bids[j])
             r == open_jobs[j].requester_id
  <2>1. /\ balances' = Moved(r, Pool, v) /\ balances[r] >= v /\ minted' = minted
        /\ j \in DOMAIN open_jobs /\ bids[j] # {}
    BY Zenon, <1>8 DEF match_job, CanTransfer
  <2>2. v \in Nat /\ r \in Holder
    BY Zenon, <1>1, <1>2, <2>1, LowestBid
  <2> HIDE DEF v, r
  <2> QED
    BY Zenon, <1>1, <1>5, <2>1, <2>2
<1>9. ASSUME NEW j \in Job, NEW a \in Trader, complete_job(j, a) PROVE SupplyInv'
  <2>1. /\ balances' = Moved(Pool, a, escrow[j]) /\ balances[Pool] >= escrow[j]
        /\ minted' = minted /\ j \in DOMAIN escrow
    BY Zenon, <1>9 DEF complete_job, CanTransfer
  <2>2. escrow[j] \in Nat /\ a \in Holder
    BY Zenon, <1>1, <1>9, <2>1 DEF Amounts
  <2> QED
    BY Zenon, <1>1, <1>5, <2>1, <2>2
<1>10. ASSUME NEW j, NEW a, NEW price, post_job(j, a, price) \/ submit_bid(j, price) PROVE SupplyInv'
  BY Zenon, <1>4, <1>10 DEF post_job, submit_bid
<1>11. CASE UNCHANGED marketVars
  BY Zenon, <1>4, <1>11 DEF marketVars
<1> QED
  BY Zenon, <1>6, <1>7, <1>8, <1>9, <1>10, <1>11 DEF MarketNext

(* For any traders, jobs and prices, the balances together, the pool's     *)
(* included, are what was minted.                                          *)
THEOREM SupplyIsKept == MarketSpec => []SupplyIsMinted
<1>1. SupplyInv => SupplyIsMinted
  BY Zenon DEF SupplyInv
<1> QED
  BY <1>1, SupplyStarts, SupplyStep, PTL DEF MarketSpec

=============================================================================
