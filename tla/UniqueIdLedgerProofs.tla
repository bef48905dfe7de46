------------------------ MODULE UniqueIdLedgerProofs ------------------------
(***************************************************************************)
(* Proofs about the abstract ledger: what it promises follows from how it  *)
(* steps, for any finite set of drawings.                                  *)
(***************************************************************************)
EXTENDS UniqueIdLedger, FiniteSetTheorems, TLAPS

LedgerInv == LedgerTypeOK /\ HeldByOne

\* The number of drawings served at once is a number.
LEMMA ServedCount ==
  ASSUME IsFiniteSet(Drawings)
  PROVE  \A S \in SUBSET Drawings : Cardinality(S) \in Nat
  BY FS_Subset, FS_CardinalityType

\* Issuing keeps ids distinct and below the counter: the new ones lie between
\* the old counter and the new one.
LEMMA IssueStep ==
  ASSUME IsFiniteSet(Drawings), LedgerInv, NEW S \in SUBSET Drawings, Issue(S)
  PROVE  LedgerInv' /\ \A id \in 1..(next - 1) : ~Held(id) => ~Held(id)'
  <1>1. PICK id \in [S -> next..(next + Cardinality(S) - 1)] :
          /\ IsInjective(id)
          /\ held' = [d \in Drawings |-> IF d \in S THEN id[d] ELSE held[d]]
    BY DEF Issue
  <1>2. Cardinality(S) \in Nat
    BY ServedCount
  <1>3. \A d \in S : id[d] \in Nat /\ next <= id[d] /\ id[d] < next + Cardinality(S)
    BY <1>1, <1>2 DEF LedgerInv, LedgerTypeOK
  <1>4. LedgerTypeOK'
    BY <1>1, <1>2, <1>3 DEF LedgerInv, LedgerTypeOK, Issue
  <1>5. HeldByOne'
    BY <1>1, <1>2, <1>3 DEF LedgerInv, LedgerTypeOK, HeldByOne, Issue, IsInjective
  <1>6. \A n \in 1..(next - 1) : ~Held(n) => ~Held(n)'
    BY <1>1, <1>3 DEF LedgerInv, LedgerTypeOK, Held
  <1>7. QED
    BY <1>4, <1>5, <1>6 DEF LedgerInv

\* Giving an id up disturbs nothing.
LEMMA RetireStep ==
  ASSUME LedgerInv, NEW d \in Drawings, Retire(d)
  PROVE  LedgerInv' /\ \A id \in 1..(next - 1) : ~Held(id) => ~Held(id)'
  BY DEF LedgerInv, LedgerTypeOK, HeldByOne, Held, Retire

\* Ids are held by one drawing at a time, for every set of drawings.
THEOREM LedgerSafe ==
  ASSUME IsFiniteSet(Drawings)
  PROVE  Spec => [](LedgerTypeOK /\ HeldByOne)
  <1>1. Init => LedgerInv
    BY DEF Init, LedgerInv, LedgerTypeOK, HeldByOne
  <1>2. LedgerInv /\ [Next]_ledgerVars => LedgerInv'
    BY IssueStep, RetireStep
    DEF Next, ledgerVars, LedgerInv, LedgerTypeOK, HeldByOne
  <1>3. LedgerInv => LedgerTypeOK /\ HeldByOne
    BY DEF LedgerInv
  <1>4. QED
    BY <1>1, <1>2, <1>3, PTL DEF Spec

\* An id that was given up is never held again.
THEOREM LedgerNeverReissues ==
  ASSUME IsFiniteSet(Drawings)
  PROVE  Spec => NeverReissued
  <1>1. Init => LedgerInv
    BY DEF Init, LedgerInv, LedgerTypeOK, HeldByOne
  <1>2. LedgerInv /\ [Next]_ledgerVars => LedgerInv'
    BY IssueStep, RetireStep
    DEF Next, ledgerVars, LedgerInv, LedgerTypeOK, HeldByOne
  <1>3. LedgerInv /\ [Next]_ledgerVars
          => [\A id \in 1..(next - 1) : ~Held(id) => ~Held(id)']_ledgerVars
    BY IssueStep, RetireStep DEF Next
  <1>4. QED
    BY <1>1, <1>2, <1>3, PTL DEF Spec, NeverReissued

=============================================================================
