---------------------------- MODULE CustodyProofs ----------------------------
(* What Custody is for follows from its steps, whatever the resources.     *)
EXTENDS Custody, TLAPS

\* The types of Custody's variables, which need no assumption on its constants.
CustodyType ==
  /\ cloud \in [Resources -> Specs \cup {None}]
  /\ held \in [Resources -> BOOLEAN]
  /\ identity \in [Resources -> {"none", "inflight", "recorded"}]
  /\ lost \in [Resources -> BOOLEAN]

\* Each step keeps the types and the account of every resource.
LEMMA AccountedStep ==
  ASSUME CustodyType, Accounted, [Next]_vars
  PROVE  CustodyType' /\ Accounted'
<1> USE DEF CustodyType, Accounted
<1>1. ASSUME NEW r \in Resources, Hold(r)
      PROVE  CustodyType' /\ Accounted'
  BY <1>1 DEF Hold
<1>2. ASSUME NEW r \in Resources, Create(r)
      PROVE  CustodyType' /\ Accounted'
  BY <1>2 DEF Create
<1>3. ASSUME NEW r \in Resources, CreateFails(r)
      PROVE  CustodyType' /\ Accounted'
  BY <1>3 DEF CreateFails
<1>4. ASSUME NEW r \in Resources, Record(r)
      PROVE  CustodyType' /\ Accounted'
  BY <1>4 DEF Record
<1>5. ASSUME NEW r \in Resources, Update(r) \/ Destroy(r)
      PROVE  CustodyType' /\ Accounted'
  BY <1>5 DEF Update, Destroy
<1>6. ASSUME NEW r \in Resources, GiveUp(r)
      PROVE  CustodyType' /\ Accounted'
  BY <1>6 DEF GiveUp
<1>7. ASSUME NEW r \in Resources, Release(r)
      PROVE  CustodyType' /\ Accounted'
  BY <1>7 DEF Release
<1>8. ASSUME NEW r \in Resources, Drift(r)
      PROVE  CustodyType' /\ Accounted'
  BY <1>8 DEF Drift
<1>9. ASSUME NEW R \in SUBSET Resources, Lose(R)
      PROVE  CustodyType' /\ Accounted'
  BY <1>9 DEF Lose
<1>10. CASE UNCHANGED vars
  BY <1>10 DEF vars
<1>11. QED
  BY <1>1, <1>2, <1>3, <1>4, <1>5, <1>6, <1>7, <1>8, <1>9, <1>10 DEF Next

\* Everything in the cloud that is not lost is held, and its identity is
\* recorded or about to be.
THEOREM CustodyAccounts == Spec => []Accounted
<1>1. Init => CustodyType /\ Accounted
  BY DEF Init, CustodyType, Accounted
<1>2. QED
  BY <1>1, AccountedStep, PTL DEF Spec

=============================================================================
