---------------------------- MODULE MaasStateProofs ----------------------------
(***************************************************************************)
(* Proofs about the `maas` STATE file for every set of machines, every     *)
(* number of hard retries, attempts and failures.                          *)
(***************************************************************************)
EXTENDS MaasState, TLAPS

-------------------------------------------------------------------------------
(* What the steps that many actions share do to the state.                  *)

LEMMA FaultType ==
  ASSUME faults \in Nat, Fault \/ HttpFault \/ NoFault
  PROVE  faults' \in Nat
BY DEF Fault, HttpFault, NoFault

\* process() of the machines only touches those that MaaS does not know, or
\* knows under another MAC; without a hidden failure it leaves none of either.
LEMMA ProcessEffect ==
  ASSUME ServerTypeOK, NEW raised \in BOOLEAN, ProcessMachines(raised)
  PROVE  /\ ServerTypeOK'
         /\ stale' \subseteq stale
         /\ \A m \in Machines :
              m \notin stale /\ status[m] # "Absent" => status'[m] = status[m]
         /\ ~AlreadyExists /\ ~raised => stale' = {}
<1>1. PICK bad \in SUBSET Machines :
        \E lost \in SUBSET (bad \intersect stale) :
          \E idle \in SUBSET ((Absent \union stale) \ bad) :
             LET created == (Absent \union stale) \ bad IN
             /\ Register(lost \union (created \intersect stale), created, idle)
             /\ IF bad # {} THEN HttpFault
                ELSE IF idle # {} THEN Fault ELSE NoFault
             /\ \/ raised = (bad # {})
                \/ (AlreadyExists /\ ~raised)
  BY DEF ProcessMachines
<1>2. PICK lost \in SUBSET (bad \intersect stale) :
        \E idle \in SUBSET ((Absent \union stale) \ bad) :
             LET created == (Absent \union stale) \ bad IN
             /\ Register(lost \union (created \intersect stale), created, idle)
             /\ IF bad # {} THEN HttpFault
                ELSE IF idle # {} THEN Fault ELSE NoFault
             /\ \/ raised = (bad # {})
                \/ (AlreadyExists /\ ~raised)
  BY <1>1
<1> DEFINE created == (Absent \union stale) \ bad
           gone == lost \union (created \intersect stale)
<1>3. PICK idle \in SUBSET created :
             /\ Register(gone, created, idle)
             /\ IF bad # {} THEN HttpFault
                ELSE IF idle # {} THEN Fault ELSE NoFault
             /\ \/ raised = (bad # {})
                \/ (AlreadyExists /\ ~raised)
  BY <1>2
<1>4. faults' \in Nat
  BY <1>3, FaultType DEF ServerTypeOK
<1>5. created \subseteq Absent \union stale /\ gone \subseteq stale
  OBVIOUS
<1>6. /\ status' \in [Machines -> NodeStatus]
      /\ layout' \in [Machines -> Layouts]
  BY <1>3 DEF Register, ServerTypeOK, NodeStatus, Layouts
<1>7. stale' = stale \ (created \union gone)
  BY <1>3 DEF Register
<1>8. \A m \in Machines :
        m \notin stale /\ status[m] # "Absent" => status'[m] = status[m]
  BY <1>3, <1>5 DEF Register, Absent
<1>9. ASSUME ~AlreadyExists, ~raised
      PROVE  stale' = {}
  <2>1. bad = {}
    BY <1>3, <1>9
  <2>2. QED
    BY <2>1, <1>7
<1>10. QED
  BY <1>4, <1>6, <1>7, <1>8, <1>9 DEF ServerTypeOK

\* process() of the deployments only touches machines that are Ready.
LEMMA DeployEffect ==
  ASSUME ServerTypeOK, NEW raised \in BOOLEAN, DeployMachines(raised)
  PROVE  /\ ServerTypeOK'
         /\ stale' = stale
         /\ \A m \in Machines :
              status[m] # "Ready" => status'[m] = status[m]
<1>1. PICK bad \in SUBSET Ready : \E half \in SUBSET bad :
        /\ status' = [m \in Machines |->
                        IF m \in Ready \ bad THEN "Deploying"
                        ELSE IF m \in half THEN "Allocated" ELSE status[m]]
        /\ IF bad # {} THEN HttpFault ELSE NoFault
        /\ UNCHANGED <<layout, stale>>
  BY DEF DeployMachines
<1>2. PICK half \in SUBSET bad :
        status' = [m \in Machines |->
                     IF m \in Ready \ bad THEN "Deploying"
                     ELSE IF m \in half THEN "Allocated" ELSE status[m]]
  BY <1>1
<1>3. faults' \in Nat
  BY <1>1, FaultType DEF ServerTypeOK
<1>4. status' \in [Machines -> NodeStatus]
  BY <1>2 DEF ServerTypeOK, NodeStatus
<1>5. \A m \in Machines : status[m] # "Ready" => status'[m] = status[m]
  BY <1>2 DEF Ready
<1>6. QED
  BY <1>1, <1>3, <1>4, <1>5 DEF ServerTypeOK

\* A step MaaS takes on its own.
LEMMA ServerEffect ==
  ASSUME ServerTypeOK, NEW m \in Machines, ServerStep(m)
  PROVE  /\ ServerTypeOK'
         /\ stale' = stale
         /\ \A n \in Machines :
              status[n] \notin {"Commissioning", "Deploying"}
                => status'[n] = status[n]
<1> USE DEF ServerTypeOK, NodeStatus, SetStatus
<1>1. CASE FinishCommissioning(m)
  BY <1>1 DEF FinishCommissioning
<1>2. CASE FailCommissioning(m)
  BY <1>2, FaultType DEF FailCommissioning
<1>3. CASE FinishDeploying(m)
  BY <1>3 DEF FinishDeploying
<1>4. CASE FailDeploying(m)
  BY <1>4, FaultType DEF FailDeploying
<1>5. QED
  BY <1>1, <1>2, <1>3, <1>4 DEF ServerStep, Progress
-------------------------------------------------------------------------------
(* Type correctness.                                                        *)

LEMMA AbortType ==
  ASSUME ScriptTypeOK, Abort
  PROVE  ScriptTypeOK'
BY StateAssumption DEF ScriptTypeOK, Abort, Stages

LEMMA ContinueType ==
  ASSUME ScriptTypeOK, pc \in Steps, Continue
  PROVE  ScriptTypeOK'
BY StateAssumption DEF ScriptTypeOK, Continue, Following, Steps, Waits, Stages

LEMMA TypeStep ==
  ASSUME TypeOK, RetryInv, [Next]_vars
  PROVE  TypeOK'
<1> USE DEF TypeOK
<1>1. CASE Erase
  <2>1. ScriptTypeOK'
    BY <1>1, ContinueType DEF Erase, Steps
  <2>2. CASE EraseEnv
    <3>1. PICK kept \in SUBSET Machines :
            /\ Delete(Machines \ kept)
            /\ IF kept # {} THEN HttpFault ELSE NoFault
      BY <1>1, <2>2 DEF Erase
    <3>2. faults' \in Nat
      BY <3>1, FaultType DEF ServerTypeOK
    <3>3. QED
      BY <2>1, <3>1, <3>2 DEF Delete, ServerTypeOK, NodeStatus, Layouts
  <2>3. CASE ~EraseEnv
    BY <1>1, <2>1, <2>3 DEF Erase, serverVars, ServerTypeOK
  <2>4. QED
    BY <2>2, <2>3
<1>2. CASE CreateMachines
  BY <1>2, ProcessEffect, AbortType, ContinueType
     DEF CreateMachines, Ending, Steps
<1>3. CASE Storage
  <2>1. ScriptTypeOK'
    BY <1>3, AbortType, ContinueType DEF Storage, Ending, Steps
  <2>2. layout' \in [Machines -> Layouts]
    BY <1>3 DEF Storage, ServerTypeOK, Layouts
  <2>3. faults' \in Nat
    BY <1>3, FaultType DEF Storage, ServerTypeOK
  <2>4. QED
    BY <1>3, <2>1, <2>2, <2>3 DEF Storage, ServerTypeOK
<1>4. CASE Deploy
  BY <1>4, DeployEffect, AbortType, ContinueType DEF Deploy, Ending, Steps
<1>5. ASSUME NEW m \in Machines, Look(m)
      PROVE  TypeOK'
  <2> USE DEF ServerTypeOK, ScriptTypeOK, serverVars
  <2>1. CASE SeeFound(m)
    BY <2>1 DEF SeeFound
  <2>2. CASE SeeNothing(m)
    BY <2>2 DEF SeeNothing
  <2>3. CASE Override(m)
    <3>1. ServerTypeOK'
      BY <2>3 DEF Override, SetStatus, NodeStatus
    <3>2. ScriptTypeOK'
      BY <2>3, StateAssumption
         DEF Override, BeginRetry, MayRetry, EndRetry, Stages
    <3>3. QED
      BY <3>1, <3>2
  <2>4. CASE DeleteMachine(m)
    <3>1. ServerTypeOK'
      BY <2>4 DEF DeleteMachine, Delete, NodeStatus, Layouts, NoFault
    <3>2. ScriptTypeOK'
      BY <2>4 DEF DeleteMachine, BeginRetry, Stages
    <3>3. QED
      BY <3>1, <3>2
  <2>5. CASE MarkBroken(m)
    <3>1. ServerTypeOK'
      BY <2>5 DEF MarkBroken, SetStatus, NodeStatus
    <3>2. ScriptTypeOK'
      BY <2>5 DEF MarkBroken, BeginRetry, Stages
    <3>3. QED
      BY <3>1, <3>2
  <2>6. QED
    BY <1>5, <2>1, <2>2, <2>3, <2>4, <2>5 DEF Look
<1>6. ASSUME NEW m \in Machines, Repair(m)
      PROVE  TypeOK'
  <2>1. ASSUME NEW raised \in BOOLEAN, stage[m] # "none",
               EndOrAbort(m, raised)
        PROVE  ScriptTypeOK'
    <3>1. CASE raised
      BY <2>1, <3>1, AbortType DEF EndOrAbort
    <3>2. CASE ~raised
      BY <2>1, <3>2, StateAssumption
         DEF EndOrAbort, EndRetry, ScriptTypeOK, RetryInv, Stages
    <3>3. QED
      BY <3>1, <3>2
  <2>2. CASE Recreate(m)
    BY <2>1, <2>2, ProcessEffect DEF Recreate
  <2>3. CASE MarkFixed(m)
    BY <2>3 DEF MarkFixed, SetStatus, NodeStatus, Stages, ServerTypeOK,
                ScriptTypeOK
  <2>4. CASE FioTest(m)
    BY <2>4 DEF FioTest, Commission, SetStatus, NodeStatus, Layouts, Stages,
                NoFault, ServerTypeOK, ScriptTypeOK
  <2>5. CASE Redeploy(m)
    BY <2>1, <2>5, DeployEffect DEF Redeploy
  <2>6. QED
    BY <1>6, <2>2, <2>3, <2>4, <2>5 DEF Repair
<1>7. CASE WaitOver
  BY <1>7, ContinueType
     DEF WaitOver, RoundOver, Waits, Steps, serverVars, ServerTypeOK
<1>8. CASE NextRound
  BY <1>8 DEF NextRound, serverVars, ServerTypeOK, ScriptTypeOK
<1>9. CASE Timeout
  BY <1>9, AbortType DEF Timeout, serverVars, ServerTypeOK
<1>10. CASE Retry
  BY <1>10, StateAssumption
     DEF Retry, serverVars, waitVars, ServerTypeOK, ScriptTypeOK, Steps
<1>11. CASE GiveUp
  BY <1>11 DEF GiveUp, serverVars, waitVars, ServerTypeOK, ScriptTypeOK
<1>12. CASE Server
  BY <1>12, ServerEffect DEF Server, scriptVars, ScriptTypeOK
<1>13. CASE StepFails
  BY <1>13, AbortType, FaultType DEF StepFails, ServerTypeOK
<1>14. CASE UNCHANGED vars
  BY <1>14 DEF vars, serverVars, scriptVars, ServerTypeOK, ScriptTypeOK
<1>15. QED
  BY <1>1, <1>2, <1>3, <1>4, <1>5, <1>6, <1>7, <1>8, <1>9, <1>10, <1>11,
     <1>12, <1>13, <1>14
     DEF Next, Script, Finished

-------------------------------------------------------------------------------
(* One hard retry at a time.                                                *)

\* Steps that leave every retry where it stands, or end them all, keep
\* RetryInv; so do those that end the one retry there is.
LEMMA NoRetryLeft ==
  ASSUME \A m \in Machines : stage'[m] = "none"
  PROVE  RetryInv'
BY DEF RetryInv

LEMMA AbortRetry == ASSUME Abort PROVE RetryInv'
BY DEF Abort, RetryInv

LEMMA ContinueRetry == ASSUME Continue PROVE RetryInv'
BY DEF Continue, RetryInv

LEMMA EndingRetry ==
  ASSUME NEW raised \in BOOLEAN, Ending(raised) PROVE RetryInv'
BY AbortRetry, ContinueRetry DEF Ending

LEMMA EndOrAbortRetry ==
  ASSUME TypeOK, RetryInv, NEW m \in Machines, stage[m] # "none",
         NEW raised \in BOOLEAN, EndOrAbort(m, raised)
  PROVE  RetryInv'
<1>1. CASE raised
  BY <1>1, AbortRetry DEF EndOrAbort
<1>2. CASE ~raised
  <2>1. \A n \in Machines : stage'[n] = "none"
    BY <1>2 DEF EndOrAbort, EndRetry, RetryInv, TypeOK, ScriptTypeOK
  <2>2. QED
    BY <2>1, NoRetryLeft
<1>3. QED
  BY <1>1, <1>2

LEMMA RetryStep ==
  ASSUME TypeOK, RetryInv, [Next]_vars
  PROVE  RetryInv'
<1>1. CASE Erase
  BY <1>1, ContinueRetry DEF Erase
<1>2. CASE CreateMachines
  BY <1>2, EndingRetry DEF CreateMachines
<1>3. CASE Storage
  BY <1>3, AbortRetry, ContinueRetry DEF Storage, Ending
<1>4. CASE Deploy
  BY <1>4, EndingRetry DEF Deploy
<1>5. ASSUME NEW m \in Machines, Look(m)
      PROVE  RetryInv'
  <2>1. CASE SeeFound(m)
    BY <2>1, NoRetryLeft DEF SeeFound, Looking, Idle
  <2>2. CASE SeeNothing(m)
    BY <2>2, NoRetryLeft DEF SeeNothing, Looking, Idle
  <2>3. CASE Override(m)
    <3>1. \A n \in Machines : stage'[n] = "none"
      BY <2>3 DEF Override, BeginRetry, Looking, Idle, EndRetry, TypeOK,
                  ScriptTypeOK
    <3>2. QED
      BY <3>1, NoRetryLeft
  <2>4. CASE DeleteMachine(m)
    BY <2>4 DEF DeleteMachine, BeginRetry, MayRetry, Looking, Idle, TypeOK,
                ScriptTypeOK, RetryInv, Stages
  <2>5. CASE MarkBroken(m)
    BY <2>5 DEF MarkBroken, BeginRetry, MayRetry, Looking, Idle, TypeOK,
                ServerTypeOK, ScriptTypeOK, RetryInv, Stages, SetStatus
  <2>6. QED
    BY <1>5, <2>1, <2>2, <2>3, <2>4, <2>5 DEF Look
<1>6. ASSUME NEW m \in Machines, Repair(m)
      PROVE  RetryInv'
  <2>1. CASE Recreate(m)
    BY <2>1, EndOrAbortRetry DEF Recreate
  <2>2. CASE MarkFixed(m)
    BY <2>2 DEF MarkFixed, TypeOK, ServerTypeOK, ScriptTypeOK, RetryInv,
                Stages, SetStatus
  <2>3. CASE FioTest(m)
    BY <2>3 DEF FioTest, Commission, TypeOK, ServerTypeOK, ScriptTypeOK,
                RetryInv, Stages, SetStatus
  <2>4. CASE Redeploy(m)
    BY <2>4, EndOrAbortRetry DEF Redeploy
  <2>5. QED
    BY <1>6, <2>1, <2>2, <2>3, <2>4 DEF Repair
<1>7. CASE WaitOver
  BY <1>7, ContinueRetry DEF WaitOver
<1>8. CASE NextRound
  BY <1>8, NoRetryLeft DEF NextRound, RoundOver, Idle
<1>9. CASE Timeout
  BY <1>9, AbortRetry DEF Timeout
<1>10. CASE Retry
  BY <1>10 DEF Retry, waitVars, serverVars, RetryInv, Waits
<1>11. CASE GiveUp
  BY <1>11 DEF GiveUp, waitVars, serverVars, RetryInv, Waits
<1>12. CASE Server
  <2>1. PICK n \in Machines : ServerStep(n) /\ UNCHANGED scriptVars
    BY <1>12 DEF Server
  <2>2. \A m \in Machines :
          status[m] \in {"Broken", "Ready"} => status'[m] = status[m]
    BY <2>1, ServerEffect DEF TypeOK
  <2>3. QED
    BY <2>1, <2>2 DEF scriptVars, RetryInv
<1>13. CASE StepFails
  BY <1>13, AbortRetry DEF StepFails
<1>14. CASE UNCHANGED vars
  BY <1>14 DEF vars, serverVars, scriptVars, RetryInv
<1>15. QED
  BY <1>1, <1>2, <1>3, <1>4, <1>5, <1>6, <1>7, <1>8, <1>9, <1>10, <1>11,
     <1>12, <1>13, <1>14
     DEF Next, Script, Finished

-------------------------------------------------------------------------------
(* The budget of hard retries.                                              *)

\* One more wait allows Attempts more retries.
LEMMA OneMoreWait ==
  ASSUME NEW a \in Nat, NEW k \in Nat
  PROVE  a * (k + 1) = a * k + a /\ a * k \in Nat
OBVIOUS

LEMMA BudgetOutsideWaits ==
  ASSUME TypeOK, RetryInv, BudgetInv
  PROVE  /\ WaitsBegun \in Nat
         /\ \A m \in Machines : resets[m] <= Attempts * WaitsBegun
<1>1. WaitsBegun \in Nat /\ (pc \in Waits => WaitsBegun - 1 \in Nat)
  BY StateAssumption DEF WaitsBegun, WaitsAt, TypeOK, ScriptTypeOK, Waits
<1>2. CASE pc \in Waits
  <2>1. Attempts * WaitsBegun = Attempts * (WaitsBegun - 1) + Attempts
    <3>1. Attempts * ((WaitsBegun - 1) + 1)
            = Attempts * (WaitsBegun - 1) + Attempts
      BY <1>1, <1>2, OneMoreWait, StateAssumption
    <3>2. (WaitsBegun - 1) + 1 = WaitsBegun
      BY <1>1
    <3>3. QED
      BY <3>1, <3>2
  <2>2. ASSUME NEW m \in Machines
        PROVE  failed[m] + (IF stage[m] = "none" THEN 0 ELSE 1) <= Attempts
    BY StateAssumption DEF RetryInv, TypeOK, ScriptTypeOK
  <2> DEFINE k == Attempts * (WaitsBegun - 1)
  <2>3. k \in Nat
    BY <1>1, <1>2, OneMoreWait, StateAssumption
  <2>4. ASSUME NEW m \in Machines
        PROVE  resets[m] <= k + Attempts
    <3>1. resets[m] <= k + failed[m] + (IF stage[m] = "none" THEN 0 ELSE 1)
      BY <1>2 DEF BudgetInv
    <3>2. resets[m] \in Nat /\ failed[m] \in Nat
      BY DEF TypeOK, ScriptTypeOK
    <3> HIDE DEF k
    <3>3. QED
      BY <2>2, <2>3, <3>1, <3>2, StateAssumption
  <2>5. QED
    BY <1>1, <2>1, <2>4
<1>3. CASE pc \notin Waits
  BY <1>1, <1>3 DEF BudgetInv
<1>4. QED
  BY <1>2, <1>3

LEMMA MoreWaits ==
  ASSUME NEW a \in Nat, NEW j \in Nat, NEW k \in Nat, j <= k
  PROVE  a * j <= a * k
<1>1. PICK d \in Nat : k = j + d
  <2>1. k - j \in Nat /\ k = j + (k - j)
    OBVIOUS
  <2>2. QED
    BY <2>1
<1>2. a * (j + d) = a * j + a * d /\ a * d \in Nat /\ a * j \in Nat
  OBVIOUS
<1>3. QED
  BY <1>1, <1>2

LEMMA AbortBudget ==
  ASSUME TypeOK, RetryInv, BudgetInv, Abort
  PROVE  BudgetInv'
<1>1. WaitsBegun' \in Nat /\ WaitsBegun <= WaitsBegun' /\ pc' \notin Waits
  BY StateAssumption
     DEF Abort, WaitsBegun, WaitsAt, TypeOK, ScriptTypeOK, Waits
<1>2. Attempts * WaitsBegun <= Attempts * WaitsBegun'
  BY <1>1, BudgetOutsideWaits, MoreWaits, StateAssumption
<1>3. ASSUME NEW m \in Machines
      PROVE  resets'[m] <= Attempts * WaitsBegun'
  <2>1. resets'[m] = resets[m] /\ resets[m] \in Nat
    BY DEF Abort, TypeOK, ScriptTypeOK
  <2>2. Attempts * WaitsBegun \in Nat /\ Attempts * WaitsBegun' \in Nat
    BY <1>1, BudgetOutsideWaits, OneMoreWait, StateAssumption
  <2>3. resets[m] <= Attempts * WaitsBegun
    BY BudgetOutsideWaits
  <2>4. QED
    BY <1>2, <2>1, <2>2, <2>3
<1>4. QED
  BY <1>1, <1>3 DEF BudgetInv

LEMMA ContinueBudget ==
  ASSUME TypeOK, RetryInv, BudgetInv, pc \in Steps, Continue
  PROVE  BudgetInv'
<1> DEFINE last == IF pc' \in Waits THEN WaitsBegun' - 1 ELSE WaitsBegun'
<1>1. last \in Nat /\ WaitsBegun <= last
  BY StateAssumption
     DEF Continue, Following, WaitsBegun, WaitsAt, TypeOK, ScriptTypeOK, Waits,
         Steps
<1> HIDE DEF last
<1>2. Attempts * WaitsBegun <= Attempts * last
  BY <1>1, BudgetOutsideWaits, MoreWaits, StateAssumption
<1>3. ASSUME NEW m \in Machines
      PROVE  /\ resets'[m] <= Attempts * last
             /\ failed'[m] = 0 /\ stage'[m] = "none"
             /\ Attempts * last \in Nat
  <2>1. /\ resets'[m] = resets[m] /\ resets[m] \in Nat
        /\ failed'[m] = 0 /\ stage'[m] = "none"
    BY DEF Continue, TypeOK, ScriptTypeOK
  <2>2. Attempts * WaitsBegun \in Nat /\ Attempts * last \in Nat
    BY <1>1, BudgetOutsideWaits, OneMoreWait, StateAssumption
  <2>3. resets[m] <= Attempts * WaitsBegun
    BY BudgetOutsideWaits
  <2>4. QED
    BY <1>2, <2>1, <2>2, <2>3
<1>4. CASE pc' \in Waits
  BY <1>3, <1>4 DEF BudgetInv, last
<1>5. CASE pc' \notin Waits
  BY <1>3, <1>5 DEF BudgetInv, last
<1>6. QED
  BY <1>4, <1>5

LEMMA EndingBudget ==
  ASSUME TypeOK, RetryInv, BudgetInv, pc \in Steps,
         NEW raised \in BOOLEAN, Ending(raised)
  PROVE  BudgetInv'
BY AbortBudget, ContinueBudget DEF Ending

\* Within a wait a retry is first charged to its stage, then to the counter.
LEMMA BudgetInWait ==
  ASSUME TypeOK, BudgetInv, pc \in Waits, UNCHANGED <<pc, tries>>,
         \A m \in Machines :
           /\ resets'[m] \in Nat /\ failed'[m] \in Nat
           /\ resets'[m] - resets[m]
                <= (failed'[m] + (IF stage'[m] = "none" THEN 0 ELSE 1))
                   - (failed[m] + (IF stage[m] = "none" THEN 0 ELSE 1))
  PROVE  BudgetInv'
<1> DEFINE k == Attempts * (WaitsBegun - 1)
<1>1. WaitsBegun' = WaitsBegun /\ WaitsBegun - 1 \in Nat
  BY StateAssumption DEF WaitsBegun, WaitsAt, Waits, TypeOK, ScriptTypeOK
<1>2. k \in Nat /\ k' = k
  BY <1>1, OneMoreWait, StateAssumption
<1>3. ASSUME NEW m \in Machines
      PROVE  resets'[m] <= k + failed'[m]
                             + (IF stage'[m] = "none" THEN 0 ELSE 1)
  <2>1. resets[m] <= k + failed[m] + (IF stage[m] = "none" THEN 0 ELSE 1)
    BY DEF BudgetInv
  <2>2. resets[m] \in Nat /\ failed[m] \in Nat
    BY DEF TypeOK, ScriptTypeOK
  <2> HIDE DEF k
  <2>3. QED
    BY <1>2, <2>1, <2>2
<1>4. QED
  BY <1>2, <1>3 DEF BudgetInv

LEMMA BudgetStep ==
  ASSUME TypeOK, RetryInv, BudgetInv, [Next]_vars
  PROVE  BudgetInv'
<1>1. CASE Erase
  BY <1>1, ContinueBudget DEF Erase, Steps
<1>2. CASE CreateMachines
  BY <1>2, EndingBudget DEF CreateMachines, Steps
<1>3. CASE Storage
  BY <1>3, AbortBudget, ContinueBudget DEF Storage, Ending, Steps
<1>4. CASE Deploy
  BY <1>4, EndingBudget DEF Deploy, Steps
<1>5. ASSUME NEW m \in Machines, Look(m)
      PROVE  BudgetInv'
  <2> USE DEF TypeOK, ScriptTypeOK, Looking
  <2>1. CASE SeeFound(m)
    BY <2>1, BudgetInWait DEF SeeFound
  <2>2. CASE SeeNothing(m)
    BY <2>2, BudgetInWait DEF SeeNothing
  <2>3. CASE Override(m)
    BY <2>3, BudgetInWait DEF Override, BeginRetry, EndRetry, Idle
  <2>4. CASE DeleteMachine(m)
    BY <2>4, BudgetInWait DEF DeleteMachine, BeginRetry, Idle
  <2>5. CASE MarkBroken(m)
    BY <2>5, BudgetInWait DEF MarkBroken, BeginRetry, Idle
  <2>6. QED
    BY <1>5, <2>1, <2>2, <2>3, <2>4, <2>5 DEF Look
<1>6. ASSUME NEW m \in Machines, Repair(m)
      PROVE  BudgetInv'
  <2>1. pc \in Waits
    BY <1>6 DEF Repair, Recreate, MarkFixed, FioTest, Redeploy, RetryInv
  <2>2. ASSUME NEW raised \in BOOLEAN, stage[m] # "none",
               EndOrAbort(m, raised)
        PROVE  BudgetInv'
    <3>1. CASE raised
      BY <2>2, <3>1, AbortBudget DEF EndOrAbort
    <3>2. CASE ~raised
      BY <2>1, <2>2, <3>2, BudgetInWait
         DEF EndOrAbort, EndRetry, TypeOK, ScriptTypeOK
    <3>3. QED
      BY <3>1, <3>2
  <2>3. CASE Recreate(m)
    BY <2>2, <2>3 DEF Recreate
  <2>4. CASE MarkFixed(m)
    BY <2>1, <2>4, BudgetInWait DEF MarkFixed, TypeOK, ScriptTypeOK
  <2>5. CASE FioTest(m)
    BY <2>1, <2>5, BudgetInWait DEF FioTest, TypeOK, ScriptTypeOK
  <2>6. CASE Redeploy(m)
    BY <2>2, <2>6 DEF Redeploy
  <2>7. QED
    BY <1>6, <2>3, <2>4, <2>5, <2>6 DEF Repair
<1>7. CASE WaitOver
  BY <1>7, ContinueBudget DEF WaitOver, RoundOver, Waits, Steps
<1>8. CASE NextRound
  BY <1>8, BudgetInWait DEF NextRound, RoundOver, TypeOK, ScriptTypeOK
<1>9. CASE Timeout
  BY <1>9, AbortBudget DEF Timeout
<1>10. CASE Retry
  <2>1. /\ WaitsBegun' = WaitsBegun /\ pc' \notin Waits /\ pc \notin Waits
        /\ resets' = resets
    BY <1>10, StateAssumption
       DEF Retry, waitVars, WaitsBegun, WaitsAt, Waits, TypeOK, ScriptTypeOK
  <2>2. QED
    BY <2>1 DEF BudgetInv
<1>11. CASE GiveUp
  <2>1. /\ WaitsBegun' = WaitsBegun /\ pc' \notin Waits /\ pc \notin Waits
        /\ resets' = resets
    BY <1>11, StateAssumption
       DEF GiveUp, waitVars, WaitsBegun, WaitsAt, Waits, TypeOK, ScriptTypeOK
  <2>2. QED
    BY <2>1 DEF BudgetInv
<1>12. CASE Server
  BY <1>12 DEF Server, scriptVars, BudgetInv, WaitsBegun
<1>13. CASE StepFails
  BY <1>13, AbortBudget DEF StepFails
<1>14. CASE UNCHANGED vars
  BY <1>14 DEF vars, scriptVars, BudgetInv, WaitsBegun
<1>15. QED
  BY <1>1, <1>2, <1>3, <1>4, <1>5, <1>6, <1>7, <1>8, <1>9, <1>10, <1>11,
     <1>12, <1>13, <1>14
     DEF Next, Script, Finished

-------------------------------------------------------------------------------
(* The machines a wait has seen stay as it saw them.                        *)

SuccessInv == StaleInv /\ SeenInv /\ DoneMeansDeployed

LEMMA AbortSuccess == ASSUME Abort PROVE SuccessInv'
BY DEF Abort, SuccessInv, StaleInv, SeenInv, DoneMeansDeployed

\* A step within the last wait that leaves the deployed machines alone.
LEMMA SuccessInWait ==
  ASSUME TypeOK, SuccessInv, pc \in Waits, pc' = pc, stale' \subseteq stale,
         total' = total,
         \A n \in Machines \ total :
           status[n] = "Deployed" => status'[n] = "Deployed"
  PROVE  SuccessInv'
BY DEF SuccessInv, StaleInv, SeenInv, DoneMeansDeployed, Waits

LEMMA SuccessStep ==
  ASSUME ~AlreadyExists, TypeOK, RetryInv, SuccessInv, [Next]_vars
  PROVE  SuccessInv'
<1> USE DEF TypeOK
<1>1. CASE Erase
  BY <1>1
     DEF Erase, Continue, Following, SuccessInv, StaleInv, SeenInv,
         DoneMeansDeployed
<1>2. CASE CreateMachines
  <2>1. PICK raised \in BOOLEAN : ProcessMachines(raised) /\ Ending(raised)
    BY <1>2 DEF CreateMachines
  <2>2. CASE raised
    BY <2>1, <2>2, AbortSuccess DEF Ending
  <2>3. CASE ~raised
    <3>1. stale' = {} /\ Continue
      BY <2>1, <2>3, ProcessEffect DEF Ending
    <3>2. pc' = "wait_ready"
      BY <1>2, <3>1 DEF CreateMachines, Continue, Following
    <3>3. QED
      BY <3>1, <3>2 DEF SuccessInv, StaleInv, SeenInv, DoneMeansDeployed
  <2>4. QED
    BY <2>1, <2>2, <2>3
<1>3. CASE Storage
  <2>1. Abort \/ (Continue /\ pc = "storage" /\ stale' = stale)
    BY <1>3 DEF Storage, Ending
  <2>2. QED
    BY <2>1, AbortSuccess
       DEF Continue, Following, SuccessInv, StaleInv, SeenInv,
           DoneMeansDeployed
<1>4. CASE Deploy
  <2>1. PICK raised \in BOOLEAN : DeployMachines(raised) /\ Ending(raised)
    BY <1>4 DEF Deploy
  <2>2. CASE raised
    BY <2>1, <2>2, AbortSuccess DEF Ending
  <2>3. CASE ~raised
    <3>1. stale' = stale /\ Continue /\ pc = "deploy"
      BY <1>4, <2>1, <2>3, DeployEffect DEF Ending, Deploy
    <3>2. pc' = "wait_deployed" /\ total' = Machines
      BY <3>1 DEF Continue, Following, Waits
    <3>3. QED
      BY <3>1, <3>2 DEF SuccessInv, StaleInv, SeenInv, DoneMeansDeployed
  <2>4. QED
    BY <2>1, <2>2, <2>3
<1>5. ASSUME NEW m \in Machines, Look(m)
      PROVE  SuccessInv'
  <2> USE DEF Looking, BeginRetry, ScriptTypeOK, ServerTypeOK
  <2>1. CASE SeeFound(m)
    BY <2>1 DEF SeeFound, Found, ReqStatus, serverVars, SuccessInv, StaleInv,
                SeenInv, DoneMeansDeployed, Waits
  <2>2. CASE SeeNothing(m)
    BY <2>2, SuccessInWait DEF SeeNothing, serverVars
  <2>3. CASE Override(m)
    BY <2>3, SuccessInWait DEF Override, SetStatus
  <2>4. CASE DeleteMachine(m)
    BY <2>4, SuccessInWait DEF DeleteMachine, Delete
  <2>5. CASE MarkBroken(m)
    BY <2>5, SuccessInWait DEF MarkBroken, SetStatus
  <2>6. QED
    BY <1>5, <2>1, <2>2, <2>3, <2>4, <2>5 DEF Look
<1>6. ASSUME NEW m \in Machines, Repair(m)
      PROVE  SuccessInv'
  <2>1. stage[m] # "none"
    BY <1>6 DEF Repair, Recreate, MarkFixed, FioTest, Redeploy
  <2>2. pc \in Waits /\ m \in total
    BY <2>1 DEF RetryInv, ScriptTypeOK
  <2>3. CASE Recreate(m)
    <3>1. PICK raised \in BOOLEAN :
            ProcessMachines(raised) /\ EndOrAbort(m, raised)
      BY <2>3 DEF Recreate
    <3>2. stale = {} \/ pc \notin {"wait_ready", "wait_deployed"}
      BY DEF SuccessInv, StaleInv
    <3>3. \A n \in Machines :
            status[n] # "Absent" => status'[n] = status[n]
      BY <2>2, <3>1, <3>2, ProcessEffect DEF Waits
    <3>4. CASE raised
      BY <3>1, <3>4, AbortSuccess DEF EndOrAbort
    <3>5. CASE ~raised
      <4>1. stale' \subseteq stale
        BY <3>1, ProcessEffect
      <4>2. QED
        BY <2>2, <3>1, <3>3, <3>5, <4>1, SuccessInWait DEF EndOrAbort
    <3>6. QED
      BY <3>4, <3>5
  <2>4. CASE MarkFixed(m)
    BY <2>2, <2>4, SuccessInWait DEF MarkFixed, SetStatus, ServerTypeOK
  <2>5. CASE FioTest(m)
    BY <2>2, <2>5, SuccessInWait
       DEF FioTest, Commission, SetStatus, ServerTypeOK
  <2>6. CASE Redeploy(m)
    <3>1. PICK raised \in BOOLEAN :
            DeployMachines(raised) /\ EndOrAbort(m, raised)
      BY <2>6 DEF Redeploy
    <3>2. CASE raised
      BY <3>1, <3>2, AbortSuccess DEF EndOrAbort
    <3>3. CASE ~raised
      BY <2>2, <3>1, <3>3, SuccessInWait, DeployEffect DEF EndOrAbort
    <3>4. QED
      BY <3>2, <3>3
  <2>7. QED
    BY <1>6, <2>3, <2>4, <2>5, <2>6 DEF Repair
<1>7. CASE WaitOver
  BY <1>7
     DEF WaitOver, RoundOver, Continue, Following, serverVars, SuccessInv,
         StaleInv, SeenInv, DoneMeansDeployed, Waits
<1>8. CASE NextRound
  BY <1>8, SuccessInWait DEF NextRound, RoundOver, serverVars
<1>9. CASE Timeout
  BY <1>9, AbortSuccess DEF Timeout
<1>10. CASE Retry
  BY <1>10 DEF Retry, SuccessInv, StaleInv, SeenInv, DoneMeansDeployed
<1>11. CASE GiveUp
  BY <1>11 DEF GiveUp, SuccessInv, StaleInv, SeenInv, DoneMeansDeployed
<1>12. CASE Server
  <2>1. PICK n \in Machines : ServerStep(n) /\ UNCHANGED scriptVars
    BY <1>12 DEF Server
  <2>2. /\ stale' = stale
        /\ \A m \in Machines :
             status[m] = "Deployed" => status'[m] = "Deployed"
    BY <2>1, ServerEffect
  <2>3. QED
    BY <2>1, <2>2
       DEF scriptVars, SuccessInv, StaleInv, SeenInv, DoneMeansDeployed
<1>13. CASE StepFails
  BY <1>13, AbortSuccess DEF StepFails
<1>14. CASE UNCHANGED vars
  BY <1>14 DEF vars, serverVars, scriptVars, SuccessInv, StaleInv, SeenInv,
               DoneMeansDeployed
<1>15. QED
  BY <1>1, <1>2, <1>3, <1>4, <1>5, <1>6, <1>7, <1>8, <1>9, <1>10, <1>11,
     <1>12, <1>13, <1>14
     DEF Next, Script, Finished

-------------------------------------------------------------------------------
(* A deployed machine is left alone.                                        *)

LEMMA UntouchedStep ==
  ASSUME TypeOK, RetryInv, [Next]_vars
  PROVE  DeployedKept
<1> USE DEF TypeOK, DeployedKept
<1>1. CASE Erase
  BY <1>1 DEF Erase, serverVars
<1>2. CASE CreateMachines
  BY <1>2, ProcessEffect DEF CreateMachines
<1>3. CASE Storage
  BY <1>3 DEF Storage
<1>4. CASE Deploy
  BY <1>4, DeployEffect DEF Deploy
<1>5. ASSUME NEW m \in Machines, Look(m)
      PROVE  DeployedKept
  <2>1. CASE status' = status
    BY <2>1
  <2>2. CASE Override(m) \/ DeleteMachine(m) \/ MarkBroken(m)
    <3>1. status[m] # "Deployed"
      BY <2>2 DEF Override, DeleteMachine, MarkBroken, BeginRetry, Looking,
                  Found, ReqStatus, Waits
    <3>2. \A n \in Machines \ {m} : status'[n] = status[n]
      BY <2>2 DEF Override, DeleteMachine, MarkBroken, SetStatus, Delete,
                  ServerTypeOK
    <3>3. QED
      BY <3>1, <3>2
  <2>3. QED
    BY <1>5, <2>1, <2>2 DEF Look, SeeFound, SeeNothing, serverVars
<1>6. ASSUME NEW m \in Machines, Repair(m)
      PROVE  DeployedKept
  <2>1. CASE Recreate(m)
    BY <2>1, ProcessEffect DEF Recreate
  <2>2. CASE MarkFixed(m) \/ FioTest(m)
    <3>1. status[m] \in {"Broken", "Ready"}
      BY <2>2 DEF MarkFixed, FioTest, RetryInv
    <3>2. \A n \in Machines \ {m} : status'[n] = status[n]
      BY <2>2 DEF MarkFixed, FioTest, Commission, SetStatus, ServerTypeOK
    <3>3. QED
      BY <3>1, <3>2
  <2>3. CASE Redeploy(m)
    BY <2>3, DeployEffect DEF Redeploy
  <2>4. QED
    BY <1>6, <2>1, <2>2, <2>3 DEF Repair
<1>7. CASE WaitOver \/ NextRound \/ Timeout \/ Retry \/ GiveUp
  BY <1>7 DEF WaitOver, NextRound, Timeout, Retry, GiveUp, serverVars
<1>8. CASE Server
  BY <1>8, ServerEffect DEF Server
<1>9. CASE StepFails \/ UNCHANGED vars
  BY <1>9 DEF StepFails, vars, serverVars
<1>10. QED
  BY <1>1, <1>2, <1>3, <1>4, <1>5, <1>6, <1>7, <1>8, <1>9
     DEF Next, Script, Finished

-------------------------------------------------------------------------------
(* The disk layout, as long as nothing was repaired.                        *)

Unrepaired == \A m \in Machines : resets[m] = 0

\* What is deployed has its layout, and what is about to be deployed as well.
Laid(m) == status[m] \in {"Deploying", "Deployed"} => layout[m] = "pillar"

\* The machines the first wait no longer looks at stay as it has seen them, so
\* that the storage states find all of them, and none becomes Ready after them.
LayoutInv ==
  Unrepaired =>
    /\ \A m \in Machines : stage[m] = "none" /\ Laid(m)
    /\ pc = "wait_ready" => \A m \in Machines \ total : status[m] \in {"Ready", "Deployed"}
    /\ pc = "storage" => \A m \in Machines : status[m] \in {"Ready", "Deployed"}
    /\ pc = "deploy" =>
         \A m \in Machines : status[m] \in {"Ready", "Deployed"} /\ layout[m] = "pillar"

\* A call that sets a machine back is a repair.
LEMMA RepairCounts ==
  ASSUME TypeOK, NEW m \in Machines, BeginRetry(m)
  PROVE  ~Unrepaired'
<1>1. resets \in [Machines -> Nat]
  BY DEF TypeOK, ScriptTypeOK
<1>2. resets'[m] = resets[m] + 1 /\ resets[m] \in Nat
  BY <1>1 DEF BeginRetry
<1>3. QED
  BY <1>2 DEF Unrepaired

LEMMA ProcessLayout ==
  ASSUME ServerTypeOK, NEW raised \in BOOLEAN, ProcessMachines(raised),
         NEW m \in Machines, Laid(m)
  PROVE  Laid(m)'
<1>1. PICK created \in SUBSET Machines, gone \in SUBSET Machines, idle \in SUBSET Machines :
        Register(gone, created, idle)
  <2>1. \A bad \in SUBSET Machines : \A lost \in SUBSET (bad \intersect stale) :
          LET created == (Absent \union stale) \ bad IN
          /\ created \in SUBSET Machines
          /\ lost \union (created \intersect stale) \in SUBSET Machines
    BY DEF Absent, ServerTypeOK
  <2>2. QED
    BY <2>1 DEF ProcessMachines
<1>2. QED
  BY <1>1 DEF Register, ServerTypeOK, Laid

LEMMA LayoutStep ==
  ASSUME TypeOK, LayoutInv, [Next]_vars
  PROVE  LayoutInv'
<1> SUFFICES ASSUME Unrepaired' PROVE LayoutInv'
  BY DEF LayoutInv
<1>1. ServerTypeOK /\ ScriptTypeOK
  BY DEF TypeOK
<1>2. CASE Erase
  <2>1. Unrepaired /\ pc' = "machines" /\ \A m \in Machines : stage'[m] = "none"
    BY <1>2 DEF Erase, Continue, Following, Unrepaired
  <2>2. \A m \in Machines : Laid(m) => Laid(m)'
    BY <1>1, <1>2 DEF Erase, Delete, serverVars, Laid, ServerTypeOK
  <2>3. QED
    BY <2>1, <2>2 DEF LayoutInv
<1>3. CASE CreateMachines
  <2>1. PICK raised \in BOOLEAN : ProcessMachines(raised) /\ Ending(raised)
    BY <1>3 DEF CreateMachines
  <2>2. /\ Unrepaired /\ \A m \in Machines : stage'[m] = "none"
        /\ pc' \in {"aborted", "wait_ready"} /\ (pc' = "wait_ready" => total' = Machines)
    BY <1>3, <2>1
       DEF CreateMachines, Ending, Abort, Continue, Following, Waits, Unrepaired
  <2>3. \A m \in Machines : Laid(m)'
    BY <1>1, <2>1, <2>2, ProcessLayout DEF LayoutInv
  <2>4. QED
    BY <2>2, <2>3 DEF LayoutInv
<1>4. CASE Storage
  <2>1. PICK bad \in SUBSET Ready :
          /\ layout' = [m \in Machines |-> IF m \in Ready \ bad THEN "pillar"
                                           ELSE IF m \in bad THEN "default" ELSE layout[m]]
          /\ Ending(bad # {})
    BY <1>4 DEF Storage
  <2>2. pc = "storage" /\ status' = status
    BY <1>4 DEF Storage
  <2>3. Unrepaired /\ (\A m \in Machines : stage'[m] = "none") /\ pc' \in {"aborted", "deploy"}
    BY <2>1, <2>2 DEF Ending, Abort, Continue, Following, Unrepaired
  <2>4. pc' = "deploy" => bad = {}
    BY <2>1, <2>2 DEF Ending, Abort
  <2>5. \A m \in Machines : status[m] \in {"Ready", "Deployed"} /\ Laid(m)
    BY <2>2, <2>3 DEF LayoutInv
  <2>6. \A m \in Machines : status[m] # "Ready" => layout'[m] = layout[m]
    BY <2>1 DEF Ready
  <2>7. \A m \in Machines : Laid(m)'
    BY <2>2, <2>5, <2>6 DEF Laid
  <2>8. pc' = "deploy" => \A m \in Machines : layout'[m] = "pillar"
    BY <2>1, <2>4, <2>5 DEF Ready, Laid
  <2>9. QED
    BY <2>2, <2>3, <2>5, <2>7, <2>8 DEF LayoutInv
<1>5. CASE Deploy
  <2>1. PICK raised \in BOOLEAN : DeployMachines(raised) /\ Ending(raised)
    BY <1>5 DEF Deploy
  <2>2. pc = "deploy" /\ layout' = layout
    BY <1>5, <2>1 DEF Deploy, DeployMachines
  <2>3. /\ Unrepaired /\ \A m \in Machines : stage'[m] = "none"
        /\ pc' \in {"aborted", "wait_deployed"}
    BY <2>1, <2>2 DEF Ending, Abort, Continue, Following, Unrepaired
  <2>4. QED
    BY <2>2, <2>3 DEF LayoutInv, Laid
<1>6. ASSUME NEW m \in Machines, Look(m)
      PROVE  LayoutInv'
  <2>1. SeeFound(m) \/ SeeNothing(m)
    BY <1>6, RepairCounts DEF Look, Override, DeleteMachine, MarkBroken
  <2>2. UNCHANGED <<status, layout, pc, stage, resets>>
    BY <2>1 DEF SeeFound, SeeNothing, serverVars
  <2>3. pc = "wait_ready" =>
          \A n \in Machines \ total' : n \in Machines \ total \/ status[n] \in {"Ready", "Deployed"}
    BY <2>1 DEF SeeFound, SeeNothing, Found, ReqStatus
  <2>4. QED
    BY <2>2, <2>3 DEF LayoutInv, Unrepaired, Laid
<1>7. ASSUME NEW m \in Machines, Repair(m)
      PROVE  LayoutInv'
  <2>1. stage[m] # "none"
    BY <1>7 DEF Repair, Recreate, MarkFixed, FioTest, Redeploy
  <2>2. Unrepaired
    BY <1>7 DEF Repair, Recreate, MarkFixed, FioTest, Redeploy, EndOrAbort, EndRetry, Abort,
                Unrepaired
  <2>3. QED
    BY <2>1, <2>2 DEF LayoutInv
<1>8. CASE WaitOver
  <2>1. /\ UNCHANGED <<status, layout>> /\ Unrepaired
        /\ \A m \in Machines : stage'[m] = "none"
        /\ pc \in Waits /\ total = {} /\ pc' = Following(pc)
    BY <1>8 DEF WaitOver, RoundOver, Continue, Unrepaired, serverVars
  <2>2. \/ pc = "wait_ready" /\ pc' = "storage"
        \/ pc' = "done"
    BY <2>1 DEF Waits, Following
  <2>3. QED
    BY <2>1, <2>2 DEF LayoutInv, Laid
<1>9. CASE NextRound
  BY <1>9 DEF NextRound, LayoutInv, Unrepaired, Laid, serverVars
<1>10. CASE Timeout \/ StepFails
  <2>1. UNCHANGED <<status, layout>> /\ Abort
    BY <1>10 DEF Timeout, StepFails, serverVars
  <2>2. QED
    BY <2>1 DEF Abort, LayoutInv, Unrepaired, Laid
<1>11. CASE Retry \/ GiveUp
  BY <1>11 DEF Retry, GiveUp, LayoutInv, Unrepaired, Laid, serverVars, waitVars
<1>12. CASE Server
  <2>1. PICK m \in Machines : ServerStep(m) /\ UNCHANGED scriptVars
    BY <1>12 DEF Server
  <2>2. UNCHANGED <<pc, total, stage, resets>>
    BY <2>1 DEF scriptVars
  <2>3. layout' = layout /\ \A n \in Machines :
          /\ status[n] \in {"Ready", "Deployed"} => status'[n] = status[n]
          /\ status'[n] \in {"Deploying", "Deployed"} => status[n] \in {"Deploying", "Deployed"}
    BY <1>1, <2>1 DEF ServerStep, Progress, FinishCommissioning, FinishDeploying,
                      FailCommissioning, FailDeploying, SetStatus, ServerTypeOK
  <2>4. QED
    BY <2>2, <2>3 DEF LayoutInv, Unrepaired, Laid
<1>13. CASE UNCHANGED vars
  BY <1>13 DEF vars, serverVars, scriptVars, LayoutInv, Unrepaired, Laid
<1>14. QED
  BY <1>2, <1>3, <1>4, <1>5, <1>6, <1>7, <1>8, <1>9, <1>10, <1>11, <1>12, <1>13
     DEF Next, Script, Finished

-------------------------------------------------------------------------------
(* The theorems.                                                            *)

LEMMA InitInv ==
  ASSUME Init
  PROVE  TypeOK /\ RetryInv /\ BudgetInv /\ SuccessInv
<1>1. ServerTypeOK
  BY ServerAssumption DEF Init, ServerTypeOK, NodeStatus, Layouts
<1>2. ScriptTypeOK
  BY StateAssumption DEF Init, ScriptTypeOK, Steps, Stages
<1>3. RetryInv
  BY DEF Init, RetryInv
<1>4. BudgetInv
  <2>1. WaitsBegun = 0 /\ pc \notin Waits
    BY DEF Init, WaitsBegun, WaitsAt, Waits
  <2>2. \A m \in Machines : resets[m] <= Attempts * WaitsBegun
    BY <2>1, StateAssumption DEF Init
  <2>3. QED
    BY <2>1, <2>2 DEF BudgetInv
<1>5. SuccessInv
  BY DEF Init, SuccessInv, StaleInv, SeenInv, DoneMeansDeployed
<1>6. QED
  BY <1>1, <1>2, <1>3, <1>4, <1>5 DEF TypeOK

\* Every state of the STATE file's runs is well typed, and never more than one
\* machine at a time is half way through the delete/recreate or the
\* broken/fixed/redeploy sequence of a hard retry.
THEOREM TypeCorrect == Spec => [](TypeOK /\ RetryInv)
<1>1. Init => TypeOK /\ RetryInv
  BY InitInv
<1>2. TypeOK /\ RetryInv /\ [Next]_vars => (TypeOK /\ RetryInv)'
  BY TypeStep, RetryStep
<1>3. QED
  BY <1>1, <1>2, PTL DEF Spec

\* "attempts" bounds the hard retries of a machine: whatever MaaS, the network
\* and deploy.sh's own retries do, a machine is set back by the script at most
\* Attempts times for every wait begun.
THEOREM RetryBudget == Spec => []HardRetryBudget
<1>1. Init => BudgetInv
  BY InitInv
<1>2. TypeOK /\ RetryInv /\ BudgetInv /\ [Next]_vars => BudgetInv'
  BY BudgetStep
<1>3. TypeOK /\ RetryInv /\ BudgetInv => HardRetryBudget
  BY BudgetOutsideWaits DEF HardRetryBudget
<1>4. QED
  BY <1>1, <1>2, <1>3, TypeCorrect, PTL DEF Spec

\* As long as no failed process() is hidden by its "already exists" text, the
\* STATE file that reports success leaves every machine of the pillar Deployed.
THEOREM Success == ~AlreadyExists => (Spec => []DoneMeansDeployed)
<1> SUFFICES ASSUME ~AlreadyExists
             PROVE  Spec => []DoneMeansDeployed
  OBVIOUS
<1>1. Init => SuccessInv
  BY InitInv
<1>2. TypeOK /\ RetryInv /\ SuccessInv /\ [Next]_vars => SuccessInv'
  BY SuccessStep
<1>3. SuccessInv => DoneMeansDeployed
  BY DEF SuccessInv
<1>4. QED
  BY <1>1, <1>2, <1>3, TypeCorrect, PTL DEF Spec

\* Neither the automatic retries of the waits nor another attempt of deploy.sh
\* takes a deployed machine down, but for ERASE_ENV and a changed PXE MAC.
THEOREM Untouched == Spec => DeployedUntouched
<1>1. TypeOK /\ RetryInv /\ [Next]_vars => [DeployedKept]_vars
  BY UntouchedStep
<1>2. QED
  BY <1>1, TypeCorrect, PTL DEF Spec, DeployedUntouched

\* As long as the waits have repaired no machine, what is deployed has the disk
\* layout of the pillar: no machine becomes Ready between the storage states and
\* the deployment, for any number of machines, attempts and failures.
THEOREM LayoutKept == Spec => []LayoutUnlessRepaired
<1>1. Init => LayoutInv
  BY DEF Init, LayoutInv, Laid
<1>2. TypeOK /\ LayoutInv /\ [Next]_vars => LayoutInv'
  BY LayoutStep
<1>3. LayoutInv => LayoutUnlessRepaired
  BY DEF LayoutInv, Unrepaired, Laid, LayoutUnlessRepaired
<1>4. QED
  BY <1>1, <1>2, <1>3, TypeCorrect, PTL DEF Spec
===============================================================================
