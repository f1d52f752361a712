---------------------- MODULE EvidenceCollection_proofs ----------------------
(***************************************************************************)
(* Proofs about EvidenceCollection, for every set of tools, every scope,   *)
(* manifest and budget.                                                    *)
(***************************************************************************)
EXTENDS EvidenceCollection, TLAPS

\* Tool t needs no further read, or the provider has left no room for it.
Settled(t) ==
  \/ collected[t] \in Ran
  \/ attempts[<<t, Own>>] > MaxAttempts
  \/ chosen + Len(Manifest) > MaxCalls

\* The manifest makes at most one call for each tool it has come to.
CallsAreCounted == sequence < chosen + at

\* The part of the manifest that is done is settled and not absent, and the
\* dispatcher has seen no call of the rest in the manifest's own round.
ManifestIsSettled ==
  /\ pc \in {"manifest", "finish", "done"} /\ answered =>
       \A i \in DOMAIN Manifest :
         i < at => Settled(Manifest[i]) /\ collected[Manifest[i]] # "none"
  /\ pc = "manifest" =>
       \A c \in seen : \E i \in DOMAIN Manifest : i < at /\ c[1] = Manifest[i]

\* Where a collection stands says what has been done.
PhasesInOrder ==
  /\ pc = "plan" => round < MaxRounds
  /\ pc \in {"plan", "dispatch"} => at = 1
  /\ pc \in {"dispatch", "manifest"} => answered
  /\ pc \in {"finish", "done"} /\ answered => at = Len(Manifest) + 1
  /\ pc \in {"finish", "done"} /\ ~answered => exhausted
  /\ pc # "done" => trace = "IN_PROGRESS"

IInv ==
  /\ TypeOK
  /\ CallsAreCounted
  /\ ManifestIsSettled
  /\ PhasesInOrder
  /\ CompletedTraceIsWhole

-----------------------------------------------------------------------------
\* The dispatcher keeps its variables typed, and a dispatch only adds.
LEMMA DispatchType ==
  ASSUME TypeOK, NEW c \in Calls, NEW o \in Outcomes, Dispatch(c, o)
  PROVE  /\ sequence' \in 0..MaxCalls
         /\ sequence' = sequence \/ sequence' = sequence + 1
         /\ ~LimitReached => sequence' = sequence + 1
         /\ attempts' \in [Calls -> Nat]
         /\ \A d \in Calls : attempts'[d] >= attempts[d]
         /\ seen' \in SUBSET Calls
         /\ \A d \in seen' : d \in seen \/ d = c
<1>1. MaxCalls \in Nat /\ sequence \in 0..MaxCalls /\ attempts \in [Calls -> Nat]
  BY BudgetAssumption DEF TypeOK
<1>2. ~LimitReached => sequence + 1 \in 0..MaxCalls
  BY <1>1 DEF LimitReached
<1>3. CASE LimitReached
  BY <1>1, <1>3 DEF Dispatch, budget, TypeOK
<1>4. CASE ~LimitReached
  <2>1. sequence' = sequence + 1
    BY <1>4 DEF Dispatch
  <2>2. \/ UNCHANGED <<attempts, seen>>
        \/ seen' = seen \cup {c} /\ attempts' = [attempts EXCEPT ![c] = @ + 1]
    BY <1>4 DEF Dispatch
  <2>3. attempts' \in [Calls -> Nat] /\ \A d \in Calls : attempts'[d] >= attempts[d]
    BY <1>1, <2>2
  <2>4. seen' \in SUBSET Calls /\ \A d \in seen' : d \in seen \/ d = c
    BY <2>2 DEF TypeOK
  <2> QED
    BY <1>2, <1>4, <2>1, <2>3, <2>4
<1> QED
  BY <1>3, <1>4

\* A call is run, or refused for one of four reasons; one that is refused for
\* its attempts has used them up.
LEMMA DispatchRuns ==
  ASSUME TypeOK, NEW c \in Calls, NEW o \in Outcomes, Dispatch(c, o)
  PROVE  \/ o \in Ran
         \/ o = "refused" /\ LimitReached
         \/ o = "refused" /\ (c \notin InScope \/ c \in seen)
         \/ o = "refused" /\ attempts'[c] > MaxAttempts
<1>1. CASE LimitReached
  BY <1>1 DEF Dispatch
<1>2. CASE ~LimitReached /\ (c \notin InScope \/ c \in seen)
  BY <1>2 DEF Dispatch
<1>3. CASE ~LimitReached /\ c \in InScope \ seen
  <2>1. /\ attempts' = [attempts EXCEPT ![c] = @ + 1]
        /\ IF attempts[c] < MaxAttempts THEN o \in Ran ELSE o = "refused"
    BY <1>3 DEF Dispatch
  <2>2. attempts'[c] = attempts[c] + 1 /\ attempts[c] \in Nat
    BY <2>1 DEF TypeOK
  <2> QED
    BY <2>1, <2>2, BudgetAssumption
<1> QED
  BY <1>1, <1>2, <1>3

-----------------------------------------------------------------------------
LEMMA InitInv == Init => IInv
<1> SUFFICES ASSUME Init PROVE IInv
  OBVIOUS
<1>1. MaxCalls \in Nat /\ MaxRounds \in Nat \ {0} /\ Len(Manifest) \in Nat
  BY BudgetAssumption, ToolsAssumption
<1>2. TypeOK
  <2>1. /\ at \in 1..(Len(Manifest) + 1) /\ round \in 0..MaxRounds
        /\ sequence \in 0..MaxCalls /\ chosen \in 0..sequence
    BY <1>1 DEF Init
  <2> QED
    BY <2>1 DEF Init, TypeOK, Outcomes
<1>3. CallsAreCounted /\ ManifestIsSettled
  BY DEF Init, CallsAreCounted, ManifestIsSettled
<1>4. PhasesInOrder /\ CompletedTraceIsWhole
  BY <1>1 DEF Init, PhasesInOrder, CompletedTraceIsWhole
<1> QED
  BY <1>2, <1>3, <1>4 DEF IInv

\* Steps of the provider's rounds: the manifest has not begun.
LEMMA RoundStep ==
  ASSUME IInv, Plan \/ ProviderFails \/ EndRound
  PROVE  IInv'
<1>1. MaxCalls \in Nat /\ MaxRounds \in Nat \ {0} /\ Len(Manifest) \in Nat
  BY BudgetAssumption, ToolsAssumption
<1>2. UNCHANGED <<at, sequence, attempts, collected, evidence, trace, chosen>> /\ seen' = {}
  BY DEF Plan, ProviderFails, EndRound, result
<1>3. TypeOK'
  <2>1. CASE Plan
    <3>1. round + 1 \in 0..MaxRounds
      BY <1>1, <2>1 DEF Plan, IInv, TypeOK, PhasesInOrder
    <3> QED
      BY <1>2, <2>1, <3>1 DEF Plan, RoundAfter, IInv, TypeOK
  <2>2. CASE ProviderFails
    BY <1>2, <2>2 DEF ProviderFails, IInv, TypeOK
  <2>3. CASE EndRound
    BY <1>2, <2>3 DEF EndRound, IInv, TypeOK
  <2> QED
    BY <2>1, <2>2, <2>3
<1>4. CallsAreCounted'
  BY <1>2 DEF IInv, CallsAreCounted
<1>5. at = 1 /\ trace = "IN_PROGRESS" /\ pc \in {"plan", "dispatch"}
  BY DEF IInv, PhasesInOrder, Plan, ProviderFails, EndRound
<1>6. \/ pc' \in {"plan", "dispatch", "manifest"} /\ (pc' # "plan" => answered')
      \/ pc' = "finish" /\ ~answered' /\ exhausted'
  BY <1>5 DEF Plan, ProviderFails, EndRound, IInv, PhasesInOrder, TypeOK
<1>7. ManifestIsSettled'
  BY <1>1, <1>2, <1>5, <1>6, ToolsAssumption DEF ManifestIsSettled
<1>8. pc' = "plan" => round' < MaxRounds
  BY <1>1 DEF Plan, ProviderFails, EndRound, IInv, TypeOK
<1>9. PhasesInOrder' /\ CompletedTraceIsWhole'
  BY <1>2, <1>5, <1>6, <1>8 DEF PhasesInOrder, CompletedTraceIsWhole
<1> QED
  BY <1>3, <1>4, <1>7, <1>9 DEF IInv

\* A call of the provider.
LEMMA DispatchCallStep ==
  ASSUME IInv, DispatchCall
  PROVE  IInv'
<1>1. PICK o \in Outcomes :
        /\ Dispatch(call, o)
        /\ collected' = [collected EXCEPT ![call[1]] = Keep(call[1], o)]
  BY DEF DispatchCall
<1>2. TypeOK /\ call \in Calls /\ ~LimitReached /\ chosen' = chosen + 1
  BY DEF IInv, DispatchCall, TypeOK
<1>3. UNCHANGED <<pc, round, at, answered, exhausted, evidence, trace>>
  BY DEF DispatchCall, result
<1>4. /\ sequence' \in 0..MaxCalls /\ sequence' = sequence + 1
      /\ attempts' \in [Calls -> Nat] /\ seen' \in SUBSET Calls
  BY <1>1, <1>2, DispatchType
<1>5. sequence \in Nat /\ at \in Nat /\ chosen \in 0..sequence
  BY <1>2, BudgetAssumption, ToolsAssumption DEF TypeOK
<1>6. TypeOK'
  <2>1. chosen' \in 0..sequence'
    BY <1>2, <1>4, <1>5
  <2>2. call' \in Calls \cup {NoCall}
    BY DEF DispatchCall
  <2>3. Keep(call[1], o) \in Outcomes /\ call[1] \in Tools
    BY <1>2 DEF Keep, TypeOK, Calls
  <2>4. collected' \in [Tools -> Outcomes]
    BY <1>1, <1>2, <2>3 DEF TypeOK
  <2> QED
    BY <1>2, <1>3, <1>4, <2>1, <2>2, <2>4 DEF TypeOK
<1>7. CallsAreCounted'
  BY <1>2, <1>3, <1>4, <1>5 DEF IInv, CallsAreCounted
<1>8. pc = "dispatch" /\ trace = "IN_PROGRESS"
  BY DEF DispatchCall, IInv, PhasesInOrder
<1>9. ManifestIsSettled' /\ PhasesInOrder' /\ CompletedTraceIsWhole'
  BY <1>3, <1>8 DEF ManifestIsSettled, PhasesInOrder, CompletedTraceIsWhole, IInv
<1> QED
  BY <1>6, <1>7, <1>9 DEF IInv

\* The manifest settles one tool more.
LEMMA ManifestStep ==
  ASSUME IInv, CompleteManifest
  PROVE  IInv'
<1>1. TypeOK /\ CallsAreCounted /\ ManifestIsSettled /\ PhasesInOrder
  BY DEF IInv
<1>2. pc = "manifest" /\ at \in DOMAIN Manifest /\ at' = at + 1
  BY <1>1, ToolsAssumption DEF CompleteManifest, TypeOK
<1>3. PICK t \in Tools : t = Manifest[at]
  BY <1>2, ToolsAssumption
<1>4. PICK c \in Calls : c = <<t, Own>> /\ c \in InScope
  BY <1>2, <1>3, ToolsAssumption DEF Mandatory, Calls
<1>5. /\ UNCHANGED <<pc, round, call, answered, exhausted, evidence, trace, chosen>>
      /\ answered /\ trace = "IN_PROGRESS"
  BY <1>1, <1>2 DEF CompleteManifest, result, PhasesInOrder
<1>6. /\ sequence \in 0..MaxCalls /\ MaxCalls \in Nat /\ chosen \in 0..sequence
      /\ at \in 1..Len(Manifest) /\ Len(Manifest) \in Nat
  BY <1>1, <1>2, BudgetAssumption, ToolsAssumption DEF TypeOK
<1>7. \A i \in DOMAIN Manifest :
        i < at => Settled(Manifest[i]) /\ collected[Manifest[i]] # "none" /\ Manifest[i] # t
  BY <1>1, <1>2, <1>3, <1>5, <1>6, ToolsAssumption DEF ManifestIsSettled
<1>8. c \notin seen
  BY <1>1, <1>2, <1>4, <1>7 DEF ManifestIsSettled
<1>9. LimitReached => chosen + Len(Manifest) > MaxCalls
  BY <1>1, <1>6 DEF LimitReached, CallsAreCounted
<1>10. /\ TypeOK' /\ sequence' <= sequence + 1
       /\ collected'[t] # "none" /\ Settled(t)'
       /\ \A d \in Calls : attempts'[d] >= attempts[d]
       /\ \A u \in Tools : u # t => collected'[u] = collected[u]
       /\ \A d \in seen' : d \in seen \/ d = c
  <2>1. CASE Due(t)
    <3>1. PICK o \in Outcomes : Dispatch(c, o) /\ collected' = [collected EXCEPT ![t] = o]
      BY <1>3, <1>4, <2>1 DEF CompleteManifest
    <3>2. /\ sequence' \in 0..MaxCalls
          /\ sequence' = sequence \/ sequence' = sequence + 1
          /\ attempts' \in [Calls -> Nat]
          /\ \A d \in Calls : attempts'[d] >= attempts[d]
          /\ seen' \in SUBSET Calls
          /\ \A d \in seen' : d \in seen \/ d = c
      BY <1>1, <3>1, DispatchType
    <3>3. sequence' <= sequence + 1 /\ chosen' \in 0..sequence'
      BY <1>5, <1>6, <3>2
    <3>4. /\ collected' \in [Tools -> Outcomes] /\ collected'[t] = o
          /\ \A u \in Tools : u # t => collected'[u] = collected[u]
      BY <1>1, <3>1 DEF TypeOK
    <3>5. at' \in 1..(Len(Manifest) + 1)
      BY <1>2, <1>6
    <3>6. TypeOK'
      BY <1>1, <1>5, <3>2, <3>3, <3>4, <3>5 DEF TypeOK
    <3>7. o \in Ran \/ (o = "refused" /\ (LimitReached \/ attempts'[c] > MaxAttempts))
      BY <1>1, <1>4, <1>8, <3>1, DispatchRuns
    <3>8. o # "none"
      BY <3>7 DEF Ran
    <3>9. Settled(t)'
      BY <1>4, <1>5, <1>9, <3>4, <3>7 DEF Settled
    <3> QED
      BY <3>2, <3>3, <3>4, <3>6, <3>8, <3>9
  <2>2. CASE ~Due(t)
    <3>1. UNCHANGED <<sequence, attempts, seen, collected>>
      BY <1>3, <2>2 DEF CompleteManifest, budget
    <3>2. at' \in 1..(Len(Manifest) + 1)
      BY <1>2, <1>6
    <3>3. TypeOK'
      BY <1>1, <1>5, <3>1, <3>2 DEF TypeOK
    <3>4. \A d \in Calls : attempts'[d] >= attempts[d]
      BY <1>1, <3>1 DEF TypeOK
    <3>5. Settled(t)' /\ collected'[t] # "none"
      BY <2>2, <3>1 DEF Due, Good, Ran, Settled
    <3> QED
      BY <1>6, <3>1, <3>3, <3>4, <3>5
  <2> QED
    BY <2>1, <2>2
<1>11. CallsAreCounted'
  <2>1. sequence' \in Nat
    BY <1>10, BudgetAssumption DEF TypeOK
  <2> QED
    BY <1>1, <1>2, <1>5, <1>6, <1>10, <2>1 DEF CallsAreCounted
<1>12. ASSUME NEW i \in DOMAIN Manifest, i < at + 1
       PROVE  Settled(Manifest[i])' /\ collected'[Manifest[i]] # "none"
  <2>1. CASE i = at
    BY <1>3, <1>10, <2>1
  <2>2. CASE i < at
    <3>1. PICK u \in Tools : u = Manifest[i]
      BY ToolsAssumption
    <3>2. u # t /\ Settled(u) /\ collected[u] # "none"
      BY <1>7, <2>2, <3>1
    <3>3. <<u, Own>> \in Calls
      BY ToolsAssumption DEF Calls
    <3>4. attempts[<<u, Own>>] > MaxAttempts => attempts'[<<u, Own>>] > MaxAttempts
      <4>1. attempts[<<u, Own>>] \in Nat /\ attempts'[<<u, Own>>] \in Nat /\ MaxAttempts \in Nat
        BY <1>1, <1>10, <3>3, BudgetAssumption DEF TypeOK
      <4> QED
        BY <1>10, <3>3, <4>1
    <3>5. Settled(u)'
      BY <1>5, <1>10, <3>2, <3>4 DEF Settled
    <3> QED
      BY <1>10, <3>1, <3>2, <3>5
  <2> QED
    BY <1>6, <1>12, <2>1, <2>2, ToolsAssumption
<1>13. ASSUME NEW d \in seen'
       PROVE  \E i \in DOMAIN Manifest : i < at + 1 /\ d[1] = Manifest[i]
  <2>1. CASE d \in seen
    <3>1. PICK i \in DOMAIN Manifest : i < at /\ d[1] = Manifest[i]
      BY <1>1, <1>2, <2>1 DEF ManifestIsSettled
    <3>2. i < at + 1
      BY <1>6, <3>1, ToolsAssumption
    <3> QED
      BY <3>1, <3>2
  <2>2. CASE d = c
    <3>1. at < at + 1 /\ d[1] = Manifest[at]
      BY <1>3, <1>4, <1>6, <2>2
    <3> QED
      BY <1>2, <3>1
  <2> QED
    BY <1>10, <2>1, <2>2
<1>14. ManifestIsSettled'
  BY <1>2, <1>5, <1>12, <1>13 DEF ManifestIsSettled
<1>15. PhasesInOrder' /\ CompletedTraceIsWhole'
  BY <1>2, <1>5 DEF PhasesInOrder, CompletedTraceIsWhole
<1> QED
  BY <1>10, <1>11, <1>14, <1>15 DEF IInv

\* The end of the manifest, and the verdict.
LEMMA FinishStep ==
  ASSUME IInv, EndManifest \/ Finish
  PROVE  IInv'
<1>1. UNCHANGED <<round, call, at, sequence, attempts, seen, collected, answered, exhausted, chosen>>
  BY DEF EndManifest, Finish, budget
<1>2. TypeOK' /\ CallsAreCounted'
  BY <1>1 DEF EndManifest, Finish, IInv, TypeOK, CallsAreCounted, result
<1>3. ManifestIsSettled'
  <2>1. pc \in {"manifest", "finish"} /\ pc' \in {"finish", "done"}
    BY DEF EndManifest, Finish
  <2>2. answered' => \A i \in DOMAIN Manifest :
                       i < at => Settled(Manifest[i])' /\ collected'[Manifest[i]] # "none"
    BY <1>1, <2>1 DEF IInv, ManifestIsSettled, Settled
  <2> QED
    BY <1>1, <2>1, <2>2 DEF ManifestIsSettled
<1>4. PhasesInOrder'
  <2>1. CASE EndManifest
    <3>1. at = Len(Manifest) + 1
      BY <2>1, ToolsAssumption DEF EndManifest, IInv, TypeOK
    <3> QED
      BY <1>1, <2>1, <3>1 DEF EndManifest, IInv, PhasesInOrder, result
  <2>2. CASE Finish
    BY <1>1, <2>2 DEF Finish, IInv, PhasesInOrder
  <2> QED
    BY <2>1, <2>2
<1>5. CompletedTraceIsWhole'
  <2>1. CASE EndManifest
    BY <1>1, <2>1 DEF EndManifest, IInv, CompletedTraceIsWhole, Selected, result
  <2>2. CASE Finish
    <3> SUFFICES ASSUME trace' = "COMPLETED", NEW m \in Mandatory PROVE collected[m] \in Good
      BY <1>1, ToolsAssumption DEF CompletedTraceIsWhole, Selected, Mandatory
    <3>1. ~exhausted /\ \A t \in Tools : collected[t] \in Good \cup {"none"}
      BY <2>2 DEF Finish
    <3>2. answered /\ at = Len(Manifest) + 1
      BY <2>2, <3>1 DEF Finish, IInv, PhasesInOrder
    <3>3. PICK i \in DOMAIN Manifest : m = Manifest[i]
      BY DEF Mandatory
    <3>4. i < at /\ m \in Tools
      BY <3>2, <3>3, ToolsAssumption
    <3>5. collected[m] # "none"
      BY <2>2, <3>2, <3>3, <3>4 DEF Finish, IInv, ManifestIsSettled
    <3> QED
      BY <3>1, <3>4, <3>5
  <2> QED
    BY <2>1, <2>2
<1> QED
  BY <1>2, <1>3, <1>4, <1>5 DEF IInv

-----------------------------------------------------------------------------
\* The inductive invariant holds.
THEOREM Invariance == Spec => []IInv
<1>1. IInv /\ [Next]_vars => IInv'
  <2> SUFFICES ASSUME IInv, [Next]_vars PROVE IInv'
    OBVIOUS
  <2>1. CASE UNCHANGED vars
    BY <2>1 DEF vars, budget, result, IInv, TypeOK, CallsAreCounted, ManifestIsSettled, Settled,
       PhasesInOrder, CompletedTraceIsWhole, Selected
  <2> QED
    BY <2>1, RoundStep, DispatchCallStep, ManifestStep, FinishStep DEF Next
<1> QED
  BY <1>1, InitInv, PTL DEF Spec

\* Every variable keeps its type, the budgets of calls and rounds included.
THEOREM TypeCorrect == Spec => []TypeOK
  BY Invariance, PTL DEF IInv

\* If the provider's calls leave room for the manifest, each mandatory tool is
\* read, or its attempts are used up.
THEOREM MandatoryRead == Spec => []MandatoryIsRead
<1>1. IInv => MandatoryIsRead
  <2> SUFFICES ASSUME IInv, pc = "done", answered, NEW m \in Mandatory
               PROVE  Settled(m)
    BY DEF MandatoryIsRead, Settled
  <2>1. PICK i \in DOMAIN Manifest : m = Manifest[i]
    BY DEF Mandatory
  <2>2. i < at
    BY ToolsAssumption DEF IInv, PhasesInOrder
  <2> QED
    BY <2>1, <2>2 DEF IInv, ManifestIsSettled
<1> QED
  BY <1>1, Invariance, PTL

\* A completed trace has a good response of every mandatory tool.
THEOREM CompletedTrace == Spec => []CompletedTraceIsWhole
  BY Invariance, PTL DEF IInv

\* A good response is never lost.
THEOREM GoodStays == Spec => GoodResponsesStay
<1>1. TypeOK /\ [Next]_vars =>
        [\A t \in Tools : collected[t] \in Good => collected'[t] \in Good]_vars
  <2> SUFFICES ASSUME TypeOK, Next, NEW t \in Tools, collected[t] \in Good
               PROVE  collected'[t] \in Good
    BY DEF vars
  <2>1. CASE DispatchCall
    <3>1. PICK o \in Outcomes :
            collected' = [collected EXCEPT ![call[1]] = Keep(call[1], o)]
      BY <2>1 DEF DispatchCall
    <3>2. o \in Good \/ ~(o \in Good)
      OBVIOUS
    <3> QED
      BY <3>1 DEF TypeOK, Keep, Good
  <2>2. CASE CompleteManifest
    <3>1. \/ UNCHANGED collected
          \/ /\ Due(Manifest[at])
             /\ \E o \in Outcomes : collected' = [collected EXCEPT ![Manifest[at]] = o]
      BY <2>2 DEF CompleteManifest
    <3> QED
      BY <3>1 DEF Due, TypeOK
  <2>3. CASE Plan \/ ProviderFails \/ EndRound \/ EndManifest \/ Finish
    BY <2>3 DEF Plan, ProviderFails, EndRound, EndManifest, Finish
  <2> QED
    BY <2>1, <2>2, <2>3 DEF Next
<1> QED
  BY <1>1, TypeCorrect, PTL DEF Spec, GoodResponsesStay
=============================================================================
