------------------------- MODULE EvidenceCollection -------------------------
(***************************************************************************)
(* One collection of evidence (_collect_tool_evidence in                   *)
(* workflow/graph.py, ToolDispatcher and complete_mandatory_manifest in    *)
(* application/tools.py, build_inputs_from_tool_results in                 *)
(* application/evidence.py).                                               *)
(*                                                                         *)
(* A model provider asks for reads in up to MaxRounds rounds, as it likes; *)
(* the dispatcher refuses, repeats or runs them within a budget of calls.  *)
(* What the provider left out is then read by the manifest, through the    *)
(* same dispatcher, and the policy's inputs are built from the results.    *)
(***************************************************************************)
EXTENDS Naturals, Sequences

CONSTANTS
  Tools,        \* names a provider may ask for
  Args,         \* arguments, up to what the dispatcher tells apart
  Own,          \* the manifest's arguments for a tool
  InScope,      \* the calls of known tools within the review's scope
  Manifest,     \* the scenario's mandatory tools, without get_purchase_order
  Facts,        \* tools the policy's facts are taken from
  Optional,     \* tools that are a fact only if they were asked for
  MaxCalls,     \* max_total_calls
  MaxRounds,
  MaxAttempts,
  NoCall        \* the provider's list is used up

Calls == Tools \X Args
Mandatory == {Manifest[i] : i \in DOMAIN Manifest}

ASSUME ToolsAssumption ==
  /\ Own \in Args
  /\ InScope \subseteq Calls
  /\ Manifest \in Seq(Tools)
  /\ \A i, j \in DOMAIN Manifest : Manifest[i] = Manifest[j] => i = j
  /\ Facts \subseteq Mandatory
  /\ Optional \subseteq Tools
  /\ \A t \in Mandatory : <<t, Own>> \in InScope
  /\ NoCall \notin Calls

ASSUME BudgetAssumption ==
  /\ MaxCalls \in Nat
  /\ MaxRounds \in Nat \ {0}
  /\ MaxAttempts \in Nat \ {0}

\* A read fails, brings a fact that is stale, incomplete or contradictory, or
\* a fresh one; "none" and "refused" stand for reads that did not run.
Outcomes == {"none", "refused", "failed", "deficient", "fresh"}
Good == {"deficient", "fresh"}
Ran == {"failed", "deficient", "fresh"}

VARIABLES
  pc,         \* where the collection stands
  round,      \* rounds the provider has planned
  call,       \* the call the dispatcher gets next
  at,         \* position in the manifest
  sequence,   \* calls dispatched (total_calls)
  attempts,   \* calls_by_normalized_key
  seen,       \* seen_in_round, of the present round
  collected,  \* what is known of each tool's response
  answered,   \* successful_provider is set
  exhausted,  \* provider_exhausted
  evidence,   \* the payload's evidence_complete
  trace,      \* InvestigationTrace.status
  chosen      \* history: calls dispatched for the provider

budget == <<sequence, attempts, seen>>
result == <<evidence, trace>>
vars == <<pc, round, call, at, budget, collected, answered, exhausted, result, chosen>>

(***************************************************************************)
(* Every variable has its type; the budgets of calls and rounds are kept.  *)
(***************************************************************************)
TypeOK ==
  /\ pc \in {"plan", "dispatch", "manifest", "finish", "done"}
  /\ round \in 0..MaxRounds
  /\ call \in Calls \cup {NoCall}
  /\ at \in 1..(Len(Manifest) + 1)
  /\ sequence \in 0..MaxCalls
  /\ attempts \in [Calls -> Nat]
  /\ seen \in SUBSET Calls
  /\ collected \in [Tools -> Outcomes]
  /\ answered \in BOOLEAN
  /\ exhausted \in BOOLEAN
  /\ evidence \in {"none", "complete", "incomplete"}
  /\ trace \in {"IN_PROGRESS", "PROVIDER_EXHAUSTED", "COMPLETED", "DEFICIENT"}
  /\ chosen \in 0..sequence

Init ==
  /\ pc = "plan"
  /\ round = 0
  /\ call = NoCall
  /\ at = 1
  /\ sequence = 0
  /\ attempts = [c \in Calls |-> 0]
  /\ seen = {}
  /\ collected = [t \in Tools |-> "none"]
  /\ answered = FALSE
  /\ exhausted = FALSE
  /\ evidence = "none"
  /\ trace = "IN_PROGRESS"
  /\ chosen = 0

-----------------------------------------------------------------------------
(***************************************************************************)
(* The dispatcher.                                                         *)
(***************************************************************************)

\* Variant: one call too many.
LimitOffByOne == sequence > MaxCalls

LimitReached == sequence >= MaxCalls

\* dispatch: the limit, scope, repetition and attempts are checked in this
\* order; refusals but the first use up a call.
Dispatch(c, o) ==
  \/ /\ LimitReached
     /\ o = "refused"
     /\ UNCHANGED budget
  \/ /\ ~LimitReached
     /\ sequence' = sequence + 1
     /\ \/ /\ c \notin InScope \/ c \in seen
           /\ o = "refused"
           /\ UNCHANGED <<attempts, seen>>
        \/ /\ c \in InScope \ seen
           /\ seen' = seen \cup {c}
           /\ attempts' = [attempts EXCEPT ![c] = @ + 1]
           /\ IF attempts[c] < MaxAttempts THEN o \in Ran ELSE o = "refused"

-----------------------------------------------------------------------------
(***************************************************************************)
(* Rounds of the provider.                                                 *)
(***************************************************************************)

\* Variant: the round is not counted.
RoundStuck == round

RoundAfter == round + 1

\* The provider answers with a list of calls, which is never empty, or no
\* provider is available.  The list is chosen call by call, as it is used.
Plan ==
  /\ pc = "plan"
  /\ \E c \in Calls : call' = c
  /\ round' = RoundAfter
  /\ seen' = {}
  /\ answered' = TRUE
  /\ pc' = "dispatch"
  /\ UNCHANGED <<at, sequence, attempts, collected, exhausted, result, chosen>>

ProviderFails ==
  /\ pc = "plan"
  /\ exhausted' = TRUE
  /\ seen' = {}
  /\ pc' = IF answered THEN "manifest" ELSE "finish"
  /\ UNCHANGED <<round, call, at, sequence, attempts, collected, answered, result, chosen>>

\* Variant: the latest response counts.
KeepLatest(t, o) == o

\* A response replaces an earlier one only if it is good.
Keep(t, o) == IF o \in Good \/ collected[t] = "none" THEN o ELSE collected[t]

DispatchCall ==
  /\ pc = "dispatch"
  /\ call # NoCall
  /\ ~LimitReached
  /\ \E o \in Outcomes :
       /\ Dispatch(call, o)
       /\ collected' = [collected EXCEPT ![call[1]] = Keep(call[1], o)]
  /\ call' \in Calls \cup {NoCall}
  /\ chosen' = chosen + 1
  /\ UNCHANGED <<pc, round, at, answered, exhausted, result>>

\* The tools with a good response.
Selected == {t \in Tools : collected[t] \in Good}

EndRound ==
  /\ pc = "dispatch"
  /\ call = NoCall \/ LimitReached
  /\ call' = NoCall
  /\ seen' = {}
  /\ pc' = IF Mandatory \subseteq Selected \/ round = MaxRounds THEN "manifest" ELSE "plan"
  /\ UNCHANGED <<round, at, sequence, attempts, collected, answered, exhausted, result, chosen>>

-----------------------------------------------------------------------------
(***************************************************************************)
(* The manifest and the inputs.                                            *)
(***************************************************************************)

\* Variant: only a tool nobody asked for is read.
DueWhenAbsent(t) == collected[t] = "none"

\* Variant: only a tool whose read went wrong is read again.
DueWhenFailed(t) == collected[t] \in {"refused", "failed"}

Due(t) == collected[t] \notin Good

\* complete_mandatory_manifest, one tool of its list.
CompleteManifest ==
  LET t == Manifest[at] IN
  /\ pc = "manifest"
  /\ at <= Len(Manifest)
  /\ at' = at + 1
  /\ \/ /\ Due(t)
        /\ \E o \in Outcomes :
             /\ Dispatch(<<t, Own>>, o)
             /\ collected' = [collected EXCEPT ![t] = o]
     \/ /\ ~Due(t)
        /\ UNCHANGED <<budget, collected>>
  /\ UNCHANGED <<pc, round, call, answered, exhausted, result, chosen>>

EndManifest ==
  /\ pc = "manifest"
  /\ at > Len(Manifest)
  /\ pc' = "finish"
  /\ UNCHANGED <<round, call, at, budget, collected, answered, exhausted, result, chosen>>

\* build_inputs_from_tool_results: every fact is fresh.
Complete ==
  /\ \A t \in Facts : collected[t] = "fresh"
  /\ \A t \in Optional : collected[t] \in {"none", "fresh"}

\* The trace's last status and the verdict on the evidence.
Finish ==
  /\ pc = "finish"
  /\ evidence' = IF Complete /\ ~exhausted THEN "complete" ELSE "incomplete"
  /\ trace' = IF exhausted THEN "PROVIDER_EXHAUSTED"
              ELSE IF \A t \in Tools : collected[t] \in Good \cup {"none"}
                     THEN "COMPLETED" ELSE "DEFICIENT"
  /\ pc' = "done"
  /\ UNCHANGED <<round, call, at, budget, collected, answered, exhausted, chosen>>

Next ==
  \/ Plan \/ ProviderFails
  \/ DispatchCall \/ EndRound
  \/ CompleteManifest \/ EndManifest
  \/ Finish

Spec == Init /\ [][Next]_vars

\* The thread of the collection runs, and providers answer or fail.
FairSpec == Spec /\ WF_vars(Next)

-----------------------------------------------------------------------------
(***************************************************************************)
(* Properties, whatever the provider asks for.                             *)
(***************************************************************************)

\* A good response is not lost to a repetition, a refusal or a failed read
\* ("must not erase evidence that was already collected successfully").
GoodResponsesStay ==
  [][\A t \in Tools : collected[t] \in Good => collected'[t] \in Good]_vars

\* The provider's choice of calls, refused ones and reads with other arguments
\* among them, keeps no mandatory tool from being read, as long as the calls it
\* used leave room for the manifest: at the end the tool has a response, or the
\* manifest's own read of it has used up its attempts.
MandatoryIsRead ==
  pc = "done" /\ answered =>
    \A t \in Mandatory : \/ collected[t] \in Ran
                         \/ attempts[<<t, Own>>] > MaxAttempts
                         \/ chosen + Len(Manifest) > MaxCalls

\* FR-008 says so without regard to the number of calls: "Manifest-added safety
\* reads do not consume the model-selection cap".
ManifestIsRead ==
  pc = "done" /\ answered =>
    \A t \in Mandatory : \/ collected[t] \in Ran
                         \/ attempts[<<t, Own>>] > MaxAttempts

\* A trace that is COMPLETED has a good response of every mandatory tool, also
\* of those nobody asked for, whose absence the status itself does not test.
CompletedTraceIsWhole == trace = "COMPLETED" => Mandatory \subseteq Selected

\* The collection ends, whatever the provider asks for.
CollectionEnds == <>(pc = "done")
=============================================================================
