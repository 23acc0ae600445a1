------------------------------- MODULE AiPolicy -------------------------------
(***************************************************************************)
(* The rules of the AI gateway that need no state: which runtime may see   *)
(* which data, which results wait for a person, when answers may be        *)
(* trusted, and the life of a model.                                       *)
(***************************************************************************)
EXTENDS Integers, Sequences, FiniteSets, FiniteSetsExt

Sensitive == {"FINANCIAL", "LEGAL", "PERSONAL", "SENSITIVE", "CONFIDENTIAL"}

PrivacyLevelFor(classes) ==
    IF classes \cap Sensitive # {} THEN "local-only"
    ELSE IF "INTERNAL" \in classes THEN "local-preferred" ELSE "provider-allowed"

AllowedRuntimes(level, providerConfigured) ==
    {"local", "webgpu"} \cup
        (IF level # "local-only" /\ providerConfigured THEN {"provider"} ELSE {})

\* No controller passes another one.
DefaultPriority == <<"webgpu", "local", "provider">>

First(mode, usable) ==
    LET places == {i \in DOMAIN DefaultPriority : DefaultPriority[i] \in usable} IN
    IF mode \in usable THEN mode
    ELSE IF mode = "hybrid" /\ places # {} THEN DefaultPriority[Min(places)] ELSE "disabled"

\* available: the set of runtimes that are
ResolvePermittedRuntime(mode, classes, available) ==
    First(mode, available \cap AllowedRuntimes(PrivacyLevelFor(classes), "provider" \in available))

-----------------------------------------------------------------------------
\* AI_FORBIDDEN_ACTIONS, as far as a question or a feature names one
ForbiddenActions == {"payment.post", "document.approve"}

Actions == {"payment.post", "dunning.escalate", "document.approve", "none"}
DecidedAction(questionType) ==
    CASE questionType = "proof-match" -> "payment.post"
      [] questionType = "dunning" -> "dunning.escalate"
      [] OTHER -> "none"

\* In hundredths; decide runs at temperature 1, which leaves a confidence as it is.
DecideThreshold(questionType) ==
    CASE questionType = "proof-match" -> 85 [] questionType = "dunning" -> 90 [] OTHER -> 80

RequiresHumanConfirmation(escalated, action, classes) ==
    escalated \/ action \in ForbiddenActions \/ classes \cap Sensitive # {}

\* FEATURES: what a feature derives its result from, and the action it drafts for
Features ==
    [draft |-> [classes |-> {"LEGAL", "FINANCIAL", "PERSONAL"}, action |-> "document.approve"],
     communication |-> [classes |-> {"INTERNAL"}, action |-> "none"],
     summarization |-> [classes |-> {"INTERNAL"}, action |-> "none"],
     extraction |-> [classes |-> {"LEGAL", "FINANCIAL", "PERSONAL"}, action |-> "none"],
     classification |-> [classes |-> {"INTERNAL"}, action |-> "none"],
     vision |-> [classes |-> {"PERSONAL", "SENSITIVE"}, action |-> "none"]]

-----------------------------------------------------------------------------
\* evaluateCalibrationGate over rows [confidence, correct, day]; fits: the error that is
\* left after fitting a temperature is small enough, a verdict of floating-point functions.
Right(rows) == {r \in rows : r.correct}
Wrong(rows) == {r \in rows : ~r.correct}
Confidences(rows) == MapThenSumSet(LAMBDA r : r.confidence, rows)

EvaluationWindow(rows) ==
    IF rows = {} THEN 0 ELSE Max({r.day : r \in rows}) - Min({r.day : r \in rows})

\* mean confidence of the right answers is 10 hundredths above that of the wrong ones
MarginSuffices(rows) ==
    LET right == Right(rows) wrong == Wrong(rows) n == Cardinality(right) m == Cardinality(wrong) IN
    Confidences(right) * m - Confidences(wrong) * n >= 10 * n * m

CalibrationGate(rows, minSamples, minDays, fits) ==
    /\ Cardinality(rows) >= minSamples
    /\ EvaluationWindow(rows) >= minDays
    /\ Right(rows) # {} /\ Wrong(rows) # {}
    /\ MarginSuffices(rows)
    /\ fits

-----------------------------------------------------------------------------
LifecycleNext ==
    [candidate |-> "installed", installed |-> "evaluated", evaluated |-> "approved",
     approved |-> "active", active |-> "evaluated"]

Mutant_AnyLater(from, to) ==
    /\ from # "deprecated"
    /\ \/ to = "deprecated" \/ LifecycleNext[from] = to
       \/ to # "candidate" /\ from = "candidate"
CanTransitionLifecycle(from, to) ==
    /\ from # "deprecated"
    /\ to = "deprecated" \/ LifecycleNext[from] = to
=============================================================================
