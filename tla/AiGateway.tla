------------------------------ MODULE AiGateway ------------------------------
(***************************************************************************)
(* AiService and AiFeaturesService: calls to models through the gateway,   *)
(* labelled outcomes, and the suggestions that wait for a person.          *)
(*                                                                         *)
(* A call resolves a runtime once, is sent, and sent again while it fails  *)
(* in a way worth a retry; its answer passes the gate when it is a         *)
(* decision and is stored when a feature asked for it.  What a call says,  *)
(* of which the code redacts the text and neither images nor the options   *)
(* of a question, and answers and audit events are left out; an audit      *)
(* event that cannot be written fails the call, as any statement may.      *)
(***************************************************************************)
EXTENDS AiPolicy

CONSTANTS
    Slots,       \* requests that may be under way at once
    Configs,     \* settings: [enabled, hosted, runtimes]
    DirectAsks,  \* calls made at the gateway itself: [call, classes, mode, question]
    FeaturesAsked, QuestionTypes,
    AnswerConfidences,  \* of an answer, in hundredths
    Outcomes,    \* labelled outcomes that come in: [question, confidence, correct]
    MinSamples, MinDays, MaxRetries,
    MaxDay, MaxRequests

Calls == {"text", "decide"} \cup DOMAIN Features
Modes == {"disabled", "webgpu", "local", "hybrid", "provider"}
Runtimes == {"webgpu", "local", "provider"}
Classes == Sensitive \cup {"INTERNAL", "PUBLIC"}

\* What settings, calls and outcomes the constants may have; only a decision has a question.
AiAssumption ==
    /\ Configs # {}
    /\ Configs \subseteq [enabled : BOOLEAN, hosted : BOOLEAN, runtimes : SUBSET Runtimes]
    /\ DirectAsks \subseteq
           [call : {"decide"}, classes : SUBSET Classes, mode : Modes, question : QuestionTypes]
               \cup [call : Calls \ {"decide"}, classes : SUBSET Classes, mode : Modes,
                     question : {"none"}]
    /\ FeaturesAsked \subseteq DOMAIN Features
    /\ \A o \in Outcomes : o.correct \in BOOLEAN
    /\ {MinSamples, MinDays, MaxDay} \subseteq Nat

VARIABLES
    config,       \* settings of the process
    observations, \* labelled outcomes on file
    suggestions,  \* by their number: [question, requires, status]
    pc, job, requests,
    sent,         \* history: what was sent: [level, to]
    advanced,     \* history: question types answered with no need of a person
    told          \* history: told[i]: verdicts on suggestion i that were acknowledged

aiVars == <<config, observations, suggestions, pc, job, requests, sent, advanced, told>>

Idle == [kind |-> "none"]
Busy == {"upstream", "gate", "record", "decide"}

AiTypeOK ==
    /\ config \in Configs
    /\ \A o \in observations : o.day \in 0..MaxDay
    /\ pc \in [Slots -> Busy \cup {"idle"}] /\ requests \in 0..MaxRequests
    /\ \A i \in DOMAIN suggestions :
           /\ suggestions[i].requires \in BOOLEAN
           /\ suggestions[i].status \in {"PENDING", "CONFIRMED", "REJECTED"}
    /\ DOMAIN told = DOMAIN suggestions /\ advanced \subseteq QuestionTypes

AiInit ==
    /\ config \in Configs /\ observations = {} /\ suggestions = <<>>
    /\ pc = [s \in Slots |-> "idle"] /\ job = [s \in Slots |-> Idle] /\ requests = 0
    /\ sent = {} /\ advanced = {} /\ told = <<>>

Go(s, step) == pc' = [pc EXCEPT ![s] = step]
Done(s) == Go(s, "idle") /\ job' = [job EXCEPT ![s] = Idle]

-----------------------------------------------------------------------------
\* A feature asks with the data classes of its own, in mode hybrid and for a result
\* the server can keep; triage asks for a decision about INTERNAL data.
FeatureAsk(f) == [call |-> f, classes |-> Features[f].classes, mode |-> "hybrid", question |-> "none"]
Triage(q) == [call |-> "decide", classes |-> {"INTERNAL"}, mode |-> "hybrid", question |-> q]

\* The client's own GPU is offered for text only.
Available(call) == IF call = "text" THEN config.runtimes ELSE config.runtimes \ {"webgpu"}

\* resolve, and what follows at once: a call with no runtime is answered so (a decision
\* as escalated), a call for the client's GPU is handed back to the client.
Ask(s, ask, kept) ==
    LET runtime == IF config.enabled
                   THEN ResolvePermittedRuntime(ask.mode, ask.classes, Available(ask.call))
                   ELSE "disabled" IN
    /\ pc[s] = "idle" /\ requests < MaxRequests /\ requests' = requests + 1
    /\ IF runtime \in {"local", "provider"}
       THEN /\ job' = [job EXCEPT ![s] = [call |-> ask.call, classes |-> ask.classes,
                          question |-> ask.question, runtime |-> runtime, kept |-> kept, attempt |-> 0,
                          escalated |-> FALSE]]
            /\ Go(s, "upstream")
       ELSE UNCHANGED <<pc, job>>
    /\ UNCHANGED <<config, observations, suggestions, sent, advanced, told>>

Mutant_RetryAtProvider(j) ==
    IF j.call # "decide" THEN IF j.attempt > 0 THEN "provider" ELSE j.runtime
    ELSE IF config.hosted THEN "hosted" ELSE "self-hosted"
\* The decision adapter goes by the settings, whatever runtime was resolved.
Destination(j) ==
    IF j.call # "decide" THEN j.runtime ELSE IF config.hosted THEN "hosted" ELSE "self-hosted"

\* postJson: timeouts, 429 and 5xx are tried "again"; an answer that is "of no use" was
\* rejected, or is not what the call asked for.
Upstream(s, outcome, confidence) ==
    LET j == job[s] IN
    /\ pc[s] = "upstream"
    /\ sent' = sent \cup {[level |-> PrivacyLevelFor(j.classes), to |-> Destination(j)]}
    /\ IF outcome = "again" /\ j.attempt < MaxRetries
       THEN job' = [job EXCEPT ![s].attempt = @ + 1] /\ UNCHANGED pc
       ELSE IF j.call = "decide"
       THEN /\ Go(s, "gate")
            /\ job' = [job EXCEPT ![s].escalated =
                          outcome # "ok" \/ confidence < DecideThreshold(j.question)]
       ELSE IF outcome = "ok" /\ j.kept THEN Go(s, "record") /\ UNCHANGED job
       ELSE Done(s)
    /\ UNCHANGED <<config, observations, suggestions, requests, advanced, told>>

Mutant_FailsOpen(question, readable, fits) ==
    readable => CalibrationGate({o \in observations : o.question = question},
                                MinSamples, MinDays, fits)
\* autoAdvanceGate fails closed when the outcomes cannot be read.
AutoAdvanceGate(question, readable, fits) ==
    readable /\ CalibrationGate({o \in observations : o.question = question},
                                MinSamples, MinDays, fits)

\* decide's finish
Decide(s, readable, fits) ==
    LET j == job[s] IN
    /\ pc[s] = "gate"
    /\ advanced' = advanced \cup
           (IF RequiresHumanConfirmation(j.escalated, DecidedAction(j.question), j.classes)
               \/ ~AutoAdvanceGate(j.question, readable, fits)
            THEN {} ELSE {j.question})
    /\ IF j.kept THEN Go(s, "record") /\ UNCHANGED job ELSE Done(s)
    /\ UNCHANGED <<config, observations, suggestions, requests, sent, told>>

\* record: triage keeps its result as a classification.
Record(s) ==
    LET j == job[s]
        feature == Features[IF j.call = "decide" THEN "classification" ELSE j.call] IN
    /\ pc[s] = "record"
    /\ suggestions' = Append(suggestions,
           [question |-> j.question, status |-> "PENDING",
            requires |-> RequiresHumanConfirmation(j.escalated, feature.action, feature.classes)])
    /\ told' = Append(told, <<>>)
    /\ Done(s)
    /\ UNCHANGED <<config, observations, requests, sent, advanced>>

\* recordObservation, on some day; days are told apart only in the gate.
RecordObservation(o, day) ==
    /\ \A known \in observations : known.id # o.id
    /\ observations' = observations \cup {[id |-> o.id, question |-> o.question, day |-> day,
                                           confidence |-> o.confidence, correct |-> o.correct]}
    /\ UNCHANGED <<config, suggestions, pc, job, requests, sent, advanced, told>>

-----------------------------------------------------------------------------
\* confirm and reject, which are open to a suggestion in any status
FindSuggestion(s, i, verdict) ==
    /\ pc[s] = "idle"
    /\ job' = [job EXCEPT ![s] = [call |-> verdict, id |-> i]] /\ Go(s, "decide")
    /\ UNCHANGED <<config, observations, suggestions, requests, sent, advanced, told>>

\* updateMany where the status is PENDING; no row means that it was decided already.
DecideSuggestion(s) ==
    LET i == job[s].id IN
    /\ pc[s] = "decide"
    /\ IF suggestions[i].status = "PENDING"
       THEN /\ suggestions' = [suggestions EXCEPT ![i].status = job[s].call]
            /\ told' = [told EXCEPT ![i] = Append(@, job[s].call)]
       ELSE UNCHANGED <<suggestions, told>>
    /\ Done(s)
    /\ UNCHANGED <<config, observations, requests, sent, advanced>>

\* A statement fails; the request is answered with an error.
Abort(s) ==
    /\ pc[s] \in {"gate", "record", "decide"} /\ Done(s)
    /\ UNCHANGED <<config, observations, suggestions, requests, sent, advanced, told>>

AiNext ==
    \/ \E o \in Outcomes, day \in 0..MaxDay : RecordObservation(o, day)
    \/ \E s \in Slots :
        \/ \E ask \in DirectAsks : Ask(s, ask, FALSE)
        \/ \E ask \in {FeatureAsk(f) : f \in FeaturesAsked} \cup {Triage(q) : q \in QuestionTypes} :
               Ask(s, ask, TRUE)
        \/ \E outcome \in {"ok", "again", "of no use"}, c \in AnswerConfidences :
               Upstream(s, outcome, c)
        \/ \E readable, fits \in BOOLEAN : Decide(s, readable, fits)
        \/ Record(s) \/ DecideSuggestion(s) \/ Abort(s)
        \/ \E i \in DOMAIN suggestions, verdict \in {"CONFIRMED", "REJECTED"} :
               FindSuggestion(s, i, verdict)

-----------------------------------------------------------------------------
\* What is sent to the provider is not of a local-only class, in whatever mode it is asked
\* for, whichever runtimes there are, and however often the call fails and is sent again.
SentIsPermitted == \A x \in sent : x.to = "provider" => x.level # "local-only"

\* PHASE-2.md, of the hosted decision model: "same privacy, explicit-configuration and policy
\* rules as any external provider".
HostedIsExternal == \A x \in sent : x.to \in {"provider", "hosted"} => x.level # "local-only"

\* A decision that is answered as one that needs no person rests on enough labelled outcomes
\* of its own question, right ones and wrong ones, over enough days.  What triage stores of
\* that answer is judged anew and without the gate, see Record.
UnattendedIsCalibrated ==
    \A q \in advanced :
        LET rows == {o \in observations : o.question = q} IN
        /\ Cardinality(rows) >= MinSamples /\ EvaluationWindow(rows) >= MinDays
        /\ {r.correct : r \in rows} = BOOLEAN
        /\ DecidedAction(q) \notin ForbiddenActions

\* A suggestion is decided once: of the people who decide it at the same time one is
\* acknowledged, and the suggestion says what that one decided.
DecidedOnce ==
    \A i \in DOMAIN told :
        /\ Len(told[i]) <= 1
        /\ told[i] # <<>> => suggestions[i].status = told[i][1]
=============================================================================
