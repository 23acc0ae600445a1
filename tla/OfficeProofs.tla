---------------------------- MODULE OfficeProofs ----------------------------
(***************************************************************************)
(* Proofs about the desks of the office.  Each component has an inductive  *)
(* invariant of its own: what it says of the tables holds at every desk,   *)
(* what it says of requests under way holds while the component moves.     *)
(***************************************************************************)
EXTENDS Office, SumTheorems, SequenceTheorems, TLAPS

-----------------------------------------------------------------------------
(***************************************************************************)
(* AiRegistry: the stages a model has been in before the one it is in.  A  *)
(* request that is to move a model has seen it in the stage before, and    *)
(* what a model has been in it stays to have been in.                      *)
(***************************************************************************)
Needs(stage) ==
    (IF stage \in {"evaluated", "approved", "active"} THEN {"installed"} ELSE {})
        \cup (IF stage \in {"approved", "active"} THEN {"evaluated"} ELSE {})
        \cup (IF stage = "active" THEN {"approved"} ELSE {})

StagesPassed ==
    \A m \in Models :
        /\ registry[m].status \in Reg!Stages \ {"deprecated"} =>
               Needs(registry[m].status) \cup {registry[m].status} \subseteq stages[m]
        /\ registry[m].scored => "evaluated" \in stages[m]

RegJob ==
    {Reg!Idle} \cup [kind : {"register", "score"}, model : Models]
               \cup [kind : {"status"}, model : Models, to : Reg!Stages]

MovesAreDue ==
    \A s \in Slots :
        LET j == job[s] IN
        /\ pc[s] \in {"register", "score"} => j \in [kind : {pc[s]}, model : Models]
        /\ pc[s] = "score" => "evaluated" \in stages[j.model]
        /\ pc[s] = "status" => /\ j \in [kind : {"status"}, model : Models, to : Reg!Stages]
                               /\ Needs(j.to) \subseteq stages[j.model]

RegIInv ==
    /\ registry \in [Models -> [status : Reg!Stages \cup {"none"}, scored : BOOLEAN]]
    /\ stages \in [Models -> SUBSET Reg!Stages]
    /\ StagesPassed
    /\ desk = "library" => Reg!RegTypeOK /\ job \in [Slots -> RegJob] /\ MovesAreDue

LEMMA StagesOnFile ==
    Reg!Stages = {"candidate", "installed", "evaluated", "approved", "active", "deprecated"}
  BY DEF Reg!Stages, Reg!LifecycleNext

\* What a model needs before its next stage, it has been in.
LEMMA NextNeeds ==
    ASSUME NEW from \in Reg!Stages, NEW to \in Reg!Stages, Reg!CanTransitionLifecycle(from, to),
           to # "deprecated"
    PROVE  Needs(to) \subseteq Needs(from) \cup {from}
  BY StagesOnFile DEF Reg!CanTransitionLifecycle, Reg!LifecycleNext, Needs

LEMMA RegInitially == Init => RegIInv
  BY StagesOnFile, BoundsAssumption DEF Init, Reg!RegInit, RegIInv, Reg!RegTypeOK, StagesPassed, MovesAreDue, RegJob

\* What setting one column of a row does to the table.
Registry == [Models -> [status : Reg!Stages \cup {"none"}, scored : BOOLEAN]]

LEMMA StatusSet ==
    ASSUME NEW table \in Registry, NEW m \in Models, NEW x \in Reg!Stages,
           NEW new, new = [table EXCEPT ![m].status = x]
    PROVE  /\ new \in Registry /\ new[m].status = x /\ new[m].scored = table[m].scored
           /\ \A n \in Models \ {m} : new[n] = table[n]
  BY DEF Registry

Scored(table, m) == [table EXCEPT ![m].scored = TRUE]

LEMMA ScoreSet ==
    ASSUME NEW table \in Registry, NEW m \in Models
    PROVE  /\ Scored(table, m) \in Registry /\ Scored(table, m)[m].status = table[m].status
           /\ \A n \in Models \ {m} : Scored(table, m)[n] = table[n]
  BY DEF Registry, Scored

\* The other desks leave the registry as it is.
LEMMA RegElsewhere ==
    ASSUME RegIInv, [Next]_vars, ~(desk = "library" /\ Reg!RegNext)
    PROVE  RegIInv'
<1>1. UNCHANGED <<registry, stages>> /\ (UNCHANGED <<pc, job, requests>> \/ desk # "library")
      /\ desk' = desk
  BY DEF Next, vars, library
<1> QED  BY <1>1 DEF RegIInv, StagesPassed, MovesAreDue, Reg!RegTypeOK

LEMMA RegStep ==
    ASSUME RegIInv, desk = "library", desk' = desk, Reg!RegNext
    PROVE  RegIInv'
<1> USE BoundsAssumption DEF RegIInv, StagesPassed, MovesAreDue, Reg!RegTypeOK, RegJob
<1>1. ASSUME NEW s \in Slots, NEW m \in Models, Reg!FindModelToRegister(s, m)
      PROVE  RegIInv'
  BY <1>1 DEF Reg!FindModelToRegister, Reg!Found
<1>2. ASSUME NEW s \in Slots, NEW m \in Models, Reg!FindModelToScore(s, m)
      PROVE  RegIInv'
  BY <1>2, StagesOnFile DEF Reg!FindModelToScore, Reg!Found, Reg!Scoreable, Needs
<1>3. ASSUME NEW s \in Slots, NEW m \in Models, NEW to \in Reg!Stages,
             Reg!FindModelToMove(s, m, to)
      PROVE  RegIInv'
  <2>1. Needs(to) \subseteq stages[m]
    <3>1. CASE to = "deprecated"
      BY <3>1 DEF Needs
    <3>2. CASE to # "deprecated"
      BY <1>3, <3>2, NextNeeds DEF Reg!FindModelToMove, Reg!CanTransitionLifecycle
    <3> QED  BY <3>1, <3>2
  <2> QED  BY <1>3, <2>1 DEF Reg!FindModelToMove, Reg!Found
<1>4. ASSUME NEW s \in Slots, Reg!RegisterModel(s)
      PROVE  RegIInv'
  <2> DEFINE m == job[s].model
  <2>1. m \in Models
    BY <1>4 DEF Reg!RegisterModel
  <2>2. CASE registry[m].status = "none"
    <3>1. registry' = [registry EXCEPT ![m].status = "candidate"]
      BY <1>4, <2>2 DEF Reg!RegisterModel
    <3>2. /\ registry' \in Registry /\ registry'[m].status = "candidate"
          /\ registry'[m].scored = registry[m].scored
          /\ \A n \in Models \ {m} : registry'[n] = registry[n]
      <4>1. "candidate" \in Reg!Stages
        BY StagesOnFile
      <4>2. registry \in Registry
        BY DEF Registry
      <4> QED  BY <2>1, <3>1, <4>1, <4>2, StatusSet DEF Registry
    <3>3. /\ stages' = [stages EXCEPT ![m] = @ \cup {"candidate"}]
          /\ pc' = [pc EXCEPT ![s] = "idle"] /\ job' = [job EXCEPT ![s] = Reg!Idle]
          /\ UNCHANGED requests
      BY <1>4, <2>2 DEF Reg!RegisterModel, Reg!Done
    <3> QED  BY <2>1, <2>2, <3>2, <3>3, StagesOnFile DEF Needs, Registry
  <2>3. CASE registry[m].status # "none"
    BY <1>4, <2>1, <2>3 DEF Reg!RegisterModel, Reg!Done
  <2> QED  BY <2>2, <2>3
<1>5. ASSUME NEW s \in Slots, Reg!SetModelScore(s)
      PROVE  RegIInv'
  <2> DEFINE m == job[s].model
  <2>1. m \in Models /\ "evaluated" \in stages[m]
    BY <1>5 DEF Reg!SetModelScore
  <2>2. registry' = Scored(registry, m)
    BY <1>5 DEF Reg!SetModelScore, Scored
  <2>3. /\ registry' \in Registry /\ registry'[m].status = registry[m].status
        /\ \A n \in Models \ {m} : registry'[n] = registry[n]
    <3>1. registry \in Registry
      BY DEF Registry
    <3> QED  BY <2>1, <2>2, <3>1, ScoreSet
  <2>4. /\ pc' = [pc EXCEPT ![s] = "idle"] /\ job' = [job EXCEPT ![s] = Reg!Idle]
        /\ UNCHANGED <<requests, stages>>
    BY <1>5 DEF Reg!SetModelScore, Reg!Done
  <2> QED  BY <2>1, <2>3, <2>4 DEF Registry
<1>6. ASSUME NEW s \in Slots, Reg!SetModelStatus(s)
      PROVE  RegIInv'
  <2> DEFINE m == job[s].model  to == job[s].to
  <2>1. m \in Models /\ to \in Reg!Stages /\ Needs(to) \subseteq stages[m]
    BY <1>6 DEF Reg!SetModelStatus
  <2>2. registry' = [registry EXCEPT ![m].status = to]
    BY <1>6 DEF Reg!SetModelStatus
  <2>3. /\ registry' \in Registry /\ registry'[m].status = to
        /\ registry'[m].scored = registry[m].scored
        /\ \A n \in Models \ {m} : registry'[n] = registry[n]
    <3>1. registry \in Registry
      BY DEF Registry
    <3> QED  BY <2>1, <2>2, <3>1, StatusSet DEF Registry
  <2> QED  BY <1>6, <2>1, <2>3 DEF Reg!SetModelStatus, Reg!Done, Registry
<1> QED
  BY <1>1, <1>2, <1>3, <1>4, <1>5, <1>6 DEF Reg!RegNext

\* A model in use has been installed, evaluated and approved, however many requests move
\* models at once and whatever they saw: RegistryService looks a model up before it writes.
THEOREM NoStageSkippedAlways == Spec => []NoStageSkipped
<1>1. RegIInv /\ [Next]_vars => RegIInv'
  BY RegElsewhere, RegStep DEF Next, vars
<1>2. RegIInv => NoStageSkipped
  BY StagesOnFile DEF RegIInv, StagesPassed, NoStageSkipped, Reg!NoStageSkipped, Needs
<1> QED  BY RegInitially, <1>1, <1>2, PTL DEF Spec

-----------------------------------------------------------------------------
(***************************************************************************)
(* AiGateway: a call under way was resolved to a runtime its data may see, *)
(* under settings that never change; labelled outcomes are only ever       *)
(* added; and a suggestion has one verdict once it is no longer pending.   *)
(***************************************************************************)
Verdicts == {"CONFIRMED", "REJECTED"}

AiCall ==
    [call : Ai!Calls, classes : SUBSET Ai!Classes, question : QuestionTypes \cup {"none"},
     runtime : {"local", "provider"}, kept : BOOLEAN, attempt : Int, escalated : BOOLEAN]

AiJob == {Ai!Idle} \cup AiCall \cup [call : Verdicts, id : Nat]

CallsAreDue ==
    \A s \in Slots :
        LET j == job[s] IN
        /\ pc[s] \in {"upstream", "gate", "record"} =>
               /\ j \in AiCall
               /\ j.runtime = "provider" => j.classes \cap Ai!Sensitive = {}
               /\ j.call = "decide" => j.question \in QuestionTypes
        /\ pc[s] = "gate" => j.call = "decide"
        /\ pc[s] = "decide" => j \in [call : Verdicts, id : DOMAIN suggestions]

Suggestion ==
    [question : QuestionTypes \cup {"none"}, status : {"PENDING"} \cup Verdicts, requires : BOOLEAN]

OneVerdict ==
    \A i \in DOMAIN suggestions :
        /\ suggestions[i].status = "PENDING" => told[i] = <<>>
        /\ suggestions[i].status # "PENDING" => told[i] = <<suggestions[i].status>>

Labelled == \A o \in observations : o.day \in 0..MaxDay /\ o.correct \in BOOLEAN

AiIInv ==
    /\ config \in Configs
    /\ IsFiniteSet(observations) /\ Labelled
    /\ suggestions \in Seq(Suggestion) /\ told \in Seq(Seq(Verdicts))
    /\ Len(told) = Len(suggestions) /\ OneVerdict
    /\ advanced \subseteq QuestionTypes
    /\ Ai!SentIsPermitted /\ Ai!UnattendedIsCalibrated
    /\ desk = "models" =>
           /\ pc \in [Slots -> Ai!Busy \cup {"idle"}] /\ requests \in 0..AiRequests
           /\ job \in [Slots -> AiJob] /\ CallsAreDue

\* What UnattendedIsCalibrated asks of the outcomes of a question.
OutcomesOf(q, known) == {o \in known : o.question = q}
Calibrated(q, outcomes) ==
    /\ Cardinality(outcomes) >= MinSamples /\ Ai!EvaluationWindow(outcomes) >= MinDays
    /\ {r.correct : r \in outcomes} = BOOLEAN
    /\ Ai!DecidedAction(q) \notin Ai!ForbiddenActions

\* The instance has a Cardinality of its own, which is the same.
LEMMA SameCardinality == \A S : Ai!Cardinality(S) = Cardinality(S)
  BY Zenon DEF Ai!Cardinality, Cardinality

LEMMA UnattendedUnfolds ==
    /\ Ai!UnattendedIsCalibrated <=>
           \A q \in advanced : Calibrated(q, OutcomesOf(q, observations))
    /\ Ai!UnattendedIsCalibrated' <=>
           \A q \in advanced' : Calibrated(q, OutcomesOf(q, observations'))
  BY Zenon, SameCardinality DEF Ai!UnattendedIsCalibrated, Calibrated, OutcomesOf

\* Max and Min of the community modules find what they are named for.
LEMMA Extremes ==
    ASSUME NEW n \in Nat, NEW S, S \subseteq 0..n, S # {}
    PROVE  /\ Ai!Max(S) \in S /\ \A y \in S : y <= Ai!Max(S)
           /\ Ai!Min(S) \in S /\ \A y \in S : Ai!Min(S) <= y
<1>1. \E m \in S : \A y \in S : m <= y
  <2>1. S \subseteq Nat
    OBVIOUS
  <2> QED  BY <2>1, SmallestNumber
<1>2. \E m \in S : \A y \in S : m >= y
  <2> DEFINE T == {n - x : x \in S}
  <2>1. PICK m \in T : \A y \in T : m <= y
    <3>1. \A x \in S : n - x \in Nat
      OBVIOUS
    <3>2. T \subseteq Nat /\ T # {}
      BY <3>1
    <3> HIDE DEF T
    <3> QED  BY <3>2, SmallestNumber
  <2>2. PICK x \in S : m = n - x
    BY <2>1
  <2>3. \A y \in S : n - x <= n - y
    BY <2>1, <2>2
  <2>4. \A y \in S : x >= y
    BY <2>3
  <2> QED  BY <2>4
<1>3. \A y \in S : y \in Int
  OBVIOUS
<1>4. Ai!Max(S) \in S /\ \A y \in S : Ai!Max(S) >= y
  BY <1>2 DEF Ai!Max
<1>5. Ai!Min(S) \in S /\ \A y \in S : Ai!Min(S) <= y
  BY <1>1 DEF Ai!Min
<1> QED  BY <1>3, <1>4, <1>5

\* More labelled outcomes of a question are no worse.
LEMMA MoreOutcomes ==
    ASSUME NEW n \in Nat, NEW more, IsFiniteSet(more), NEW few, few \subseteq more,
           \A r \in more : r.day \in 0..n
    PROVE  /\ Cardinality(few) \in Nat /\ Cardinality(more) \in Nat
           /\ Cardinality(few) <= Cardinality(more)
           /\ Ai!EvaluationWindow(few) \in Nat /\ Ai!EvaluationWindow(more) \in Nat
           /\ Ai!EvaluationWindow(few) <= Ai!EvaluationWindow(more)
<1> DEFINE days(R) == {r.day : r \in R}
<1>1. Cardinality(few) \in Nat /\ Cardinality(more) \in Nat /\ Cardinality(few) <= Cardinality(more)
  BY FS_Subset, FS_CardinalityType
<1>2. ASSUME NEW R, R \subseteq more, R # {}
      PROVE  /\ Ai!Max(days(R)) \in days(R) /\ Ai!Min(days(R)) \in days(R)
             /\ \A d \in days(R) : Ai!Min(days(R)) <= d /\ d <= Ai!Max(days(R))
             /\ Ai!EvaluationWindow(R) = Ai!Max(days(R)) - Ai!Min(days(R))
  <2>1. days(R) \subseteq 0..n /\ days(R) # {}
    BY <1>2
  <2>2. Ai!EvaluationWindow(R) = Ai!Max(days(R)) - Ai!Min(days(R))
    BY <1>2 DEF Ai!EvaluationWindow
  <2> HIDE DEF days
  <2> QED  BY <2>1, <2>2, Extremes
<1>3. \A R : R \subseteq more => \A d \in days(R) : d \in 0..n
  OBVIOUS
<1>4. days(few) \subseteq days(more)
  OBVIOUS
<1>5. Ai!EvaluationWindow({}) = 0
  BY DEF Ai!EvaluationWindow
<1> HIDE DEF days
<1>6. ASSUME NEW R, R \subseteq more
      PROVE  Ai!EvaluationWindow(R) \in Nat
  <2>1. CASE R = {}
    BY <1>5, <2>1
  <2>2. CASE R # {}
    BY <1>2, <1>3, <1>6, <2>2
  <2> QED  BY <2>1, <2>2
<1>7. Ai!EvaluationWindow(few) <= Ai!EvaluationWindow(more)
  <2>1. CASE few = {}
    BY <1>5, <1>6, <2>1
  <2>2. CASE few # {}
    <3> DEFINE a == Ai!Max(days(few))  b == Ai!Min(days(few))
               c == Ai!Max(days(more))  d == Ai!Min(days(more))
    <3>1. a \in days(few) /\ b \in days(few) /\ Ai!EvaluationWindow(few) = a - b
      BY <1>2, <2>2
    <3>2. /\ \A x \in days(more) : d <= x /\ x <= c
          /\ c \in days(more) /\ d \in days(more) /\ Ai!EvaluationWindow(more) = c - d
      <4>1. more # {}
        BY <2>2
      <4> QED  BY <1>2, <4>1
    <3>3. a \in Int /\ b \in Int /\ c \in Int /\ d \in Int
      BY <1>3, <3>1, <3>2
    <3>4. d <= b /\ a <= c
      BY <1>4, <3>1, <3>2
    <3> HIDE DEF a, b, c, d
    <3> QED  BY <3>1, <3>2, <3>3, <3>4
  <2> QED  BY <2>1, <2>2
<1> QED  BY <1>1, <1>6, <1>7

LEMMA AiInitially == Init => AiIInv
<1> SUFFICES ASSUME Init
             PROVE  AiIInv
  OBVIOUS
<1>1. /\ config \in Configs /\ observations = {} /\ suggestions = <<>> /\ told = <<>>
      /\ sent = {} /\ advanced = {} /\ requests = 0
      /\ pc = [s \in Slots |-> "idle"] /\ job = [s \in Slots |-> Ai!Idle]
  BY DEF Init, Ai!AiInit
<1>2. IsFiniteSet({})
  BY FS_EmptySet
<1>3. Ai!SentIsPermitted /\ Ai!UnattendedIsCalibrated
  BY <1>1 DEF Ai!SentIsPermitted, Ai!UnattendedIsCalibrated
<1>4. CallsAreDue /\ pc \in [Slots -> Ai!Busy \cup {"idle"}] /\ job \in [Slots -> AiJob]
  BY <1>1 DEF CallsAreDue, AiJob
<1>5. Labelled /\ OneVerdict
  BY <1>1 DEF Labelled, OneVerdict
<1>6. suggestions \in Seq(Suggestion) /\ told \in Seq(Seq(Verdicts)) /\ Len(told) = Len(suggestions)
  BY <1>1
<1>7. requests \in 0..AiRequests
  BY <1>1, BoundsAssumption
<1> QED  BY <1>1, <1>2, <1>3, <1>4, <1>5, <1>6, <1>7 DEF AiIInv

\* The other desks leave the tables of the gateway as they are.
LEMMA AiElsewhere ==
    ASSUME AiIInv, [Next]_vars, ~(desk = "models" /\ Ai!AiNext)
    PROVE  AiIInv'
<1>1. UNCHANGED models /\ (UNCHANGED <<pc, job, requests>> \/ desk # "models") /\ desk' = desk
  BY DEF Next, vars
<1> QED
  BY <1>1 DEF models, AiIInv, Labelled, OneVerdict, CallsAreDue, Ai!SentIsPermitted,
              Ai!UnattendedIsCalibrated

\* A step of one request, of which the others see nothing.
LEMMA AiOneCall ==
    ASSUME CallsAreDue, pc \in [Slots -> Ai!Busy \cup {"idle"}], job \in [Slots -> AiJob],
           NEW s \in Slots, NEW p \in Ai!Busy \cup {"idle"}, NEW j \in AiJob,
           pc' = [pc EXCEPT ![s] = p], job' = [job EXCEPT ![s] = j], config' = config,
           DOMAIN suggestions \subseteq DOMAIN suggestions',
           /\ p \in {"upstream", "gate", "record"} =>
                  /\ j \in AiCall
                  /\ j.runtime = "provider" => j.classes \cap Ai!Sensitive = {}
                  /\ j.call = "decide" => j.question \in QuestionTypes
           /\ p = "gate" => j.call = "decide"
           /\ p = "decide" => j \in [call : Verdicts, id : DOMAIN suggestions]
    PROVE  /\ CallsAreDue' /\ pc' \in [Slots -> Ai!Busy \cup {"idle"}]
           /\ job' \in [Slots -> AiJob]
<1>1. pc' \in [Slots -> Ai!Busy \cup {"idle"}] /\ job' \in [Slots -> AiJob]
  OBVIOUS
<1>2. \A x : x \in [call : Verdicts, id : DOMAIN suggestions] =>
             x \in [call : Verdicts, id : DOMAIN suggestions']
  OBVIOUS
<1>3. ASSUME NEW t \in Slots
      PROVE  LET k == job'[t] IN
             /\ pc'[t] \in {"upstream", "gate", "record"} =>
                    /\ k \in AiCall
                    /\ k.runtime = "provider" => k.classes \cap Ai!Sensitive = {}
                    /\ k.call = "decide" => k.question \in QuestionTypes
             /\ pc'[t] = "gate" => k.call = "decide"
             /\ pc'[t] = "decide" => k \in [call : Verdicts, id : DOMAIN suggestions]
  <2>1. CASE t = s
    <3>1. pc'[t] = p /\ job'[t] = j
      BY <2>1
    <3> QED  BY <3>1
  <2>2. CASE t # s
    <3>1. pc'[t] = pc[t] /\ job'[t] = job[t]
      BY <2>2
    <3> QED  BY <3>1 DEF CallsAreDue
  <2> QED  BY <2>1, <2>2
<1> QED  BY <1>1, <1>2, <1>3 DEF CallsAreDue

\* The priorities name each runtime, and the runtime that is resolved is one that may see the data.
LEMMA Resolved ==
    ASSUME NEW mode, NEW classes, NEW available,
           Ai!ResolvePermittedRuntime(mode, classes, available) = "provider"
    PROVE  classes \cap Ai!Sensitive = {}
<1> DEFINE usable == available \cap Ai!AllowedRuntimes(Ai!PrivacyLevelFor(classes),
                                                         "provider" \in available)
<1>1. Ai!First(mode, usable) = "provider"
  BY DEF Ai!ResolvePermittedRuntime
<1>2. "provider" \in usable
  <2> HIDE DEF usable
  <2> DEFINE places == {i \in DOMAIN Ai!DefaultPriority : Ai!DefaultPriority[i] \in usable}
  <2>1. CASE mode \in usable
    BY <1>1, <2>1 DEF Ai!First
  <2>2. CASE mode \notin usable
    <3>1. places # {} /\ Ai!DefaultPriority[Ai!Min(places)] = "provider"
      BY <1>1, <2>2 DEF Ai!First
    <3>2. places \subseteq 0..3
      BY DEF Ai!DefaultPriority
    <3>3. Ai!Min(places) \in places
      BY <3>1, <3>2, Extremes
    <3> QED  BY <3>1, <3>3
  <2> QED  BY <2>1, <2>2
<1> QED  BY <1>2 DEF Ai!AllowedRuntimes, Ai!PrivacyLevelFor

\* What the calls ask is within what the gateway types.
AiAsk == [call : Ai!Calls, classes : SUBSET Ai!Classes, mode : Ai!Modes,
          question : QuestionTypes \cup {"none"}]

LEMMA AsksAreTyped ==
    ASSUME NEW ask, \/ ask \in DirectAsks
                    \/ \E f \in FeaturesAsked : ask = Ai!FeatureAsk(f)
                    \/ \E q \in QuestionTypes : ask = Ai!Triage(q)
    PROVE  ask \in AiAsk /\ (ask.call = "decide" => ask.question \in QuestionTypes)
<1>1. CASE ask \in DirectAsks
  BY <1>1, ModelsAssumption DEF Ai!AiAssumption, Ai!Calls, AiAsk
<1>2. CASE \E f \in FeaturesAsked : ask = Ai!FeatureAsk(f)
  <2>1. PICK f \in FeaturesAsked : ask = Ai!FeatureAsk(f)
    BY <1>2
  <2>2. f \in DOMAIN Ai!Features
    BY ModelsAssumption DEF Ai!AiAssumption
  <2>3. f # "decide" /\ Ai!Features[f].classes \subseteq Ai!Classes
    BY <2>2 DEF Ai!Features, Ai!Classes, Ai!Sensitive
  <2> QED  BY <2>1, <2>2, <2>3 DEF Ai!FeatureAsk, Ai!Modes, Ai!Calls, AiAsk
<1>3. CASE \E q \in QuestionTypes : ask = Ai!Triage(q)
  BY <1>3 DEF Ai!Triage, Ai!Modes, Ai!Calls, Ai!Classes, AiAsk
<1> QED  BY <1>1, <1>2, <1>3

LEMMA AiAskKeeps ==
    ASSUME AiIInv, desk = "models", desk' = desk, NEW s \in Slots, NEW ask, NEW kept \in BOOLEAN,
           ask \in AiAsk, ask.call = "decide" => ask.question \in QuestionTypes,
           Ai!Ask(s, ask, kept)
    PROVE  AiIInv'
<1> DEFINE runtime == IF config.enabled
                      THEN Ai!ResolvePermittedRuntime(ask.mode, ask.classes, Ai!Available(ask.call))
                      ELSE "disabled"
           call == [call |-> ask.call, classes |-> ask.classes, question |-> ask.question,
                    runtime |-> runtime, kept |-> kept, attempt |-> 0, escalated |-> FALSE]
<1>1. /\ UNCHANGED <<config, observations, suggestions, sent, advanced, told>>
      /\ requests < AiRequests /\ requests' = requests + 1
      /\ IF runtime \in {"local", "provider"}
         THEN job' = [job EXCEPT ![s] = call] /\ pc' = [pc EXCEPT ![s] = "upstream"]
         ELSE UNCHANGED <<pc, job>>
  BY DEF Ai!Ask, Ai!Go
<1>2. CallsAreDue' /\ pc' \in [Slots -> Ai!Busy \cup {"idle"}] /\ job' \in [Slots -> AiJob]
  <2>1. CASE runtime \in {"local", "provider"}
    <3>1. runtime = "provider" => ask.classes \cap Ai!Sensitive = {}
      <4>1. config.enabled
        BY <2>1
      <4>2. runtime = Ai!ResolvePermittedRuntime(ask.mode, ask.classes, Ai!Available(ask.call))
        BY <4>1
      <4> QED  BY <4>1, <4>2, Resolved
    <3> HIDE DEF runtime
    <3>2. call \in AiCall
      BY <2>1 DEF AiAsk, AiCall
    <3>3. call \in AiJob /\ "upstream" \in Ai!Busy
      BY <3>2 DEF AiJob, Ai!Busy
    <3>4. /\ call.runtime = runtime /\ call.classes = ask.classes
          /\ call.call = ask.call /\ call.question = ask.question
      OBVIOUS
    <3> HIDE DEF call
    <3> QED  BY <1>1, <2>1, <3>1, <3>2, <3>3, <3>4, AiOneCall DEF AiIInv
  <2>2. CASE runtime \notin {"local", "provider"}
    <3> HIDE DEF runtime, call
    <3>1. UNCHANGED <<pc, job, config, suggestions>>
      BY <1>1, <2>2
    <3> QED  BY <3>1 DEF AiIInv, CallsAreDue
  <2> QED  BY <2>1, <2>2
<1> HIDE DEF runtime, call
<1>3. requests' \in 0..AiRequests
  BY <1>1, BoundsAssumption DEF AiIInv
<1> QED
  BY <1>1, <1>2, <1>3 DEF AiIInv, Labelled, OneVerdict, Ai!SentIsPermitted, Ai!UnattendedIsCalibrated

LEMMA AiUpstreamKeeps ==
    ASSUME AiIInv, desk = "models", desk' = desk, NEW s \in Slots,
           NEW outcome, NEW confidence, Ai!Upstream(s, outcome, confidence)
    PROVE  AiIInv'
<1> DEFINE j == job[s]  to == Ai!Destination(j)
           x == [level |-> Ai!PrivacyLevelFor(j.classes), to |-> to]
<1>1. /\ j \in AiCall
      /\ j.runtime = "provider" => j.classes \cap Ai!Sensitive = {}
      /\ j.call = "decide" => j.question \in QuestionTypes
  BY DEF Ai!Upstream, AiIInv, CallsAreDue
<1>2. /\ sent' = sent \cup {x}
      /\ UNCHANGED <<config, observations, suggestions, requests, advanced, told>>
  BY DEF Ai!Upstream
<1>3. Ai!SentIsPermitted'
  <2>1. to = "provider" => j.runtime = "provider"
    BY DEF Ai!Destination
  <2>2. j.classes \cap Ai!Sensitive = {} => Ai!PrivacyLevelFor(j.classes) # "local-only"
    BY DEF Ai!PrivacyLevelFor
  <2>3. x.to = "provider" => x.level # "local-only"
    BY <1>1, <2>1, <2>2
  <2> HIDE DEF x
  <2> QED  BY <1>1, <1>2, <2>3 DEF AiIInv, Ai!SentIsPermitted
<1>4. CallsAreDue' /\ pc' \in [Slots -> Ai!Busy \cup {"idle"}] /\ job' \in [Slots -> AiJob]
  <2>1. CASE outcome = "again" /\ j.attempt < MaxRetries
    <3> DEFINE k == [j EXCEPT !.attempt = @ + 1]
    <3>1. job' = [job EXCEPT ![s] = k] /\ pc' = pc
      BY <2>1 DEF Ai!Upstream
    <3>2. k \in AiCall /\ k.runtime = j.runtime /\ k.classes = j.classes /\ k.call = j.call
          /\ k.question = j.question
      BY <1>1 DEF AiCall
    <3>3. k \in AiJob /\ "upstream" \in Ai!Busy /\ pc' = [pc EXCEPT ![s] = "upstream"]
      BY <3>1, <3>2 DEF AiJob, Ai!Busy, Ai!Upstream, AiIInv
    <3> HIDE DEF k
    <3> QED  BY <1>1, <1>2, <3>1, <3>2, <3>3, AiOneCall DEF AiIInv
  <2>2. CASE ~(outcome = "again" /\ j.attempt < MaxRetries) /\ j.call = "decide"
    <3> DEFINE e == outcome # "ok" \/ confidence < Ai!DecideThreshold(j.question)
               k == [j EXCEPT !.escalated = e]
    <3>1. job' = [job EXCEPT ![s] = k] /\ pc' = [pc EXCEPT ![s] = "gate"]
      BY <2>2 DEF Ai!Upstream, Ai!Go
    <3>2. e \in BOOLEAN
      OBVIOUS
    <3> HIDE DEF e
    <3>3. k \in AiCall /\ k.runtime = j.runtime /\ k.classes = j.classes /\ k.call = j.call
          /\ k.question = j.question
      BY <1>1, <3>2 DEF AiCall
    <3>4. k \in AiJob /\ "gate" \in Ai!Busy
      BY <3>3 DEF AiJob, Ai!Busy
    <3> HIDE DEF k
    <3> QED  BY <1>1, <1>2, <2>2, <3>1, <3>3, <3>4, AiOneCall DEF AiIInv
  <2>3. CASE ~(outcome = "again" /\ j.attempt < MaxRetries) /\ j.call # "decide"
    <3>1. CASE outcome = "ok" /\ j.kept
      <4>1. pc' = [pc EXCEPT ![s] = "record"] /\ job' = job
        BY <2>3, <3>1 DEF Ai!Upstream, Ai!Go
      <4>2. job' = [job EXCEPT ![s] = j] /\ j \in AiJob /\ "record" \in Ai!Busy
        BY <4>1 DEF AiIInv, Ai!Busy
      <4> HIDE DEF j
      <4> QED  BY <1>1, <1>2, <4>1, <4>2, AiOneCall DEF AiIInv
    <3>2. CASE ~(outcome = "ok" /\ j.kept)
      <4>1. pc' = [pc EXCEPT ![s] = "idle"] /\ job' = [job EXCEPT ![s] = Ai!Idle]
        BY <2>3, <3>2 DEF Ai!Upstream, Ai!Go, Ai!Done
      <4>2. Ai!Idle \in AiJob
        BY DEF AiJob
      <4> QED  BY <1>2, <4>1, <4>2, AiOneCall DEF AiIInv
    <3> QED  BY <3>1, <3>2
  <2> QED  BY <2>1, <2>2, <2>3
<1> HIDE DEF j, to, x
<1> QED
  BY <1>2, <1>3, <1>4 DEF AiIInv, Labelled, OneVerdict, Ai!UnattendedIsCalibrated

\* The gate lets through what UnattendedIsCalibrated asks of the outcomes on file.
LEMMA GateCalibrates ==
    ASSUME AiIInv, NEW q, NEW readable, NEW fits, Ai!AutoAdvanceGate(q, readable, fits),
           Ai!DecidedAction(q) \notin Ai!ForbiddenActions
    PROVE  Calibrated(q, OutcomesOf(q, observations))
<1> DEFINE labelled == OutcomesOf(q, observations)
<1>1. Ai!CalibrationGate(labelled, MinSamples, MinDays, fits)
  BY Zenon DEF Ai!AutoAdvanceGate, OutcomesOf
<1>2. \A r \in labelled : r.correct \in BOOLEAN
  BY DEF AiIInv, Labelled, OutcomesOf
<1> HIDE DEF labelled
<1>3. /\ Cardinality(labelled) >= MinSamples /\ Ai!EvaluationWindow(labelled) >= MinDays
      /\ Ai!Right(labelled) # {} /\ Ai!Wrong(labelled) # {}
  BY <1>1, SameCardinality DEF Ai!CalibrationGate
<1>4. {r.correct : r \in labelled} = BOOLEAN
  <2>1. PICK a \in labelled : a.correct
    BY <1>3 DEF Ai!Right
  <2>2. PICK b \in labelled : ~b.correct
    BY <1>3 DEF Ai!Wrong
  <2>3. a.correct = TRUE /\ b.correct = FALSE
    BY <1>2, <2>1, <2>2
  <2> QED  BY <1>2, <2>3
<1> QED  BY <1>3, <1>4 DEF Calibrated, labelled

LEMMA AiDecideKeeps ==
    ASSUME AiIInv, desk = "models", desk' = desk, NEW s \in Slots,
           NEW readable \in BOOLEAN, NEW fits \in BOOLEAN, Ai!Decide(s, readable, fits)
    PROVE  AiIInv'
<1> DEFINE j == job[s]
<1>1. /\ j \in AiCall
      /\ j.runtime = "provider" => j.classes \cap Ai!Sensitive = {}
      /\ j.question \in QuestionTypes
  BY DEF Ai!Decide, AiIInv, CallsAreDue
<1>2. UNCHANGED <<config, observations, suggestions, requests, sent, told>>
  BY DEF Ai!Decide
<1>3. CallsAreDue' /\ pc' \in [Slots -> Ai!Busy \cup {"idle"}] /\ job' \in [Slots -> AiJob]
  <2>1. CASE j.kept
    <3>1. pc' = [pc EXCEPT ![s] = "record"] /\ job' = job
      BY <2>1 DEF Ai!Decide, Ai!Go
    <3>2. job' = [job EXCEPT ![s] = j] /\ j \in AiJob /\ "record" \in Ai!Busy
      BY <3>1 DEF AiIInv, Ai!Busy
    <3> HIDE DEF j
    <3> QED  BY <1>1, <1>2, <3>1, <3>2, AiOneCall DEF AiIInv
  <2>2. CASE ~j.kept
    <3>1. pc' = [pc EXCEPT ![s] = "idle"] /\ job' = [job EXCEPT ![s] = Ai!Idle]
      BY <2>2 DEF Ai!Decide, Ai!Go, Ai!Done
    <3>2. Ai!Idle \in AiJob
      BY DEF AiJob
    <3> QED  BY <1>2, <3>1, <3>2, AiOneCall DEF AiIInv
  <2> QED  BY <2>1, <2>2
<1>4. ASSUME NEW q \in advanced', q \notin advanced
      PROVE  q \in QuestionTypes /\ Calibrated(q, OutcomesOf(q, observations'))
  <2>1. /\ q = j.question /\ Ai!AutoAdvanceGate(j.question, readable, fits)
        /\ ~Ai!RequiresHumanConfirmation(j.escalated, Ai!DecidedAction(j.question), j.classes)
    BY <1>4 DEF Ai!Decide
  <2>2. Ai!DecidedAction(q) \notin Ai!ForbiddenActions
    BY <2>1 DEF Ai!RequiresHumanConfirmation
  <2> QED  BY <1>1, <1>2, <2>1, <2>2, GateCalibrates
<1>5. Ai!UnattendedIsCalibrated' /\ advanced' \subseteq QuestionTypes
  <2>1. \A q \in advanced : Calibrated(q, OutcomesOf(q, observations'))
    BY <1>2, UnattendedUnfolds DEF AiIInv
  <2>2. \A q \in advanced' : Calibrated(q, OutcomesOf(q, observations'))
    BY <1>4, <2>1
  <2> QED  BY <1>4, <2>2, UnattendedUnfolds DEF AiIInv
<1> QED
  BY <1>2, <1>3, <1>5 DEF AiIInv, Labelled, OneVerdict, Ai!SentIsPermitted

LEMMA AiRecordKeeps ==
    ASSUME AiIInv, desk = "models", desk' = desk, NEW s \in Slots, Ai!Record(s)
    PROVE  AiIInv'
<1> DEFINE j == job[s]
           feature == Ai!Features[IF j.call = "decide" THEN "classification" ELSE j.call]
           new == [question |-> j.question, status |-> "PENDING",
                   requires |-> Ai!RequiresHumanConfirmation(j.escalated, feature.action,
                                                             feature.classes)]
<1>1. j \in AiCall
  BY DEF Ai!Record, AiIInv, CallsAreDue
<1>2. /\ UNCHANGED <<config, observations, requests, sent, advanced>>
      /\ suggestions' = Append(suggestions, new) /\ told' = Append(told, <<>>)
      /\ pc' = [pc EXCEPT ![s] = "idle"] /\ job' = [job EXCEPT ![s] = Ai!Idle]
  BY DEF Ai!Record, Ai!Done, Ai!Go
<1>3. Ai!RequiresHumanConfirmation(j.escalated, feature.action, feature.classes) \in BOOLEAN
  <2>1. j.escalated \in BOOLEAN
    BY <1>1 DEF AiCall
  <2> HIDE DEF feature, j
  <2> QED  BY <2>1 DEF Ai!RequiresHumanConfirmation
<1>4. new \in Suggestion /\ new.status = "PENDING"
  BY <1>1, <1>3 DEF Suggestion, AiCall
<1> HIDE DEF new, feature
<1>5. /\ suggestions' \in Seq(Suggestion) /\ told' \in Seq(Seq(Verdicts))
      /\ Len(told') = Len(suggestions') /\ OneVerdict'
      /\ DOMAIN suggestions \subseteq DOMAIN suggestions'
  <2>1. <<>> \in Seq(Verdicts)
    OBVIOUS
  <2>2. /\ Len(suggestions') = Len(suggestions) + 1 /\ Len(told') = Len(told) + 1
        /\ \A i \in 1..Len(suggestions) :
               suggestions'[i] = suggestions[i] /\ told'[i] = told[i]
        /\ suggestions'[Len(suggestions) + 1] = new /\ told'[Len(told) + 1] = <<>>
        /\ suggestions' \in Seq(Suggestion) /\ told' \in Seq(Seq(Verdicts))
    BY <1>2, <1>4, <2>1 DEF AiIInv
  <2>3. DOMAIN suggestions = 1..Len(suggestions) /\ DOMAIN suggestions' = 1..Len(suggestions')
        /\ Len(suggestions) \in Nat
    BY <2>2 DEF AiIInv
  <2>4. OneVerdict /\ Len(told) = Len(suggestions)
    BY DEF AiIInv
  <2>5. ASSUME NEW i \in DOMAIN suggestions'
        PROVE  /\ suggestions'[i].status = "PENDING" => told'[i] = <<>>
               /\ suggestions'[i].status # "PENDING" => told'[i] = <<suggestions'[i].status>>
    <3>1. CASE i \in DOMAIN suggestions
      BY <2>2, <2>3, <2>4, <3>1 DEF OneVerdict
    <3>2. CASE i \notin DOMAIN suggestions
      <4>1. i = Len(suggestions) + 1
        BY <2>2, <2>3, <3>2
      <4>2. suggestions'[i] = new
        BY <2>2, <4>1
      <4>3. told'[i] = <<>>
        BY <2>2, <2>4, <4>1
      <4> QED  BY Zenon, <1>4, <4>2, <4>3
    <3> QED  BY <3>1, <3>2
  <2>6. OneVerdict'
    BY <2>5 DEF OneVerdict
  <2> QED  BY <2>2, <2>3, <2>4, <2>6
<1>6. CallsAreDue' /\ pc' \in [Slots -> Ai!Busy \cup {"idle"}] /\ job' \in [Slots -> AiJob]
  <2>1. Ai!Idle \in AiJob
    BY DEF AiJob
  <2> QED  BY <1>2, <1>5, <2>1, AiOneCall DEF AiIInv
<1> QED
  BY <1>2, <1>5, <1>6 DEF AiIInv, Labelled, Ai!SentIsPermitted, Ai!UnattendedIsCalibrated

LEMMA AiObservationKeeps ==
    ASSUME AiIInv, desk = "models", desk' = desk, NEW o \in Outcomes, NEW day \in 0..MaxDay,
           Ai!RecordObservation(o, day)
    PROVE  AiIInv'
<1> DEFINE new == [id |-> o.id, question |-> o.question, day |-> day,
                   confidence |-> o.confidence, correct |-> o.correct]
<1>1. /\ observations' = observations \cup {new}
      /\ UNCHANGED <<config, suggestions, pc, job, requests, sent, advanced, told>>
  BY DEF Ai!RecordObservation
<1>2. new.day \in 0..MaxDay /\ new.correct \in BOOLEAN
  BY ModelsAssumption DEF Ai!AiAssumption
<1> HIDE DEF new
<1>3. IsFiniteSet(observations') /\ Labelled'
  BY <1>1, <1>2, FS_AddElement DEF AiIInv, Labelled
<1>4. Ai!UnattendedIsCalibrated'
  <2> SUFFICES ASSUME NEW q \in advanced
               PROVE  Calibrated(q, OutcomesOf(q, observations'))
    BY <1>1, UnattendedUnfolds
  <2> DEFINE few == OutcomesOf(q, observations)  more == OutcomesOf(q, observations')
  <2>1. Calibrated(q, few)
    BY UnattendedUnfolds DEF AiIInv
  <2>2. few \subseteq more /\ more \subseteq observations'
    BY <1>1 DEF OutcomesOf
  <2>3. IsFiniteSet(more) /\ \A r \in more : r.day \in 0..MaxDay /\ r.correct \in BOOLEAN
    <3>1. IsFiniteSet(more)
      BY <1>3, <2>2, FS_Subset
    <3> QED  BY <1>3, <2>2, <3>1 DEF Labelled
  <2>4. MinSamples \in Nat /\ MinDays \in Nat /\ MaxDay \in Nat
    BY ModelsAssumption DEF Ai!AiAssumption
  <2> HIDE DEF few, more
  <2>5. /\ Cardinality(few) \in Nat /\ Cardinality(more) \in Nat
        /\ Cardinality(few) <= Cardinality(more)
        /\ Ai!EvaluationWindow(few) \in Nat /\ Ai!EvaluationWindow(more) \in Nat
        /\ Ai!EvaluationWindow(few) <= Ai!EvaluationWindow(more)
    BY <2>2, <2>3, <2>4, MoreOutcomes
  <2>6. {r.correct : r \in more} = BOOLEAN
    BY <2>1, <2>2, <2>3 DEF Calibrated
  <2> QED  BY <2>1, <2>4, <2>5, <2>6 DEF Calibrated, more
<1> QED
  BY <1>1, <1>3, <1>4 DEF AiIInv, OneVerdict, CallsAreDue, Ai!SentIsPermitted

LEMMA AiFindKeeps ==
    ASSUME AiIInv, desk = "models", desk' = desk, NEW s \in Slots, NEW i \in DOMAIN suggestions,
           NEW verdict \in Verdicts, Ai!FindSuggestion(s, i, verdict)
    PROVE  AiIInv'
<1> DEFINE j == [call |-> verdict, id |-> i]
<1>1. /\ pc' = [pc EXCEPT ![s] = "decide"] /\ job' = [job EXCEPT ![s] = j]
      /\ UNCHANGED <<config, observations, suggestions, requests, sent, advanced, told>>
  BY DEF Ai!FindSuggestion, Ai!Go
<1>2. i \in Nat
  BY DEF AiIInv
<1>3. j \in [call : Verdicts, id : DOMAIN suggestions] /\ j \in AiJob /\ "decide" \in Ai!Busy
  BY <1>2 DEF AiJob, Ai!Busy
<1> HIDE DEF j
<1>4. CallsAreDue' /\ pc' \in [Slots -> Ai!Busy \cup {"idle"}] /\ job' \in [Slots -> AiJob]
  BY <1>1, <1>3, AiOneCall DEF AiIInv
<1> QED
  BY <1>1, <1>4 DEF AiIInv, Labelled, OneVerdict, Ai!SentIsPermitted, Ai!UnattendedIsCalibrated

LEMMA AiVerdictKeeps ==
    ASSUME AiIInv, desk = "models", desk' = desk, NEW s \in Slots, Ai!DecideSuggestion(s)
    PROVE  AiIInv'
<1> DEFINE i == job[s].id  chosen == job[s].call
<1>1. i \in DOMAIN suggestions /\ chosen \in Verdicts
  BY DEF Ai!DecideSuggestion, AiIInv, CallsAreDue
<1>2. /\ UNCHANGED <<config, observations, requests, sent, advanced>>
      /\ pc' = [pc EXCEPT ![s] = "idle"] /\ job' = [job EXCEPT ![s] = Ai!Idle]
  BY DEF Ai!DecideSuggestion, Ai!Done, Ai!Go
<1>3. /\ suggestions' \in Seq(Suggestion) /\ told' \in Seq(Seq(Verdicts))
      /\ Len(told') = Len(suggestions') /\ OneVerdict'
      /\ DOMAIN suggestions \subseteq DOMAIN suggestions'
  <2>1. CASE suggestions[i].status = "PENDING"
    <3> DEFINE row == [suggestions[i] EXCEPT !.status = chosen]
               list == Append(told[i], chosen)
    <3>1. suggestions' = [suggestions EXCEPT ![i] = row] /\ told' = [told EXCEPT ![i] = list]
      BY <2>1 DEF Ai!DecideSuggestion
    <3>2. suggestions[i] \in Suggestion /\ told[i] = <<>>
      BY <1>1, <2>1 DEF AiIInv, OneVerdict
    <3>3. row \in Suggestion /\ row.status = chosen /\ list = <<chosen>> /\ list \in Seq(Verdicts)
      BY <1>1, <3>2 DEF Suggestion
    <3>4. chosen # "PENDING"
      BY <1>1 DEF Verdicts
    <3> HIDE DEF row, list, i, chosen
    <3>5. /\ suggestions' \in Seq(Suggestion) /\ told' \in Seq(Seq(Verdicts))
          /\ Len(told') = Len(suggestions') /\ DOMAIN suggestions' = DOMAIN suggestions
          /\ suggestions'[i] = row /\ told'[i] = list
          /\ \A k \in DOMAIN suggestions \ {i} : suggestions'[k] = suggestions[k] /\ told'[k] = told[k]
      BY <1>1, <3>1, <3>3 DEF AiIInv
    <3>6. OneVerdict
      BY DEF AiIInv
    <3>7. OneVerdict'
      BY <3>3, <3>4, <3>5, <3>6 DEF OneVerdict
    <3> QED  BY <3>5, <3>7
  <2>2. CASE suggestions[i].status # "PENDING"
    <3>1. UNCHANGED <<suggestions, told>>
      BY <2>2 DEF Ai!DecideSuggestion
    <3> QED  BY <3>1 DEF AiIInv, OneVerdict
  <2> QED  BY <2>1, <2>2
<1>4. CallsAreDue' /\ pc' \in [Slots -> Ai!Busy \cup {"idle"}] /\ job' \in [Slots -> AiJob]
  <2>1. Ai!Idle \in AiJob
    BY DEF AiJob
  <2> QED  BY <1>2, <1>3, <2>1, AiOneCall DEF AiIInv
<1> QED
  BY <1>2, <1>3, <1>4 DEF AiIInv, Labelled, Ai!SentIsPermitted, Ai!UnattendedIsCalibrated

LEMMA AiAbortKeeps ==
    ASSUME AiIInv, desk = "models", desk' = desk, NEW s \in Slots, Ai!Abort(s)
    PROVE  AiIInv'
<1>1. /\ UNCHANGED <<config, observations, suggestions, requests, sent, advanced, told>>
      /\ pc' = [pc EXCEPT ![s] = "idle"] /\ job' = [job EXCEPT ![s] = Ai!Idle]
  BY DEF Ai!Abort, Ai!Done, Ai!Go
<1>2. CallsAreDue' /\ pc' \in [Slots -> Ai!Busy \cup {"idle"}] /\ job' \in [Slots -> AiJob]
  <2>1. Ai!Idle \in AiJob
    BY DEF AiJob
  <2> QED  BY <1>1, <2>1, AiOneCall DEF AiIInv
<1> QED
  BY <1>1, <1>2 DEF AiIInv, Labelled, OneVerdict, Ai!SentIsPermitted, Ai!UnattendedIsCalibrated

LEMMA AiInvariant == Spec => []AiIInv
<1>1. AiIInv /\ [Next]_vars => AiIInv'
  <2> SUFFICES ASSUME AiIInv, [Next]_vars
               PROVE  AiIInv'
    OBVIOUS
  <2>1. CASE desk = "models" /\ Ai!AiNext
    <3>1. desk' = desk
      BY DEF Next, vars
    <3>2. CASE \E o \in Outcomes, day \in 0..MaxDay : Ai!RecordObservation(o, day)
      BY <2>1, <3>1, <3>2, AiObservationKeeps
    <3>3. ASSUME NEW s \in Slots, NEW ask \in DirectAsks, Ai!Ask(s, ask, FALSE)
          PROVE  AiIInv'
      BY <2>1, <3>1, <3>3, AsksAreTyped, AiAskKeeps
    <3>4. ASSUME NEW s \in Slots, NEW ask \in {Ai!FeatureAsk(f) : f \in FeaturesAsked}
                                                  \cup {Ai!Triage(q) : q \in QuestionTypes},
                 Ai!Ask(s, ask, TRUE)
          PROVE  AiIInv'
      BY <2>1, <3>1, <3>4, AsksAreTyped, AiAskKeeps
    <3>5. ASSUME NEW s \in Slots, NEW outcome, NEW c, Ai!Upstream(s, outcome, c)
          PROVE  AiIInv'
      BY <2>1, <3>1, <3>5, AiUpstreamKeeps
    <3>6. ASSUME NEW s \in Slots, NEW readable \in BOOLEAN, NEW fits \in BOOLEAN,
                 Ai!Decide(s, readable, fits)
          PROVE  AiIInv'
      BY <2>1, <3>1, <3>6, AiDecideKeeps
    <3>7. ASSUME NEW s \in Slots, Ai!Record(s) \/ Ai!DecideSuggestion(s) \/ Ai!Abort(s)
          PROVE  AiIInv'
      BY <2>1, <3>1, <3>7, AiRecordKeeps, AiVerdictKeeps, AiAbortKeeps
    <3>8. ASSUME NEW s \in Slots, NEW i \in DOMAIN suggestions,
                 NEW verdict \in {"CONFIRMED", "REJECTED"}, Ai!FindSuggestion(s, i, verdict)
          PROVE  AiIInv'
      BY <2>1, <3>1, <3>8, AiFindKeeps DEF Verdicts
    <3> QED
      BY <2>1, <3>2, <3>3, <3>4, <3>5, <3>6, <3>7, <3>8 DEF Ai!AiNext
  <2> QED  BY <2>1, AiElsewhere
<1> QED  BY AiInitially, <1>1, PTL DEF Spec

\* Whatever the settings, the data classes and the modes that are asked for, and however often
\* a call is tried again, AiService sends nothing of a local-only class to the provider.  What
\* goes to the hosted decision model is another matter, see HostedIsExternal.
THEOREM SentIsPermittedAlways == Spec => []SentIsPermitted
<1>1. AiIInv => SentIsPermitted
  BY DEF AiIInv, SentIsPermitted
<1> QED  BY AiInvariant, <1>1, PTL

\* AutoAdvanceGate lets an answer do without a person only on enough labelled outcomes, and of
\* the people who decide a suggestion at once one is acknowledged.
THEOREM DecisionsAreDueAlways == Spec => []DecisionsAreDue
<1>1. ASSUME AiIInv
      PROVE  Ai!DecidedOnce
  <2>1. DOMAIN told = DOMAIN suggestions
    BY <1>1 DEF AiIInv
  <2>2. OneVerdict
    BY <1>1 DEF AiIInv
  <2> QED  BY <2>1, <2>2 DEF OneVerdict, Ai!DecidedOnce
<1>2. AiIInv => DecisionsAreDue
  BY <1>1 DEF AiIInv, DecisionsAreDue
<1> QED  BY AiInvariant, <1>2, PTL

-----------------------------------------------------------------------------
(***************************************************************************)
(* Operations: while no two handlers of a kind overlap, what a transition  *)
(* was judged by and the last version a rule was numbered after are still  *)
(* what is on file; each act has at most one handover to come or on file.  *)
(***************************************************************************)
Handovers(entered) == {r \in entered : r.table = "handover"}
AtHandover(places) == {s \in Slots : places[s] = "handover"}

OrdersAreHome ==
    /\ \A r \in rows : /\ r.property \in {r.org, NoOne}
                       /\ r.supplier \in {NoOne} \cup ({r.org} \cap suppliers)
    /\ order # Ops!NoOrder => \A r \in rows : r.table = "request" =>
                                  order.supplier \in {NoOne} \cup ({r.org} \cap suppliers)

OneRequest ==
    /\ status["request"] = "none" => \A r \in rows : r.table # "request"
    /\ \A r, q \in rows : r.table = "request" /\ q.table = "request" => r = q
    /\ order # Ops!NoOrder => \E r \in rows : r.table = "request"

RulesInOrder == ~overlapped => rules \in Seq(Nat) /\ \A i \in DOMAIN rules : rules[i] = i

ActsFirst == Cardinality(Handovers(rows)) <= acts

HandlersAreDue ==
    /\ \A s \in Slots :
           /\ pc[s] = "idle" <=> job[s].kind = "none"
           /\ pc[s] \in {"act", "handover"} => job[s].kind = "handover"
           /\ job[s].kind = "transition" =>
                  /\ job[s].table \in Ops!Tickets
                  /\ job[s].to \in Ops!RequestStatus \cup Ops!CaseStatus
                  /\ ~overlapped /\ job[s].table = "request" =>
                         job[s].to \in Ops!CanTransitionMaintenance(status["request"])
           /\ job[s].kind = "rule" /\ ~overlapped => job[s].last = Len(rules)
    /\ ~overlapped => \A s, q \in Slots : job[s].kind = job[q].kind => s = q \/ job[s].kind = "none"

ActsCover ==
    /\ IsFiniteSet(AtHandover(pc))
    /\ Cardinality(Handovers(rows)) + Cardinality(AtHandover(pc)) <= acts

OpsTables ==
    /\ status \in [Ops!Tickets -> {"none"} \cup Ops!RequestStatus \cup Ops!CaseStatus]
    /\ order \in [status : {"none"} \cup Ops!RequestStatus, supplier : Orgs \cup {NoOne}]
    /\ acts \in Nat /\ overlapped \in BOOLEAN /\ IsFiniteSet(Handovers(rows))
    /\ OrdersAreHome /\ OneRequest /\ RulesInOrder /\ ActsFirst

OpsHandlers ==
    /\ pc \in [Slots -> {"idle", "write", "act", "handover"}]
    /\ job = [s \in Slots |-> job[s]]
    /\ HandlersAreDue /\ ActsCover

OpsIInv == OpsTables /\ (desk = "operations" => OpsHandlers)

LEMMA OpsInitially == Init => OpsIInv
<1> SUFFICES ASSUME Init
             PROVE  OpsIInv
  OBVIOUS
<1>1. /\ suppliers = {} /\ rows = {} /\ order = Ops!NoOrder /\ rules = <<>> /\ acts = 0
      /\ status = [t \in Ops!Tickets |-> "none"] /\ overlapped = FALSE
      /\ pc = [s \in Slots |-> "idle"] /\ job = [s \in Slots |-> Ops!Idle]
  BY DEF Init, Ops!OpsInit
<1>2. /\ IsFiniteSet(Handovers(rows)) /\ Cardinality(Handovers(rows)) = 0
      /\ IsFiniteSet(AtHandover(pc)) /\ Cardinality(AtHandover(pc)) = 0
  <2>1. Handovers(rows) = {} /\ AtHandover(pc) = {}
    BY <1>1 DEF Handovers, AtHandover
  <2> QED  BY <2>1, FS_EmptySet
<1>3. "request" \in Ops!Tickets
  BY DEF Ops!Tickets
<1>4. OpsTables
  <2>1. ActsFirst /\ IsFiniteSet(Handovers(rows))
    BY <1>1, <1>2 DEF ActsFirst
  <2>2. OrdersAreHome /\ OneRequest /\ RulesInOrder
    BY <1>1, <1>3 DEF OrdersAreHome, OneRequest, RulesInOrder
  <2>3. /\ order \in [status : {"none"} \cup Ops!RequestStatus, supplier : Orgs \cup {NoOne}]
        /\ status \in [Ops!Tickets -> {"none"} \cup Ops!RequestStatus \cup Ops!CaseStatus]
    BY <1>1 DEF Ops!NoOrder
  <2> QED  BY <1>1, <2>1, <2>2, <2>3 DEF OpsTables
<1>5. OpsHandlers
  <2>1. ActsCover
    BY <1>1, <1>2 DEF ActsCover
  <2>2. HandlersAreDue
    BY <1>1 DEF HandlersAreDue, Ops!Idle
  <2>3. pc \in [Slots -> {"idle", "write", "act", "handover"}] /\ job = [s \in Slots |-> job[s]]
    BY <1>1
  <2> QED  BY <2>1, <2>2, <2>3 DEF OpsHandlers
<1> QED  BY <1>4, <1>5 DEF OpsIInv

LEMMA OpsElsewhere ==
    ASSUME OpsIInv, [Next]_vars, ~(desk = "operations" /\ Ops!OpsNext)
    PROVE  OpsIInv'
<1>1. UNCHANGED operations /\ (UNCHANGED <<pc, job>> \/ desk # "operations") /\ desk' = desk
  BY DEF Next, vars
<1> QED
  BY <1>1 DEF operations, OpsIInv, OpsTables, OpsHandlers, OrdersAreHome, OneRequest, RulesInOrder,
              ActsFirst, HandlersAreDue, ActsCover

\* Only an open status leads on, and none leads on from a request that was not made.
LEMMA MaintenanceEnds ==
    Ops!CanTransitionMaintenance("CLOSED") = {} /\ Ops!CanTransitionMaintenance("none") = {}
  BY DEF Ops!CanTransitionMaintenance

\* A row that is no handover changes nothing about the acts.
LEMMA NoHandover ==
    ASSUME NEW row, row.table # "handover"
    PROVE  \A entered : Handovers(entered \cup {row}) = Handovers(entered)
  BY DEF Handovers

LEMMA TicketKeeps ==
    ASSUME OpsIInv, desk = "operations", desk' = desk, NEW t \in Ops!Tickets, NEW org, NEW p,
           Ops!CreateTicket(t, org, p)
    PROVE  OpsIInv'
<1> DEFINE row == Ops!Row(t, org, p, NoOne)
           first == IF t = "request" THEN "OPEN" ELSE "open"
<1>1. /\ UNCHANGED <<pc, job, overlapped, suppliers, order, rules, acts>>
      /\ status[t] = "none" /\ p = org
      /\ status' = [status EXCEPT ![t] = first]
      /\ rows' = rows \cup {row}
  BY DEF Ops!CreateTicket, Ops!OneWrite, Ops!FindProperty
<1>2. /\ row.table = t /\ row.org = org /\ row.property = org /\ row.supplier = NoOne
      /\ t # "handover"
  BY <1>1 DEF Ops!Row, Ops!Tickets
<1>3. first \in Ops!RequestStatus \cup Ops!CaseStatus /\ first # "none"
  BY DEF Ops!RequestStatus, Ops!CaseStatus
<1> HIDE DEF row, first
<1>4. Handovers(rows') = Handovers(rows)
  BY <1>1, <1>2, NoHandover
<1>5. status \in [Ops!Tickets -> {"none"} \cup Ops!RequestStatus \cup Ops!CaseStatus]
  BY DEF OpsIInv, OpsTables
<1>6. "request" \in Ops!Tickets /\ status'["request"] = IF t = "request" THEN first ELSE status["request"]
  BY <1>1, <1>5 DEF Ops!Tickets
<1>7. OrdersAreHome' /\ OneRequest'
  <2>1. t = "request" => order = Ops!NoOrder /\ \A r \in rows : r.table # "request"
    BY <1>1 DEF OpsIInv, OpsTables, OneRequest
  <2>2. OrdersAreHome'
    BY <1>1, <1>2, <2>1 DEF OpsIInv, OpsTables, OrdersAreHome
  <2>3. OneRequest'
    BY <1>1, <1>2, <1>3, <1>6, <2>1 DEF OpsIInv, OpsTables, OneRequest
  <2> QED  BY <2>2, <2>3
<1>8. OpsTables'
  BY <1>1, <1>3, <1>4, <1>5, <1>7 DEF OpsIInv, OpsTables, RulesInOrder, ActsFirst
<1>9. HandlersAreDue'
  <2>1. HandlersAreDue
    BY DEF OpsIInv, OpsHandlers
  <2>2. t = "request" => Ops!CanTransitionMaintenance(status["request"]) = {}
    BY <1>1, MaintenanceEnds
  <2> QED  BY <1>1, <1>6, <2>1, <2>2 DEF HandlersAreDue
<1> QED
  BY <1>1, <1>4, <1>8, <1>9 DEF OpsIInv, OpsHandlers, ActsCover, AtHandover

\* Other single writes: a supplier, a row that is no ticket, or the work order.
LEMMA WriteKeeps ==
    ASSUME OpsIInv, desk = "operations", desk' = desk, OrdersAreHome', OneRequest',
           Handovers(rows') = Handovers(rows),
           order' \in [status : {"none"} \cup Ops!RequestStatus, supplier : Orgs \cup {NoOne}],
           UNCHANGED <<status, rules, acts, pc, job, overlapped>>
    PROVE  OpsIInv'
<1>1. OpsTables'
  BY DEF OpsIInv, OpsTables, RulesInOrder, ActsFirst
<1>2. OpsHandlers'
  BY DEF OpsIInv, OpsHandlers, HandlersAreDue, ActsCover, AtHandover
<1> QED  BY <1>1, <1>2 DEF OpsIInv

LEMMA EnterKeeps ==
    ASSUME OpsIInv, desk = "operations", desk' = desk,
           NEW table, NEW org, NEW p \in {org, NoOne}, NEW x, Ops!FindSupplier(org, x),
           table \notin {"request", "handover"}, Ops!Enter(Ops!Row(table, org, p, x))
    PROVE  OpsIInv'
<1> DEFINE row == Ops!Row(table, org, p, x)
<1>1. rows' = rows \cup {row} /\ UNCHANGED <<suppliers, status, order, rules, acts, pc, job, overlapped>>
  BY DEF Ops!Enter, Ops!OneWrite
<1>2. /\ row.table = table /\ row.org = org /\ row.property = p /\ row.supplier = x
      /\ x \in {NoOne} \cup ({org} \cap suppliers)
  BY DEF Ops!Row, Ops!FindSupplier
<1> HIDE DEF row
<1>3. Handovers(rows') = Handovers(rows)
  BY <1>1, <1>2, NoHandover
<1>4. OrdersAreHome'
  BY <1>1, <1>2 DEF OpsIInv, OpsTables, OrdersAreHome
<1>5. OneRequest'
  BY <1>1, <1>2 DEF OpsIInv, OpsTables, OneRequest
<1>6. order' \in [status : {"none"} \cup Ops!RequestStatus, supplier : Orgs \cup {NoOne}]
  BY <1>1 DEF OpsIInv, OpsTables
<1> QED  BY <1>1, <1>3, <1>4, <1>5, <1>6, WriteKeeps

LEMMA OrderKeeps ==
    ASSUME OpsIInv, desk = "operations", desk' = desk, NEW org \in Orgs, NEW x \in Orgs \cup {NoOne},
           \/ Ops!CreateWorkOrder(org, x) \/ Ops!AssignSupplierToWorkOrder(org, x)
           \/ \E to \in Ops!RequestStatus : Ops!TransitionWorkOrder(org, to)
    PROVE  OpsIInv'
<1>1. UNCHANGED <<suppliers, rows, status, rules, acts, pc, job, overlapped>> /\ Ops!HasRequest(org)
  BY DEF Ops!CreateWorkOrder, Ops!AssignSupplierToWorkOrder, Ops!TransitionWorkOrder, Ops!OneWrite
<1>2. order \in [status : {"none"} \cup Ops!RequestStatus, supplier : Orgs \cup {NoOne}]
  BY DEF OpsIInv, OpsTables
<1>3. order' \in [status : {"none"} \cup Ops!RequestStatus, supplier : Orgs \cup {NoOne}]
  BY <1>2 DEF Ops!CreateWorkOrder, Ops!AssignSupplierToWorkOrder, Ops!TransitionWorkOrder, Ops!RequestStatus
<1>4. \/ order'.supplier = x /\ Ops!FindSupplier(org, x)
      \/ order # Ops!NoOrder /\ order'.supplier = order.supplier
  BY <1>2 DEF Ops!CreateWorkOrder, Ops!AssignSupplierToWorkOrder, Ops!TransitionWorkOrder
<1>5. \A r \in rows : r.table = "request" => order'.supplier \in {NoOne} \cup ({r.org} \cap suppliers)
  <2>1. CASE order'.supplier = x /\ Ops!FindSupplier(org, x)
    BY <1>1, <2>1 DEF OpsIInv, OpsTables, OneRequest, Ops!HasRequest, Ops!FindSupplier
  <2>2. CASE order # Ops!NoOrder /\ order'.supplier = order.supplier
    BY <2>2 DEF OpsIInv, OpsTables, OrdersAreHome
  <2> QED  BY <1>4, <2>1, <2>2
<1>6. OrdersAreHome'
  BY <1>1, <1>5 DEF OpsIInv, OpsTables, OrdersAreHome
<1>7. OneRequest'
  BY <1>1 DEF OpsIInv, OpsTables, OneRequest, Ops!HasRequest
<1> QED  BY <1>1, <1>3, <1>6, <1>7, WriteKeeps

\* A handler that begins sees what is on file now.
LEMMA BeginKeeps ==
    ASSUME OpsIInv, desk = "operations", desk' = desk, NEW s \in Slots,
           NEW step \in {"write", "act"}, NEW j, Ops!Begin(s, step, j),
           j.kind # "none", step = "act" => j.kind = "handover",
           j.kind = "transition" =>
               /\ j.table \in Ops!Tickets /\ j.to \in Ops!RequestStatus \cup Ops!CaseStatus
               /\ j.table = "request" => j.to \in Ops!CanTransitionMaintenance(status["request"]),
           j.kind = "rule" => (~overlapped => j.last = Len(rules))
    PROVE  OpsIInv'
<1>1. /\ pc[s] = "idle" /\ pc' = [pc EXCEPT ![s] = step] /\ job' = [job EXCEPT ![s] = j]
      /\ overlapped' = (overlapped \/ \E q \in Slots : job[q].kind = j.kind)
      /\ UNCHANGED <<suppliers, rows, status, order, rules, acts>>
  BY DEF Ops!Begin, Ops!tables
<1>2. OpsTables /\ HandlersAreDue /\ ActsCover
      /\ pc \in [Slots -> {"idle", "write", "act", "handover"}] /\ job = [q \in Slots |-> job[q]]
  BY DEF OpsIInv, OpsHandlers
<1>3. overlapped' \in BOOLEAN /\ (~overlapped' => ~overlapped)
      /\ (~overlapped' => \A q \in Slots : job[q].kind # j.kind)
  BY <1>1, <1>2 DEF OpsTables
<1>4. OpsTables'
  BY <1>1, <1>2, <1>3 DEF OpsTables, OrdersAreHome, OneRequest, RulesInOrder, ActsFirst
<1>5. /\ pc' \in [Slots -> {"idle", "write", "act", "handover"}]
      /\ job' = [q \in Slots |-> job'[q]]
      /\ pc'[s] = step /\ job'[s] = j
      /\ \A q \in Slots \ {s} : pc'[q] = pc[q] /\ job'[q] = job[q]
  BY <1>1, <1>2
<1>6. AtHandover(pc') = AtHandover(pc)
  BY <1>1, <1>5 DEF AtHandover
<1>7. HandlersAreDue'
  <2>1. ASSUME NEW q \in Slots
        PROVE  /\ pc'[q] = "idle" <=> job'[q].kind = "none"
               /\ pc'[q] \in {"act", "handover"} => job'[q].kind = "handover"
               /\ job'[q].kind = "transition" =>
                      /\ job'[q].table \in Ops!Tickets
                      /\ job'[q].to \in Ops!RequestStatus \cup Ops!CaseStatus
                      /\ ~overlapped' /\ job'[q].table = "request" =>
                             job'[q].to \in Ops!CanTransitionMaintenance(status'["request"])
               /\ job'[q].kind = "rule" => (~overlapped' => job'[q].last = Len(rules'))
    <3>1. CASE q = s
      BY <1>1, <1>3, <1>5, <3>1
    <3>2. CASE q # s
      BY <1>1, <1>2, <1>3, <1>5, <3>2 DEF HandlersAreDue
    <3> QED  BY <3>1, <3>2
  <2>2. ~overlapped' => \A q, r \in Slots : job'[q].kind = job'[r].kind =>
                                                q = r \/ job'[q].kind = "none"
    BY <1>2, <1>3, <1>5 DEF HandlersAreDue
  <2> QED  BY <2>1, <2>2 DEF HandlersAreDue
<1> QED  BY <1>1, <1>2, <1>4, <1>5, <1>6, <1>7 DEF OpsIInv, OpsHandlers, ActsCover

\* A handler that is done leaves the others as they are, unless it moved the request or added
\* a rule, of which there is one handler at a time.
LEMMA DoneKeeps ==
    ASSUME OpsHandlers, NEW s \in Slots, Ops!Done(s),
           \/ job[s].kind = "transition" /\ UNCHANGED rules
           \/ job[s].kind = "rule" /\ UNCHANGED status
           \/ UNCHANGED <<status, rules>>
    PROVE  /\ HandlersAreDue' /\ job' = [q \in Slots |-> job'[q]]
           /\ pc' \in [Slots -> {"idle", "write", "act", "handover"}]
           /\ AtHandover(pc') = AtHandover(pc) \ {s}
<1>1. /\ pc' = [pc EXCEPT ![s] = "idle"] /\ job' = [job EXCEPT ![s] = Ops!Idle]
      /\ overlapped' = overlapped
  BY DEF Ops!Done
<1>2. HandlersAreDue /\ pc \in [Slots -> {"idle", "write", "act", "handover"}]
      /\ job = [q \in Slots |-> job[q]]
  BY DEF OpsHandlers
<1>3. /\ pc' \in [Slots -> {"idle", "write", "act", "handover"}]
      /\ job' = [q \in Slots |-> job'[q]]
      /\ pc'[s] = "idle" /\ job'[s].kind = "none"
      /\ \A q \in Slots \ {s} : pc'[q] = pc[q] /\ job'[q] = job[q]
  BY <1>1, <1>2 DEF Ops!Idle
<1>4. AtHandover(pc') = AtHandover(pc) \ {s}
  BY <1>3 DEF AtHandover
<1>5. ASSUME NEW q \in Slots
      PROVE  /\ pc'[q] = "idle" <=> job'[q].kind = "none"
             /\ pc'[q] \in {"act", "handover"} => job'[q].kind = "handover"
             /\ job'[q].kind = "transition" =>
                    /\ job'[q].table \in Ops!Tickets
                    /\ job'[q].to \in Ops!RequestStatus \cup Ops!CaseStatus
                    /\ ~overlapped' /\ job'[q].table = "request" =>
                           job'[q].to \in Ops!CanTransitionMaintenance(status'["request"])
             /\ job'[q].kind = "rule" => (~overlapped' => job'[q].last = Len(rules'))
  <2>1. CASE q = s
    BY <1>3, <2>1
  <2>2. CASE q # s
    <3>1. job'[q] = job[q] /\ pc'[q] = pc[q]
      BY <1>3, <2>2
    <3>2. ~overlapped /\ job[q].kind # "none" => job[q].kind # job[s].kind
      BY <1>2, <2>2 DEF HandlersAreDue
    <3>3. ~overlapped /\ job[q].kind = "transition" => status' = status
      BY <3>2
    <3>4. ~overlapped /\ job[q].kind = "rule" => rules' = rules
      BY <3>2
    <3> QED  BY <1>1, <1>2, <3>1, <3>3, <3>4 DEF HandlersAreDue
  <2> QED  BY <2>1, <2>2
<1>6. ~overlapped' => \A q, r \in Slots : job'[q].kind = job'[r].kind =>
                                              q = r \/ job'[q].kind = "none"
  BY <1>1, <1>2, <1>3 DEF HandlersAreDue
<1> QED  BY <1>3, <1>4, <1>5, <1>6 DEF HandlersAreDue

LEMMA SetStatusKeeps ==
    ASSUME OpsIInv, desk = "operations", desk' = desk, NEW s \in Slots, Ops!SetStatus(s)
    PROVE  /\ OpsIInv'
           /\ status["request"] = "CLOSED" /\ ~overlapped => status'["request"] = "CLOSED"
<1> DEFINE t == job[s].table  to == job[s].to
<1>1. /\ job[s].kind = "transition" /\ pc[s] = "write" /\ Ops!Done(s)
      /\ status' = [status EXCEPT ![t] = to]
      /\ UNCHANGED <<suppliers, rows, order, rules, acts, overlapped>>
  BY DEF Ops!SetStatus, Ops!At, Ops!Done
<1>2. OpsTables /\ OpsHandlers /\ HandlersAreDue
  BY DEF OpsIInv, OpsHandlers
<1>3. /\ t \in Ops!Tickets /\ to \in Ops!RequestStatus \cup Ops!CaseStatus
      /\ ~overlapped /\ t = "request" => to \in Ops!CanTransitionMaintenance(status["request"])
  BY <1>1, <1>2 DEF HandlersAreDue
<1>4. to # "none"
  BY <1>3 DEF Ops!RequestStatus, Ops!CaseStatus
<1> HIDE DEF t, to
<1>5. status'["request"] = IF t = "request" THEN to ELSE status["request"]
  <2>1. status \in [Ops!Tickets -> {"none"} \cup Ops!RequestStatus \cup Ops!CaseStatus]
    BY <1>2 DEF OpsTables
  <2> QED  BY <1>1, <2>1 DEF Ops!Tickets
<1>6. OneRequest'
  BY <1>1, <1>2, <1>4, <1>5 DEF OpsTables, OneRequest
<1>7. OpsTables'
  BY <1>1, <1>2, <1>3, <1>6 DEF OpsTables, OrdersAreHome, RulesInOrder, ActsFirst
<1>8. /\ HandlersAreDue' /\ job' = [q \in Slots |-> job'[q]]
      /\ pc' \in [Slots -> {"idle", "write", "act", "handover"}]
      /\ AtHandover(pc') = AtHandover(pc) \ {s}
  BY <1>1, <1>2, DoneKeeps
<1>9. AtHandover(pc') = AtHandover(pc)
  BY <1>1, <1>8 DEF AtHandover
<1>10. status["request"] = "CLOSED" /\ ~overlapped => status'["request"] = "CLOSED"
  BY <1>3, <1>5, MaintenanceEnds
<1> QED  BY <1>1, <1>2, <1>7, <1>8, <1>9, <1>10 DEF OpsIInv, OpsHandlers, ActsCover

LEMMA HouseRuleKeeps ==
    ASSUME OpsIInv, desk = "operations", desk' = desk, NEW s \in Slots, Ops!CreateHouseRule(s)
    PROVE  OpsIInv'
<1>1. /\ job[s].kind = "rule" /\ pc[s] = "write" /\ Ops!Done(s)
      /\ rules' = Append(rules, job[s].last + 1)
      /\ UNCHANGED <<suppliers, rows, status, order, acts, overlapped>>
  BY DEF Ops!CreateHouseRule, Ops!At, Ops!Done
<1>2. OpsTables /\ OpsHandlers /\ HandlersAreDue
  BY DEF OpsIInv, OpsHandlers
<1>3. RulesInOrder'
  <2> SUFFICES ASSUME ~overlapped'
               PROVE  rules' \in Seq(Nat) /\ \A i \in DOMAIN rules' : rules'[i] = i
    BY DEF RulesInOrder
  <2>1. rules \in Seq(Nat) /\ (\A i \in DOMAIN rules : rules[i] = i) /\ job[s].last = Len(rules)
    BY <1>1, <1>2 DEF OpsTables, RulesInOrder, HandlersAreDue
  <2> QED  BY <1>1, <2>1
<1>4. OpsTables'
  BY <1>1, <1>2, <1>3 DEF OpsTables, OrdersAreHome, OneRequest, ActsFirst
<1>5. /\ HandlersAreDue' /\ job' = [q \in Slots |-> job'[q]]
      /\ pc' \in [Slots -> {"idle", "write", "act", "handover"}]
      /\ AtHandover(pc') = AtHandover(pc) \ {s}
  BY <1>1, <1>2, DoneKeeps
<1>6. AtHandover(pc') = AtHandover(pc)
  BY <1>1, <1>5 DEF AtHandover
<1> QED  BY <1>1, <1>2, <1>4, <1>5, <1>6 DEF OpsIInv, OpsHandlers, ActsCover

LEMMA ActKeeps ==
    ASSUME OpsIInv, desk = "operations", desk' = desk, NEW s \in Slots, Ops!CreateAct(s)
    PROVE  OpsIInv'
<1>1. /\ pc[s] = "act" /\ job[s].kind = "handover" /\ acts' = acts + 1
      /\ pc' = [pc EXCEPT ![s] = "handover"]
      /\ UNCHANGED <<suppliers, rows, status, order, rules, job, overlapped>>
  BY DEF Ops!CreateAct, Ops!At
<1>2. OpsTables /\ HandlersAreDue /\ ActsCover
      /\ pc \in [Slots -> {"idle", "write", "act", "handover"}] /\ job = [q \in Slots |-> job[q]]
  BY DEF OpsIInv, OpsHandlers
<1>3. /\ Cardinality(Handovers(rows)) \in Nat /\ Cardinality(AtHandover(pc)) \in Nat /\ acts \in Nat
      /\ Cardinality(Handovers(rows)) + Cardinality(AtHandover(pc)) <= acts
  BY <1>2, FS_CardinalityType DEF OpsTables, ActsCover
<1>4. OpsTables'
  <2>1. ActsFirst'
    BY <1>1, <1>3 DEF ActsFirst
  <2> QED  BY <1>1, <1>2, <1>3, <2>1 DEF OpsTables, OrdersAreHome, OneRequest, RulesInOrder
<1>5. HandlersAreDue' /\ pc' \in [Slots -> {"idle", "write", "act", "handover"}]
  BY <1>1, <1>2 DEF HandlersAreDue
<1>6. ActsCover'
  <2>1. AtHandover(pc') = AtHandover(pc) \cup {s} /\ s \notin AtHandover(pc)
    BY <1>1, <1>2 DEF AtHandover
  <2>2. /\ IsFiniteSet(AtHandover(pc'))
        /\ Cardinality(AtHandover(pc')) = Cardinality(AtHandover(pc)) + 1
    BY <1>2, <2>1, FS_AddElement DEF ActsCover
  <2> QED  BY <1>1, <1>3, <2>2 DEF ActsCover
<1> QED  BY <1>1, <1>2, <1>4, <1>5, <1>6 DEF OpsIInv, OpsHandlers

LEMMA HandoverKeeps ==
    ASSUME OpsIInv, desk = "operations", desk' = desk, NEW s \in Slots, Ops!CreateHandover(s)
    PROVE  OpsIInv'
<1> DEFINE org == job[s].org  row == Ops!Row("handover", org, org, NoOne)
<1>1. /\ pc[s] = "handover" /\ job[s].kind = "handover" /\ Ops!Done(s)
      /\ rows' = rows \cup {row}
      /\ UNCHANGED <<suppliers, status, order, rules, acts, overlapped>>
  BY DEF Ops!CreateHandover, Ops!At, Ops!Done
<1>2. OpsTables /\ OpsHandlers /\ HandlersAreDue /\ ActsCover
  BY DEF OpsIInv, OpsHandlers
<1>3. /\ row.table = "handover" /\ row.org = org /\ row.property = org /\ row.supplier = NoOne
  BY DEF Ops!Row
<1> HIDE DEF row, org
<1>4. /\ HandlersAreDue' /\ job' = [q \in Slots |-> job'[q]]
      /\ pc' \in [Slots -> {"idle", "write", "act", "handover"}]
      /\ AtHandover(pc') = AtHandover(pc) \ {s} /\ s \in AtHandover(pc)
  BY <1>1, <1>2, DoneKeeps DEF AtHandover
<1>5. Handovers(rows') = Handovers(rows) \cup {row}
  BY <1>1, <1>3 DEF Handovers
<1>6. /\ IsFiniteSet(Handovers(rows')) /\ Cardinality(Handovers(rows')) \in Nat
      /\ Cardinality(Handovers(rows')) <= Cardinality(Handovers(rows)) + 1
      /\ Cardinality(Handovers(rows)) \in Nat
  <2>1. IsFiniteSet(Handovers(rows))
    BY <1>2 DEF OpsTables
  <2>2. /\ IsFiniteSet(Handovers(rows'))
        /\ Cardinality(Handovers(rows')) = IF row \in Handovers(rows) THEN Cardinality(Handovers(rows))
                                           ELSE Cardinality(Handovers(rows)) + 1
    BY <1>5, <2>1, FS_AddElement
  <2>3. Cardinality(Handovers(rows')) \in Nat /\ Cardinality(Handovers(rows)) \in Nat
    BY <2>1, <2>2, FS_CardinalityType
  <2> QED  BY <2>2, <2>3
<1>7. /\ IsFiniteSet(AtHandover(pc')) /\ Cardinality(AtHandover(pc')) \in Nat
      /\ Cardinality(AtHandover(pc')) = Cardinality(AtHandover(pc)) - 1
      /\ Cardinality(AtHandover(pc)) \in Nat
  BY <1>2, <1>4, FS_RemoveElement, FS_CardinalityType DEF ActsCover
<1>8. ActsFirst' /\ ActsCover'
  <2>1. /\ Cardinality(Handovers(rows)) + Cardinality(AtHandover(pc)) <= acts /\ acts \in Nat
    BY <1>2 DEF ActsCover, OpsTables
  <2> QED  BY <1>1, <1>6, <1>7, <2>1 DEF ActsFirst, ActsCover
<1>9. OpsTables'
  <2>1. OrdersAreHome'
    BY <1>1, <1>2, <1>3 DEF OpsTables, OrdersAreHome
  <2>2. OneRequest'
    BY <1>1, <1>2, <1>3 DEF OpsTables, OneRequest
  <2> QED  BY <1>1, <1>2, <1>6, <1>8, <2>1, <2>2 DEF OpsTables, RulesInOrder
<1> QED  BY <1>4, <1>8, <1>9 DEF OpsIInv, OpsHandlers

LEMMA OpsAbortKeeps ==
    ASSUME OpsIInv, desk = "operations", desk' = desk, NEW s \in Slots, Ops!Abort(s)
    PROVE  OpsIInv'
<1>1. Ops!Done(s) /\ UNCHANGED <<suppliers, rows, status, order, rules, acts, overlapped>>
  BY DEF Ops!Abort, Ops!Done, Ops!tables
<1>2. OpsTables /\ OpsHandlers /\ ActsCover
  BY DEF OpsIInv, OpsHandlers
<1>3. /\ HandlersAreDue' /\ job' = [q \in Slots |-> job'[q]]
      /\ pc' \in [Slots -> {"idle", "write", "act", "handover"}]
      /\ AtHandover(pc') = AtHandover(pc) \ {s}
  BY <1>1, <1>2, DoneKeeps
<1>4. ActsCover'
  <2>1. /\ IsFiniteSet(AtHandover(pc')) /\ Cardinality(AtHandover(pc')) \in Nat
        /\ Cardinality(AtHandover(pc')) <= Cardinality(AtHandover(pc))
        /\ Cardinality(AtHandover(pc)) \in Nat /\ Cardinality(Handovers(rows)) \in Nat
    <3>1. IsFiniteSet(AtHandover(pc)) /\ IsFiniteSet(Handovers(rows))
      BY <1>2 DEF ActsCover, OpsTables
    <3>2. AtHandover(pc') \in SUBSET AtHandover(pc)
      BY <1>3
    <3> QED  BY <3>1, <3>2, FS_Subset, FS_CardinalityType
  <2> QED  BY <1>1, <1>2, <2>1 DEF ActsCover, OpsTables
<1>5. OpsTables'
  BY <1>1, <1>2 DEF OpsTables, OrdersAreHome, OneRequest, RulesInOrder, ActsFirst
<1> QED  BY <1>3, <1>4, <1>5 DEF OpsIInv, OpsHandlers

LEMMA LastRule ==
    ASSUME NEW list \in Seq(Nat), \A i \in DOMAIN list : list[i] = i
    PROVE  Ops!Last(list) = Len(list)
<1>1. CASE list = <<>>
  BY <1>1 DEF Ops!Last
<1>2. CASE list # <<>>
  <2> DEFINE versions == {list[i] : i \in DOMAIN list}
  <2>1. Len(list) \in DOMAIN list /\ DOMAIN list = 1..Len(list) /\ Len(list) \in Nat
    BY <1>2
  <2>2. \A v \in versions : (\A i \in DOMAIN list : list[i] <= v) <=> v = Len(list)
    BY <2>1
  <2>3. Len(list) \in versions
    BY <2>1
  <2>4. Ops!Last(list) = CHOOSE v \in versions : \A i \in DOMAIN list : list[i] <= v
    BY <1>2 DEF Ops!Last
  <2> HIDE DEF versions
  <2> QED  BY <2>2, <2>3, <2>4
<1> QED  BY <1>1, <1>2

LEMMA OpsStep ==
    ASSUME OpsIInv, desk = "operations", desk' = desk, Ops!OpsNext
    PROVE  /\ OpsIInv'
           /\ status["request"] = "CLOSED" /\ ~overlapped => status'["request"] = "CLOSED"
<1> DEFINE Kept == /\ OpsIInv'
                   /\ status["request"] = "CLOSED" /\ ~overlapped => status'["request"] = "CLOSED"
<1>1. ASSUME NEW org \in Orgs, NEW p \in Orgs, NEW t \in Ops!Tickets, Ops!CreateTicket(t, org, p)
      PROVE  Kept
  <2>1. OpsIInv'
    BY <1>1, TicketKeeps
  <2>2. status["request"] = "CLOSED" => status'["request"] = "CLOSED"
    BY <1>1 DEF Ops!CreateTicket, OpsIInv, OpsTables, Ops!Tickets
  <2> QED  BY <2>1, <2>2
<1>2. ASSUME NEW org \in Orgs, NEW x \in Orgs \cup {NoOne},
             \/ Ops!CreateWorkOrder(org, x) \/ Ops!AssignSupplierToWorkOrder(org, x)
             \/ \E to \in Ops!RequestStatus : Ops!TransitionWorkOrder(org, to)
      PROVE  Kept
  <2>1. UNCHANGED status
    BY <1>2 DEF Ops!CreateWorkOrder, Ops!AssignSupplierToWorkOrder, Ops!TransitionWorkOrder
  <2> QED  BY <1>2, <2>1, OrderKeeps
<1>3. ASSUME NEW org \in Orgs, NEW x \in Orgs \cup {NoOne},
             Ops!CreateInsurance(org, x)
      PROVE  Kept
  <2>1. /\ x \in {org, NoOne} /\ Ops!FindSupplier(org, NoOne)
        /\ Ops!Enter(Ops!Row("insurance", org, x, NoOne))
    BY <1>3 DEF Ops!CreateInsurance, Ops!FindProperty, Ops!FindSupplier
  <2>2. UNCHANGED status
    BY <2>1 DEF Ops!Enter
  <2> QED  BY <2>1, <2>2, EnterKeeps
<1>4. ASSUME NEW org \in Orgs, NEW p \in Orgs, NEW x \in Orgs \cup {NoOne},
             Ops!CreatePurchase(org, p, x)
      PROVE  Kept
  <2>1. /\ p \in {org, NoOne} /\ Ops!FindSupplier(org, x)
        /\ Ops!Enter(Ops!Row("purchase", org, p, x))
    BY <1>4 DEF Ops!CreatePurchase, Ops!FindProperty
  <2>2. UNCHANGED status
    BY <2>1 DEF Ops!Enter
  <2> QED  BY <2>1, <2>2, EnterKeeps
<1>5. ASSUME NEW org \in Orgs, Ops!CreateTaxRecord(org)
      PROVE  Kept
  <2>1. /\ NoOne \in {org, NoOne} /\ Ops!FindSupplier(org, NoOne)
        /\ Ops!Enter(Ops!Row("taxRecord", org, NoOne, NoOne))
    BY <1>5 DEF Ops!CreateTaxRecord, Ops!FindSupplier
  <2>2. UNCHANGED status
    BY <2>1 DEF Ops!Enter
  <2> QED  BY <2>1, <2>2, EnterKeeps
<1>6. ASSUME NEW org \in Orgs, Ops!CreateSupplier(org)
      PROVE  Kept
  <2>1. suppliers \subseteq suppliers' /\ UNCHANGED <<rows, status, order, rules, acts, pc, job, overlapped>>
    BY <1>6 DEF Ops!CreateSupplier, Ops!OneWrite
  <2>2. OrdersAreHome' /\ OneRequest'
    BY <2>1 DEF OpsIInv, OpsTables, OrdersAreHome, OneRequest
  <2>3. order' \in [status : {"none"} \cup Ops!RequestStatus, supplier : Orgs \cup {NoOne}]
    BY <2>1 DEF OpsIInv, OpsTables
  <2> QED  BY <2>1, <2>2, <2>3, WriteKeeps
<1>7. ASSUME NEW s \in Slots, NEW step \in {"write", "act"}, NEW j, Ops!Begin(s, step, j),
             OpsIInv'
      PROVE  Kept
  BY <1>7 DEF Ops!Begin, Ops!tables
<1>8. ASSUME NEW s \in Slots, NEW to \in Ops!RequestStatus, Ops!TransitionRequest(s, to)
      PROVE  Kept
  <2> DEFINE j == [kind |-> "transition", table |-> "request", to |-> to]
  <2>1. Ops!Begin(s, "write", j) /\ to \in Ops!CanTransitionMaintenance(status["request"])
    BY <1>8 DEF Ops!TransitionRequest
  <2>2. j.kind = "transition" /\ j.table = "request" /\ j.to = to /\ "request" \in Ops!Tickets
    BY DEF Ops!Tickets
  <2> HIDE DEF j
  <2>3. OpsIInv'
    BY <2>1, <2>2, BeginKeeps
  <2> QED  BY <1>7, <2>1, <2>3
<1>9. ASSUME NEW s \in Slots, NEW t \in Ops!Tickets, NEW to \in Ops!CaseStatus,
             Ops!TransitionCase(s, t, to)
      PROVE  Kept
  <2> DEFINE j == [kind |-> "transition", table |-> t, to |-> to]
  <2>1. Ops!Begin(s, "write", j) /\ t # "request"
    BY <1>9 DEF Ops!TransitionCase
  <2>2. j.kind = "transition" /\ j.table = t /\ j.to = to
    OBVIOUS
  <2> HIDE DEF j
  <2>3. OpsIInv'
    BY <2>1, <2>2, BeginKeeps
  <2> QED  BY <1>7, <2>1, <2>3
<1>10. ASSUME NEW s \in Slots, Ops!FindLastRule(s)
       PROVE  Kept
  <2> DEFINE j == [kind |-> "rule", last |-> Ops!Last(rules)]
  <2>1. Ops!Begin(s, "write", j)
    BY <1>10 DEF Ops!FindLastRule
  <2>2. j.kind = "rule" /\ (~overlapped => j.last = Len(rules))
    BY LastRule DEF OpsIInv, OpsTables, RulesInOrder
  <2> HIDE DEF j
  <2>3. OpsIInv'
    BY <2>1, <2>2, BeginKeeps
  <2> QED  BY <1>7, <2>1, <2>3
<1>11. ASSUME NEW s \in Slots, NEW org \in Orgs, NEW p \in Orgs, Ops!RecordHandover(s, org, p)
       PROVE  Kept
  <2> DEFINE j == [kind |-> "handover", org |-> org]
  <2>1. Ops!Begin(s, "act", j) /\ j.kind = "handover"
    BY <1>11 DEF Ops!RecordHandover
  <2> HIDE DEF j
  <2>2. OpsIInv'
    BY <2>1, BeginKeeps
  <2> QED  BY <1>7, <2>1, <2>2
<1>12. ASSUME NEW s \in Slots, Ops!SetStatus(s)
       PROVE  Kept
  BY <1>12, SetStatusKeeps
<1>13. ASSUME NEW s \in Slots, \/ Ops!CreateHouseRule(s) \/ Ops!CreateAct(s)
                               \/ Ops!CreateHandover(s) \/ Ops!Abort(s)
       PROVE  Kept
  <2>1. UNCHANGED status
    BY <1>13 DEF Ops!CreateHouseRule, Ops!CreateAct, Ops!CreateHandover, Ops!Abort, Ops!tables
  <2> QED  BY <1>13, <2>1, HouseRuleKeeps, ActKeeps, HandoverKeeps, OpsAbortKeeps
<1>14. {"request", "complaint", "claim"} = Ops!Tickets
  BY DEF Ops!Tickets
<1> HIDE DEF Kept
<1>15. Kept
  BY <1>1, <1>2, <1>3, <1>4, <1>5, <1>6, <1>8, <1>9, <1>10, <1>11, <1>12, <1>13, <1>14
     DEF Ops!OpsNext, Ops!CreateRequest, Ops!CreateComplaint, Ops!CreateClaim
<1> QED  BY <1>15 DEF Kept

LEMMA OpsInvariant == Spec => []OpsIInv
<1>1. OpsIInv /\ [Next]_vars => OpsIInv'
  BY OpsElsewhere, OpsStep DEF Next, vars
<1> QED  BY OpsInitially, <1>1, PTL DEF Spec

\* However requests are opened and moved and orders and suppliers change, MaintenanceService
\* moves no closed request, unless two transitions overlap between their load and their write.
THEOREM ClosedIsFinalAlways == Spec => ClosedIsFinal
<1>1. OpsIInv /\ [Next]_vars =>
          [status["request"] = "CLOSED" /\ ~overlapped => status'["request"] = "CLOSED"]_Ops!opsVars
  <2> SUFFICES ASSUME OpsIInv, [Next]_vars
               PROVE  status["request"] = "CLOSED" /\ ~overlapped => status'["request"] = "CLOSED"
    OBVIOUS
  <2>1. CASE desk = "operations" /\ Ops!OpsNext
    BY <2>1, OpsStep DEF Next, vars
  <2>2. CASE ~(desk = "operations" /\ Ops!OpsNext)
    BY <2>2 DEF Next, vars, operations
  <2> QED  BY <2>1, <2>2
<1> QED  BY OpsInvariant, <1>1, PTL DEF Spec, ClosedIsFinal, Ops!ClosedIsFinal

\* House rules are numbered one by one until two publications overlap, what a row refers to is
\* of its own organization, and HandoverService leaves no handover without its act.
THEOREM DirectoryIsInOrderAlways == Spec => []DirectoryIsInOrder
<1>1. ASSUME OpsIInv
      PROVE  DirectoryIsInOrder
  <2>1. Ops!RulesAreNumbered
    BY <1>1 DEF OpsIInv, OpsTables, RulesInOrder, Ops!RulesAreNumbered
  <2>2. \A S : Ops!Cardinality(S) = Cardinality(S)
    BY Zenon DEF Ops!Cardinality, Cardinality
  <2>3. Ops!Cardinality({r \in rows : r.table = "handover"}) <= acts
    BY <1>1, <2>2 DEF OpsIInv, OpsTables, ActsFirst, Handovers
  <2>4. Ops!ReferencesStayHome
    BY <1>1, <2>3 DEF OpsIInv, OpsTables, OrdersAreHome, Ops!ReferencesStayHome
  <2> QED  BY <2>1, <2>4 DEF DirectoryIsInOrder
<1> QED  BY OpsInvariant, <1>1, PTL

-----------------------------------------------------------------------------
(***************************************************************************)
(* Properties: the shares of a property that is set up leave no room for   *)
(* one more; a tenancy to come is free of those on file, unless another    *)
(* one of its unit was under way with it.                                  *)
(***************************************************************************)
SharesOf(list) == SumOver(list, DOMAIN list)

LEMMA TotalIsSum ==
    /\ Prop!OwnershipTotalPct = SharesOf(ownerships)
    /\ Prop!OwnershipTotalPct' = SharesOf(ownerships')
<1>1. Prop!OwnershipTotalPct = SharesOf(ownerships)
  BY Zenon DEF Prop!OwnershipTotalPct, SharesOf, SumOver, SumFunctionOnSet, FoldFunctionOnSet,
     MapThenFoldSet, Prop!FoldSeq, Prop!FoldFunction, Prop!FoldFunctionOnSet, Prop!MapThenFoldSet
<1>2. Prop!OwnershipTotalPct' = SharesOf(ownerships')
  BY Zenon DEF Prop!OwnershipTotalPct, SharesOf, SumOver, SumFunctionOnSet, FoldFunctionOnSet,
     MapThenFoldSet, Prop!FoldSeq, Prop!FoldFunction, Prop!FoldFunctionOnSet, Prop!MapThenFoldSet
<1> QED  BY Zenon, <1>1, <1>2

LEMMA SharesAdd ==
    ASSUME NEW list \in Seq(Nat), NEW x \in Nat
    PROVE  /\ SharesOf(list) \in Nat
           /\ SharesOf(Append(list, x)) = x + SharesOf(list)
<1> DEFINE more == Append(list, x)  n == Len(list) + 1
<1>1. DOMAIN list = 1..Len(list) /\ Len(list) \in Nat /\ IsFiniteSet(DOMAIN list)
  <2>1. DOMAIN list = 1..Len(list) /\ Len(list) \in Nat
    OBVIOUS
  <2> QED  BY <2>1, FS_Interval
<1>2. /\ more[n] = x /\ \A i \in DOMAIN list : more[i] = list[i]
      /\ DOMAIN more = DOMAIN list \cup {n} /\ n \notin DOMAIN list
      /\ \A i \in DOMAIN list : list[i] \in Nat
  BY <1>1
<1> HIDE DEF more, n
<1>3. SumOver(list, DOMAIN list) \in Nat
  BY <1>1, <1>2, SumNat
<1>4. IntOn(more, DOMAIN list \cup {n})
  BY <1>2 DEF IntOn
<1>5. SumOver(more, DOMAIN list \cup {n}) = more[n] + SumOver(more, DOMAIN list)
  BY <1>1, <1>2, <1>4, SumAdd
<1>6. SumOver(more, DOMAIN list) = SumOver(list, DOMAIN list)
  BY <1>1, <1>2, SumCongruent
<1> QED  BY <1>2, <1>3, <1>5, <1>6 DEF SharesOf, more

OwnerJob == [kind : {"owner"}, share : Shares]
TenantJob == [kind : {"tenant"}, unit : Prop!UnitCodes \cup {Prop!NoUnit}, period : Tenures, raced : BOOLEAN]
SetupJob == [kind : {"setup"}, read : SUBSET {"total", "count"}, total : Nat, count : Nat]
Tenancy == [unit : Prop!UnitCodes \cup {Prop!NoUnit}, from : Int, to : Int, raced : BOOLEAN, timed : BOOLEAN]

\* Tenancies of one unit that are promised to lie apart.
Rivals(a, b) == a.unit = b.unit /\ a.unit # Prop!NoUnit /\ ~a.raced /\ ~b.raced

TenanciesDisjoint ==
    \A i, k \in DOMAIN tenancies :
        i # k /\ Rivals(tenancies[i], tenancies[k]) /\ ~tenancies[i].timed /\ ~tenancies[k].timed
            => ~Prop!TenancyPeriodsOverlap(tenancies[i], tenancies[k])

SharesWhole ==
    /\ complete => units # {} /\ Prop!Cardinality(units) > 0 /\ Len(tenancies) > 0
    /\ complete /\ ~racedShares => SharesOf(ownerships) = 100

TenantIsFree(j, list) ==
    \A i \in DOMAIN list : Rivals(list[i], j) => ~Prop!TenancyPeriodsOverlap(list[i], j.period)

PropTables ==
    /\ ownerships \in Seq(Nat) /\ tenancies \in Seq(Tenancy)
    /\ complete \in BOOLEAN /\ racedShares \in BOOLEAN
    /\ TenanciesDisjoint /\ SharesWhole

PropRequestIsDue(s) ==
    LET j == job[s] IN
    /\ pc[s] = "idle" => j.kind = "none"
    /\ j.kind = "owner" =>
           j \in OwnerJob /\ (~racedShares => SharesOf(ownerships) + j.share <= 100)
    /\ j.kind = "tenant" => j \in TenantJob /\ TenantIsFree(j, tenancies)
    /\ pc[s] = "read" => j.kind = "setup"
    /\ j.kind = "setup" =>
           /\ j \in SetupJob /\ units # {}
           /\ "total" \in j.read /\ j.total = 100 /\ ~racedShares => SharesOf(ownerships) = 100
           /\ "count" \in j.read => j.count <= Len(tenancies)

PropApart(s, q) ==
    LET j == job[s] k == job[q] IN
    /\ j.kind = "owner" /\ k.kind = "owner" => racedShares
    /\ j.kind = "tenant" /\ k.kind = "tenant" => ~Rivals(j, k)

PropRequestsDue ==
    /\ \A s \in Slots : PropRequestIsDue(s)
    /\ \A s, q \in Slots : s # q => PropApart(s, q)

PropIInv ==
    /\ PropTables
    /\ desk = "properties" =>
           /\ pc = [s \in Slots |-> pc[s]] /\ job = [s \in Slots |-> job[s]]
           /\ PropRequestsDue

LEMMA PropInitially == Init => PropIInv
<1> SUFFICES ASSUME Init
             PROVE  PropIInv
  OBVIOUS
<1>1. /\ units = {} /\ ownerships = <<>> /\ tenancies = <<>> /\ complete = FALSE /\ racedShares = FALSE
      /\ pc = [s \in Slots |-> "idle"] /\ job = [s \in Slots |-> Prop!Idle]
  BY DEF Init, Prop!PropInit
<1>2. PropTables
  <2>1. ownerships \in Seq(Nat) /\ tenancies \in Seq(Tenancy)
    BY <1>1
  <2>2. TenanciesDisjoint /\ SharesWhole
    BY <1>1 DEF TenanciesDisjoint, SharesWhole
  <2> QED  BY <1>1, <2>1, <2>2 DEF PropTables
<1>3. PropRequestsDue
  BY <1>1 DEF PropRequestsDue, PropRequestIsDue, PropApart, Prop!Idle
<1> QED  BY <1>1, <1>2, <1>3 DEF PropIInv

LEMMA PropElsewhere ==
    ASSUME PropIInv, [Next]_vars, ~(desk = "properties" /\ Prop!PropNext)
    PROVE  PropIInv'
<1>1. UNCHANGED homes /\ (UNCHANGED <<pc, job>> \/ desk # "properties") /\ desk' = desk
  BY DEF Next, vars
<1> QED
  BY <1>1 DEF homes, PropIInv, PropTables, TenanciesDisjoint, SharesWhole, PropRequestsDue,
              PropRequestIsDue, PropApart

\* A step that leaves shares and tenancies alone and has one request go on or end.
LEMMA PropOneRequest ==
    ASSUME PropIInv, desk = "properties", desk' = desk, NEW s \in Slots, NEW step, NEW j,
           pc' = [pc EXCEPT ![s] = step], job' = [job EXCEPT ![s] = j],
           UNCHANGED <<units, ownerships, tenancies, complete, racedShares>>,
           j.kind = "none" \/ (j = job[s] /\ step \notin {"idle", "read"})
               \/ (j.kind = "attachment" /\ step = "delete")
               \/ (step = "read" /\ j.kind = "setup" /\ j \in SetupJob /\ units # {} /\ j.read = {}),
           j.kind = "none" => step = "idle"
    PROVE  PropIInv'
<1>1. PropTables'
  BY DEF PropIInv, PropTables, TenanciesDisjoint, SharesWhole
<1>2. /\ pc' = [q \in Slots |-> pc'[q]] /\ job' = [q \in Slots |-> job'[q]]
      /\ pc'[s] = step /\ job'[s] = j
      /\ \A q \in Slots \ {s} : pc'[q] = pc[q] /\ job'[q] = job[q]
  BY DEF PropIInv
<1>3. PropRequestsDue
  BY DEF PropIInv
<1>4. PropRequestsDue'
  <2>1. ASSUME NEW q \in Slots
        PROVE  PropRequestIsDue(q)'
    <3>1. CASE q = s
      BY <1>2, <1>3, <3>1 DEF PropRequestsDue, PropRequestIsDue
    <3>2. CASE q # s
      BY <1>2, <1>3, <3>2 DEF PropRequestsDue, PropRequestIsDue
    <3> QED  BY <3>1, <3>2
  <2>2. ASSUME NEW q \in Slots, NEW r \in Slots, q # r
        PROVE  PropApart(q, r)'
    <3>1. \A t \in Slots : job'[t].kind \in {"owner", "tenant"} => job'[t] = job[t]
      BY <1>2
    <3> QED  BY <1>3, <2>2, <3>1 DEF PropRequestsDue, PropApart
  <2> QED  BY <2>1, <2>2 DEF PropRequestsDue
<1> QED  BY <1>1, <1>2, <1>4 DEF PropIInv

LEMMA OwnerBegins ==
    ASSUME PropIInv, desk = "properties", desk' = desk, NEW s \in Slots, NEW pct \in Shares,
           Prop!AddOwnerWithShare(s, pct)
    PROVE  PropIInv'
<1> DEFINE j == [kind |-> "owner", share |-> pct]
<1>1. /\ pc[s] = "idle" /\ pc' = [pc EXCEPT ![s] = "create"] /\ job' = [job EXCEPT ![s] = j]
      /\ SharesOf(ownerships) + pct <= 100
      /\ racedShares' = (racedShares \/ Prop!Of("owner") # {})
      /\ UNCHANGED <<units, ownerships, tenancies, complete>>
  BY TotalIsSum DEF Prop!AddOwnerWithShare, Prop!Arrives, Prop!Go, Prop!tables
<1>2. PropTables /\ PropRequestsDue
  BY DEF PropIInv
<1>3. /\ racedShares' \in BOOLEAN /\ (racedShares => racedShares')
      /\ (~racedShares' => \A q \in Slots : job[q].kind # "owner")
  BY <1>1, <1>2 DEF PropTables, Prop!Of
<1>4. /\ pc' = [q \in Slots |-> pc'[q]] /\ job' = [q \in Slots |-> job'[q]]
      /\ pc'[s] = "create" /\ job'[s] = j
      /\ \A q \in Slots \ {s} : pc'[q] = pc[q] /\ job'[q] = job[q]
  BY <1>1 DEF PropIInv
<1>5. j.kind = "owner" /\ j.share = pct /\ j \in OwnerJob
  BY DEF OwnerJob
<1> HIDE DEF j
<1>6. PropTables'
  BY <1>1, <1>2, <1>3 DEF PropTables, TenanciesDisjoint, SharesWhole
<1>7. ASSUME NEW q \in Slots
      PROVE  PropRequestIsDue(q)'
  <2>1. CASE q = s
    BY <1>1, <1>4, <1>5, <2>1 DEF PropRequestIsDue
  <2>2. CASE q # s
    BY <1>1, <1>2, <1>3, <1>4, <2>2 DEF PropRequestsDue, PropRequestIsDue
  <2> QED  BY <2>1, <2>2
<1>8. ASSUME NEW q \in Slots, NEW r \in Slots, q # r
      PROVE  PropApart(q, r)'
  BY <1>2, <1>3, <1>4, <1>5, <1>8 DEF PropRequestsDue, PropApart
<1>9. PropRequestsDue'
  BY <1>7, <1>8 DEF PropRequestsDue
<1> QED  BY <1>4, <1>6, <1>9 DEF PropIInv

LEMMA OwnershipKeeps ==
    ASSUME PropIInv, desk = "properties", desk' = desk, NEW s \in Slots, Prop!AssignOwnership(s)
    PROVE  PropIInv'
<1> DEFINE x == job[s].share
<1>1. /\ job[s].kind = "owner" /\ ownerships' = Append(ownerships, x)
      /\ pc' = [pc EXCEPT ![s] = "idle"] /\ job' = [job EXCEPT ![s] = Prop!Idle]
      /\ UNCHANGED <<units, tenancies, complete, racedShares>>
  BY DEF Prop!AssignOwnership, Prop!Done, Prop!Go
<1>2. PropTables /\ PropRequestsDue
  BY DEF PropIInv
<1>3. x \in 1..100 /\ (~racedShares => SharesOf(ownerships) + x <= 100)
  BY <1>1, <1>2, HomesAssumption DEF PropRequestsDue, PropRequestIsDue, OwnerJob, Prop!PropAssumption
<1> HIDE DEF x
<1>4. /\ ownerships' \in Seq(Nat) /\ SharesOf(ownerships) \in Nat
      /\ ~racedShares => SharesOf(ownerships) < 100
  <2>1. ownerships \in Seq(Nat) /\ x \in Nat
    BY <1>2, <1>3 DEF PropTables
  <2>2. SharesOf(ownerships) \in Nat
    BY <2>1, SharesAdd
  <2> QED  BY <1>1, <1>3, <2>1, <2>2
<1>5. PropTables'
  BY <1>1, <1>2, <1>4 DEF PropTables, TenanciesDisjoint, SharesWhole
<1>6. /\ pc' = [q \in Slots |-> pc'[q]] /\ job' = [q \in Slots |-> job'[q]]
      /\ job'[s].kind = "none" /\ pc'[s] = "idle"
      /\ \A q \in Slots \ {s} : pc'[q] = pc[q] /\ job'[q] = job[q]
  BY <1>1 DEF PropIInv, Prop!Idle
<1>7. ASSUME NEW q \in Slots
      PROVE  PropRequestIsDue(q)'
  <2>1. CASE q = s
    BY <1>6, <2>1 DEF PropRequestIsDue
  <2>2. CASE q # s
    <3>1. PropRequestIsDue(q) /\ (job[q].kind = "owner" => racedShares)
      BY <1>1, <1>2, <2>2 DEF PropRequestsDue, PropApart
    <3> QED  BY <1>1, <1>4, <1>6, <2>2, <3>1 DEF PropRequestIsDue
  <2> QED  BY <2>1, <2>2
<1>8. ASSUME NEW q \in Slots, NEW r \in Slots, q # r
      PROVE  PropApart(q, r)'
  BY <1>1, <1>2, <1>6, <1>8 DEF PropRequestsDue, PropApart
<1>9. PropRequestsDue'
  BY <1>7, <1>8 DEF PropRequestsDue
<1> QED  BY <1>5, <1>6, <1>9 DEF PropIInv

LEMMA TenantBegins ==
    ASSUME PropIInv, desk = "properties", desk' = desk, NEW s \in Slots,
           NEW unit \in Prop!UnitCodes \cup {Prop!NoUnit}, NEW period \in Tenures,
           Prop!AddTenantWithTenancy(s, unit, period)
    PROVE  PropIInv'
<1> DEFINE others == {q \in Prop!Of("tenant") : job[q].unit = unit}
           j == [kind |-> "tenant", unit |-> unit, period |-> period, raced |-> others # {}]
<1>1. /\ pc[s] = "idle" /\ pc' = [pc EXCEPT ![s] = "create"]
      /\ unit # Prop!NoUnit => Prop!UnitIsFree(unit, period)
      /\ job' = [q \in Slots |-> IF q = s THEN j
                                 ELSE IF q \in others THEN [job[q] EXCEPT !.raced = TRUE] ELSE job[q]]
      /\ UNCHANGED <<units, ownerships, tenancies, complete, racedShares>>
  BY DEF Prop!AddTenantWithTenancy, Prop!Arrives, Prop!Go, Prop!tables
<1>2. PropTables /\ PropRequestsDue
  BY DEF PropIInv
<1>3. PropTables'
  BY <1>1, <1>2 DEF PropTables, TenanciesDisjoint, SharesWhole
<1>4. /\ j \in TenantJob /\ j.kind = "tenant" /\ j.unit = unit /\ j.period = period
      /\ (others # {} => j.raced)
  <2>1. (others # {}) \in BOOLEAN
    OBVIOUS
  <2> HIDE DEF others
  <2> QED  BY <2>1 DEF TenantJob
<1>5. ASSUME NEW q \in Slots, q # s
      PROVE  /\ pc'[q] = pc[q]
             /\ \/ job'[q] = job[q]
                \/ /\ job[q].kind = "tenant" /\ job'[q].kind = "tenant" /\ job'[q] \in TenantJob
                   /\ job'[q].raced
             /\ job'[q].kind = "tenant" /\ job'[q].unit = unit => job'[q].raced
  <2>1. pc'[q] = pc[q]
    BY <1>1, <1>5 DEF PropIInv
  <2>2. CASE q \in others
    <3>1. job[q].kind = "tenant" /\ job[q] \in TenantJob
      BY <1>2, <2>2 DEF PropRequestsDue, PropRequestIsDue, Prop!Of
    <3>2. job'[q] = [job[q] EXCEPT !.raced = TRUE]
      BY <1>1, <1>5, <2>2
    <3>3. job'[q] \in TenantJob /\ job'[q].raced /\ job'[q].kind = "tenant"
      BY <3>1, <3>2 DEF TenantJob
    <3> QED  BY <2>1, <3>1, <3>3
  <2>3. CASE q \notin others
    <3>1. job'[q] = job[q]
      BY <1>1, <1>5, <2>3
    <3>2. ~(job[q].kind = "tenant" /\ job[q].unit = unit)
      BY <2>3 DEF Prop!Of
    <3> QED  BY <2>1, <3>1, <3>2
  <2> QED  BY <2>2, <2>3
<1>6. /\ pc' = [q \in Slots |-> pc'[q]] /\ job' = [q \in Slots |-> job'[q]]
      /\ pc'[s] = "create" /\ job'[s] = j
  BY <1>1 DEF PropIInv
<1>7. TenantIsFree(j, tenancies)
  <2> HIDE DEF j, others
  <2> QED  BY <1>1, <1>4 DEF TenantIsFree, Rivals, Prop!UnitIsFree
<1>8. ASSUME NEW q \in Slots, q # s
      PROVE  /\ job[q].kind # "tenant" => job'[q] = job[q]
             /\ ~(job'[q].kind = "tenant" /\ (Rivals(j, job'[q]) \/ Rivals(job'[q], j)))
  <2> HIDE DEF j, others
  <2> QED  BY <1>4, <1>5, <1>8 DEF Rivals
<1> HIDE DEF j, others
<1>9. ASSUME NEW q \in Slots
      PROVE  PropRequestIsDue(q)'
  <2>1. CASE q = s
    BY <1>1, <1>4, <1>6, <1>7, <2>1 DEF PropRequestIsDue
  <2>2. CASE q # s
    <3>1. PropRequestIsDue(q) /\ pc'[q] = pc[q]
      BY <1>2, <1>5, <2>2 DEF PropRequestsDue
    <3>2. CASE job'[q] = job[q]
      BY <1>1, <3>1, <3>2 DEF PropRequestIsDue
    <3>3. CASE job[q].kind = "tenant" /\ job'[q].kind = "tenant" /\ job'[q] \in TenantJob /\ job'[q].raced
      BY <1>1, <3>1, <3>3 DEF PropRequestIsDue, TenantIsFree, Rivals
    <3> QED  BY <1>5, <2>2, <3>2, <3>3
  <2> QED  BY <2>1, <2>2
<1>10. ASSUME NEW q \in Slots, NEW r \in Slots, q # r
       PROVE  PropApart(q, r)'
  <2>1. CASE q = s \/ r = s
    BY <1>4, <1>6, <1>8, <1>10, <2>1 DEF PropApart
  <2>2. CASE q # s /\ r # s
    <3>1. PropApart(q, r) /\ racedShares' = racedShares
      BY <1>1, <1>2, <1>10 DEF PropRequestsDue
    <3>2. job'[q].kind = job[q].kind /\ job'[r].kind = job[r].kind
      BY <1>5, <2>2
    <3>3. job'[q].kind = "tenant" /\ job'[r].kind = "tenant" => ~Rivals(job'[q], job'[r])
      BY <1>5, <2>2, <3>1, <3>2 DEF PropApart, Rivals
    <3> QED  BY <3>1, <3>2, <3>3 DEF PropApart
  <2> QED  BY <2>1, <2>2
<1>11. PropRequestsDue'
  BY <1>9, <1>10 DEF PropRequestsDue
<1> QED  BY <1>3, <1>6, <1>11 DEF PropIInv

LEMMA TenancyKeeps ==
    ASSUME PropIInv, desk = "properties", desk' = desk, NEW s \in Slots, Prop!CreateTenancy(s)
    PROVE  PropIInv'
<1> DEFINE j == job[s]  p == j.period
           row == [unit |-> j.unit, from |-> Prop!Midnight(p.from), to |-> Prop!Midnight(p.to),
                   raced |-> j.raced,
                   timed |-> p.from # Prop!Midnight(p.from) \/ p.to # Prop!Midnight(p.to)]
           n == Len(tenancies) + 1
<1>1. /\ j.kind = "tenant" /\ tenancies' = Append(tenancies, row)
      /\ pc' = [pc EXCEPT ![s] = "idle"] /\ job' = [job EXCEPT ![s] = Prop!Idle]
      /\ UNCHANGED <<units, ownerships, complete, racedShares>>
  BY DEF Prop!CreateTenancy, Prop!Done, Prop!Go
<1>2. PropTables /\ PropRequestsDue /\ tenancies \in Seq(Tenancy)
  BY DEF PropIInv, PropTables
<1>3. j \in TenantJob /\ TenantIsFree(j, tenancies)
  BY <1>1, <1>2 DEF PropRequestsDue, PropRequestIsDue
<1>4. p.from \in Int /\ p.to \in Int /\ Prop!Midnight(p.from) \in Int /\ Prop!Midnight(p.to) \in Int
  <2>1. p \in [from : 0..Open, to : 0..Open]
    BY <1>3, HomesAssumption DEF TenantJob, Prop!PropAssumption
  <2>2. p.from \in Int /\ p.to \in Int
    BY <2>1, HomesAssumption DEF Prop!PropAssumption
  <2> HIDE DEF p
  <2> QED  BY <2>2 DEF Prop!Midnight
<1>5. /\ row \in Tenancy /\ row.unit = j.unit /\ row.raced = j.raced
      /\ ~row.timed => row.from = p.from /\ row.to = p.to
  <2>1. (p.from # Prop!Midnight(p.from) \/ p.to # Prop!Midnight(p.to)) \in BOOLEAN
    OBVIOUS
  <2>2. row \in Tenancy /\ row.unit = j.unit /\ row.raced = j.raced
    BY <1>3, <1>4, <2>1 DEF Tenancy, TenantJob
  <2> QED  BY <2>2
<1>6. /\ tenancies' \in Seq(Tenancy) /\ tenancies'[n] = row /\ Len(tenancies) \in Nat
      /\ Len(tenancies') = Len(tenancies) + 1
      /\ DOMAIN tenancies' = DOMAIN tenancies \cup {n}
      /\ \A i \in DOMAIN tenancies : tenancies'[i] = tenancies[i] /\ tenancies[i] \in Tenancy
  <2> HIDE DEF row
  <2> QED  BY <1>1, <1>2, <1>5
<1>7. /\ pc' = [q \in Slots |-> pc'[q]] /\ job' = [q \in Slots |-> job'[q]]
      /\ pc'[s] = "idle" /\ job'[s].kind = "none"
      /\ \A q \in Slots \ {s} : pc'[q] = pc[q] /\ job'[q] = job[q]
  BY <1>1 DEF PropIInv, Prop!Idle
<1> HIDE DEF row, n
<1>8. ASSUME NEW i \in DOMAIN tenancies, ~tenancies[i].timed, ~row.timed
      PROVE  /\ Rivals(tenancies[i], row) => ~Prop!TenancyPeriodsOverlap(tenancies[i], row)
             /\ Rivals(row, tenancies[i]) => ~Prop!TenancyPeriodsOverlap(row, tenancies[i])
  <2>1. Rivals(tenancies[i], j) => ~Prop!TenancyPeriodsOverlap(tenancies[i], p)
    BY <1>3 DEF TenantIsFree
  <2>2. /\ Prop!TenancyPeriodsOverlap(tenancies[i], row) <=> Prop!TenancyPeriodsOverlap(tenancies[i], p)
        /\ Prop!TenancyPeriodsOverlap(row, tenancies[i]) <=> Prop!TenancyPeriodsOverlap(tenancies[i], p)
    BY <1>5, <1>8 DEF Prop!TenancyPeriodsOverlap
  <2>3. /\ Rivals(tenancies[i], row) <=> Rivals(tenancies[i], j)
        /\ Rivals(row, tenancies[i]) <=> Rivals(tenancies[i], j)
    <3> HIDE DEF j
    <3> QED  BY <1>5 DEF Rivals
  <2> QED  BY <2>1, <2>2, <2>3
<1>9. TenanciesDisjoint'
  <2> SUFFICES ASSUME NEW i \in DOMAIN tenancies', NEW k \in DOMAIN tenancies', i # k,
                      Rivals(tenancies'[i], tenancies'[k]),
                      ~tenancies'[i].timed, ~tenancies'[k].timed
               PROVE  ~Prop!TenancyPeriodsOverlap(tenancies'[i], tenancies'[k])
    BY DEF TenanciesDisjoint
  <2>1. CASE i = n
    BY <1>6, <1>8, <2>1
  <2>2. CASE k = n
    BY <1>6, <1>8, <2>2
  <2>3. CASE i # n /\ k # n
    BY <1>2, <1>6, <2>3 DEF PropTables, TenanciesDisjoint
  <2> QED  BY <2>1, <2>2, <2>3
<1>10. PropTables'
  <2>1. SharesWhole'
    BY <1>1, <1>2, <1>6 DEF PropTables, SharesWhole
  <2> QED  BY <1>1, <1>2, <1>6, <1>9, <2>1 DEF PropTables
<1>11. ASSUME NEW q \in Slots
       PROVE  PropRequestIsDue(q)'
  <2>1. CASE q = s
    BY <1>7, <2>1 DEF PropRequestIsDue
  <2>2. CASE q # s
    <3>1. PropRequestIsDue(q) /\ (job[q].kind = "tenant" => ~Rivals(j, job[q]))
      BY <1>1, <1>2, <2>2 DEF PropRequestsDue, PropApart
    <3>2. job[q].kind = "tenant" => TenantIsFree(job[q], tenancies')
      <4> SUFFICES ASSUME job[q].kind = "tenant", NEW i \in DOMAIN tenancies',
                          Rivals(tenancies'[i], job[q])
                   PROVE  ~Prop!TenancyPeriodsOverlap(tenancies'[i], job[q].period)
        BY DEF TenantIsFree
      <4>1. i # n
        <5>1. Rivals(row, job[q]) => Rivals(j, job[q])
          <6> HIDE DEF j
          <6> QED  BY <1>5 DEF Rivals
        <5> QED  BY <1>6, <3>1, <5>1
      <4> QED  BY <1>6, <3>1, <4>1 DEF PropRequestIsDue, TenantIsFree
    <3>3. job[q].kind = "setup" => ("count" \in job[q].read => job[q].count <= Len(tenancies'))
      BY <1>6, <3>1 DEF PropRequestIsDue, SetupJob
    <3> QED  BY <1>1, <1>7, <2>2, <3>1, <3>2, <3>3 DEF PropRequestIsDue
  <2> QED  BY <2>1, <2>2
<1>12. ASSUME NEW q \in Slots, NEW r \in Slots, q # r
       PROVE  PropApart(q, r)'
  BY <1>1, <1>2, <1>7, <1>12 DEF PropRequestsDue, PropApart
<1>13. PropRequestsDue'
  BY <1>11, <1>12 DEF PropRequestsDue
<1> QED  BY <1>7, <1>10, <1>13 DEF PropIInv

SetupSet(k, r, t, c) == [k EXCEPT !.read = r, !.total = t, !.count = c]

LEMMA SetupIsSet ==
    ASSUME NEW k \in SetupJob, NEW r \in SUBSET {"total", "count"}, NEW t \in Nat, NEW c \in Nat
    PROVE  /\ SetupSet(k, r, t, c) \in SetupJob /\ SetupSet(k, r, t, c).kind = "setup"
           /\ SetupSet(k, r, t, c).read = r /\ SetupSet(k, r, t, c).total = t
           /\ SetupSet(k, r, t, c).count = c
  BY DEF SetupJob, SetupSet

LEMMA QueryKeeps ==
    ASSUME PropIInv, desk = "properties", desk' = desk, NEW s \in Slots,
           NEW what \in {"total", "count"}, Prop!Query(s, what)
    PROVE  PropIInv'
<1> DEFINE total == SharesOf(ownerships)
           j == [job[s] EXCEPT !.read = @ \cup {what},
                               !.total = IF what = "total" THEN total ELSE @,
                               !.count = IF what = "count" THEN Len(tenancies) ELSE @]
           last == j.read = {"total", "count"}
<1>1. /\ pc[s] = "read"
      /\ complete' = (complete \/ (last /\ Prop!SetupChecklist(Prop!Cardinality(units), j.total, j.count)))
      /\ IF last THEN pc' = [pc EXCEPT ![s] = "idle"] /\ job' = [job EXCEPT ![s] = Prop!Idle]
         ELSE job' = [job EXCEPT ![s] = j] /\ UNCHANGED pc
      /\ UNCHANGED <<units, ownerships, tenancies, racedShares>>
  BY TotalIsSum DEF Prop!Query, Prop!Done, Prop!Go, Prop!tables
<1>2. PropTables /\ PropRequestsDue /\ ownerships \in Seq(Nat) /\ Len(tenancies) \in Nat
  BY DEF PropIInv, PropTables
<1>3. /\ job[s] \in SetupJob /\ units # {}
      /\ "total" \in job[s].read /\ job[s].total = 100 /\ ~racedShares => total = 100
      /\ "count" \in job[s].read => job[s].count <= Len(tenancies)
  BY <1>1, <1>2 DEF PropRequestsDue, PropRequestIsDue
<1>4. total \in Nat
  BY <1>2, SharesAdd
<1> HIDE DEF total
<1>5. /\ j \in SetupJob /\ j.kind = "setup"
      /\ "total" \in j.read /\ j.total = 100 /\ ~racedShares => total = 100
      /\ "count" \in j.read => j.count <= Len(tenancies)
  <2> DEFINE read == job[s].read \cup {what}
             t == IF what = "total" THEN total ELSE job[s].total
             c == IF what = "count" THEN Len(tenancies) ELSE job[s].count
  <2>1. j = SetupSet(job[s], read, t, c)
    BY Zenon DEF SetupSet
  <2>2. read \in SUBSET {"total", "count"} /\ t \in Nat /\ c \in Nat
    BY <1>2, <1>3, <1>4 DEF SetupJob
  <2>3. "total" \in read /\ t = 100 /\ ~racedShares => total = 100
    BY <1>3
  <2>4. "count" \in read => c <= Len(tenancies)
    BY <1>2, <1>3
  <2> HIDE DEF j, read, t, c
  <2>5. j \in SetupJob /\ j.kind = "setup" /\ j.read = read /\ j.total = t /\ j.count = c
    BY <1>3, <2>1, <2>2, SetupIsSet
  <2> QED  BY <2>3, <2>4, <2>5
<1> HIDE DEF j
<1>6. last /\ Prop!SetupChecklist(Prop!Cardinality(units), j.total, j.count) =>
          /\ Prop!Cardinality(units) > 0 /\ Len(tenancies) > 0
          /\ ~racedShares => total = 100
  <2>1. "total" \in {"total", "count"} /\ "count" \in {"total", "count"}
    OBVIOUS
  <2>2. j.count \in Int
    BY <1>5 DEF SetupJob
  <2> QED  BY <1>2, <1>5, <2>1, <2>2 DEF Prop!SetupChecklist
<1>7. complete' \in BOOLEAN
  BY <1>1, <1>2 DEF PropTables
<1>8. PropTables'
  <2>1. SharesWhole'
    BY <1>1, <1>2, <1>3, <1>6 DEF PropTables, SharesWhole, total
  <2> QED  BY <1>1, <1>2, <1>7, <2>1 DEF PropTables, TenanciesDisjoint
<1> HIDE DEF last
<1>9. /\ pc' = [q \in Slots |-> pc'[q]] /\ job' = [q \in Slots |-> job'[q]]
      /\ \/ pc'[s] = "idle" /\ job'[s].kind = "none"
         \/ pc'[s] = "read" /\ job'[s] = j
      /\ \A q \in Slots \ {s} : pc'[q] = pc[q] /\ job'[q] = job[q]
  <2>1. CASE last
    BY <1>1, <2>1 DEF PropIInv, Prop!Idle
  <2>2. CASE ~last
    BY <1>1, <2>2 DEF PropIInv
  <2> QED  BY <2>1, <2>2
<1>10. ASSUME NEW q \in Slots
       PROVE  PropRequestIsDue(q)'
  <2>1. CASE q = s
    BY <1>1, <1>3, <1>5, <1>9, <2>1 DEF PropRequestIsDue, total
  <2>2. CASE q # s
    BY <1>1, <1>2, <1>9, <2>2 DEF PropRequestsDue, PropRequestIsDue
  <2> QED  BY <2>1, <2>2
<1>11. ASSUME NEW q \in Slots, NEW r \in Slots, q # r
       PROVE  PropApart(q, r)'
  <2>1. \A t \in Slots : job'[t].kind \in {"owner", "tenant"} => job'[t] = job[t]
    BY <1>5, <1>9
  <2> QED  BY <1>1, <1>2, <1>11, <2>1 DEF PropRequestsDue, PropApart
<1>12. PropRequestsDue'
  BY <1>10, <1>11 DEF PropRequestsDue
<1> QED  BY <1>8, <1>9, <1>12 DEF PropIInv

LEMMA PropStep ==
    ASSUME PropIInv, desk = "properties", desk' = desk, Prop!PropNext
    PROVE  PropIInv'
<1>1. ASSUME NEW l \in UnitLists, Prop!CreatePropertyWithUnits(l)
      PROVE  PropIInv'
  <2>1. units = {} /\ UNCHANGED <<ownerships, tenancies, complete, racedShares, pc, job>>
    BY <1>1 DEF Prop!CreatePropertyWithUnits, Prop!Created
  <2> QED
    BY <2>1 DEF PropIInv, PropTables, TenanciesDisjoint, SharesWhole, PropRequestsDue,
                PropRequestIsDue, PropApart
<1>2. ASSUME NEW x, Prop!UpdateConfig(x) \/ Prop!AddAttachment(x)
      PROVE  PropIInv'
  <2>1. UNCHANGED <<units, ownerships, tenancies, complete, racedShares, pc, job>>
    BY <1>2 DEF Prop!UpdateConfig, Prop!AddAttachment
  <2> QED
    BY <2>1 DEF PropIInv, PropTables, TenanciesDisjoint, SharesWhole, PropRequestsDue,
                PropRequestIsDue, PropApart
<1>3. ASSUME NEW s \in Slots, NEW id, Prop!FindAttachment(s, id)
      PROVE  PropIInv'
  <2> DEFINE j == [kind |-> "attachment", id |-> id]
  <2>1. /\ pc' = [pc EXCEPT ![s] = "delete"] /\ job' = [job EXCEPT ![s] = j]
        /\ UNCHANGED <<units, ownerships, tenancies, complete, racedShares>>
        /\ j.kind = "attachment"
    BY <1>3 DEF Prop!FindAttachment, Prop!Go, Prop!tables
  <2> HIDE DEF j
  <2> QED  BY <2>1, PropOneRequest
<1>4. ASSUME NEW s \in Slots, Prop!DeleteAttachment(s) \/ Prop!Abort(s)
      PROVE  PropIInv'
  <2>1. /\ pc' = [pc EXCEPT ![s] = "idle"] /\ job' = [job EXCEPT ![s] = Prop!Idle]
        /\ UNCHANGED <<units, ownerships, tenancies, complete, racedShares>>
        /\ Prop!Idle.kind = "none"
    BY <1>4 DEF Prop!DeleteAttachment, Prop!Abort, Prop!Done, Prop!Go, Prop!tables, Prop!Idle
  <2> QED  BY <2>1, PropOneRequest
<1>5. ASSUME NEW s \in Slots, Prop!CreatePerson(s)
      PROVE  PropIInv'
  <2>1. /\ pc[s] = "create" /\ pc' = [pc EXCEPT ![s] = "bind"] /\ job' = job
        /\ UNCHANGED <<units, ownerships, tenancies, complete, racedShares>>
    BY <1>5 DEF Prop!CreatePerson, Prop!Go
  <2>2. job' = [job EXCEPT ![s] = job[s]]
    BY <2>1 DEF PropIInv
  <2>3. CASE job[s].kind # "none"
    BY <2>1, <2>2, <2>3, PropOneRequest
  <2>4. CASE job[s].kind = "none"
    BY <2>1, <2>4 DEF PropIInv, PropTables, TenanciesDisjoint, SharesWhole, PropRequestsDue,
                PropRequestIsDue, PropApart
  <2> QED  BY <2>3, <2>4
<1>6. ASSUME NEW s \in Slots, Prop!SetupStatus(s)
      PROVE  PropIInv'
  <2> DEFINE j == [kind |-> "setup", read |-> {}, total |-> 0, count |-> 0]
  <2>1. /\ pc' = [pc EXCEPT ![s] = "read"] /\ job' = [job EXCEPT ![s] = j] /\ units # {}
        /\ UNCHANGED <<units, ownerships, tenancies, complete, racedShares>>
    BY <1>6 DEF Prop!SetupStatus, Prop!Go, Prop!tables, Prop!Created
  <2>2. j \in SetupJob /\ j.kind = "setup" /\ j.read = {}
    BY DEF SetupJob
  <2> HIDE DEF j
  <2> QED  BY <2>1, <2>2, PropOneRequest
<1>7. ASSUME NEW s \in Slots, NEW pct \in Shares, Prop!AddOwnerWithShare(s, pct)
      PROVE  PropIInv'
  BY <1>7, OwnerBegins
<1>8. ASSUME NEW s \in Slots, Prop!AssignOwnership(s) \/ Prop!CreateTenancy(s)
      PROVE  PropIInv'
  BY <1>8, OwnershipKeeps, TenancyKeeps
<1>9. ASSUME NEW s \in Slots, NEW u \in Prop!UnitCodes \cup {Prop!NoUnit}, NEW p \in Tenures,
             Prop!AddTenantWithTenancy(s, u, p)
      PROVE  PropIInv'
  BY <1>9, TenantBegins
<1>10. ASSUME NEW s \in Slots, NEW what \in {"total", "count"}, Prop!Query(s, what)
       PROVE  PropIInv'
  BY <1>10, QueryKeeps
<1> QED
  BY <1>1, <1>2, <1>3, <1>4, <1>5, <1>6, <1>7, <1>8, <1>9, <1>10 DEF Prop!PropNext

\* However additions overlap, two tenancies of a unit that were given in whole days and not at
\* the same time share no day, and a property that PropertiesService reported set up stays so
\* until two additions of an owner overlap.
THEOREM PropertyStaysSoundAlways == Spec => []PropertyStaysSound
<1>1. PropIInv /\ [Next]_vars => PropIInv'
  BY PropElsewhere, PropStep DEF Next, vars
<1>2. ASSUME PropIInv
      PROVE  PropertyStaysSound
  <2>1. Prop!SetUpStays
    BY <1>2, TotalIsSum DEF PropIInv, PropTables, SharesWhole, Prop!SetUpStays, Prop!SetupChecklist
  <2>2. Prop!TenanciesApart
    <3> SUFFICES ASSUME NEW i \in DOMAIN tenancies, NEW k \in DOMAIN tenancies, i # k,
                        Rivals(tenancies[i], tenancies[k]),
                        ~tenancies[i].timed, ~tenancies[k].timed, NEW d \in 0..Open,
                        tenancies[i].from <= d, d <= tenancies[i].to,
                        tenancies[k].from <= d, d <= tenancies[k].to
                 PROVE  FALSE
      BY DEF Prop!TenanciesApart, Rivals
    <3>1. ~Prop!TenancyPeriodsOverlap(tenancies[i], tenancies[k])
      BY <1>2 DEF PropIInv, PropTables, TenanciesDisjoint
    <3>2. /\ tenancies[i].from \in Int /\ tenancies[i].to \in Int
          /\ tenancies[k].from \in Int /\ tenancies[k].to \in Int /\ d \in Int
      <4>1. tenancies[i] \in Tenancy /\ tenancies[k] \in Tenancy
        BY <1>2 DEF PropIInv, PropTables
      <4>2. d \in Int
        BY HomesAssumption DEF Prop!PropAssumption
      <4> QED  BY <4>1, <4>2 DEF Tenancy
    <3> QED  BY <3>1, <3>2 DEF Prop!TenancyPeriodsOverlap
  <2> QED  BY <2>1, <2>2 DEF PropertyStaysSound
<1> QED  BY PropInitially, <1>1, <1>2, PTL DEF Spec

-----------------------------------------------------------------------------
(***************************************************************************)
(* Utilities: a reading that nobody raced comes after those on file then   *)
(* and before those that follow, and was judged by the last one before it, *)
(* which is the one its charge starts from when days are told apart.       *)
(***************************************************************************)
Reading == [meter : Meters, value : Values, date : 0..MaxDate, anomaly : BOOLEAN, raced : BOOLEAN]
RecordJob == [kind : {"record"}, meter : Meters, value : Values, date : 0..MaxDate,
              anomaly : BOOLEAN, raced : BOOLEAN]
ChargeRow == [reading : Nat, previous : Nat, confirmed : BOOLEAN]

\* The flag says how a value compares with one of the last among the first n readings.
JudgedBy(list, n, meter, value, flag) ==
    \/ flag = FALSE /\ \A k \in 1..n : list[k].meter # meter
    \/ \E l \in 1..n :
           /\ list[l].meter = meter
           /\ \A k \in 1..n : list[k].meter = meter => list[k].date <= list[l].date
           /\ flag <=> Util!Anomalous(list[l].value, value)

InOrder(list, i) ==
    ~list[i].raced =>
        /\ \A k \in DOMAIN list : list[k].meter = list[i].meter =>
               /\ k < i => list[k].date <= list[i].date
               /\ k > i => list[i].date <= list[k].date
        /\ JudgedBy(list, i - 1, list[i].meter, list[i].value, list[i].anomaly)

\* What a period has when nobody charged it from a reading.
Unread == {Util!NoCharge, Util!ByHand}

ChargeFits(list, c) ==
    LET i == c.reading p == c.previous IN
    /\ i \in DOMAIN list /\ p \in DOMAIN list /\ p # i
    /\ list[p].meter = list[i].meter /\ list[p].date <= list[i].date
    /\ list[i].anomaly => c.confirmed
    /\ \A k \in DOMAIN list :
           k < i /\ list[k].meter = list[i].meter /\ list[k].date < list[i].date
               => list[k].date <= list[p].date

RecordFits(list, place, j) ==
    /\ \A i \in DOMAIN list :
           list[i].meter = j.meter /\ (~list[i].raced \/ ~j.raced) => list[i].date <= j.date
    /\ place = "create" /\ ~j.raced => JudgedBy(list, Len(list), j.meter, j.value, j.anomaly)

AnnouncedOnce ==
    \A r \in Util!Reminders : sentOut[r] = IF r \in reminders THEN 1 ELSE 0

UtilTables ==
    /\ readings \in Seq(Reading)
    /\ charges \in [BilledPeriods -> ChargeRow]
    /\ sentOut = [r \in Util!Reminders |-> sentOut[r]]
    /\ \A i \in DOMAIN readings : InOrder(readings, i)
    /\ \A p \in BilledPeriods : charges[p] \in Unread \/ ChargeFits(readings, charges[p])
    /\ AnnouncedOnce

UtilRequestIsDue(s) ==
    LET j == job[s] IN
    /\ pc[s] = "idle" => j.kind = "none"
    /\ pc[s] \in {"flag", "create"} => j.kind = "record"
    /\ j.kind = "record" =>
           pc[s] \in {"flag", "create"} /\ j \in RecordJob /\ RecordFits(readings, pc[s], j)
    /\ pc[s] = "charge" => j.charge \in ChargeRow /\ ChargeFits(readings, j.charge)

UtilApart(s, q) ==
    job[s].kind = "record" /\ job[q].kind = "record" /\ job[s].meter = job[q].meter => job[s].raced

UtilRequestsDue ==
    /\ \A s \in Slots : UtilRequestIsDue(s)
    /\ \A s, q \in Slots : s # q => UtilApart(s, q)

UtilIInv ==
    /\ UtilTables
    /\ desk = "meters" =>
           /\ pc = [s \in Slots |-> pc[s]] /\ job = [s \in Slots |-> job[s]]
           /\ UtilRequestsDue

LEMMA UtilInitially == Init => UtilIInv
<1> SUFFICES ASSUME Init
             PROVE  UtilIInv
  OBVIOUS
<1>1. /\ readings = <<>> /\ charges = [p \in BilledPeriods |-> Util!NoCharge]
      /\ reminders = {} /\ sentOut = [r \in Util!Reminders |-> 0]
      /\ pc = [s \in Slots |-> "idle"] /\ job = [s \in Slots |-> Util!Idle]
  BY DEF Init, Util!UtilInit
<1>2. UtilTables
  <2>1. Util!NoCharge \in ChargeRow
    BY DEF Util!NoCharge, ChargeRow
  <2>2. charges \in [BilledPeriods -> ChargeRow] /\ \A p \in BilledPeriods : charges[p] = Util!NoCharge
    BY <1>1, <2>1
  <2>3. readings \in Seq(Reading) /\ DOMAIN readings = {}
    BY <1>1
  <2>4. AnnouncedOnce /\ sentOut = [r \in Util!Reminders |-> sentOut[r]]
    BY <1>1 DEF AnnouncedOnce
  <2> QED  BY <2>2, <2>3, <2>4 DEF UtilTables, Unread
<1>3. UtilRequestsDue
  BY <1>1 DEF UtilRequestsDue, UtilRequestIsDue, UtilApart, Util!Idle
<1> QED  BY <1>1, <1>2, <1>3 DEF UtilIInv

LEMMA UtilElsewhere ==
    ASSUME UtilIInv, [Next]_vars, ~(desk = "meters" /\ Util!UtilNext)
    PROVE  UtilIInv'
<1>1. UNCHANGED meters /\ (UNCHANGED <<pc, job>> \/ desk # "meters") /\ desk' = desk
  BY DEF Next, vars
<1> QED
  BY <1>1 DEF meters, UtilIInv, UtilTables, AnnouncedOnce, UtilRequestsDue, UtilRequestIsDue, UtilApart

LEMMA LastReadingIs ==
    ASSUME readings \in Seq(Reading), NEW m, NEW l \in Util!LastReadings(m)
    PROVE  \/ l = 0 /\ \A k \in DOMAIN readings : readings[k].meter # m
           \/ /\ l \in DOMAIN readings /\ l # 0 /\ readings[l].meter = m
              /\ \A k \in DOMAIN readings : readings[k].meter = m => readings[k].date <= readings[l].date
<1> DEFINE dates == {readings[i].date : i \in Util!Of(m)}
<1>1. CASE Util!Of(m) = {}
  BY <1>1 DEF Util!LastReadings, Util!Of
<1>2. CASE Util!Of(m) # {}
  <2>1. l \in Util!Of(m) /\ readings[l].date = Util!Max(dates)
    BY <1>2 DEF Util!LastReadings
  <2>2. dates \subseteq 0..MaxDate /\ dates # {} /\ MaxDate \in Nat
    <3>1. \A i \in Util!Of(m) : readings[i] \in Reading
      BY DEF Util!Of
    <3>2. \A i \in Util!Of(m) : readings[i].date \in 0..MaxDate
      BY <3>1 DEF Reading
    <3>3. MaxDate \in Nat
      BY MetersAssumption DEF Util!UtilAssumption
    <3> QED  BY <1>2, <3>2, <3>3
  <2>3. \A k \in Util!Of(m) : readings[k].date \in dates
    OBVIOUS
  <2> HIDE DEF dates
  <2>4. Util!Max(dates) = Ai!Max(dates)
    BY Zenon DEF Util!Max, Ai!Max
  <2>5. \A y \in dates : y <= Util!Max(dates)
    BY <2>2, <2>4, Extremes
  <2>6. \A k \in Util!Of(m) : readings[k].date <= readings[l].date
    BY <2>1, <2>3, <2>5
  <2> QED  BY <2>1, <2>6 DEF Util!Of
<1> QED  BY <1>1, <1>2

\* Rows are only added: what was said of the first of them stays true.
LEMMA JudgementStays ==
    ASSUME NEW list, NEW more, NEW n, NEW m, NEW v, NEW f,
           \A k \in 1..n : more[k] = list[k], JudgedBy(list, n, m, v, f)
    PROVE  JudgedBy(more, n, m, v, f)
BY DEF JudgedBy

LEMMA ChargeStays ==
    ASSUME NEW list \in Seq(Reading), NEW r \in Reading, NEW c \in ChargeRow, ChargeFits(list, c)
    PROVE  ChargeFits(Append(list, r), c)
<1> DEFINE more == Append(list, r)
<1>1. DOMAIN list = 1..Len(list) /\ DOMAIN more = 1..(Len(list) + 1) /\ Len(list) \in Nat
  OBVIOUS
<1>2. \A k \in DOMAIN list : more[k] = list[k]
  OBVIOUS
<1> HIDE DEF more
<1>3. c.reading \in DOMAIN list /\ c.previous \in DOMAIN list
  BY DEF ChargeFits
<1>4. \A k \in DOMAIN more : k < c.reading => k \in DOMAIN list
  BY <1>1, <1>3
<1>5. ChargeFits(more, c)
  <2>1. c.reading \in DOMAIN more /\ c.previous \in DOMAIN more
    BY <1>1, <1>3
  <2> QED  BY <1>2, <1>3, <1>4, <2>1 DEF ChargeFits
<1> QED  BY <1>5 DEF more

\* A request that adds no reading and touches no record in the making but its own.
LEMMA UtilOneRequest ==
    ASSUME UtilIInv, desk = "meters", desk' = desk, NEW s \in Slots, NEW step, NEW j,
           pc' = [pc EXCEPT ![s] = step], job' = [job EXCEPT ![s] = j],
           readings' = readings, UtilTables',
           step = "idle" => j.kind = "none",
           step \notin {"flag", "create"}, j.kind # "record",
           step = "charge" => j.charge \in ChargeRow /\ ChargeFits(readings, j.charge)
    PROVE  UtilIInv'
<1>1. /\ pc'[s] = step /\ job'[s] = j
      /\ \A q \in Slots : q # s => pc'[q] = pc[q] /\ job'[q] = job[q]
      /\ pc' = [q \in Slots |-> pc'[q]] /\ job' = [q \in Slots |-> job'[q]]
  BY DEF UtilIInv
<1>2. \A q \in Slots : UtilRequestIsDue(q)'
  <2>1. UtilRequestIsDue(s)'
    BY <1>1 DEF UtilRequestIsDue
  <2>2. ASSUME NEW q \in Slots, q # s
        PROVE  UtilRequestIsDue(q)'
    BY <1>1, <2>2 DEF UtilIInv, UtilRequestsDue, UtilRequestIsDue
  <2> QED  BY <2>1, <2>2
<1>3. \A p, q \in Slots : p # q => UtilApart(p, q)'
  BY <1>1 DEF UtilIInv, UtilRequestsDue, UtilApart
<1> QED  BY <1>1, <1>2, <1>3 DEF UtilIInv, UtilRequestsDue

LEMMA DateIsChecked ==
    ASSUME UtilIInv, desk = "meters", desk' = desk, NEW s \in Slots, NEW m \in Meters,
           NEW v \in Values, NEW d \in 0..MaxDate, Util!CheckDate(s, m, v, d)
    PROVE  UtilIInv'
<1> DEFINE others == Util!Recording(m)
           j == [kind |-> "record", meter |-> m, value |-> v, date |-> d,
                 anomaly |-> FALSE, raced |-> others # {}]
<1>1. /\ pc[s] = "idle" /\ pc' = [pc EXCEPT ![s] = "flag"]
      /\ job' = [q \in Slots |-> IF q = s THEN j
                                 ELSE IF q \in others THEN [job[q] EXCEPT !.raced = TRUE] ELSE job[q]]
      /\ UNCHANGED <<readings, charges, reminders, sentOut>>
  BY DEF Util!CheckDate, Util!Go, Util!Arrives, Util!billing
<1>2. \A i \in DOMAIN readings : readings[i].meter = m => readings[i].date <= d
  <2>1. PICK l \in Util!LastReadings(m) : l # 0 => d >= readings[l].date
    BY DEF Util!CheckDate
  <2>2. readings \in Seq(Reading) /\ MaxDate \in Nat
    BY MetersAssumption DEF UtilIInv, UtilTables, Util!UtilAssumption
  <2>3. \A i \in DOMAIN readings : readings[i] \in Reading
    BY <2>2
  <2>4. \A i \in DOMAIN readings : readings[i].date \in Int
    BY <2>2, <2>3 DEF Reading
  <2> QED  BY <2>1, <2>2, <2>4, LastReadingIs
<1>3. j \in RecordJob /\ RecordFits(readings, "flag", j) /\ j.kind = "record" /\ j.meter = m
      /\ (j.raced <=> others # {})
  BY <1>2 DEF RecordJob, RecordFits
<1>4. \A q \in Slots : q \in others <=> job[q].kind = "record" /\ job[q].meter = m
  BY DEF Util!Recording
<1> HIDE DEF others, j
<1>5. /\ pc'[s] = "flag" /\ job'[s] = j
      /\ \A q \in Slots : q # s => pc'[q] = pc[q]
      /\ pc' = [q \in Slots |-> pc'[q]] /\ job' = [q \in Slots |-> job'[q]]
  BY <1>1 DEF UtilIInv
<1>6. \A q \in Slots : q # s /\ q \notin others => job'[q] = job[q]
  BY <1>1
<1>7. ASSUME NEW q \in Slots, q # s, q \in others
      PROVE  /\ job[q] \in RecordJob /\ job'[q] \in RecordJob /\ job'[q].raced
             /\ job'[q].kind = "record" /\ job'[q].meter = job[q].meter
             /\ job'[q].date = job[q].date /\ RecordFits(readings, pc[q], job[q])
             /\ pc[q] \in {"flag", "create"}
  <2>1. job[q] \in RecordJob /\ RecordFits(readings, pc[q], job[q]) /\ pc[q] \in {"flag", "create"}
    BY <1>4, <1>7 DEF UtilIInv, UtilRequestsDue, UtilRequestIsDue
  <2>2. job'[q] = [job[q] EXCEPT !.raced = TRUE]
    BY <1>1, <1>7
  <2> QED  BY <2>1, <2>2 DEF RecordJob
<1>8. \A q \in Slots : UtilRequestIsDue(q)'
  <2>1. UtilRequestIsDue(s)'
    BY <1>1, <1>3, <1>5 DEF UtilRequestIsDue
  <2>2. ASSUME NEW q \in Slots, q # s, q \notin others
        PROVE  UtilRequestIsDue(q)'
    BY <1>1, <1>5, <1>6, <2>2 DEF UtilIInv, UtilRequestsDue, UtilRequestIsDue
  <2>3. ASSUME NEW q \in Slots, q # s, q \in others
        PROVE  UtilRequestIsDue(q)'
    <3>1. RecordFits(readings, pc[q], job'[q])
      BY <1>7, <2>3 DEF RecordFits
    <3> QED  BY <1>1, <1>5, <1>7, <2>3, <3>1 DEF UtilRequestIsDue
  <2> QED  BY <2>1, <2>2, <2>3
<1>9. \A p, q \in Slots : p # q => UtilApart(p, q)'
  <2> SUFFICES ASSUME NEW p \in Slots, NEW q \in Slots, p # q
               PROVE  UtilApart(p, q)'
    OBVIOUS
  <2>1. CASE p = s
    BY <1>3, <1>4, <1>5, <1>6, <2>1 DEF UtilApart
  <2>2. CASE p # s /\ p \in others
    BY <1>7, <2>2 DEF UtilApart
  <2>3. CASE p # s /\ p \notin others /\ q = s
    BY <1>3, <1>4, <1>5, <1>6, <2>3 DEF UtilApart
  <2>4. CASE p # s /\ p \notin others /\ q # s /\ q \in others
    BY <1>4, <1>6, <1>7, <2>4 DEF UtilApart
  <2>5. CASE p # s /\ p \notin others /\ q # s /\ q \notin others
    BY <1>6, <2>5 DEF UtilIInv, UtilRequestsDue, UtilApart
  <2> QED  BY <2>1, <2>2, <2>3, <2>4, <2>5
<1>10. UtilTables'
  BY <1>1 DEF UtilIInv, UtilTables, AnnouncedOnce
<1> QED  BY <1>5, <1>8, <1>9, <1>10 DEF UtilIInv, UtilRequestsDue

LEMMA AnomalyIsFlagged ==
    ASSUME UtilIInv, desk = "meters", desk' = desk, NEW s \in Slots, Util!FlagAnomaly(s)
    PROVE  UtilIInv'
<1>1. PICK l \in Util!LastReadings(job[s].meter) :
          job' = [job EXCEPT ![s].anomaly = l # 0 /\ Util!Anomalous(readings[l].value, job[s].value)]
  BY DEF Util!FlagAnomaly
<1> DEFINE flag == l # 0 /\ Util!Anomalous(readings[l].value, job[s].value)
           j == [job[s] EXCEPT !.anomaly = flag]
<1>2. /\ pc[s] = "flag" /\ pc' = [pc EXCEPT ![s] = "create"] /\ job' = [job EXCEPT ![s] = j]
      /\ UNCHANGED <<readings, charges, reminders, sentOut>>
  BY <1>1 DEF Util!FlagAnomaly, Util!Go, Util!billing
<1>3. job[s] \in RecordJob /\ RecordFits(readings, "flag", job[s]) /\ readings \in Seq(Reading)
  BY <1>2 DEF UtilIInv, UtilTables, UtilRequestsDue, UtilRequestIsDue
<1>4. JudgedBy(readings, Len(readings), job[s].meter, job[s].value, flag)
  <2>1. DOMAIN readings = 1..Len(readings)
    BY <1>3
  <2>2. CASE l = 0 /\ \A k \in DOMAIN readings : readings[k].meter # job[s].meter
    BY <2>1, <2>2 DEF JudgedBy
  <2>3. CASE /\ l \in DOMAIN readings /\ l # 0 /\ readings[l].meter = job[s].meter
             /\ \A k \in DOMAIN readings :
                    readings[k].meter = job[s].meter => readings[k].date <= readings[l].date
    BY <2>1, <2>3 DEF JudgedBy
  <2> QED  BY <1>3, <2>2, <2>3, LastReadingIs
<1>5. flag \in BOOLEAN
  OBVIOUS
<1> HIDE DEF flag
<1>6. /\ j \in RecordJob /\ j.meter = job[s].meter /\ j.value = job[s].value /\ j.kind = "record"
      /\ j.date = job[s].date /\ j.raced = job[s].raced /\ j.anomaly = flag
  BY <1>3, <1>5 DEF RecordJob
<1> HIDE DEF j
<1>7. RecordFits(readings, "create", j)
  BY <1>3, <1>4, <1>6 DEF RecordFits
<1>8. /\ pc'[s] = "create" /\ job'[s] = j
      /\ \A q \in Slots : q # s => pc'[q] = pc[q] /\ job'[q] = job[q]
      /\ pc' = [q \in Slots |-> pc'[q]] /\ job' = [q \in Slots |-> job'[q]]
  BY <1>2 DEF UtilIInv
<1>9. \A q \in Slots : UtilRequestIsDue(q)'
  <2>1. UtilRequestIsDue(s)'
    BY <1>2, <1>6, <1>7, <1>8 DEF UtilRequestIsDue
  <2>2. ASSUME NEW q \in Slots, q # s
        PROVE  UtilRequestIsDue(q)'
    BY <1>2, <1>8, <2>2 DEF UtilIInv, UtilRequestsDue, UtilRequestIsDue
  <2> QED  BY <2>1, <2>2
<1>10. \A p, q \in Slots : p # q => UtilApart(p, q)'
  <2>1. job[s].kind = "record"
    BY <1>3 DEF RecordJob
  <2> QED  BY <1>6, <1>8, <2>1 DEF UtilIInv, UtilRequestsDue, UtilApart
<1>11. UtilTables'
  BY <1>2 DEF UtilIInv, UtilTables, AnnouncedOnce
<1> QED  BY <1>8, <1>9, <1>10, <1>11 DEF UtilIInv, UtilRequestsDue

LEMMA ReadingIsAdded ==
    ASSUME UtilIInv, desk = "meters", desk' = desk, NEW s \in Slots, Util!CreateMeterReading(s)
    PROVE  UtilIInv'
<1> DEFINE j == job[s]
           r == [meter |-> j.meter, value |-> j.value, date |-> j.date,
                 anomaly |-> j.anomaly, raced |-> j.raced]
           n == Len(readings)
<1>1. /\ pc[s] = "create" /\ readings' = Append(readings, r)
      /\ pc' = [pc EXCEPT ![s] = "idle"] /\ job' = [job EXCEPT ![s] = Util!Idle]
      /\ UNCHANGED <<charges, reminders, sentOut>>
  BY DEF Util!CreateMeterReading, Util!Done, Util!Go, Util!billing
<1>2. /\ j \in RecordJob /\ RecordFits(readings, "create", j) /\ readings \in Seq(Reading)
      /\ j.kind = "record"
  BY <1>1 DEF UtilIInv, UtilTables, UtilRequestsDue, UtilRequestIsDue
<1>3. /\ r \in Reading /\ r.meter = j.meter /\ r.value = j.value /\ r.date = j.date
      /\ r.anomaly = j.anomaly /\ r.raced = j.raced
  BY <1>2 DEF RecordJob, Reading
<1> HIDE DEF r, j
<1>4. /\ DOMAIN readings = 1..n /\ DOMAIN readings' = 1..(n + 1) /\ n \in Nat
      /\ Len(readings') = n + 1 /\ readings' \in Seq(Reading) /\ readings'[n + 1] = r
  BY <1>1, <1>2, <1>3
<1>5. \A k \in 1..n : readings'[k] = readings[k]
  BY <1>1, <1>2
<1> HIDE DEF n
<1>6. \A i \in DOMAIN readings' : InOrder(readings', i)
  <2>1. ASSUME NEW i \in 1..n
        PROVE  InOrder(readings', i)
    <3> SUFFICES ASSUME ~readings[i].raced
                 PROVE  InOrder(readings', i)
      BY <1>5 DEF InOrder
    <3>1. InOrder(readings, i)
      BY <1>4 DEF UtilIInv, UtilTables
    <3>2. ASSUME NEW k \in 1..(n + 1), readings'[k].meter = readings'[i].meter
          PROVE  /\ k < i => readings'[k].date <= readings'[i].date
                 /\ k > i => readings'[i].date <= readings'[k].date
      <4>1. CASE k \in 1..n
        BY <1>4, <1>5, <3>1, <3>2, <4>1 DEF InOrder
      <4>2. CASE k = n + 1
        <5>1. readings[i].date <= j.date
          BY <1>2, <1>3, <1>4, <1>5, <3>2, <4>2 DEF RecordFits
        <5> QED  BY <1>3, <1>4, <1>5, <4>2, <5>1
      <4> QED  BY <1>4, <4>1, <4>2
    <3>3. JudgedBy(readings', i - 1, readings'[i].meter, readings'[i].value, readings'[i].anomaly)
      <4>1. \A k \in 1..(i - 1) : readings'[k] = readings[k]
        BY <1>4, <1>5
      <4>2. JudgedBy(readings, i - 1, readings'[i].meter, readings'[i].value, readings'[i].anomaly)
        BY <1>5, <3>1 DEF InOrder
      <4> QED  BY <4>1, <4>2, JudgementStays
    <3> QED  BY <1>4, <3>2, <3>3 DEF InOrder
  <2>2. InOrder(readings', n + 1)
    <3> SUFFICES ASSUME ~r.raced
                 PROVE  InOrder(readings', n + 1)
      BY <1>4 DEF InOrder
    <3>1. \A k \in 1..n : readings'[k].meter = r.meter => readings'[k].date <= r.date
      BY <1>2, <1>3, <1>4, <1>5 DEF RecordFits
    <3>2. JudgedBy(readings', n, r.meter, r.value, r.anomaly)
      BY <1>2, <1>3, <1>5, JudgementStays DEF RecordFits, n
    <3>3. (n + 1) - 1 = n /\ \A k \in 1..(n + 1) : k < n + 1 => k \in 1..n
      BY <1>4
    <3>4. \A k \in 1..(n + 1) : ~(k > n + 1)
      BY <1>4
    <3> QED  BY <1>4, <3>1, <3>2, <3>3, <3>4 DEF InOrder
  <2> QED  BY <1>4, <2>1, <2>2
<1>7. ASSUME NEW c \in ChargeRow, ChargeFits(readings, c)
      PROVE  ChargeFits(readings', c)
  BY <1>1, <1>2, <1>3, <1>7, ChargeStays
<1>8. UtilTables'
  <2>1. \A p \in BilledPeriods : charges[p] \in Unread \/ ChargeFits(readings', charges[p])
    BY <1>7 DEF UtilIInv, UtilTables
  <2> QED  BY <1>1, <1>4, <1>6, <2>1 DEF UtilIInv, UtilTables, AnnouncedOnce
<1>9. /\ pc'[s] = "idle" /\ job'[s] = Util!Idle
      /\ \A q \in Slots : q # s => pc'[q] = pc[q] /\ job'[q] = job[q]
      /\ pc' = [q \in Slots |-> pc'[q]] /\ job' = [q \in Slots |-> job'[q]]
      /\ Util!Idle.kind = "none"
  BY <1>1 DEF UtilIInv, Util!Idle
<1>10. \A q \in Slots : UtilRequestIsDue(q)'
  <2>1. UtilRequestIsDue(s)'
    BY <1>9 DEF UtilRequestIsDue
  <2>2. ASSUME NEW q \in Slots, q # s, job[q].kind = "record"
        PROVE  RecordFits(readings', pc[q], job[q])
    <3>1. RecordFits(readings, pc[q], job[q])
      BY <2>2 DEF UtilIInv, UtilRequestsDue, UtilRequestIsDue
    <3>2. r.meter = job[q].meter => r.raced /\ job[q].raced
      BY <1>2, <1>3, <2>2 DEF UtilIInv, UtilRequestsDue, UtilApart, j
    <3>3. ASSUME NEW i \in 1..(n + 1), readings'[i].meter = job[q].meter,
                 ~readings'[i].raced \/ ~job[q].raced
          PROVE  readings'[i].date <= job[q].date
      <4>1. i \in 1..n
        BY <1>4, <3>2, <3>3
      <4> QED  BY <1>4, <1>5, <3>1, <3>3, <4>1 DEF RecordFits
    <3>4. ASSUME pc[q] = "create", ~job[q].raced
          PROVE  JudgedBy(readings', n + 1, job[q].meter, job[q].value, job[q].anomaly)
      <4>1. r.meter # job[q].meter
        BY <3>2, <3>4
      <4>2. JudgedBy(readings, n, job[q].meter, job[q].value, job[q].anomaly)
        BY <3>1, <3>4 DEF RecordFits, n
      <4>3. JudgedBy(readings', n, job[q].meter, job[q].value, job[q].anomaly)
        BY <1>5, <4>2, JudgementStays
      <4>4. \A k \in 1..(n + 1) : k \in 1..n \/ readings'[k].meter # job[q].meter
        BY <1>4, <4>1
      <4>5. 1..n \subseteq 1..(n + 1)
        BY <1>4
      <4> QED  BY <4>3, <4>4, <4>5 DEF JudgedBy
    <3> QED  BY <1>4, <3>3, <3>4 DEF RecordFits
  <2>3. ASSUME NEW q \in Slots, q # s
        PROVE  UtilRequestIsDue(q)'
    BY <1>7, <1>9, <2>2, <2>3 DEF UtilIInv, UtilRequestsDue, UtilRequestIsDue
  <2> QED  BY <2>1, <2>3
<1>11. \A p, q \in Slots : p # q => UtilApart(p, q)'
  BY <1>9 DEF UtilIInv, UtilRequestsDue, UtilApart
<1> QED  BY <1>8, <1>9, <1>10, <1>11 DEF UtilIInv, UtilRequestsDue

LEMMA HistoryIsRead ==
    ASSUME UtilIInv, desk = "meters", desk' = desk, NEW s \in Slots, NEW i \in DOMAIN readings,
           NEW period, NEW confirmed \in BOOLEAN, Util!ReadHistory(s, i, period, confirmed)
    PROVE  UtilIInv'
<1>1. PICK p \in Util!Predecessors(i) :
          /\ readings[i].anomaly => confirmed
          /\ job' = [job EXCEPT ![s] = [kind |-> "charge", period |-> period,
                        charge |-> [reading |-> i, previous |-> p, confirmed |-> confirmed]]]
  BY DEF Util!ReadHistory
<1> DEFINE c == [reading |-> i, previous |-> p, confirmed |-> confirmed]
           j == [kind |-> "charge", period |-> period, charge |-> c]
           before == {k \in Util!Of(readings[i].meter) : readings[k].date < readings[i].date}
           dates == {readings[k].date : k \in before}
<1>2. /\ pc' = [pc EXCEPT ![s] = "charge"] /\ job' = [job EXCEPT ![s] = j]
      /\ UNCHANGED <<readings, charges, reminders, sentOut>>
  BY <1>1 DEF Util!ReadHistory, Util!Go, Util!billing
<1>3. readings \in Seq(Reading) /\ DOMAIN readings \subseteq Nat
  BY DEF UtilIInv, UtilTables
<1>4. MaxDate \in Nat /\ \A k \in DOMAIN readings : readings[k].date \in 0..MaxDate
  <2>1. \A k \in DOMAIN readings : readings[k] \in Reading
    BY <1>3
  <2> QED  BY <2>1, MetersAssumption DEF Reading, Util!UtilAssumption
<1>5. /\ p \in DOMAIN readings /\ readings[p].meter = readings[i].meter /\ p # i
      /\ readings[p].date <= readings[i].date
      /\ \A k \in DOMAIN readings :
             k < i /\ readings[k].meter = readings[i].meter /\ readings[k].date < readings[i].date
                 => readings[k].date <= readings[p].date
  <2>1. CASE p \in Util!Of(readings[i].meter) \ {i} /\ readings[p].date = readings[i].date
    BY <1>4, <2>1 DEF Util!Of
  <2>2. CASE p \in before /\ readings[p].date = Util!Max(dates)
    <3>1. dates \subseteq 0..MaxDate /\ dates # {}
      BY <1>4, <2>2 DEF Util!Of
    <3>2. \A k \in before : readings[k].date \in dates
      OBVIOUS
    <3>3. \A k \in DOMAIN readings :
              readings[k].meter = readings[i].meter /\ readings[k].date < readings[i].date => k \in before
      BY DEF Util!Of
    <3>4. /\ p \in DOMAIN readings /\ readings[p].meter = readings[i].meter
          /\ readings[p].date < readings[i].date
      BY <2>2 DEF Util!Of
    <3> HIDE DEF dates, before
    <3>5. Util!Max(dates) = Ai!Max(dates)
      BY Zenon DEF Util!Max, Ai!Max
    <3>6. \A y \in dates : y <= Util!Max(dates)
      BY <1>4, <3>1, <3>5, Extremes
    <3>7. \A k \in before : readings[k].date <= readings[p].date
      BY <2>2, <3>2, <3>6
    <3>8. p # i /\ readings[p].date <= readings[i].date
      BY <1>4, <3>4
    <3> QED  BY <3>3, <3>4, <3>7, <3>8
  <2>3. \/ p \in Util!Of(readings[i].meter) \ {i} /\ readings[p].date = readings[i].date
        \/ p \in before /\ readings[p].date = Util!Max(dates)
    BY Zenon DEF Util!Predecessors
  <2> QED  BY <2>1, <2>2, <2>3
<1> HIDE DEF before, dates
<1>6. /\ c \in ChargeRow /\ c.reading = i /\ c.previous = p /\ c.confirmed = confirmed
  BY <1>3, <1>5 DEF ChargeRow
<1>7. j.charge = c /\ j.kind = "charge"
  OBVIOUS
<1> HIDE DEF c, j
<1>8. ChargeFits(readings, c)
  BY <1>1, <1>5, <1>6 DEF ChargeFits
<1>9. UtilTables'
  BY <1>2 DEF UtilIInv, UtilTables, AnnouncedOnce
<1> QED  BY <1>2, <1>6, <1>7, <1>8, <1>9, UtilOneRequest

LEMMA UtilStep ==
    ASSUME UtilIInv, desk = "meters", desk' = desk, Util!UtilNext
    PROVE  UtilIInv'
<1>1. ASSUME NEW p \in BilledPeriods, Util!Settle(p)
      PROVE  UtilIInv'
  <2>1. UNCHANGED <<readings, charges, reminders, sentOut, pc, job>>
    BY <1>1 DEF Util!Settle
  <2> QED
    BY <2>1 DEF UtilIInv, UtilTables, AnnouncedOnce, UtilRequestsDue, UtilRequestIsDue, UtilApart
<1>1a. ASSUME NEW p \in BilledPeriods, Util!EnterCharge(p)
      PROVE  UtilIInv'
  <2>1. /\ charges' = [charges EXCEPT ![p] = IF @ = Util!NoCharge THEN Util!ByHand ELSE @]
        /\ UNCHANGED <<readings, settled, reminders, sentOut, pc, job>>
    BY <1>1a DEF Util!EnterCharge
  <2>2. Util!ByHand \in ChargeRow
    BY DEF Util!ByHand, ChargeRow
  <2>3. charges \in [BilledPeriods -> ChargeRow]
    BY DEF UtilIInv, UtilTables
  <2>4. charges' \in [BilledPeriods -> ChargeRow]
    BY <2>1, <2>2, <2>3
  <2>5. \A q \in BilledPeriods : charges'[q] = charges[q] \/ charges'[q] = Util!ByHand
    BY <2>1, <2>3
  <2>6. UtilTables'
    BY <2>1, <2>4, <2>5 DEF UtilIInv, UtilTables, AnnouncedOnce, Unread
  <2> QED
    BY <2>1, <2>6 DEF UtilIInv, UtilRequestsDue, UtilRequestIsDue, UtilApart
<1>2. ASSUME NEW s \in Slots, NEW m \in Meters, NEW v \in Values, NEW d \in 0..MaxDate,
             Util!CheckDate(s, m, v, d)
      PROVE  UtilIInv'
  BY <1>2, DateIsChecked
<1>3. ASSUME NEW s \in Slots, Util!FlagAnomaly(s) \/ Util!CreateMeterReading(s)
      PROVE  UtilIInv'
  BY <1>3, AnomalyIsFlagged, ReadingIsAdded
<1>4. ASSUME NEW s \in Slots, NEW i \in DOMAIN readings, NEW p \in BilledPeriods, NEW c \in BOOLEAN,
             Util!ReadHistory(s, i, p, c)
      PROVE  UtilIInv'
  BY <1>4, HistoryIsRead
<1>5. ASSUME NEW s \in Slots, Util!CreateCharge(s)
      PROVE  UtilIInv'
  <2>1. /\ pc[s] = "charge" /\ pc' = [pc EXCEPT ![s] = "idle"] /\ job' = [job EXCEPT ![s] = Util!Idle]
        /\ charges' = [charges EXCEPT ![job[s].period] =
                           IF @ = Util!NoCharge THEN job[s].charge ELSE @]
        /\ UNCHANGED <<readings, reminders, sentOut>> /\ Util!Idle.kind = "none"
    BY <1>5 DEF Util!CreateCharge, Util!Done, Util!Go, Util!Idle
  <2>2. job[s].charge \in ChargeRow /\ ChargeFits(readings, job[s].charge)
    BY <2>1 DEF UtilIInv, UtilRequestsDue, UtilRequestIsDue
  <2>3. charges \in [BilledPeriods -> ChargeRow]
    BY DEF UtilIInv, UtilTables
  <2>4. charges' \in [BilledPeriods -> ChargeRow]
    BY <2>1, <2>2, <2>3
  <2>5. \A p \in BilledPeriods : charges'[p] = charges[p] \/ charges'[p] = job[s].charge
    BY <2>1, <2>3
  <2>6. UtilTables'
    BY <2>1, <2>2, <2>4, <2>5 DEF UtilIInv, UtilTables, AnnouncedOnce
  <2> QED  BY <2>1, <2>6, UtilOneRequest
<1>6. ASSUME NEW s \in Slots, NEW p \in BilledPeriods, NEW d \in Overdue, NEW ch \in Channels,
             Util!FindDunningEvent(s, p, d, ch)
      PROVE  UtilIInv'
  <2> DEFINE j == [kind |-> "remind", event |-> <<p, Util!DunningStageFor(d), ch>>]
  <2>1. /\ pc' = [pc EXCEPT ![s] = "remind"] /\ job' = [job EXCEPT ![s] = j]
        /\ UNCHANGED <<readings, charges, reminders, sentOut>> /\ j.kind = "remind"
    BY <1>6 DEF Util!FindDunningEvent, Util!Go, Util!billing
  <2> HIDE DEF j
  <2>2. UtilTables'
    BY <2>1 DEF UtilIInv, UtilTables, AnnouncedOnce
  <2> QED  BY <2>1, <2>2, UtilOneRequest
<1>7. ASSUME NEW s \in Slots, Util!CreateDunningEvent(s)
      PROVE  UtilIInv'
  <2> DEFINE event == job[s].event
  <2>1. /\ pc' = [pc EXCEPT ![s] = "idle"] /\ job' = [job EXCEPT ![s] = Util!Idle]
        /\ reminders' = reminders \cup {event}
        /\ sentOut' = [sentOut EXCEPT ![event] = @ + (IF event \in reminders THEN 0 ELSE 1)]
        /\ UNCHANGED <<readings, charges>> /\ Util!Idle.kind = "none"
    BY <1>7 DEF Util!CreateDunningEvent, Util!Done, Util!Go, Util!Idle
  <2> HIDE DEF event
  <2>2. AnnouncedOnce /\ sentOut = [r \in Util!Reminders |-> sentOut[r]]
    BY DEF UtilIInv, UtilTables
  <2>3. sentOut' = [r \in Util!Reminders |->
                       IF r = event THEN sentOut[r] + (IF event \in reminders THEN 0 ELSE 1)
                                    ELSE sentOut[r]]
    BY <2>1, <2>2
  <2>4. AnnouncedOnce'
    BY <2>1, <2>2, <2>3 DEF AnnouncedOnce
  <2>5. UtilTables'
    BY <2>1, <2>3, <2>4 DEF UtilIInv, UtilTables
  <2> QED  BY <2>1, <2>5, UtilOneRequest
<1> QED  BY <1>1, <1>2, <1>3, <1>4, <1>5, <1>6, <1>7, <1>1a DEF Util!UtilNext

\* However readings and charges overlap, a charge made from a reading that is out of line with
\* the one before it was confirmed by somebody, unless two people read the meter at once or
\* twice in a day, whatever charges are entered by hand meanwhile; and a reminder is announced
\* once however many send it.
THEOREM TenantsAreChargedAlways == Spec => []TenantsAreCharged
<1>1. UtilIInv /\ [Next]_vars => UtilIInv'
  BY UtilElsewhere, UtilStep DEF Next, vars
<1>2. ASSUME UtilIInv
      PROVE  TenantsAreCharged
  <2>1. Util!DunnedOnce
    BY <1>2 DEF UtilIInv, UtilTables, AnnouncedOnce, Util!DunnedOnce
  <2>2. Util!SpikesAreConfirmed
    <3> SUFFICES ASSUME NEW period \in BilledPeriods,
                        charges[period].reading # 0,
                        ~readings[charges[period].reading].raced,
                        \A i, k \in Util!Of(readings[charges[period].reading].meter) :
                            i # k => readings[i].date # readings[k].date,
                        Util!Anomalous(readings[charges[period].previous].value,
                                       readings[charges[period].reading].value)
                 PROVE  charges[period].confirmed
      BY Zenon DEF Util!SpikesAreConfirmed
    <3> DEFINE c == charges[period]
               i == c.reading
               p == c.previous
    <3>0. c \notin Unread
      BY DEF Unread, Util!NoCharge, Util!ByHand
    <3>1. ChargeFits(readings, c) /\ readings \in Seq(Reading)
      BY <1>2, <3>0 DEF UtilIInv, UtilTables
    <3>2. InOrder(readings, i)
      BY <1>2, <3>1 DEF UtilIInv, UtilTables, ChargeFits
    <3>3. /\ i \in DOMAIN readings /\ p \in DOMAIN readings /\ p # i
          /\ readings[p].meter = readings[i].meter /\ readings[p].date <= readings[i].date
          /\ readings[i].anomaly => c.confirmed
      BY <3>1 DEF ChargeFits
    <3>4. \A k \in DOMAIN readings : readings[k].date \in Int /\ k \in Int /\ k >= 1
      <4>1. \A k \in DOMAIN readings : readings[k] \in Reading
        BY <3>1
      <4> QED  BY <3>1, <4>1, MetersAssumption DEF Reading, Util!UtilAssumption
    <3>5. \A k, l \in DOMAIN readings :
              readings[k].meter = readings[i].meter /\ readings[l].meter = readings[i].meter /\ k # l
                  => readings[k].date # readings[l].date
      BY DEF Util!Of
    <3>6. p \in 1..(i - 1)
      <4>1. readings[p].date < readings[i].date
        BY <3>3, <3>4, <3>5
      <4>2. ~(p > i)
        BY <3>2, <3>3, <3>4, <4>1 DEF InOrder
      <4> QED  BY <3>3, <3>4, <4>2
    <3>7. JudgedBy(readings, i - 1, readings[i].meter, readings[i].value, readings[i].anomaly)
      BY <3>2 DEF InOrder
    <3>8. PICK l \in 1..(i - 1) :
              /\ readings[l].meter = readings[i].meter
              /\ readings[p].date <= readings[l].date
              /\ readings[i].anomaly <=> Util!Anomalous(readings[l].value, readings[i].value)
      BY <3>3, <3>6, <3>7 DEF JudgedBy
    <3>9. l \in DOMAIN readings /\ l < i
      BY <3>1, <3>3, <3>4
    <3>10. readings[l].date < readings[i].date
      BY <3>2, <3>3, <3>4, <3>5, <3>8, <3>9 DEF InOrder
    <3>11. readings[l].date <= readings[p].date
      BY <3>1, <3>8, <3>9, <3>10 DEF ChargeFits
    <3>12. l = p
      BY <3>3, <3>4, <3>5, <3>8, <3>9, <3>11
    <3> QED  BY <3>3, <3>8, <3>12
  <2> QED  BY <2>1, <2>2 DEF TenantsAreCharged
<1> QED  BY UtilInitially, <1>1, <1>2, PTL DEF Spec

-----------------------------------------------------------------------------
(***************************************************************************)
(* Governance: what an owner votes with or is counted for stays within     *)
(* the owner's share, because shares are never taken away; and a charge    *)
(* for a period has the amount of a cuota of its type or was entered by    *)
(* hand, and stays as it is.                                               *)
(***************************************************************************)
VotesFit(list) ==
    \A i \in DOMAIN list : list[i].owner # NoOwner => list[i].weight <= shares[list[i].owner]

AttendanceFits(list) ==
    /\ IsFiniteSet(DOMAIN list)
    /\ \A i \in DOMAIN list :
           list[i].owner \in Owners /\ list[i].share \in 0..100 /\ list[i].share <= shares[list[i].owner]

ActFits ==
    \/ act = Gov!NoAct
    \/ AttendanceFits(act.attendance) /\ act = Gov!ComputeQuorum(act.attendance)

TallyFits ==
    \/ tally = Gov!NoTally
    \/ /\ tally.at \in {"votes", "answer"}
       /\ tally.votes \in Seq(Gov!Vote) /\ VotesFit(tally.votes) /\ act # Gov!NoAct
       /\ tally.at = "answer" =>
              /\ tally.total \in Int
              /\ tally.approved =
                     Gov!EvaluateDecision(tally.votes, tally.decision, tally.total, act.present)

\* A charge has the amount of a cuota of its type, or was entered by hand.
ChargeIsDue(p, t) ==
    \/ \E g \in fees : g.type = t /\ g.amount = charged[p][t]
    \/ <<p, t, charged[p][t]>> \in byHand

CuotasFit ==
    /\ fees \subseteq Fees
    /\ charged \in [FeePeriods -> [Gov!FeeTypes -> Nat \cup {Gov!NoCharge}]]
    /\ byHand \subseteq FeePeriods \X Gov!FeeTypes \X HandAmounts
    /\ \A p \in FeePeriods, t \in Gov!FeeTypes : charged[p][t] = Gov!NoCharge \/ ChargeIsDue(p, t)
    /\ \A b \in billed :
           /\ b \in [fee : fees, period : FeePeriods, told : Nat]
           /\ charged[b.period][b.fee.type] = b.told

GovIInv ==
    /\ shares \in [Owners -> 0..100]
    /\ ActFits
    /\ decisions # {} => act # Gov!NoAct
    /\ votes \in [Gov!Majorities -> Seq(Gov!Vote)]
    /\ \A d \in Gov!Majorities : VotesFit(votes[d])
    /\ TallyFits
    /\ CuotasFit

LEMMA GovSum == \A f, S : Gov!Sum(f, S) = SumOver(f, S)
<1> SUFFICES ASSUME NEW f, NEW S
             PROVE  Gov!Sum(f, S) = SumOver(f, S)
  OBVIOUS
<1> QED
  BY Zenon DEF Gov!Sum, Gov!SumFunctionOnSet, Gov!FoldFunctionOnSet, Gov!MapThenFoldSet,
     SumOver, SumFunctionOnSet, FoldFunctionOnSet, MapThenFoldSet

LEMMA GovSetting ==
    /\ IsFiniteSet(Owners) /\ NoOwner \notin Owners
    /\ Weights \subseteq 1..100
    /\ \A a \in Attendances :
           IsFiniteSet(DOMAIN a) /\ \A i \in DOMAIN a : a[i].owner \in Owners /\ a[i].share \in 0..100
    /\ Fees \subseteq [type : Gov!FeeTypes, amount : Nat] /\ HandAmounts \subseteq Nat
<1>1. \A S : Gov!IsFiniteSet(S) <=> IsFiniteSet(S)
  BY Zenon DEF Gov!IsFiniteSet, IsFiniteSet
<1> QED  BY <1>1, AssembliesAssumption DEF Gov!GovAssumption

\* For leaves that are about records as well as about numbers.
LEMMA Within ==
    /\ \A n : n \in 0..100 => n \in Int
    /\ \A n : n \in 1..100 => n \in Int
    /\ \A a, b, c \in Int : a <= b /\ b <= c => a <= c
OBVIOUS

LEMMA VoteIs ==
    ASSUME NEW v \in Gov!Vote
    PROVE  v.owner \in Owners \cup {NoOwner} /\ v.weight \in 1..100
<1>1. v.owner \in Owners \cup {NoOwner} /\ v.weight \in Weights
  BY DEF Gov!Vote
<1>2. Weights \subseteq 1..100
  BY GovSetting
<1> QED  BY <1>1, <1>2

LEMMA OwnedIsNumber ==
    ASSUME shares \in [Owners -> 0..100], NEW R, R \subseteq Owners
    PROVE  IsFiniteSet(R) /\ IntOn(shares, R) /\ SumOver(shares, R) \in Int
<1>1. IsFiniteSet(Owners)
  BY GovSetting
<1>2. IsFiniteSet(R)
  BY <1>1, FS_Subset
<1>3. IntOn(shares, R)
  BY DEF IntOn
<1> QED  BY <1>2, <1>3, SumType

LEMMA ActStays ==
    ASSUME ActFits, UNCHANGED <<shares, act>>
    PROVE  ActFits'
BY DEF ActFits, AttendanceFits

LEMMA VotesStay ==
    ASSUME NEW list, VotesFit(list), UNCHANGED shares
    PROVE  VotesFit(list)'
BY DEF VotesFit

LEMMA TallyStays ==
    ASSUME TallyFits, UNCHANGED <<shares, act, tally>>
    PROVE  TallyFits'
BY DEF TallyFits, VotesFit

LEMMA CuotasStay ==
    ASSUME CuotasFit, UNCHANGED <<fees, charged, billed, byHand>>
    PROVE  CuotasFit'
BY DEF CuotasFit, ChargeIsDue

\* A charge that is asked for is there then: with the amount asked for if there was none of
\* the period and the type, and else as it was.  All others are as they were.
LEMMA ChargeIsFound ==
    ASSUME CuotasFit, NEW type \in Gov!FeeTypes, NEW amount \in Nat, NEW period \in FeePeriods,
           charged' = Gov!ChargeOrFind(type, amount, period)
    PROVE  /\ charged' \in [FeePeriods -> [Gov!FeeTypes -> Nat \cup {Gov!NoCharge}]]
           /\ charged'[period][type] \in Nat /\ charged'[period][type] # Gov!NoCharge
           /\ charged[period][type] = Gov!NoCharge => charged'[period][type] = amount
           /\ \A p \in FeePeriods, t \in Gov!FeeTypes :
                 <<p, t>> # <<period, type>> \/ charged[p][t] # Gov!NoCharge => charged'[p][t] = charged[p][t]
<1> DEFINE new == IF charged[period][type] = Gov!NoCharge THEN amount ELSE charged[period][type]
<1>1. /\ charged \in [FeePeriods -> [Gov!FeeTypes -> Nat \cup {Gov!NoCharge}]]
      /\ charged' = [charged EXCEPT ![period] = [charged[period] EXCEPT ![type] = new]]
  BY DEF CuotasFit, Gov!ChargeOrFind
<1>2. new \in Nat /\ new # Gov!NoCharge
  <2>1. charged[period][type] \in Nat \cup {Gov!NoCharge}
    BY <1>1
  <2> QED  BY <2>1 DEF Gov!NoCharge
<1>3. /\ charged[period][type] = Gov!NoCharge => new = amount
      /\ charged[period][type] # Gov!NoCharge => new = charged[period][type]
  OBVIOUS
<1> HIDE DEF new
<1>4. charged' \in [FeePeriods -> [Gov!FeeTypes -> Nat \cup {Gov!NoCharge}]]
  BY <1>1, <1>2
<1>5. /\ charged'[period][type] = new
      /\ \A p \in FeePeriods, t \in Gov!FeeTypes :
             <<p, t>> # <<period, type>> => charged'[p][t] = charged[p][t]
  BY <1>1
<1> QED  BY <1>2, <1>3, <1>4, <1>5

\* What was told of the cuotas billed so far stays true when a charge is asked for.
LEMMA ChargesStayDue ==
    ASSUME CuotasFit, NEW type \in Gov!FeeTypes, NEW amount \in Nat, NEW period \in FeePeriods,
           charged' = Gov!ChargeOrFind(type, amount, period), UNCHANGED fees, byHand \subseteq byHand',
           charged[period][type] = Gov!NoCharge =>
               \/ \E g \in fees : g.type = type /\ g.amount = amount
               \/ <<period, type, amount>> \in byHand'
    PROVE  /\ \A p \in FeePeriods, t \in Gov!FeeTypes :
                 charged'[p][t] = Gov!NoCharge \/ ChargeIsDue(p, t)'
           /\ \A b \in billed :
                 /\ b \in [fee : fees, period : FeePeriods, told : Nat]
                 /\ charged'[b.period][b.fee.type] = b.told
<1>1. ASSUME NEW p \in FeePeriods, NEW t \in Gov!FeeTypes, charged'[p][t] # Gov!NoCharge
      PROVE  ChargeIsDue(p, t)'
  <2>1. CASE charged[p][t] # Gov!NoCharge
    <3>1. ChargeIsDue(p, t)
      BY <2>1 DEF CuotasFit
    <3>2. charged'[p][t] = charged[p][t]
      BY <2>1, ChargeIsFound
    <3> QED  BY <3>1, <3>2 DEF ChargeIsDue
  <2>2. CASE charged[p][t] = Gov!NoCharge
    <3>1. p = period /\ t = type
      BY <1>1, <2>2, ChargeIsFound
    <3>2. charged'[period][type] = amount
      BY <2>2, <3>1, ChargeIsFound
    <3> QED  BY <2>2, <3>1, <3>2 DEF ChargeIsDue
  <2> QED  BY <2>1, <2>2
<1>2. ASSUME NEW b \in billed
      PROVE  /\ b \in [fee : fees, period : FeePeriods, told : Nat]
             /\ charged'[b.period][b.fee.type] = b.told
  <2>1. b \in [fee : fees, period : FeePeriods, told : Nat] /\ charged[b.period][b.fee.type] = b.told
    BY DEF CuotasFit
  <2>2. b.period \in FeePeriods /\ b.fee.type \in Gov!FeeTypes
    <3>1. b.fee \in [type : Gov!FeeTypes, amount : Nat]
      BY <2>1, GovSetting DEF CuotasFit
    <3> QED  BY <2>1, <3>1
  <2>3. b.told # Gov!NoCharge
    <3>1. b.told \in Nat
      BY <2>1
    <3> QED  BY <3>1 DEF Gov!NoCharge
  <2> QED  BY <2>1, <2>2, <2>3, ChargeIsFound
<1> QED  BY <1>1, <1>2

\* A cuota that is billed finds or makes a charge, and is told which.
LEMMA CuotaIsBilled ==
    ASSUME CuotasFit, NEW fee \in fees, NEW period \in FeePeriods,
           charged' = Gov!ChargeOrFind(fee.type, fee.amount, period), UNCHANGED <<fees, byHand>>,
           billed' \in {billed, billed \cup {[fee |-> fee, period |-> period,
                                              told |-> charged'[period][fee.type]]}}
    PROVE  CuotasFit'
<1> DEFINE b == [fee |-> fee, period |-> period, told |-> charged'[period][fee.type]]
<1>1. fee.type \in Gov!FeeTypes /\ fee.amount \in Nat
  <2>1. fee \in [type : Gov!FeeTypes, amount : Nat]
    BY GovSetting DEF CuotasFit
  <2> QED  BY <2>1
<1>2. /\ charged' \in [FeePeriods -> [Gov!FeeTypes -> Nat \cup {Gov!NoCharge}]]
      /\ charged'[period][fee.type] \in Nat
  BY <1>1, ChargeIsFound
<1>3. /\ \A p \in FeePeriods, t \in Gov!FeeTypes :
            charged'[p][t] = Gov!NoCharge \/ ChargeIsDue(p, t)'
      /\ \A x \in billed :
            /\ x \in [fee : fees, period : FeePeriods, told : Nat]
            /\ charged'[x.period][x.fee.type] = x.told
  BY <1>1, ChargesStayDue
<1>4. /\ b \in [fee : fees, period : FeePeriods, told : Nat]
      /\ charged'[b.period][b.fee.type] = b.told
  BY <1>2
<1> HIDE DEF b
<1>5. \A x \in billed' : x \in billed \/ x = b
  BY DEF b
<1> QED  BY <1>2, <1>3, <1>4, <1>5 DEF CuotasFit

\* So does a charge that is entered by hand, and it is known for one if it is new.
LEMMA ChargeIsEntered ==
    ASSUME CuotasFit, NEW type \in Gov!FeeTypes, NEW amount \in HandAmounts, NEW period \in FeePeriods,
           charged' = Gov!ChargeOrFind(type, amount, period), UNCHANGED <<fees, billed>>,
           byHand' = IF charged[period][type] = Gov!NoCharge
                     THEN byHand \cup {<<period, type, amount>>} ELSE byHand
    PROVE  CuotasFit'
<1>1. amount \in Nat
  BY GovSetting
<1>2. charged' \in [FeePeriods -> [Gov!FeeTypes -> Nat \cup {Gov!NoCharge}]]
  BY <1>1, ChargeIsFound
<1>3. /\ \A p \in FeePeriods, t \in Gov!FeeTypes :
            charged'[p][t] = Gov!NoCharge \/ ChargeIsDue(p, t)'
      /\ \A x \in billed :
            /\ x \in [fee : fees, period : FeePeriods, told : Nat]
            /\ charged'[x.period][x.fee.type] = x.told
  BY <1>1, ChargesStayDue
<1>4. byHand' \subseteq FeePeriods \X Gov!FeeTypes \X HandAmounts
  BY DEF CuotasFit
<1> QED  BY <1>2, <1>3, <1>4 DEF CuotasFit

LEMMA GovInitially == Init => GovIInv
<1> SUFFICES ASSUME Init
             PROVE  GovIInv
  OBVIOUS
<1>1. /\ shares = [o \in Owners |-> 0] /\ act = Gov!NoAct /\ decisions = {} /\ fees = {}
      /\ votes = [d \in Gov!Majorities |-> <<>>]
      /\ charged = [p \in FeePeriods |-> [t \in Gov!FeeTypes |-> Gov!NoCharge]]
      /\ billed = {} /\ byHand = {} /\ tally = Gov!NoTally
  BY DEF Init, Gov!GovInit
<1>2. votes \in [Gov!Majorities -> Seq(Gov!Vote)] /\ \A d \in Gov!Majorities : votes[d] = <<>>
  BY <1>1
<1>3. \A d \in Gov!Majorities : VotesFit(votes[d])
  BY <1>2 DEF VotesFit
<1>4. CuotasFit
  BY <1>1 DEF CuotasFit
<1>5. shares \in [Owners -> 0..100]
  BY <1>1
<1>6. ActFits /\ (decisions # {} => act # Gov!NoAct)
  BY <1>1 DEF ActFits
<1>7. TallyFits
  BY <1>1, Zenon DEF TallyFits
<1> QED  BY <1>2, <1>3, <1>4, <1>5, <1>6, <1>7 DEF GovIInv

LEMMA GovElsewhere ==
    ASSUME GovIInv, [Next]_vars, ~(desk = "governance" /\ Gov!GovNext)
    PROVE  GovIInv'
<1>1. UNCHANGED assembly
  BY DEF Next, vars
<1> QED
  BY <1>1, ActStays, TallyStays, CuotasStay DEF assembly, GovIInv, VotesFit

LEMMA GovStep ==
    ASSUME GovIInv, Gov!GovNext
    PROVE  GovIInv'
<1> USE DEF GovIInv
<1>1. ASSUME NEW o \in Owners, NEW pct \in Weights, Gov!AddOwner(o, pct)
      PROVE  GovIInv'
  <2>1. /\ shares[o] = 0 /\ shares' = [shares EXCEPT ![o] = pct]
        /\ UNCHANGED <<act, decisions, votes, fees, charged, billed, byHand, tally>>
    BY <1>1 DEF Gov!AddOwner, Gov!cuotas
  <2>2. shares' \in [Owners -> 0..100] /\ \A q \in Owners : shares[q] <= shares'[q]
    <3>1. pct \in 1..100
      <4>1. Weights \subseteq 1..100
        BY GovSetting
      <4> QED  BY <4>1
    <3>2. shares' \in [Owners -> 0..100]
      BY <2>1, <3>1
    <3>3. \A q \in Owners : shares'[q] = IF q = o THEN pct ELSE shares[q]
      BY <2>1
    <3>4. \A q \in Owners : shares[q] \in 0..100
      OBVIOUS
    <3> HIDE DEF GovIInv
    <3>5. \A q \in Owners : shares[q] <= shares'[q]
      BY <2>1, <3>1, <3>3, <3>4
    <3> QED  BY <3>2, <3>5
  <2>3. ASSUME NEW list \in Seq(Gov!Vote), VotesFit(list)
        PROVE  VotesFit(list)'
    <3> SUFFICES ASSUME NEW i \in DOMAIN list, list[i].owner # NoOwner
                 PROVE  list[i].weight <= shares'[list[i].owner]
      BY DEF VotesFit
    <3>1. list[i] \in Gov!Vote
      OBVIOUS
    <3>2. list[i].owner \in Owners /\ list[i].weight \in Int
      <4>1. list[i].owner \in Owners \cup {NoOwner} /\ list[i].weight \in 1..100
        BY <3>1, VoteIs
      <4> QED  BY <4>1, Within, Zenon
    <3>3. list[i].weight <= shares[list[i].owner]
      BY <2>3 DEF VotesFit
    <3>4. /\ shares[list[i].owner] \in 0..100 /\ shares'[list[i].owner] \in 0..100
          /\ shares[list[i].owner] <= shares'[list[i].owner]
      BY <2>2, <3>2
    <3> HIDE DEF GovIInv
    <3> QED  BY <3>2, <3>3, <3>4, Within, Zenon
  <2>4. \A d \in Gov!Majorities : VotesFit(votes[d])'
    BY <2>1, <2>3
  <2>5. TallyFits'
    BY <2>1, <2>3 DEF TallyFits
  <2>6. ASSUME AttendanceFits(act.attendance)
        PROVE  AttendanceFits(act.attendance)'
    <3> DEFINE list == act.attendance
    <3>1. /\ IsFiniteSet(DOMAIN list) /\ list' = list
          /\ \A i \in DOMAIN list : list[i].owner \in Owners /\ list[i].share \in 0..100
                                   /\ list[i].share <= shares[list[i].owner]
      BY <2>1, <2>6 DEF AttendanceFits
    <3>2. \A q \in Owners : shares[q] \in 0..100 /\ shares'[q] \in 0..100 /\ shares[q] <= shares'[q]
      BY <2>2
    <3> HIDE DEF list, GovIInv
    <3>3. ASSUME NEW i \in DOMAIN list
          PROVE  list[i].share <= shares'[list[i].owner]
      <4>1. /\ list[i].owner \in Owners /\ list[i].share \in 0..100
            /\ list[i].share <= shares[list[i].owner]
        BY <3>1
      <4>2. /\ shares[list[i].owner] \in 0..100 /\ shares'[list[i].owner] \in 0..100
            /\ shares[list[i].owner] <= shares'[list[i].owner]
        BY <3>2, <4>1
      <4> QED  BY <4>1, <4>2, Within, Zenon
    <3> QED  BY <3>1, <3>3 DEF AttendanceFits, list
  <2>7. ActFits'
    BY <2>1, <2>6 DEF ActFits, Gov!ComputeQuorum, Gov!HeldBy
  <2> QED  BY <2>1, <2>2, <2>4, <2>5, <2>7, CuotasStay
<1>2. ASSUME NEW a \in Attendances, Gov!CreateAssemblyAct(a)
      PROVE  GovIInv'
  <2>1. /\ act = Gov!NoAct /\ a # <<>> /\ act' = Gov!ComputeQuorum(a)
        /\ \A i \in DOMAIN a : a[i].share <= shares[a[i].owner]
        /\ UNCHANGED <<shares, decisions, votes, fees, charged, billed, byHand, tally>>
    BY <1>2 DEF Gov!CreateAssemblyAct, Gov!cuotas
  <2>2. AttendanceFits(a)'
    BY <2>1, GovSetting DEF AttendanceFits
  <2>3. act'.attendance = a
    BY <2>1 DEF Gov!ComputeQuorum
  <2>4. ActFits' /\ act' # Gov!NoAct
    BY <2>1, <2>2, <2>3 DEF ActFits, Gov!NoAct
  <2>5. tally = Gov!NoTally
    BY <2>1 DEF TallyFits
  <2> QED  BY <2>1, <2>4, <2>5, CuotasStay, VotesStay DEF TallyFits
<1>3. ASSUME NEW m \in Gov!Majorities, Gov!CreateDecision(m)
      PROVE  GovIInv'
  <2>1. act # Gov!NoAct /\ UNCHANGED <<shares, act, votes, fees, charged, billed, byHand, tally>>
    BY <1>3 DEF Gov!CreateDecision, Gov!cuotas
  <2> QED  BY <2>1, ActStays, TallyStays, CuotasStay, VotesStay
<1>4. ASSUME NEW m \in Gov!Majorities, Gov!ListVotes(m)
      PROVE  GovIInv'
  <2>1. /\ m \in decisions /\ UNCHANGED <<shares, act, decisions, votes, fees, charged, billed, byHand>>
        /\ tally' = [at |-> "votes", decision |-> m, votes |-> votes[m]]
    BY <1>4 DEF Gov!ListVotes, Gov!assembly, Gov!cuotas
  <2>2. /\ tally'.at = "votes" /\ tally'.votes \in Seq(Gov!Vote) /\ VotesFit(tally'.votes)
        /\ act # Gov!NoAct
    BY <2>1
  <2>3. TallyFits'
    BY <2>1, <2>2 DEF TallyFits, VotesFit
  <2> QED  BY <2>1, <2>3, ActStays, CuotasStay, VotesStay
<1>5. ASSUME NEW d \in Gov!Majorities, NEW v \in Gov!Vote, Gov!RecordVote(d, v)
      PROVE  GovIInv'
  <2>1. /\ v.owner # NoOwner => v.weight <= shares[v.owner]
        /\ votes' = [votes EXCEPT ![d] = Append(votes[d], v)]
        /\ UNCHANGED <<shares, act, decisions, fees, charged, billed, byHand, tally>>
    BY <1>5 DEF Gov!RecordVote, Gov!cuotas
  <2>2. votes' \in [Gov!Majorities -> Seq(Gov!Vote)]
    BY <2>1
  <2>3. VotesFit(Append(votes[d], v))
    <3>1. votes[d] \in Seq(Gov!Vote) /\ VotesFit(votes[d])
      OBVIOUS
    <3> HIDE DEF GovIInv
    <3> DEFINE old == votes[d]
               new == Append(old, v)
    <3>2. /\ \A i \in DOMAIN new : i \in DOMAIN old \/ i = Len(old) + 1
          /\ \A i \in DOMAIN old : new[i] = old[i]
          /\ new[Len(old) + 1] = v
      BY <3>1
    <3> HIDE DEF new, old
    <3>3. VotesFit(old)
      BY <3>1 DEF old
    <3>4. VotesFit(new)
      BY <2>1, <3>2, <3>3 DEF VotesFit
    <3> QED  BY <3>4 DEF new, old
  <2>4. \A q \in Gov!Majorities : VotesFit(votes'[q])
    BY <2>1, <2>3
  <2>5. \A q \in Gov!Majorities : VotesFit(votes[q])'
    BY <2>1, <2>4, VotesStay
  <2> QED  BY <2>1, <2>2, <2>5, ActStays, TallyStays, CuotasStay
<1>6. ASSUME Gov!DecisionResult
      PROVE  GovIInv'
  <2> DEFINE total == Gov!Sum(shares, Owners)
  <2>1. /\ tally.at = "votes" /\ UNCHANGED <<shares, act, decisions, votes, fees, charged, billed, byHand>>
        /\ tally' = [at |-> "answer", decision |-> tally.decision, votes |-> tally.votes,
                     total |-> total,
                     approved |-> Gov!EvaluateDecision(tally.votes, tally.decision, total, act.present)]
    BY <1>6 DEF Gov!DecisionResult, Gov!assembly, Gov!cuotas
  <2>2. tally.votes \in Seq(Gov!Vote) /\ VotesFit(tally.votes) /\ act # Gov!NoAct
    BY <2>1 DEF TallyFits, Gov!NoTally
  <2>3. total \in Int
    BY GovSum, OwnedIsNumber
  <2> HIDE DEF total
  <2>4. /\ tally'.at = "answer" /\ tally'.votes = tally.votes /\ tally'.total = total
        /\ tally'.decision = tally.decision
        /\ tally'.approved = Gov!EvaluateDecision(tally.votes, tally.decision, total, act.present)
    BY <2>1
  <2>5. TallyFits'
    BY <2>1, <2>2, <2>3, <2>4 DEF TallyFits, VotesFit, Gov!EvaluateDecision, Gov!Weight
  <2> QED  BY <2>1, <2>5, ActStays, CuotasStay, VotesStay
<1>7. ASSUME Gov!Answer
      PROVE  GovIInv'
  <2>1. tally' = Gov!NoTally /\ UNCHANGED <<shares, act, decisions, votes, fees, charged, billed, byHand>>
    BY <1>7 DEF Gov!Answer, Gov!assembly, Gov!cuotas
  <2>2. TallyFits'
    BY <2>1 DEF TallyFits
  <2> QED  BY <2>1, <2>2, ActStays, CuotasStay, VotesStay
<1>8. ASSUME NEW f \in Fees, Gov!CreatePhCuota(f)
      PROVE  GovIInv'
  <2>1. /\ fees' = fees \cup {f} /\ UNCHANGED <<shares, act, decisions, votes, charged, billed, byHand, tally>>
    BY <1>8 DEF Gov!CreatePhCuota, Gov!assembly
  <2>2. CuotasFit'
    BY <2>1 DEF CuotasFit, ChargeIsDue
  <2> QED  BY <2>1, <2>2, ActStays, TallyStays, VotesStay
<1>9. ASSUME NEW f \in Fees, NEW p \in FeePeriods, Gov!BillPhCuota(f, p)
      PROVE  GovIInv'
  <2>1. /\ f \in fees /\ charged' = Gov!ChargeOrFind(f.type, f.amount, p)
        /\ billed' \in {billed, billed \cup {[fee |-> f, period |-> p, told |-> charged'[p][f.type]]}}
        /\ UNCHANGED <<shares, act, decisions, votes, fees, byHand, tally>>
    BY <1>9 DEF Gov!BillPhCuota, Gov!assembly
  <2>2. CuotasFit'
    BY <2>1, CuotaIsBilled
  <2> QED  BY <2>1, <2>2, ActStays, TallyStays, VotesStay
<1>10. ASSUME NEW t \in Gov!FeeTypes, NEW n \in HandAmounts, NEW p \in FeePeriods,
              Gov!CreateAdHocCharge(t, n, p)
       PROVE  GovIInv'
  <2>1. /\ charged' = Gov!ChargeOrFind(t, n, p)
        /\ byHand' = IF charged[p][t] = Gov!NoCharge THEN byHand \cup {<<p, t, n>>} ELSE byHand
        /\ UNCHANGED <<shares, act, decisions, votes, fees, billed, tally>>
    BY <1>10 DEF Gov!CreateAdHocCharge, Gov!assembly
  <2>2. CuotasFit'
    BY <2>1, ChargeIsEntered
  <2> QED  BY <2>1, <2>2, ActStays, TallyStays, VotesStay
<1> QED
  BY <1>1, <1>2, <1>3, <1>4, <1>5, <1>6, <1>7, <1>8, <1>9, <1>10 DEF Gov!GovNext

\* What approves a decision is at most what those who approve own, when each votes once.
LEMMA SupportIsOwned ==
    ASSUME shares \in [Owners -> 0..100], NEW list \in Seq(Gov!Vote), VotesFit(list), Gov!Once(list)
    PROVE  LET who == {list[i].owner : i \in {k \in DOMAIN list : list[k].choice = "APPROVE"}} IN
           /\ Gov!Weight(list, "APPROVE") \in Int /\ Gov!Sum(shares, who) \in Int
           /\ Gov!Weight(list, "APPROVE") <= Gov!Sum(shares, who)
<1> DEFINE S == {k \in DOMAIN list : list[k].choice = "APPROVE"}
           weight == [i \in DOMAIN list |-> list[i].weight]
           owner == [i \in DOMAIN list |-> list[i].owner]
<1>1. /\ \A i \in DOMAIN list : list[i].owner \in Owners /\ list[i].weight \in Int
      /\ IsFiniteSet(S)
  <2>1. ASSUME NEW i \in DOMAIN list
        PROVE  list[i].owner \in Owners /\ list[i].weight \in Int
    <3>1. list[i] \in Gov!Vote
      OBVIOUS
    <3>2. list[i].owner # NoOwner
      BY DEF Gov!Once
    <3>3. list[i].owner \in Owners \cup {NoOwner} /\ list[i].weight \in 1..100
      BY <3>1, VoteIs
    <3> QED  BY <3>2, <3>3, Within, Zenon
  <2>2. DOMAIN list = 1..Len(list) /\ Len(list) \in Nat
    OBVIOUS
  <2>3. IsFiniteSet(DOMAIN list)
    BY <2>2, FS_Interval
  <2>4. IsFiniteSet(S)
    BY <2>3, FS_Subset
  <2> QED  BY <2>1, <2>4
<1>2. IntOn(weight, S)
  BY <1>1 DEF IntOn
<1>3. ASSUME NEW i \in S
      PROVE  shares[owner[i]] \in Int /\ weight[i] <= shares[owner[i]]
  <2>1. list[i].owner \in Owners /\ list[i].owner # NoOwner
    BY <1>1 DEF Gov!Once
  <2>2. list[i].weight <= shares[list[i].owner]
    BY <2>1 DEF VotesFit
  <2>3. shares[list[i].owner] \in 0..100
    BY <2>1
  <2>4. owner[i] = list[i].owner /\ weight[i] = list[i].weight
    OBVIOUS
  <2> HIDE DEF owner, weight, S
  <2> QED  BY <2>2, <2>3, <2>4, Within, Zenon
<1>4. \A i, k \in S : owner[i] = owner[k] => i = k
  BY DEF Gov!Once
<1>5. {owner[i] : i \in S} = {list[i].owner : i \in S}
  OBVIOUS
<1>6. SumOver(weight, S) <= SumOver(shares, {owner[i] : i \in S})
  <2> HIDE DEF S, weight, owner
  <2> QED  BY <1>1, <1>2, <1>3, <1>4, SumAlong
<1>7. SumOver(weight, S) \in Int
  BY <1>1, <1>2, SumType
<1>8. SumOver(shares, {list[i].owner : i \in S}) \in Int
  <2>1. {list[i].owner : i \in S} \subseteq Owners
    BY <1>1
  <2> QED  BY <2>1, OwnedIsNumber
<1>9. Gov!Weight(list, "APPROVE") = SumOver(weight, S)
  BY GovSum DEF Gov!Weight
<1> QED  BY <1>5, <1>6, <1>7, <1>8, <1>9, GovSum

\* What is present is at most what those who are on the list own, when each is on it once.
LEMMA QuorumIsWithin ==
    ASSUME shares \in [Owners -> 0..100], NEW list, AttendanceFits(list),
           \A i, k \in DOMAIN list : list[i].owner = list[k].owner => i = k
    PROVE  Gov!ComputeQuorum(list).present <= Gov!Sum(shares, {list[i].owner : i \in DOMAIN list})
<1> DEFINE S == DOMAIN list
           share == [i \in S |-> list[i].share]
           owner == [i \in S |-> list[i].owner]
           holder == [i \in S |-> Gov!Holder(list[i])]
           holders == {Gov!Holder(list[i]) : i \in S}
           held == [h \in holders |-> Gov!HeldBy(list, h)]
<1>1. IsFiniteSet(S) /\ IntOn(share, S)
  BY DEF AttendanceFits, IntOn
<1>2. IsFiniteSet(holders)
  <2>1. holder \in Surjection(S, holders)
    BY DEF Surjection
  <2> QED  BY <1>1, <2>1, FS_Surjection
<1>3. \A h \in holders : held[h] = SumOver(share, {i \in S : holder[i] = h})
  <2> SUFFICES ASSUME NEW h \in holders
               PROVE  held[h] = SumOver(share, {i \in S : holder[i] = h})
    OBVIOUS
  <2>1. {i \in S : holder[i] = h} = {i \in S : Gov!Holder(list[i]) = h}
    OBVIOUS
  <2>2. Gov!HeldBy(list, h) = Gov!Sum(share, {i \in S : Gov!Holder(list[i]) = h})
    BY Zenon DEF Gov!HeldBy
  <2> QED  BY <2>1, <2>2, GovSum
<1>4. SumOver(held, holders) = SumOver(share, {i \in S : holder[i] \in holders})
  <2>1. \A h \in holders : {i \in S : holder[i] = h} = Grouped(S, holder, {h})
    BY DEF Grouped
  <2>2. \A h \in holders : held[h] = SumOver(share, Grouped(S, holder, {h}))
    BY <1>3, <2>1
  <2> HIDE DEF share, holder, holders, held, S
  <2>3. SumOver(held, holders) = SumOver(share, Grouped(S, holder, holders))
    BY <1>1, <1>2, <2>2, SumByGroup
  <2> QED  BY <2>3 DEF Grouped
<1>5. {i \in S : holder[i] \in holders} = S
  OBVIOUS
<1>6. SumOver(share, S) <= SumOver(shares, {owner[i] : i \in S})
  <2>1. \A i \in S : shares[owner[i]] \in Int /\ share[i] <= shares[owner[i]]
    BY DEF AttendanceFits
  <2>2. \A i, k \in S : owner[i] = owner[k] => i = k
    OBVIOUS
  <2> HIDE DEF share, owner, S
  <2> QED  BY <1>1, <2>1, <2>2, SumAlong
<1>7. {owner[i] : i \in S} = {list[i].owner : i \in S}
  OBVIOUS
<1>8. SumOver(share, S) \in Int /\ SumOver(shares, {owner[i] : i \in S}) \in Int
  <2>1. {owner[i] : i \in S} \subseteq Owners
    BY DEF AttendanceFits
  <2> HIDE DEF share, owner, S
  <2> QED  BY <1>1, <2>1, SumType, OwnedIsNumber
<1>9. Gov!ComputeQuorum(list).present = Gov!Least(100, Gov!Sum(held, holders))
  BY DEF Gov!ComputeQuorum
<1>10. Gov!ComputeQuorum(list).present = Gov!Least(100, SumOver(share, S))
  BY <1>4, <1>5, <1>9, GovSum
<1>11. /\ Gov!Sum(shares, {list[i].owner : i \in S}) = SumOver(shares, {list[i].owner : i \in S})
       /\ SumOver(shares, {list[i].owner : i \in S}) = SumOver(shares, {owner[i] : i \in S})
  <2> HIDE DEF owner, S
  <2> QED  BY <1>7, GovSum
<1>12. \A a, b \in Int : a <= b => Gov!Least(100, a) <= b
  BY DEF Gov!Least
<1> HIDE DEF share, holder, holders, held, owner
<1> QED  BY <1>6, <1>8, <1>10, <1>11, <1>12

\* What is present is a number.
LEMMA PresentIsNumber ==
    ASSUME NEW list, AttendanceFits(list)
    PROVE  Gov!ComputeQuorum(list).present \in Int
<1> DEFINE S == DOMAIN list
           share == [i \in S |-> list[i].share]
           holder == [i \in S |-> Gov!Holder(list[i])]
           holders == {Gov!Holder(list[i]) : i \in S}
           held == [h \in holders |-> Gov!HeldBy(list, h)]
<1>1. IsFiniteSet(S) /\ IntOn(share, S)
  BY DEF AttendanceFits, IntOn
<1>2. IsFiniteSet(holders)
  <2>1. holder \in Surjection(S, holders)
    BY DEF Surjection
  <2> QED  BY <1>1, <2>1, FS_Surjection
<1>3. ASSUME NEW h \in holders
      PROVE  held[h] \in Int
  <2> DEFINE One == {i \in S : Gov!Holder(list[i]) = h}
  <2>1. Gov!HeldBy(list, h) = Gov!Sum(share, One)
    BY Zenon DEF Gov!HeldBy
  <2>2. IsFiniteSet(One) /\ IntOn(share, One)
    BY <1>1, FS_Subset DEF IntOn
  <2> HIDE DEF One, share
  <2>3. SumOver(share, One) \in Int
    BY <2>2, SumType
  <2> QED  BY <2>1, <2>3, GovSum
<1>4. Gov!Sum(held, holders) \in Int
  <2>1. IntOn(held, holders)
    BY <1>3 DEF IntOn
  <2> HIDE DEF held, holders
  <2> QED  BY <1>2, <2>1, GovSum, SumType
<1>5. Gov!ComputeQuorum(list).present = Gov!Least(100, Gov!Sum(held, holders))
  BY DEF Gov!ComputeQuorum
<1> HIDE DEF held, holders
<1> QED  BY <1>4, <1>5 DEF Gov!Least

\* However votes, owners and the reading of a result overlap, an approval is carried by owners
\* whose shares make the majority when each votes once and in a name, and an act that met the
\* quorum lists owners of more than half of the property.
THEOREM VotesCarryAlways == Spec => []VotesCarry
<1>1. GovIInv /\ [Next]_vars => GovIInv'
  BY GovElsewhere, GovStep DEF Next, vars
<1>2. ASSUME GovIInv
      PROVE  VotesCarry
  <2>1. Gov!ApprovalIsCarried
    <3> SUFFICES ASSUME tally.at = "answer", tally.approved, Gov!Once(tally.votes)
                 PROVE  LET who == {tally.votes[i].owner :
                                      i \in {k \in DOMAIN tally.votes : tally.votes[k].choice = "APPROVE"}}
                        IN  IF tally.decision = "QUALIFIED"
                            THEN 10 * Gov!Sum(shares, who) >= 7 * tally.total
                            ELSE 2 * Gov!Sum(shares, who) > act.present
      BY Zenon DEF Gov!ApprovalIsCarried
    <3> DEFINE who == {tally.votes[i].owner :
                         i \in {k \in DOMAIN tally.votes : tally.votes[k].choice = "APPROVE"}}
               weight == Gov!Weight(tally.votes, "APPROVE")
               support == Gov!Sum(shares, who)
    <3>1. /\ tally.votes \in Seq(Gov!Vote) /\ VotesFit(tally.votes) /\ act # Gov!NoAct
          /\ tally.total \in Int
          /\ tally.approved = Gov!EvaluateDecision(tally.votes, tally.decision, tally.total, act.present)
      <4>1. TallyFits
        BY <1>2 DEF GovIInv
      <4>2. tally # Gov!NoTally
        BY DEF Gov!NoTally
      <4> QED  BY <4>1, <4>2 DEF TallyFits
    <3>2. weight \in Int /\ support \in Int /\ weight <= support
      BY <1>2, <3>1, SupportIsOwned DEF GovIInv
    <3>3. IF tally.decision = "QUALIFIED" THEN 10 * weight >= 7 * tally.total
                                          ELSE 2 * weight > act.present
      BY <3>1 DEF Gov!EvaluateDecision
    <3>4. act.present \in Int
      BY <1>2, <3>1, PresentIsNumber DEF GovIInv, ActFits
    <3> HIDE DEF weight, support
    <3>5. IF tally.decision = "QUALIFIED" THEN 10 * support >= 7 * tally.total
                                          ELSE 2 * support > act.present
      BY <3>1, <3>2, <3>3, <3>4
    <3> QED  BY <3>5 DEF support
  <2>2. Gov!QuorumIsOwned
    <3> SUFFICES ASSUME act.quorumMet,
                        \A i, k \in DOMAIN act.attendance :
                            act.attendance[i].owner = act.attendance[k].owner => i = k
                 PROVE  Gov!Sum(shares, {act.attendance[i].owner : i \in DOMAIN act.attendance}) > 50
      BY Zenon DEF Gov!QuorumIsOwned
    <3>1. AttendanceFits(act.attendance) /\ act = Gov!ComputeQuorum(act.attendance)
      BY <1>2 DEF GovIInv, ActFits, Gov!NoAct
    <3>2. act.present <= Gov!Sum(shares, {act.attendance[i].owner : i \in DOMAIN act.attendance})
      BY <1>2, <3>1, QuorumIsWithin DEF GovIInv
    <3>3. act.present \in Int /\ act.present > 50
      <4>1. \A list : Gov!ComputeQuorum(list).quorumMet <=> Gov!ComputeQuorum(list).present > 50
        BY DEF Gov!ComputeQuorum
      <4>2. act.present > 50
        BY <3>1, <4>1
      <4> QED  BY <3>1, <4>2, PresentIsNumber
    <3>4. Gov!Sum(shares, {act.attendance[i].owner : i \in DOMAIN act.attendance}) \in Int
      <4>1. {act.attendance[i].owner : i \in DOMAIN act.attendance} \subseteq Owners
        BY <3>1 DEF AttendanceFits
      <4>2. shares \in [Owners -> 0..100]
        BY <1>2 DEF GovIInv
      <4> QED  BY <4>1, <4>2, GovSum, OwnedIsNumber
    <3> QED  BY <3>2, <3>3, <3>4
  <2> QED  BY <2>1, <2>2 DEF VotesCarry
<1> QED  BY GovInitially, <1>1, <1>2, PTL DEF Spec

\* A cuota that was reported as billed keeps the charge it was told, in whatever order cuotas
\* are billed and charges of their types entered by hand; and that charge has the amount of a
\* cuota of its type or was entered by hand.
THEOREM BilledIsChargedAlways == Spec => []BilledIsCharged
<1>1. GovIInv /\ [Next]_vars => GovIInv'
  BY GovElsewhere, GovStep DEF Next, vars
<1>2. ASSUME GovIInv
      PROVE  BilledIsCharged
  <2> SUFFICES ASSUME NEW b \in billed
               PROVE  /\ charged[b.period][b.fee.type] = b.told
                      /\ \/ \E g \in fees : g.type = b.fee.type /\ g.amount = b.told
                         \/ <<b.period, b.fee.type, b.told>> \in byHand
    BY Zenon DEF BilledIsCharged, Gov!BilledIsCharged
  <2>1. CuotasFit
    BY <1>2 DEF GovIInv
  <2>2. b \in [fee : fees, period : FeePeriods, told : Nat] /\ charged[b.period][b.fee.type] = b.told
    BY <2>1 DEF CuotasFit
  <2>3. b.period \in FeePeriods /\ b.fee.type \in Gov!FeeTypes /\ b.told # Gov!NoCharge
    <3>1. b.fee \in [type : Gov!FeeTypes, amount : Nat] /\ b.told \in Nat
      BY <2>1, <2>2, GovSetting DEF CuotasFit
    <3> QED  BY <2>2, <3>1 DEF Gov!NoCharge
  <2>4. ChargeIsDue(b.period, b.fee.type)
    BY <2>1, <2>2, <2>3 DEF CuotasFit
  <2> QED  BY <2>2, <2>4 DEF ChargeIsDue
<1> QED  BY GovInitially, <1>1, <1>2, PTL DEF Spec

-----------------------------------------------------------------------------
(***************************************************************************)
(* Finance: what an import has put on file or found there, what it still   *)
(* has to put there, and what it knows to be there; what is added up month *)
(* by month.                                                               *)
(***************************************************************************)
Groups == {r.group : r \in Fin!BankRows}
Amounts == {r.amount : r \in Fin!BankRows}

\* A row of the key is on file for the organization, or for another one at the same bank.
KeyOnFile(org, bank, k) ==
    \E r \in bankTransactions :
        Fin!DedupeKey(r) = k /\ (r.org = org \/ (r.bank = bank /\ k[1] \in Referenced))

ImportJob ==
    [kind : {"import"}, org : Orgs, bank : Banks, file : Files, toCreate : SUBSET Nat,
     quarantined : SUBSET Nat, known : SUBSET (Groups \X Amounts)]
NameJob == [kind : {"name"}, code : Codes]
YearlyJob ==
    [kind : {"yearly"}, before : [Fin!Months1 -> Seq(Entries)], rows : Seq(Seq(Entries)),
     all : Seq(Entries)]
FinJob == {Fin!Idle} \cup ImportJob \cup NameJob \cup YearlyJob

Net(list) == Fin!Summarize(list).net

\* What is not left to put on file is on file, and so is what is known.
ImportIsDue(s) ==
    LET j == job[s] IN
    /\ j.toCreate \subseteq DOMAIN j.file /\ j.quarantined \subseteq DOMAIN j.file
    /\ \A i \in DOMAIN j.file :
           i \in j.toCreate \cup j.quarantined \/ KeyOnFile(j.org, j.bank, Fin!DedupeKey(j.file[i]))
    /\ \A k \in j.known : KeyOnFile(j.org, j.bank, k)

\* An import that is alone knows all that is on file for its organization.
KnowsAll(s) ==
    \A r \in bankTransactions :
        r.org = job[s].org /\ ~r.quarantined => Fin!DedupeKey(r) \in job[s].known

\* A name that is being created has not been reported as created.
NameIsNew(s) ==
    /\ created[job[s].code] = 0
    /\ pc[s] = "audit" => job[s].code \in named

\* What a statement has read of a month lies between what there was at its start and what there is.
StatementIsDue(s) ==
    LET j == job[s] IN
    /\ Len(j.rows) <= Months
    /\ \A m \in Fin!Months1 : Fin!IsPrefix(j.before[m], ledger[m])
    /\ \A m \in DOMAIN j.rows : /\ Fin!IsPrefix(j.before[m], j.rows[m])
                                /\ Fin!IsPrefix(j.rows[m], ledger[m])
    /\ Net(j.all) = SumOver([m \in DOMAIN j.rows |-> Net(j.rows[m])], DOMAIN j.rows)

FinRequestIsDue(s) ==
    /\ job[s] = Fin!Idle <=> pc[s] = "idle"
    /\ job[s] \in ImportJob <=> pc[s] = "insert"
    /\ job[s] \in NameJob <=> pc[s] \in {"write", "audit"}
    /\ job[s] \in YearlyJob <=> pc[s] = "read"
    /\ pc[s] = "insert" => ImportIsDue(s) /\ (raced \/ KnowsAll(s))
    /\ pc[s] \in {"write", "audit"} => raced \/ NameIsNew(s)
    /\ pc[s] = "read" => StatementIsDue(s)

FinApart ==
    ~raced => \A s, q \in Slots : job[s].kind = job[q].kind /\ s # q => job[s].kind = "none"

FinTables ==
    /\ bankTransactions \subseteq Fin!BankRow /\ IsFiniteSet(bankTransactions)
    /\ reconciled \subseteq bankTransactions
    /\ named \subseteq Codes /\ created \in [Codes -> Nat]
    /\ ledger \in [Fin!Months1 -> Seq(Entries)]
    /\ imported \subseteq Orgs \X Banks \X Fin!BankRows
    /\ raced \in BOOLEAN

OnlyNamed == ~raced => \A c \in Codes : created[c] <= 1 /\ (c \notin named => created[c] = 0)
KeysOnce ==
    ~raced => \A r, q \in bankTransactions :
                  /\ r.org = q.org /\ Fin!DedupeKey(r) = Fin!DedupeKey(q)
                  /\ ~r.quarantined /\ ~q.quarantined
                  => r = q

FinHandlers ==
    /\ requests \in 0..FinRequests
    /\ pc \in [Slots -> {"idle", "insert", "write", "read", "audit"}]
    /\ job \in [Slots -> FinJob]
    /\ \A s \in Slots : FinRequestIsDue(s)
    /\ FinApart

FinIInv ==
    /\ FinTables /\ OnlyNamed /\ KeysOnce /\ Fin!ImportedIsOnFile
    /\ desk = "finance" => FinHandlers

-----------------------------------------------------------------------------
LEMMA FinSetting ==
    /\ Months \in Nat /\ Entries \subseteq Int
    /\ \A f \in Files : f \in Seq(Fin!BankRows) /\ Len(f) \in Nat /\ DOMAIN f = 1..Len(f)
    /\ \A f \in Files : \A i \in DOMAIN f : f[i] \in Fin!BankRows
    /\ \A s \in Seq(Entries) : s \in Seq(Int)
<1>1. Months \in Nat /\ Entries \subseteq Int /\ \A f \in Files : f \in Seq(Fin!BankRows)
  BY StatementsAssumption DEF Fin!FinAssumption
<1>2. \A f \in Seq(Fin!BankRows) : Len(f) \in Nat /\ DOMAIN f = 1..Len(f) /\ \A i \in DOMAIN f : f[i] \in Fin!BankRows
  OBVIOUS
<1>3. \A s \in Seq(Entries) : s \in Seq(Int)
  BY <1>1, SeqMonotonic
<1> QED  BY <1>1, <1>2, <1>3

LEMMA FinSum == \A f, S : Fin!Sum(f, S) = SumOver(f, S)
<1> SUFFICES ASSUME NEW f, NEW S
             PROVE  Fin!Sum(f, S) = SumOver(f, S)
  OBVIOUS
<1> QED
  BY Zenon DEF Fin!Sum, Fin!SumFunctionOnSet, Fin!FoldFunctionOnSet, Fin!MapThenFoldSet,
     SumOver, SumFunctionOnSet, FoldFunctionOnSet, MapThenFoldSet

LEMMA FinCardinality ==
    /\ \A S : Fin!Cardinality(S) = Cardinality(S)
  BY Zenon DEF Fin!Cardinality, Cardinality

\* Income and expenses make up all the rows.
LEMMA NetIsSum ==
    ASSUME NEW list \in Seq(Int)
    PROVE  Net(list) = SumOver(list, DOMAIN list) /\ Net(list) \in Int
<1> DEFINE P == {i \in DOMAIN list : list[i] >= 0}
           N == {i \in DOMAIN list : list[i] < 0}
<1>1. DOMAIN list = 1..Len(list) /\ Len(list) \in Nat /\ \A i \in DOMAIN list : list[i] \in Int
  OBVIOUS
<1>2. IsFiniteSet(DOMAIN list)
  BY <1>1, FS_Interval
<1>3. P \cup N = DOMAIN list /\ P \cap N = {} /\ P \subseteq DOMAIN list /\ N \subseteq DOMAIN list
  BY <1>1
<1>4. Net(list) = SumOver(list, P) + SumOver(list, N)
  BY FinSum DEF Net, Fin!Summarize
<1> HIDE DEF P, N
<1>5. IsFiniteSet(P) /\ IsFiniteSet(N)
  BY <1>2, <1>3, FS_Subset
<1>6. IntOn(list, P \cup N)
  BY <1>1, <1>3 DEF IntOn
<1>7. SumOver(list, P \cup N) = SumOver(list, P) + SumOver(list, N)
  BY <1>3, <1>5, <1>6, SumApart
<1>8. SumOver(list, P \cup N) \in Int
  BY <1>2, <1>3, <1>6, SumType
<1> QED  BY <1>3, <1>4, <1>7, <1>8

\* Rows that are put behind others add what they add up to.
LEMMA NetOfBoth ==
    ASSUME NEW s \in Seq(Int), NEW t \in Seq(Int)
    PROVE  Net(s \o t) = Net(s) + Net(t)
<1> DEFINE u == s \o t
           n == Len(s)
           Wrong == {m \in 0..Len(t) : SumOver(u, 1..(n + m)) # SumOver(s, 1..n) + SumOver(t, 1..m)}
<1>1. /\ u \in Seq(Int) /\ n \in Nat /\ Len(t) \in Nat /\ Len(u) = n + Len(t)
      /\ DOMAIN s = 1..n /\ DOMAIN t = 1..Len(t) /\ DOMAIN u = 1..(n + Len(t))
      /\ \A i \in 1..n : u[i] = s[i] /\ s[i] \in Int
      /\ \A i \in 1..Len(t) : u[n + i] = t[i] /\ t[i] \in Int
  OBVIOUS
<1> HIDE DEF u, n
<1>2. \A a \in Int : IsFiniteSet(1..a)
  BY FS_Interval
<1>3. Wrong = {}
  <2> SUFFICES ASSUME Wrong # {}
               PROVE  FALSE
    OBVIOUS
  <2>1. Wrong \subseteq Nat
    OBVIOUS
  <2> HIDE DEF Wrong
  <2>2. PICK m \in Wrong : \A k \in Wrong : m <= k
    BY <2>1, SmallestNumber
  <2>3. m \in 0..Len(t) /\ SumOver(u, 1..(n + m)) # SumOver(s, 1..n) + SumOver(t, 1..m)
    BY DEF Wrong
  <2>4. SumOver(s, 1..n) \in Int
    <3>1. IntOn(s, 1..n)
      BY <1>1 DEF IntOn
    <3> QED  BY <1>1, <1>2, <3>1, SumType
  <2>5. CASE m = 0
    <3>1. n + m = n /\ 1..m = {}
      BY <1>1, <2>5
    <3>2. SumOver(u, 1..n) = SumOver(s, 1..n)
      BY <1>1, <1>2, SumCongruent
    <3>3. SumOver(t, 1..m) = 0
      BY <3>1, SumEmpty
    <3> QED  BY <2>3, <2>4, <3>1, <3>2, <3>3
  <2>6. CASE m # 0
    <3>1. m \in 1..Len(t) /\ m - 1 \in 0..Len(t) /\ m - 1 \in Int /\ n + m - 1 \in Int /\ n + m \in Int
      BY <1>1, <2>3, <2>6
    <3>2. m - 1 \notin Wrong
      BY <2>1, <2>2, <3>1
    <3>3. SumOver(u, 1..(n + (m - 1))) = SumOver(s, 1..n) + SumOver(t, 1..(m - 1))
      BY <3>1, <3>2 DEF Wrong
    <3>4. 1..(n + m) = 1..(n + (m - 1)) \cup {n + m} /\ n + m \notin 1..(n + (m - 1))
      <4>1. n \in Nat /\ m \in Nat /\ m >= 1
        BY <1>1, <3>1
      <4>2. \A x : x \in 1..(n + m) <=> x \in 1..(n + (m - 1)) \/ x = n + m
        <5>1. n + m \in Int /\ n + (m - 1) = (n + m) - 1 /\ n + m >= 1
          BY <4>1
        <5> DEFINE k == n + m
        <5> HIDE DEF k
        <5>2. \A x : x \in 1..k <=> x \in 1..(k - 1) \/ x = k
          <6>1. k \in Int /\ k >= 1
            BY <5>1 DEF k
          <6> QED  BY ONLY <6>1
        <5> QED  BY <5>1, <5>2 DEF k
      <4>3. n + m \notin 1..(n + (m - 1))
        BY ONLY <4>1
      <4> QED  BY <4>2, <4>3, Zenon
    <3>5. 1..m = 1..(m - 1) \cup {m} /\ m \notin 1..(m - 1)
      BY <3>1
    <3>6. IntOn(u, 1..(n + (m - 1)) \cup {n + m})
      <4>1. \A i \in 1..(n + m) : i \in 1..(n + Len(t))
        BY <1>1, <3>1
      <4>2. \A i \in 1..(n + m) : u[i] \in Int
        BY <1>1, <4>1
      <4> QED  BY <3>4, <4>2 DEF IntOn
    <3>7. IntOn(t, 1..(m - 1) \cup {m})
      <4>1. \A i \in 1..m : i \in 1..Len(t)
        BY <1>1, <3>1
      <4> QED  BY <1>1, <3>5, <4>1 DEF IntOn
    <3>8. SumOver(u, 1..(n + m)) = u[n + m] + SumOver(u, 1..(n + (m - 1)))
      <4>1. IsFiniteSet(1..(n + (m - 1)))
        BY <1>2, <1>1, <3>1
      <4> QED  BY <3>4, <3>6, <4>1, SumAdd
    <3>9. SumOver(t, 1..m) = t[m] + SumOver(t, 1..(m - 1))
      <4>1. IsFiniteSet(1..(m - 1))
        BY <1>2, <3>1
      <4> QED  BY <3>5, <3>7, <4>1, SumAdd
    <3>10. SumOver(t, 1..(m - 1)) \in Int
      <4>1. IntOn(t, 1..(m - 1)) /\ IsFiniteSet(1..(m - 1))
        BY <1>2, <3>1, <3>7 DEF IntOn
      <4> QED  BY <4>1, SumType
    <3>11. u[n + m] = t[m] /\ t[m] \in Int
      BY <1>1, <3>1
    <3> QED  BY <2>3, <2>4, <3>3, <3>8, <3>9, <3>10, <3>11
  <2> QED  BY <2>5, <2>6
<1>4. SumOver(u, 1..(n + Len(t))) = SumOver(s, 1..n) + SumOver(t, 1..Len(t))
  <2>1. Len(t) \in 0..Len(t) /\ Len(t) \notin Wrong
    <3> HIDE DEF Wrong
    <3> QED  BY <1>1, <1>3
  <2> QED  BY <2>1
<1>5. Net(u) = SumOver(u, DOMAIN u) /\ Net(s) = SumOver(s, DOMAIN s) /\ Net(t) = SumOver(t, DOMAIN t)
  BY <1>1, NetIsSum
<1> QED  BY <1>1, <1>4, <1>5 DEF u

LEMMA PrefixIs ==
    ASSUME NEW S, NEW s \in Seq(S), NEW t \in Seq(S)
    PROVE  Fin!IsPrefix(s, t) <=> Len(s) <= Len(t) /\ \A i \in 1..Len(s) : s[i] = t[i]
<1>1. Len(s) \in Nat /\ Len(t) \in Nat /\ (\A i \in 1..Len(s) : s[i] \in S) /\ (\A i \in 1..Len(t) : t[i] \in S)
  OBVIOUS
<1>2. /\ SubSeq(s, 1, Len(s)) \in Seq(S) /\ Len(SubSeq(s, 1, Len(s))) = Len(s)
      /\ \A i \in 1..Len(s) : SubSeq(s, 1, Len(s))[i] = s[i]
  BY <1>1
<1>3. ASSUME Len(s) <= Len(t)
      PROVE  /\ SubSeq(t, 1, Len(s)) \in Seq(S) /\ Len(SubSeq(t, 1, Len(s))) = Len(s)
             /\ \A i \in 1..Len(s) : SubSeq(t, 1, Len(s))[i] = t[i]
  BY <1>1, <1>3
<1>4. Fin!IsPrefix(s, t) <=> Len(s) <= Len(t) /\ SubSeq(s, 1, Len(s)) = SubSeq(t, 1, Len(s))
  BY DEF Fin!IsPrefix
<1>5. ASSUME Len(s) <= Len(t), \A i \in 1..Len(s) : s[i] = t[i]
      PROVE  SubSeq(s, 1, Len(s)) = SubSeq(t, 1, Len(s))
  <2> DEFINE a == SubSeq(s, 1, Len(s))
             b == SubSeq(t, 1, Len(s))
  <2>1. a \in Seq(S) /\ b \in Seq(S) /\ Len(a) = Len(b) /\ \A i \in 1..Len(a) : a[i] = b[i]
    BY <1>2, <1>3, <1>5
  <2> QED  BY <2>1, SeqEqual
<1>6. ASSUME Len(s) <= Len(t), SubSeq(s, 1, Len(s)) = SubSeq(t, 1, Len(s))
      PROVE  \A i \in 1..Len(s) : s[i] = t[i]
  BY <1>2, <1>3, <1>6
<1> QED  BY <1>4, <1>5, <1>6

\* The row whose turn it is is one of those that are left.
LEMMA TurnIsLeft ==
    ASSUME NEW file \in Files, NEW places, places \subseteq DOMAIN file, places # {}
    PROVE  Fin!NextOf(file, places) \in places
<1>1. Len(file) \in Nat /\ DOMAIN file = 1..Len(file)
  BY FinSetting
<1>2. ASSUME NEW i \in DOMAIN file PROVE Fin!Turn(file, i) \in Nat
  <2> DEFINE G == {k \in DOMAIN file : file[k].group = file[i].group}
  <2>1. G \subseteq Nat /\ G # {}
    BY <1>1
  <2>2. \E m \in G : \A k \in G : m <= k
    BY <2>1, SmallestNumber
  <2>3. Fin!Min(G) \in G
    <3> HIDE DEF G
    <3> QED  BY <2>2 DEF Fin!Min
  <2>4. Fin!FirstOfGroup(file, i) \in Nat
    BY <2>1, <2>3 DEF Fin!FirstOfGroup
  <2> HIDE DEF G
  <2> QED  BY <1>1, <2>4 DEF Fin!Turn
<1> DEFINE T == {Fin!Turn(file, i) : i \in places}
<1>3. T \subseteq Nat /\ T # {}
  BY <1>2
<1>4. PICK m \in T : \A k \in T : m <= k
  <2> HIDE DEF T
  <2> QED  BY <1>3, SmallestNumber
<1>5. PICK i \in places : m = Fin!Turn(file, i)
  OBVIOUS
<1>6. \A k \in places : Fin!Turn(file, i) <= Fin!Turn(file, k)
  BY <1>4, <1>5
<1>7. \E x \in places : \A k \in places : Fin!Turn(file, x) <= Fin!Turn(file, k)
  BY <1>6
<1> QED  BY <1>7, Zenon DEF Fin!NextOf

LEMMA PrefixGrows ==
    ASSUME NEW S, NEW a \in Seq(S), NEW b \in Seq(S), NEW c \in Seq(S),
           Fin!IsPrefix(a, b), Fin!IsPrefix(b, c)
    PROVE  Fin!IsPrefix(a, c)
<1>1. Len(a) \in Nat /\ Len(b) \in Nat /\ Len(c) \in Nat
  OBVIOUS
<1>2. Len(a) <= Len(b) /\ (\A i \in 1..Len(a) : a[i] = b[i]) /\ Len(b) <= Len(c) /\ \A i \in 1..Len(b) : b[i] = c[i]
  BY PrefixIs
<1>3. Len(a) <= Len(c) /\ \A i \in 1..Len(a) : a[i] = c[i]
  BY <1>1, <1>2
<1> QED  BY <1>3, PrefixIs

LEMMA FinInitially == Init => FinIInv
<1> SUFFICES ASSUME Init
             PROVE  FinIInv
  OBVIOUS
<1> USE DEF Init, Fin!FinInit
<1>1. FinTables
  <2>1. IsFiniteSet(bankTransactions)
    BY FS_EmptySet
  <2>2. ledger \in [Fin!Months1 -> Seq(Entries)]
    <3>1. <<>> \in Seq(Entries)
      OBVIOUS
    <3> QED  BY <3>1
  <2> QED  BY <2>1, <2>2 DEF FinTables
<1>2. OnlyNamed /\ KeysOnce /\ Fin!ImportedIsOnFile
  BY DEF OnlyNamed, KeysOnce, Fin!ImportedIsOnFile
<1>3. ASSUME desk = "finance"
      PROVE  FinHandlers
  <2>1. requests \in 0..FinRequests
    BY BoundsAssumption
  <2>2. \A s \in Slots : FinRequestIsDue(s)
    BY DEF FinRequestIsDue, Fin!Idle, ImportJob, NameJob, YearlyJob
  <2>3. job \in [Slots -> FinJob]
    BY DEF FinJob
  <2> QED  BY <2>1, <2>2, <2>3 DEF FinHandlers, FinApart, Fin!Idle
<1> QED  BY <1>1, <1>2, <1>3 DEF FinIInv

LEMMA FinElsewhere ==
    ASSUME FinIInv, [Next]_vars, ~(desk = "finance" /\ Fin!FinNext)
    PROVE  FinIInv'
<1>1. UNCHANGED finances /\ (UNCHANGED <<pc, job, requests>> \/ desk # "finance") /\ desk' = desk
  BY DEF Next, vars
<1>2. UNCHANGED <<bankTransactions, reconciled, named, created, ledger, imported, raced>>
  BY <1>1 DEF finances
<1>3. FinTables' /\ OnlyNamed' /\ KeysOnce' /\ Fin!ImportedIsOnFile'
  BY <1>2 DEF FinIInv, FinTables, OnlyNamed, KeysOnce, Fin!ImportedIsOnFile
<1>4. desk' = "finance" => FinHandlers'
  BY <1>1, <1>2 DEF FinIInv, FinHandlers, FinRequestIsDue, FinApart, ImportIsDue, KnowsAll, NameIsNew,
                    StatementIsDue, KeyOnFile
<1> QED  BY <1>3, <1>4 DEF FinIInv

LEMMA FinKinds ==
    ASSUME NEW j \in FinJob
    PROVE  /\ j \in ImportJob <=> j.kind = "import"
           /\ j \in NameJob <=> j.kind = "name"
           /\ j \in YearlyJob <=> j.kind = "yearly"
           /\ j = Fin!Idle <=> j.kind = "none"
  BY DEF FinJob, ImportJob, NameJob, YearlyJob, Fin!Idle

\* A request that stands still stays due while others add rows, names and transactions.
LEMMA FinOthers ==
    ASSUME FinIInv, desk = "finance", NEW q \in Slots, pc'[q] = pc[q], job'[q] = job[q],
           bankTransactions \subseteq bankTransactions',
           ledger' \in [Fin!Months1 -> Seq(Entries)],
           \A m \in Fin!Months1 : Fin!IsPrefix(ledger[m], ledger'[m]),
           raced \in BOOLEAN, raced' \in BOOLEAN, raced => raced',
           pc[q] = "insert" /\ ~raced' => bankTransactions' = bankTransactions,
           pc[q] \in {"write", "audit"} /\ ~raced' => created' = created /\ named' = named
    PROVE  FinRequestIsDue(q)'
<1>1. FinRequestIsDue(q) /\ job[q] \in FinJob
  BY DEF FinIInv, FinHandlers
<1>2. ASSUME pc[q] = "insert"
      PROVE  ImportIsDue(q)' /\ (raced' \/ KnowsAll(q)')
  <2>1. ImportIsDue(q)'
    BY <1>1, <1>2 DEF FinRequestIsDue, ImportIsDue, KeyOnFile
  <2>2. raced' \/ KnowsAll(q)'
    BY <1>1, <1>2 DEF FinRequestIsDue, KnowsAll
  <2> QED  BY <2>1, <2>2
<1>3. ASSUME pc[q] \in {"write", "audit"}
      PROVE  raced' \/ NameIsNew(q)'
  BY <1>1, <1>3 DEF FinRequestIsDue, NameIsNew
<1>4. ASSUME pc[q] = "read"
      PROVE  StatementIsDue(q)'
  <2>1. StatementIsDue(q) /\ job[q] \in YearlyJob
    BY <1>1, <1>4 DEF FinRequestIsDue
  <2>2. /\ job[q].rows \in Seq(Seq(Entries)) /\ job[q].before \in [Fin!Months1 -> Seq(Entries)]
        /\ ledger \in [Fin!Months1 -> Seq(Entries)] /\ Months \in Nat
        /\ DOMAIN job[q].rows = 1..Len(job[q].rows) /\ Len(job[q].rows) \in Nat
    BY <2>1, FinSetting DEF YearlyJob, FinIInv, FinTables
  <2>3. DOMAIN job[q].rows \subseteq Fin!Months1 /\ \A m \in DOMAIN job[q].rows : job[q].rows[m] \in Seq(Entries)
    BY <2>1, <2>2 DEF StatementIsDue, Fin!Months1
  <2>4. ASSUME NEW a \in Seq(Entries), NEW m \in Fin!Months1, Fin!IsPrefix(a, ledger[m])
        PROVE  Fin!IsPrefix(a, ledger'[m])
    <3>1. ledger[m] \in Seq(Entries) /\ ledger'[m] \in Seq(Entries) /\ Fin!IsPrefix(ledger[m], ledger'[m])
      BY <2>2
    <3> QED  BY <2>4, <3>1, PrefixGrows
  <2>5. \A m \in Fin!Months1 : Fin!IsPrefix(job[q].before[m], ledger'[m])
    BY <2>1, <2>2, <2>4 DEF StatementIsDue
  <2>6. \A m \in DOMAIN job[q].rows : Fin!IsPrefix(job[q].rows[m], ledger'[m])
    BY <2>1, <2>3, <2>4 DEF StatementIsDue
  <2> QED  BY <2>1, <2>5, <2>6 DEF StatementIsDue
<1> QED  BY <1>1, <1>2, <1>3, <1>4 DEF FinRequestIsDue

\* One request goes on, begins or ends, and the rest stand still.
LEMMA FinOneMoves ==
    ASSUME FinIInv, desk = "finance", NEW s \in Slots, NEW step, NEW j,
           pc' = [pc EXCEPT ![s] = step], job' = [job EXCEPT ![s] = j],
           bankTransactions \subseteq bankTransactions', ledger' = ledger,
           raced' \in BOOLEAN, raced => raced', requests' \in 0..FinRequests,
           step \in {"idle", "insert", "write", "read", "audit"}, j \in FinJob,
           j.kind # "none" /\ ~raced' => \A q \in Slots \ {s} : job[q].kind # j.kind,
           ~raced' /\ bankTransactions' # bankTransactions => j.kind = "import",
           ~raced' /\ (named' # named \/ created' # created) => job[s].kind = "name",
           FinRequestIsDue(s)'
    PROVE  FinHandlers'
<1>1. /\ pc \in [Slots -> {"idle", "insert", "write", "read", "audit"}] /\ job \in [Slots -> FinJob]
      /\ FinApart /\ ledger \in [Fin!Months1 -> Seq(Entries)] /\ raced \in BOOLEAN
      /\ \A q \in Slots : FinRequestIsDue(q)
  BY DEF FinIInv, FinHandlers, FinTables
<1>2. /\ pc' \in [Slots -> {"idle", "insert", "write", "read", "audit"}] /\ job' \in [Slots -> FinJob]
      /\ job'[s] = j /\ \A q \in Slots \ {s} : pc'[q] = pc[q] /\ job'[q] = job[q]
  BY <1>1
<1>3. \A m \in Fin!Months1 : Fin!IsPrefix(ledger[m], ledger'[m])
  <2> SUFFICES ASSUME NEW m \in Fin!Months1
               PROVE  Fin!IsPrefix(ledger[m], ledger[m])
    OBVIOUS
  <2>1. ledger[m] \in Seq(Entries) /\ Len(ledger[m]) \in Nat
    BY <1>1
  <2> QED  BY <2>1, PrefixIs
<1>4. ASSUME NEW q \in Slots \ {s}
      PROVE  FinRequestIsDue(q)'
  <2>1. /\ pc[q] = "insert" => job[q].kind = "import"
        /\ pc[q] \in {"write", "audit"} => job[q].kind = "name"
    BY <1>1, FinKinds DEF FinRequestIsDue
  <2>2. pc[q] = "insert" /\ ~raced' => bankTransactions' = bankTransactions
    BY <2>1
  <2>3. pc[q] \in {"write", "audit"} /\ ~raced' => created' = created /\ named' = named
    BY <2>1, <1>1 DEF FinApart
  <2> QED  BY <1>1, <1>2, <1>3, <2>2, <2>3, FinOthers
<1>5. FinApart'
  BY <1>1, <1>2 DEF FinApart
<1> QED  BY <1>2, <1>4, <1>5 DEF FinHandlers

\* A request that ends, whatever it has done.
LEMMA FinEnds ==
    ASSUME FinIInv, desk = "finance", NEW s \in Slots, Fin!Done(s),
           UNCHANGED <<bankTransactions, named, ledger>>,
           created' # created => job[s].kind = "name"
    PROVE  FinHandlers'
<1>1. raced \in BOOLEAN /\ requests \in 0..FinRequests /\ s \in DOMAIN pc /\ s \in DOMAIN job
  BY DEF FinIInv, FinHandlers, FinTables
<1>2. /\ pc' = [pc EXCEPT ![s] = "idle"] /\ job' = [job EXCEPT ![s] = Fin!Idle]
      /\ requests' = requests /\ raced' = raced
  BY DEF Fin!Done
<1>3. Fin!Idle \in FinJob /\ Fin!Idle.kind = "none"
  BY DEF FinJob, Fin!Idle
<1>4. FinRequestIsDue(s)'
  <2>1. pc'[s] = "idle" /\ job'[s] = Fin!Idle
    BY <1>1, <1>2
  <2> QED  BY <2>1 DEF FinRequestIsDue, Fin!Idle, ImportJob, NameJob, YearlyJob
<1> QED  BY <1>1, <1>2, <1>3, <1>4, FinOneMoves

\* A request that begins.
LEMMA FinBegins ==
    ASSUME FinIInv, desk = "finance", NEW s \in Slots, NEW step, NEW j, Fin!Begin(s, step, j),
           step \in {"insert", "write", "read"}, j \in FinJob, FinRequestIsDue(s)', j.kind # "none"
    PROVE  FinHandlers' /\ UNCHANGED <<bankTransactions, reconciled, named, created, ledger, imported>>
<1>1. raced \in BOOLEAN /\ requests \in 0..FinRequests /\ FinRequests \in Nat
  BY BoundsAssumption DEF FinIInv, FinHandlers, FinTables
<1>2. /\ pc' = [pc EXCEPT ![s] = step] /\ job' = [job EXCEPT ![s] = j]
      /\ UNCHANGED <<bankTransactions, reconciled, named, created, ledger, imported>>
      /\ raced' = (raced \/ \E q \in Slots : job[q].kind = j.kind)
      /\ requests < FinRequests /\ requests' = requests + 1
  BY DEF Fin!Begin, Fin!Counted, Fin!tables
<1>3. raced' \in BOOLEAN /\ (raced => raced') /\ (~raced' => \A q \in Slots : job[q].kind # j.kind)
  BY <1>1, <1>2, Zenon
<1>4. requests' \in 0..FinRequests
  BY <1>1, <1>2
<1> QED  BY <1>2, <1>3, <1>4, FinOneMoves

\* What an insert does to the rows on file: it adds the row, or finds one with its key.
RowAdded(org, bank, row, flag) ==
    /\ bankTransactions \subseteq bankTransactions'
    /\ bankTransactions' \subseteq Fin!BankRow /\ IsFiniteSet(bankTransactions')
    /\ \E r \in bankTransactions' :
           /\ Fin!DedupeKey(r) = Fin!DedupeKey(row)
           /\ r.org = org \/ (r.bank = bank /\ row.group \in Referenced)
    /\ \A r \in bankTransactions' \ bankTransactions :
           r.org = org /\ r.quarantined = flag /\ Fin!DedupeKey(r) = Fin!DedupeKey(row)
    /\ \A r, q \in bankTransactions' \ bankTransactions : r = q

LEMMA TryCreateKeeps ==
    ASSUME FinTables, NEW org \in Orgs, NEW bank \in Banks, NEW row \in Fin!BankRows, NEW flag \in BOOLEAN,
           Fin!TryCreateBankTransaction(org, bank, row, flag)
    PROVE  RowAdded(org, bank, row, flag)
<1> DEFINE alike == {r \in bankTransactions : Fin!Same(r, bank, row)}
           new == [org |-> org, bank |-> bank, group |-> row.group, amount |-> row.amount,
                   quarantined |-> flag, copy |-> Cardinality(alike) + 1]
<1>1. bankTransactions' = bankTransactions \cup (IF row.group \in Referenced /\ alike # {} THEN {} ELSE {new})
  BY FinCardinality, Zenon DEF Fin!TryCreateBankTransaction
<1>2. Cardinality(alike) + 1 \in Nat \ {0}
  <2>1. IsFiniteSet(alike)
    BY FS_Subset DEF FinTables
  <2>2. Cardinality(alike) \in Nat
    BY <2>1, FS_CardinalityType
  <2> QED  BY <2>2
<1>3. new \in Fin!BankRow
  BY <1>2 DEF Fin!BankRow
<1>4. new.org = org /\ new.quarantined = flag /\ Fin!DedupeKey(new) = Fin!DedupeKey(row)
  BY DEF Fin!DedupeKey
<1>5. \A r \in alike : r \in bankTransactions /\ r.bank = bank /\ Fin!DedupeKey(r) = Fin!DedupeKey(row)
  BY DEF Fin!Same, Fin!DedupeKey
<1> HIDE DEF new, alike
<1>6. CASE row.group \in Referenced /\ alike # {}
  <2>1. bankTransactions' = bankTransactions
    BY <1>1, <1>6
  <2> QED  BY <1>5, <1>6, <2>1 DEF FinTables, RowAdded
<1>7. CASE ~(row.group \in Referenced /\ alike # {})
  <2>1. bankTransactions' = bankTransactions \cup {new}
    BY <1>1, <1>7
  <2>2. IsFiniteSet(bankTransactions')
    BY <2>1, FS_AddElement DEF FinTables
  <2> QED  BY <1>3, <1>4, <2>1, <2>2 DEF FinTables, RowAdded
<1> QED  BY <1>6, <1>7

\* Rows that are added leave what is known of the others to hold.
LEMMA TablesGrow ==
    ASSUME FinTables, bankTransactions \subseteq bankTransactions', bankTransactions' \subseteq Fin!BankRow,
           IsFiniteSet(bankTransactions'), Fin!ImportedIsOnFile, imported' = imported,
           UNCHANGED <<reconciled, named, created, ledger, raced>>
    PROVE  FinTables' /\ Fin!ImportedIsOnFile'
<1>1. FinTables'
  BY DEF FinTables
<1>2. Fin!ImportedIsOnFile'
  BY DEF Fin!ImportedIsOnFile
<1> QED  BY <1>1, <1>2

LEMMA CreateRowKeeps ==
    ASSUME FinIInv, desk = "finance", desk' = desk, NEW s \in Slots, Fin!CreateRow(s)
    PROVE  FinIInv'
<1> DEFINE i == Fin!NextOf(job[s].file, job[s].toCreate)
           row == job[s].file[i]
           key == Fin!DedupeKey(row)
           j == [job[s] EXCEPT !.toCreate = @ \ {i}, !.known = @ \cup {key}]
<1>1. FinTables /\ FinHandlers /\ job[s] \in FinJob /\ FinRequestIsDue(s) /\ s \in DOMAIN pc /\ s \in DOMAIN job
  BY DEF FinIInv, FinHandlers
<1>2. /\ pc[s] = "insert" /\ job[s].kind = "import" /\ job[s].toCreate # {}
      /\ job' = [job EXCEPT ![s] = j] /\ pc' = pc
      /\ UNCHANGED <<reconciled, named, created, ledger, requests, imported, raced>>
      /\ (IF key \in job[s].known THEN UNCHANGED bankTransactions
          ELSE Fin!TryCreateBankTransaction(job[s].org, job[s].bank, row, FALSE))
  BY DEF Fin!CreateRow, Fin!At
<1>3. job[s] \in ImportJob /\ ImportIsDue(s) /\ (raced \/ KnowsAll(s))
  BY <1>1, <1>2 DEF FinRequestIsDue
<1>4. /\ job[s].org \in Orgs /\ job[s].bank \in Banks /\ job[s].file \in Files
      /\ job[s].known \subseteq Groups \X Amounts /\ job[s].toCreate \subseteq Nat
      /\ job[s].toCreate \subseteq DOMAIN job[s].file
  BY <1>3 DEF ImportJob, ImportIsDue
<1>5. i \in job[s].toCreate
  BY <1>2, <1>4, TurnIsLeft
<1>6. row \in Fin!BankRows /\ row.group \in Groups /\ row.amount \in Amounts
  <2>1. row \in Fin!BankRows
    BY <1>4, <1>5, FinSetting
  <2> QED  BY <2>1 DEF Groups, Amounts
<1> HIDE DEF i, row
<1>7. key \in Groups \X Amounts /\ key[1] = row.group /\ (FALSE \in BOOLEAN)
  BY <1>6 DEF Fin!DedupeKey
<1>8. /\ j \in ImportJob /\ j.org = job[s].org /\ j.bank = job[s].bank /\ j.file = job[s].file
      /\ j.quarantined = job[s].quarantined /\ j.kind = "import"
      /\ j.toCreate = job[s].toCreate \ {i} /\ j.known = job[s].known \cup {key}
  <2>1. job[s].known \cup {key} \subseteq Groups \X Amounts
    BY <1>4, <1>7
  <2> HIDE DEF key
  <2> QED  BY <1>3, <2>1 DEF ImportJob
<1> HIDE DEF j
<1>9. /\ bankTransactions \subseteq bankTransactions' /\ bankTransactions' \subseteq Fin!BankRow
      /\ IsFiniteSet(bankTransactions')
      /\ \E r \in bankTransactions' :
             Fin!DedupeKey(r) = key /\ (r.org = job[s].org \/ (r.bank = job[s].bank /\ key[1] \in Referenced))
      /\ \A r \in bankTransactions' \ bankTransactions :
             r.org = job[s].org /\ ~r.quarantined /\ Fin!DedupeKey(r) = key /\ key \notin job[s].known
      /\ \A r, q \in bankTransactions' \ bankTransactions : r = q
  <2>1. CASE key \in job[s].known
    <3>1. bankTransactions' = bankTransactions
      BY <1>2, <2>1
    <3>2. \E r \in bankTransactions :
             Fin!DedupeKey(r) = key /\ (r.org = job[s].org \/ (r.bank = job[s].bank /\ key[1] \in Referenced))
      BY <1>3, <2>1 DEF ImportIsDue, KeyOnFile
    <3> QED  BY <1>1, <3>1, <3>2 DEF FinTables
  <2>2. CASE key \notin job[s].known
    <3>1. Fin!TryCreateBankTransaction(job[s].org, job[s].bank, row, FALSE)
      BY <1>2, <2>2
    <3>2. RowAdded(job[s].org, job[s].bank, row, FALSE)
      BY <1>1, <1>4, <1>6, <1>7, <3>1, TryCreateKeeps, Zenon
    <3> QED  BY <1>7, <2>2, <3>2 DEF RowAdded
  <2> QED  BY <2>1, <2>2
<1> HIDE DEF key
<1>10. FinTables' /\ Fin!ImportedIsOnFile'
  BY <1>1, <1>2, <1>9, TablesGrow DEF FinIInv
<1>11. OnlyNamed'
  BY <1>2 DEF FinIInv, OnlyNamed
<1>12. KeysOnce'
  <2> SUFFICES ASSUME ~raced, NEW r \in bankTransactions', NEW q \in bankTransactions',
                      r.org = q.org, Fin!DedupeKey(r) = Fin!DedupeKey(q), ~r.quarantined, ~q.quarantined
               PROVE  r = q
    BY <1>2 DEF KeysOnce
  <2>1. KeysOnce /\ KnowsAll(s)
    BY <1>3 DEF FinIInv
  <2>2. CASE r \in bankTransactions /\ q \in bankTransactions
    BY <2>1, <2>2 DEF KeysOnce
  <2>3. CASE r \in bankTransactions /\ q \notin bankTransactions
    BY <1>9, <2>1, <2>3 DEF KnowsAll
  <2>4. CASE r \notin bankTransactions /\ q \in bankTransactions
    BY <1>9, <2>1, <2>4 DEF KnowsAll
  <2>5. CASE r \notin bankTransactions /\ q \notin bankTransactions
    BY <1>9, <2>5
  <2> QED  BY <2>2, <2>3, <2>4, <2>5
<1>13. FinRequestIsDue(s)'
  <2>1. job'[s] = j /\ pc'[s] = "insert"
    BY <1>1, <1>2
  <2>2. ImportIsDue(s)'
    <3>1. \A k \in DOMAIN j.file : k = i => Fin!DedupeKey(j.file[k]) = key
      BY <1>8 DEF key, row
    <3>2. ASSUME NEW k \in DOMAIN j.file
          PROVE  k \in j.toCreate \cup j.quarantined \/
                     \E r \in bankTransactions' :
                         /\ Fin!DedupeKey(r) = Fin!DedupeKey(j.file[k])
                         /\ r.org = j.org \/ (r.bank = j.bank /\ Fin!DedupeKey(j.file[k])[1] \in Referenced)
      <4>1. CASE k = i
        BY <1>8, <1>9, <3>1, <4>1
      <4>2. CASE k # i
        BY <1>3, <1>8, <1>9, <4>2 DEF ImportIsDue, KeyOnFile
      <4> QED  BY <4>1, <4>2
    <3>3. ASSUME NEW k \in j.known
          PROVE  \E r \in bankTransactions' :
                     Fin!DedupeKey(r) = k /\ (r.org = j.org \/ (r.bank = j.bank /\ k[1] \in Referenced))
      BY <1>3, <1>8, <1>9 DEF ImportIsDue, KeyOnFile
    <3>4. j.toCreate \subseteq DOMAIN j.file /\ j.quarantined \subseteq DOMAIN j.file
      BY <1>3, <1>8 DEF ImportIsDue
    <3> QED  BY <2>1, <3>2, <3>3, <3>4 DEF ImportIsDue, KeyOnFile
  <2>3. raced' \/ KnowsAll(s)'
    <3> SUFFICES ASSUME ~raced, NEW r \in bankTransactions', r.org = j.org, ~r.quarantined
                 PROVE  Fin!DedupeKey(r) \in j.known
      BY <1>2, <2>1 DEF KnowsAll
    <3>1. KnowsAll(s)
      BY <1>3
    <3> QED  BY <1>8, <1>9, <3>1 DEF KnowsAll
  <2>4. j \in FinJob
    BY <1>8 DEF FinJob
  <2> QED  BY <1>8, <2>1, <2>2, <2>3, <2>4, FinKinds DEF FinRequestIsDue
<1>14. FinHandlers'
  <2>1. pc' = [pc EXCEPT ![s] = "insert"] /\ j \in FinJob /\ raced \in BOOLEAN /\ requests \in 0..FinRequests
    <3>1. pc' = [pc EXCEPT ![s] = "insert"]
      BY <1>1, <1>2 DEF FinHandlers
    <3> QED  BY <1>1, <1>8, <3>1 DEF FinJob, FinHandlers, FinTables
  <2>2. ~raced => \A q \in Slots \ {s} : job[q].kind # "import"
    BY <1>1, <1>2 DEF FinHandlers, FinApart
  <2> QED  BY <1>2, <1>8, <1>9, <1>13, <2>1, <2>2, FinOneMoves
<1> QED  BY <1>10, <1>11, <1>12, <1>14 DEF FinIInv

LEMMA QuarantineRowKeeps ==
    ASSUME FinIInv, desk = "finance", desk' = desk, NEW s \in Slots, Fin!QuarantineRow(s)
    PROVE  FinIInv'
<1> DEFINE i == Fin!NextOf(job[s].file, job[s].quarantined)
           row == job[s].file[i]
           key == Fin!DedupeKey(row)
           j == [job[s] EXCEPT !.quarantined = @ \ {i}]
<1>1. FinTables /\ FinHandlers /\ job[s] \in FinJob /\ FinRequestIsDue(s) /\ s \in DOMAIN pc /\ s \in DOMAIN job
  BY DEF FinIInv, FinHandlers
<1>2. /\ pc[s] = "insert" /\ job[s].kind = "import" /\ job[s].quarantined # {}
      /\ job' = [job EXCEPT ![s] = j] /\ pc' = pc
      /\ UNCHANGED <<reconciled, named, created, ledger, requests, imported, raced>>
      /\ Fin!TryCreateBankTransaction(job[s].org, job[s].bank, row, TRUE)
  BY DEF Fin!QuarantineRow, Fin!At
<1>3. job[s] \in ImportJob /\ ImportIsDue(s) /\ (raced \/ KnowsAll(s))
  BY <1>1, <1>2 DEF FinRequestIsDue
<1>4. /\ job[s].org \in Orgs /\ job[s].bank \in Banks /\ job[s].file \in Files
      /\ job[s].quarantined \subseteq Nat /\ job[s].quarantined \subseteq DOMAIN job[s].file
  BY <1>3 DEF ImportJob, ImportIsDue
<1>5. i \in job[s].quarantined
  BY <1>2, <1>4, TurnIsLeft
<1>6. row \in Fin!BankRows
  BY <1>4, <1>5, FinSetting
<1> HIDE DEF i, row
<1>7. key[1] = row.group /\ (TRUE \in BOOLEAN)
  BY <1>6 DEF Fin!DedupeKey
<1> HIDE DEF key
<1>8. /\ j \in ImportJob /\ j.org = job[s].org /\ j.bank = job[s].bank /\ j.file = job[s].file
      /\ j.toCreate = job[s].toCreate /\ j.kind = "import" /\ j.known = job[s].known
      /\ j.quarantined = job[s].quarantined \ {i}
  BY <1>3 DEF ImportJob
<1> HIDE DEF j
<1>9. /\ bankTransactions \subseteq bankTransactions' /\ bankTransactions' \subseteq Fin!BankRow
      /\ IsFiniteSet(bankTransactions')
      /\ \E r \in bankTransactions' :
             Fin!DedupeKey(r) = key /\ (r.org = job[s].org \/ (r.bank = job[s].bank /\ key[1] \in Referenced))
      /\ \A r \in bankTransactions' \ bankTransactions : r.quarantined
  <2>1. RowAdded(job[s].org, job[s].bank, row, TRUE)
    BY <1>1, <1>2, <1>4, <1>6, <1>7, TryCreateKeeps, Zenon
  <2> QED  BY <1>7, <2>1 DEF key, RowAdded
<1>10. FinTables' /\ Fin!ImportedIsOnFile'
  BY <1>1, <1>2, <1>9, TablesGrow DEF FinIInv
<1>11. OnlyNamed' /\ KeysOnce'
  BY <1>2, <1>9 DEF FinIInv, OnlyNamed, KeysOnce
<1>12. FinRequestIsDue(s)'
  <2>1. job'[s] = j /\ pc'[s] = "insert"
    BY <1>1, <1>2
  <2>2. ImportIsDue(s)'
    <3>1. \A k \in DOMAIN j.file : k = i => Fin!DedupeKey(j.file[k]) = key
      BY <1>8 DEF key, row
    <3>2. ASSUME NEW k \in DOMAIN j.file
          PROVE  k \in j.toCreate \cup j.quarantined \/
                     \E r \in bankTransactions' :
                         /\ Fin!DedupeKey(r) = Fin!DedupeKey(j.file[k])
                         /\ r.org = j.org \/ (r.bank = j.bank /\ Fin!DedupeKey(j.file[k])[1] \in Referenced)
      <4>1. CASE k = i
        BY <1>8, <1>9, <3>1, <4>1
      <4>2. CASE k # i
        BY <1>3, <1>8, <1>9, <4>2 DEF ImportIsDue, KeyOnFile
      <4> QED  BY <4>1, <4>2
    <3>3. ASSUME NEW k \in j.known
          PROVE  \E r \in bankTransactions' :
                     Fin!DedupeKey(r) = k /\ (r.org = j.org \/ (r.bank = j.bank /\ k[1] \in Referenced))
      BY <1>3, <1>8, <1>9 DEF ImportIsDue, KeyOnFile
    <3>4. j.toCreate \subseteq DOMAIN j.file /\ j.quarantined \subseteq DOMAIN j.file
      BY <1>3, <1>8 DEF ImportIsDue
    <3> QED  BY <2>1, <3>2, <3>3, <3>4 DEF ImportIsDue, KeyOnFile
  <2>3. raced' \/ KnowsAll(s)'
    BY <1>2, <1>3, <1>8, <1>9, <2>1 DEF KnowsAll
  <2>4. j \in FinJob
    BY <1>8 DEF FinJob
  <2> QED  BY <1>8, <2>1, <2>2, <2>3, <2>4, FinKinds DEF FinRequestIsDue
<1>13. FinHandlers'
  <2>1. pc' = [pc EXCEPT ![s] = "insert"] /\ j \in FinJob /\ raced \in BOOLEAN /\ requests \in 0..FinRequests
    <3>1. pc' = [pc EXCEPT ![s] = "insert"]
      BY <1>1, <1>2 DEF FinHandlers
    <3> QED  BY <1>1, <1>8, <3>1 DEF FinJob, FinHandlers, FinTables
  <2>2. ~raced => \A q \in Slots \ {s} : job[q].kind # "import"
    BY <1>1, <1>2 DEF FinHandlers, FinApart
  <2> QED  BY <1>2, <1>8, <1>9, <1>12, <2>1, <2>2, FinOneMoves
<1> QED  BY <1>10, <1>11, <1>13 DEF FinIInv

\* What a step does that leaves the rows on file and the names alone.
LEMMA RowsStay ==
    ASSUME FinTables, KeysOnce, Fin!ImportedIsOnFile, UNCHANGED <<bankTransactions, imported>>,
           raced => raced'
    PROVE  KeysOnce' /\ Fin!ImportedIsOnFile'
BY DEF KeysOnce, Fin!ImportedIsOnFile

LEMMA ImportBankKeeps ==
    ASSUME FinIInv, desk = "finance", desk' = desk, NEW s \in Slots, NEW org \in Orgs, NEW bank \in Banks,
           NEW file \in Files, Fin!ImportBank(s, org, bank, file)
    PROVE  FinIInv'
<1> DEFINE known == {Fin!DedupeKey(r) : r \in Fin!ListBankTransactions(org)}
           j == [kind |-> "import", org |-> org, bank |-> bank, file |-> file,
                 toCreate |-> Fin!ToCreate(file), quarantined |-> Fin!Quarantined(file), known |-> known]
<1>1. FinTables /\ FinHandlers /\ s \in DOMAIN pc /\ s \in DOMAIN job /\ raced \in BOOLEAN
  BY DEF FinIInv, FinHandlers, FinTables
<1>2. Fin!Begin(s, "insert", j)
  BY DEF Fin!ImportBank
<1>3. \A r \in bankTransactions : Fin!DedupeKey(r) \in Groups \X Amounts
  BY <1>1 DEF FinTables, Fin!BankRow, Fin!DedupeKey, Groups, Amounts
<1>4. known \subseteq Groups \X Amounts
  BY <1>3 DEF Fin!ListBankTransactions
<1>5. /\ Fin!ToCreate(file) \subseteq DOMAIN file /\ Fin!Quarantined(file) \subseteq DOMAIN file
      /\ DOMAIN file \subseteq Fin!ToCreate(file) \cup Fin!Quarantined(file)
      /\ DOMAIN file \subseteq Nat
  BY FinSetting DEF Fin!ToCreate, Fin!Quarantined
<1> HIDE DEF known
<1>6. j \in ImportJob /\ j \in FinJob
  BY <1>4, <1>5 DEF ImportJob, FinJob
<1>7. job'[s] = j /\ pc'[s] = "insert" /\ bankTransactions' = bankTransactions
  BY <1>1, <1>2 DEF Fin!Begin, Fin!tables
<1>8. FinRequestIsDue(s)'
  <2>1. \A k \in known : \E r \in bankTransactions : Fin!DedupeKey(r) = k /\ r.org = org
    BY DEF known, Fin!ListBankTransactions
  <2>2. ImportIsDue(s)'
    BY <1>5, <1>7, <2>1 DEF ImportIsDue, KeyOnFile
  <2>3. KnowsAll(s)'
    BY <1>7 DEF KnowsAll, known, Fin!ListBankTransactions
  <2> QED  BY <1>6, <1>7, <2>2, <2>3, FinKinds DEF FinRequestIsDue
<1>9. FinHandlers' /\ UNCHANGED <<bankTransactions, reconciled, named, created, ledger, imported>>
  BY <1>2, <1>6, <1>8, FinBegins
<1>10. raced' \in BOOLEAN /\ (raced => raced')
  <2>1. raced' = (raced \/ \E q \in Slots : job[q].kind = j.kind)
    BY <1>2 DEF Fin!Begin
  <2> QED  BY <1>1, <2>1, Zenon
<1>11. FinTables' /\ OnlyNamed'
  BY <1>9, <1>10 DEF FinIInv, FinTables, OnlyNamed
<1> QED  BY <1>1, <1>9, <1>10, <1>11, RowsStay DEF FinIInv

LEMMA ImportCompletedKeeps ==
    ASSUME FinIInv, desk = "finance", desk' = desk, NEW s \in Slots, Fin!ImportCompleted(s)
    PROVE  FinIInv'
<1>1. /\ pc[s] = "insert" /\ job[s].toCreate = {} /\ job[s].quarantined = {}
      /\ imported' = imported \cup {<<job[s].org, job[s].bank, job[s].file[i]>> : i \in DOMAIN job[s].file}
      /\ Fin!Done(s) /\ UNCHANGED <<bankTransactions, reconciled, named, created, ledger, raced>>
  BY DEF Fin!ImportCompleted, Fin!At, Fin!tables, Fin!Done
<1>2. FinHandlers'
  BY <1>1, FinEnds
<1>3. job[s] \in ImportJob /\ ImportIsDue(s)
  BY <1>1 DEF FinIInv, FinHandlers, FinRequestIsDue
<1>4. \A i \in DOMAIN job[s].file :
          <<job[s].org, job[s].bank, job[s].file[i]>> \in Orgs \X Banks \X Fin!BankRows
  <2>1. job[s].org \in Orgs /\ job[s].bank \in Banks /\ job[s].file \in Files
    BY <1>3 DEF ImportJob
  <2>2. \A i \in DOMAIN job[s].file : job[s].file[i] \in Fin!BankRows
    BY <2>1, FinSetting
  <2> QED  BY <2>1, <2>2
<1>5. FinTables'
  BY <1>1, <1>4 DEF FinIInv, FinTables
<1>6. Fin!ImportedIsOnFile'
  <2> SUFFICES ASSUME NEW x \in imported'
               PROVE  \E r \in bankTransactions :
                          /\ Fin!DedupeKey(r) = Fin!DedupeKey(x[3])
                          /\ r.org = x[1] \/ (r.bank = x[2] /\ x[3].group \in Referenced)
    BY <1>1 DEF Fin!ImportedIsOnFile
  <2>1. CASE x \in imported
    BY <2>1 DEF FinIInv, Fin!ImportedIsOnFile
  <2>2. CASE x \notin imported
    <3>1. PICK i \in DOMAIN job[s].file : x = <<job[s].org, job[s].bank, job[s].file[i]>>
      BY <1>1, <2>2
    <3>2. KeyOnFile(job[s].org, job[s].bank, Fin!DedupeKey(job[s].file[i]))
      BY <1>1, <1>3 DEF ImportIsDue
    <3>3. Fin!DedupeKey(job[s].file[i])[1] = job[s].file[i].group
      BY DEF Fin!DedupeKey
    <3> QED  BY <3>1, <3>2, <3>3 DEF KeyOnFile
  <2> QED  BY <2>1, <2>2
<1>7. OnlyNamed' /\ KeysOnce'
  BY <1>1 DEF FinIInv, OnlyNamed, KeysOnce
<1> QED  BY <1>2, <1>5, <1>6, <1>7 DEF FinIInv

LEMMA CreateNamedKeeps ==
    ASSUME FinIInv, desk = "finance", desk' = desk, NEW s \in Slots, NEW code \in Codes,
           Fin!CreateNamed(s, code)
    PROVE  FinIInv'
<1> DEFINE j == [kind |-> "name", code |-> code]
<1>1. FinTables /\ FinHandlers /\ s \in DOMAIN pc /\ s \in DOMAIN job /\ raced \in BOOLEAN
  BY DEF FinIInv, FinHandlers, FinTables
<1>2. Fin!Begin(s, "write", j) /\ code \notin named
  BY DEF Fin!CreateNamed
<1>3. j \in NameJob /\ j \in FinJob
  BY DEF NameJob, FinJob
<1>4. /\ job'[s] = j /\ pc'[s] = "write" /\ created' = created /\ named' = named
      /\ raced' = (raced \/ \E q \in Slots : job[q].kind = j.kind)
  BY <1>1, <1>2 DEF Fin!Begin, Fin!tables
<1>5. raced' \in BOOLEAN /\ (raced => raced')
  BY <1>1, <1>4, Zenon
<1>6. FinRequestIsDue(s)'
  <2>1. raced' \/ NameIsNew(s)'
    BY <1>2, <1>4, <1>5 DEF FinIInv, OnlyNamed, NameIsNew
  <2> QED  BY <1>3, <1>4, <2>1, FinKinds DEF FinRequestIsDue
<1>7. FinHandlers' /\ UNCHANGED <<bankTransactions, reconciled, named, created, ledger, imported>>
  BY <1>2, <1>3, <1>6, FinBegins
<1>8. FinTables' /\ OnlyNamed'
  BY <1>5, <1>7 DEF FinIInv, FinTables, OnlyNamed
<1> QED  BY <1>1, <1>5, <1>7, <1>8, RowsStay DEF FinIInv

LEMMA InsertNamedKeeps ==
    ASSUME FinIInv, desk = "finance", desk' = desk, NEW s \in Slots, Fin!InsertNamed(s)
    PROVE  FinIInv'
<1>1. FinTables /\ FinHandlers /\ s \in DOMAIN pc /\ s \in DOMAIN job /\ job[s] \in FinJob /\ FinRequestIsDue(s)
  BY DEF FinIInv, FinHandlers
<1>2. /\ pc[s] = "write" /\ job[s].kind = "name" /\ named' = named \cup {job[s].code}
      /\ pc' = [pc EXCEPT ![s] = "audit"]
      /\ UNCHANGED <<bankTransactions, reconciled, created, ledger, imported, job, requests, raced>>
  BY DEF Fin!InsertNamed, Fin!At
<1>3. job[s] \in NameJob /\ job[s].code \in Codes /\ (raced \/ NameIsNew(s))
  BY <1>1, <1>2 DEF FinRequestIsDue, NameJob
<1>4. FinTables' /\ OnlyNamed'
  BY <1>2, <1>3 DEF FinIInv, FinTables, OnlyNamed
<1>5. FinRequestIsDue(s)'
  <2>1. pc'[s] = "audit" /\ job'[s] = job[s]
    BY <1>1, <1>2
  <2>2. raced' \/ NameIsNew(s)'
    BY <1>2, <1>3, <2>1 DEF NameIsNew
  <2> QED  BY <1>1, <1>2, <1>3, <2>1, <2>2, FinKinds DEF FinRequestIsDue
<1>6. FinHandlers'
  <2>1. job' = [job EXCEPT ![s] = job[s]] /\ raced \in BOOLEAN /\ requests \in 0..FinRequests
    BY <1>1, <1>2 DEF FinHandlers, FinTables
  <2>2. ~raced => \A q \in Slots \ {s} : job[q].kind # job[s].kind
    BY <1>1, <1>2 DEF FinHandlers, FinApart
  <2> QED  BY <1>1, <1>2, <1>5, <2>1, <2>2, FinOneMoves
<1> QED  BY <1>1, <1>2, <1>4, <1>6, RowsStay DEF FinIInv

LEMMA NamedCreatedKeeps ==
    ASSUME FinIInv, desk = "finance", desk' = desk, NEW s \in Slots, Fin!NamedCreated(s)
    PROVE  FinIInv'
<1>1. /\ pc[s] = "audit" /\ created' = [created EXCEPT ![job[s].code] = @ + 1] /\ Fin!Done(s)
      /\ UNCHANGED <<bankTransactions, reconciled, named, ledger, imported, raced>>
  BY DEF Fin!NamedCreated, Fin!Done
<1>2. job[s] \in NameJob /\ job[s].kind = "name" /\ job[s].code \in Codes /\ (raced \/ NameIsNew(s))
  BY <1>1 DEF FinIInv, FinHandlers, FinRequestIsDue, NameJob
<1>3. FinHandlers'
  BY <1>1, <1>2, FinEnds
<1>4. created \in [Codes -> Nat] /\ created' \in [Codes -> Nat]
  BY <1>1, <1>2 DEF FinIInv, FinTables
<1>5. FinTables'
  BY <1>1, <1>4 DEF FinIInv, FinTables
<1>6. OnlyNamed'
  <2> SUFFICES ASSUME ~raced, NEW c \in Codes
               PROVE  created'[c] <= 1 /\ (c \notin named => created'[c] = 0)
    BY <1>1 DEF OnlyNamed
  <2>1. created[c] <= 1 /\ (c \notin named => created[c] = 0)
    BY DEF FinIInv, OnlyNamed
  <2>2. c = job[s].code => created[c] = 0 /\ c \in named
    BY <1>1, <1>2 DEF NameIsNew
  <2> QED  BY <1>1, <1>4, <2>1, <2>2
<1> QED  BY <1>1, <1>3, <1>5, <1>6, RowsStay DEF FinIInv

\* A request that ends and has changed nothing.
LEMMA FinEndsKeeps ==
    ASSUME FinIInv, desk = "finance", desk' = desk, NEW s \in Slots, Fin!Done(s), UNCHANGED <<Fin!tables, imported>>
    PROVE  FinIInv'
<1>1. UNCHANGED <<bankTransactions, reconciled, named, created, ledger, imported, raced>>
  BY DEF Fin!tables, Fin!Done
<1>2. FinHandlers'
  BY <1>1, FinEnds
<1>3. FinTables' /\ OnlyNamed'
  BY <1>1 DEF FinIInv, FinTables, OnlyNamed
<1> QED  BY <1>1, <1>2, <1>3, RowsStay DEF FinIInv

LEMMA ConfirmReconciliationKeeps ==
    ASSUME FinIInv, desk = "finance", desk' = desk, NEW org \in Orgs, NEW tx \in bankTransactions,
           Fin!ConfirmReconciliation(org, tx)
    PROVE  FinIInv'
<1>1. /\ reconciled' = reconciled \cup {tx} /\ requests < FinRequests /\ requests' = requests + 1
      /\ UNCHANGED <<bankTransactions, named, created, ledger, pc, job, imported, raced>>
  BY DEF Fin!ConfirmReconciliation, Fin!Counted
<1>2. FinTables' /\ OnlyNamed' /\ KeysOnce' /\ Fin!ImportedIsOnFile'
  BY <1>1, RowsStay DEF FinIInv, FinTables, OnlyNamed
<1>3. requests' \in 0..FinRequests
  BY <1>1, BoundsAssumption DEF FinIInv, FinHandlers
<1>4. FinHandlers'
  BY <1>1, <1>3 DEF FinIInv, FinHandlers, FinRequestIsDue, FinApart, ImportIsDue, KnowsAll, NameIsNew,
                    StatementIsDue, KeyOnFile
<1> QED  BY <1>2, <1>4 DEF FinIInv

LEMMA RecordTransactionKeeps ==
    ASSUME FinIInv, desk = "finance", desk' = desk, NEW month \in Fin!Months1, NEW amount \in Entries,
           Fin!RecordTransaction(month, amount)
    PROVE  FinIInv'
<1>1. /\ ledger' = [ledger EXCEPT ![month] = Append(@, amount)] /\ requests < FinRequests /\ requests' = requests + 1
      /\ UNCHANGED <<bankTransactions, reconciled, named, created, pc, job, imported, raced>>
  BY DEF Fin!RecordTransaction, Fin!Counted
<1>2. ledger \in [Fin!Months1 -> Seq(Entries)] /\ raced \in BOOLEAN
  BY DEF FinIInv, FinTables
<1>3. ledger[month] \in Seq(Entries) /\ Append(ledger[month], amount) \in Seq(Entries)
  BY <1>2
<1>4. ledger' \in [Fin!Months1 -> Seq(Entries)]
  BY <1>1, <1>2, <1>3
<1>5. ASSUME NEW m \in Fin!Months1
      PROVE  Fin!IsPrefix(ledger[m], ledger'[m])
  <2>1. ledger[m] \in Seq(Entries) /\ ledger'[m] \in Seq(Entries)
    BY <1>2, <1>4
  <2>2. ledger'[m] = IF m = month THEN Append(ledger[month], amount) ELSE ledger[m]
    BY <1>1, <1>2
  <2>3. Len(ledger[m]) <= Len(ledger'[m]) /\ \A i \in 1..Len(ledger[m]) : ledger[m][i] = ledger'[m][i]
    BY <2>1, <2>2
  <2> QED  BY <2>1, <2>3, PrefixIs
<1>6. FinTables' /\ OnlyNamed' /\ KeysOnce' /\ Fin!ImportedIsOnFile'
  BY <1>1, <1>4, RowsStay DEF FinIInv, FinTables, OnlyNamed
<1>7. \A q \in Slots : FinRequestIsDue(q)'
  BY <1>1, <1>2, <1>4, <1>5, FinOthers
<1>8. requests' \in 0..FinRequests
  BY <1>1, BoundsAssumption DEF FinIInv, FinHandlers
<1>9. FinHandlers'
  BY <1>1, <1>7, <1>8 DEF FinIInv, FinHandlers, FinApart
<1> QED  BY <1>6, <1>9 DEF FinIInv

LEMMA YearlyStatementKeeps ==
    ASSUME FinIInv, desk = "finance", desk' = desk, NEW s \in Slots, Fin!YearlyStatement(s)
    PROVE  FinIInv'
<1> DEFINE j == [kind |-> "yearly", before |-> ledger, rows |-> <<>>, all |-> <<>>]
<1>1. /\ FinTables /\ FinHandlers /\ s \in DOMAIN pc /\ s \in DOMAIN job /\ raced \in BOOLEAN
      /\ ledger \in [Fin!Months1 -> Seq(Entries)]
  BY DEF FinIInv, FinHandlers, FinTables
<1>2. Fin!Begin(s, "read", j)
  BY DEF Fin!YearlyStatement
<1>3. j \in YearlyJob /\ j \in FinJob
  <2>1. <<>> \in Seq(Seq(Entries)) /\ <<>> \in Seq(Entries)
    OBVIOUS
  <2> QED  BY <1>1, <2>1 DEF YearlyJob, FinJob
<1>4. /\ job'[s] = j /\ pc'[s] = "read" /\ ledger' = ledger
      /\ raced' = (raced \/ \E q \in Slots : job[q].kind = j.kind)
  BY <1>1, <1>2 DEF Fin!Begin, Fin!tables
<1>5. raced' \in BOOLEAN /\ (raced => raced')
  BY <1>1, <1>4, Zenon
<1>6. StatementIsDue(s)'
  <2>1. Len(j.rows) <= Months /\ DOMAIN j.rows = {} /\ j.rows = <<>> /\ j.all = <<>> /\ j.before = ledger
    BY FinSetting
  <2>2. Net(<<>>) = SumOver([m \in DOMAIN j.rows |-> Net(j.rows[m])], DOMAIN j.rows)
    <3>1. <<>> \in Seq(Int) /\ DOMAIN <<>> = {}
      OBVIOUS
    <3>2. Net(<<>>) = 0
      BY <3>1, NetIsSum, SumEmpty
    <3> QED  BY <2>1, <3>2, SumEmpty
  <2>3. \A m \in Fin!Months1 : Fin!IsPrefix(ledger[m], ledger[m])
    <3> SUFFICES ASSUME NEW m \in Fin!Months1
                 PROVE  Fin!IsPrefix(ledger[m], ledger[m])
      OBVIOUS
    <3>1. ledger[m] \in Seq(Entries) /\ Len(ledger[m]) \in Nat
      BY <1>1
    <3> QED  BY <3>1, PrefixIs
  <2> HIDE DEF j
  <2> QED  BY <1>4, <2>1, <2>2, <2>3 DEF StatementIsDue
<1>7. FinRequestIsDue(s)'
  BY <1>3, <1>4, <1>6, FinKinds DEF FinRequestIsDue
<1>8. FinHandlers' /\ UNCHANGED <<bankTransactions, reconciled, named, created, ledger, imported>>
  BY <1>2, <1>3, <1>7, FinBegins
<1>9. FinTables' /\ OnlyNamed'
  BY <1>5, <1>8 DEF FinIInv, FinTables, OnlyNamed
<1> QED  BY <1>1, <1>5, <1>8, <1>9, RowsStay DEF FinIInv

LEMMA ListMonthKeeps ==
    ASSUME FinIInv, desk = "finance", desk' = desk, NEW s \in Slots, Fin!ListMonth(s)
    PROVE  FinIInv'
<1> DEFINE rows1 == job[s].rows
           month == Len(rows1) + 1
           read == ledger[month]
           rows2 == Append(rows1, read)
           all2 == job[s].all \o read
           j == [job[s] EXCEPT !.rows = rows2, !.all = all2]
           before == job[s].before
<1>1. /\ FinTables /\ FinHandlers /\ s \in DOMAIN pc /\ s \in DOMAIN job /\ raced \in BOOLEAN
      /\ requests \in 0..FinRequests /\ FinRequestIsDue(s) /\ ledger \in [Fin!Months1 -> Seq(Entries)]
  BY DEF FinIInv, FinHandlers, FinTables
<1>2. /\ pc[s] = "read" /\ job[s].kind = "yearly" /\ month \in Fin!Months1
      /\ job' = [job EXCEPT ![s] = j] /\ pc' = pc
      /\ UNCHANGED <<bankTransactions, reconciled, named, created, ledger, requests, imported, raced>>
  BY DEF Fin!ListMonth, Fin!At, Fin!tables
<1>3. job[s] \in YearlyJob /\ StatementIsDue(s)
  BY <1>1, <1>2 DEF FinRequestIsDue
<1>4. /\ rows1 \in Seq(Seq(Entries)) /\ job[s].all \in Seq(Entries) /\ read \in Seq(Entries)
      /\ before \in [Fin!Months1 -> Seq(Entries)]
  BY <1>1, <1>2, <1>3 DEF YearlyJob
<1>5. /\ rows2 \in Seq(Seq(Entries)) /\ all2 \in Seq(Entries)
      /\ Len(rows1) \in Nat /\ DOMAIN rows1 = 1..Len(rows1) /\ Len(rows2) = month
      /\ DOMAIN rows2 = DOMAIN rows1 \cup {month} /\ month \notin DOMAIN rows1
      /\ rows2[month] = read /\ \A m \in DOMAIN rows1 : rows2[m] = rows1[m] /\ rows1[m] \in Seq(Entries)
  <2> HIDE DEF read
  <2> QED  BY <1>4
<1>6. /\ Len(rows1) <= Months /\ (\A m \in Fin!Months1 : Fin!IsPrefix(before[m], ledger[m]))
      /\ (\A m \in DOMAIN rows1 : Fin!IsPrefix(before[m], rows1[m]) /\ Fin!IsPrefix(rows1[m], ledger[m]))
      /\ Net(job[s].all) = SumOver([m \in DOMAIN rows1 |-> Net(rows1[m])], DOMAIN rows1)
  BY <1>3 DEF StatementIsDue
<1>7. month <= Months
  BY <1>2, FinSetting DEF Fin!Months1
<1>8. ASSUME NEW m \in DOMAIN rows2
      PROVE  Fin!IsPrefix(before[m], rows2[m]) /\ Fin!IsPrefix(rows2[m], ledger[m])
  <2>1. CASE m \in DOMAIN rows1
    BY <1>5, <1>6, <2>1
  <2>2. CASE m = month
    <3>1. Fin!IsPrefix(before[month], read)
      BY <1>2, <1>6
    <3>2. Fin!IsPrefix(read, read)
      <4>1. Len(read) \in Nat
        BY <1>4
      <4> QED  BY <1>4, <4>1, PrefixIs
    <3> QED  BY <1>5, <2>2, <3>1, <3>2
  <2> QED  BY <1>5, <2>1, <2>2
<1>9. Net(all2) = SumOver([m \in DOMAIN rows2 |-> Net(rows2[m])], DOMAIN rows2)
  <2> DEFINE f == [m \in DOMAIN rows1 |-> Net(rows1[m])]
             g == [m \in DOMAIN rows2 |-> Net(rows2[m])]
  <2>1. Net(all2) = Net(job[s].all) + Net(read)
    <3>1. job[s].all \in Seq(Int) /\ read \in Seq(Int)
      BY <1>4, FinSetting
    <3> QED  BY <3>1, NetOfBoth
  <2>2. \A m \in DOMAIN rows2 : g[m] = Net(rows2[m]) /\ g[m] \in Int
    <3> SUFFICES ASSUME NEW m \in DOMAIN rows2
                 PROVE  Net(rows2[m]) \in Int
      OBVIOUS
    <3>1. rows2[m] \in Seq(Entries)
      BY <1>4, <1>5
    <3>2. rows2[m] \in Seq(Int)
      BY <3>1, FinSetting
    <3> QED  BY <3>2, NetIsSum
  <2>3. IsFiniteSet(DOMAIN rows1)
    BY <1>5, FS_Interval
  <2>4. \A m \in DOMAIN rows1 : f[m] = g[m]
    BY <1>5
  <2> HIDE DEF f, g
  <2>5. IntOn(g, DOMAIN rows1 \cup {month})
    BY <1>5, <2>2 DEF IntOn
  <2>6. SumOver(g, DOMAIN rows2) = g[month] + SumOver(g, DOMAIN rows1)
    <3>1. SumOver(g, DOMAIN rows1 \cup {month}) = g[month] + SumOver(g, DOMAIN rows1)
      <4>1. month \notin DOMAIN rows1
        BY <1>5
      <4> HIDE DEF month, rows1
      <4> QED  BY <2>3, <2>5, <4>1, SumAdd
    <3> QED  BY <1>5, <3>1
  <2>7. SumOver(g, DOMAIN rows1) = SumOver(f, DOMAIN rows1)
    BY <2>3, <2>4, SumCongruent
  <2>8. g[month] = Net(read) /\ Net(read) \in Int /\ SumOver(f, DOMAIN rows1) \in Int
    <3>1. IntOn(g, DOMAIN rows1)
      BY <2>5 DEF IntOn
    <3>2. SumOver(g, DOMAIN rows1) \in Int
      BY <2>3, <3>1, SumType
    <3> QED  BY <1>5, <2>2, <2>7, <3>2
  <2>9. Net(job[s].all) = SumOver(f, DOMAIN rows1)
    BY <1>6 DEF f
  <2>10. Net(all2) = SumOver(g, DOMAIN rows2)
    BY <2>1, <2>6, <2>7, <2>8, <2>9
  <2> QED  BY <2>10 DEF g
<1> HIDE DEF rows2, all2, read
<1>10. j \in YearlyJob /\ j.rows = rows2 /\ j.all = all2 /\ j.before = before /\ j.kind = "yearly"
  BY <1>3, <1>5 DEF YearlyJob
<1> HIDE DEF j
<1>11. FinRequestIsDue(s)'
  <2>1. job'[s] = j /\ pc'[s] = "read" /\ ledger' = ledger
    BY <1>1, <1>2
  <2>2. StatementIsDue(s)'
    BY <1>5, <1>6, <1>7, <1>8, <1>9, <1>10, <2>1 DEF StatementIsDue
  <2>3. j \in FinJob
    BY <1>10 DEF FinJob
  <2> QED  BY <1>10, <2>1, <2>2, <2>3, FinKinds DEF FinRequestIsDue
<1>12. FinHandlers'
  <2>1. pc' = [pc EXCEPT ![s] = "read"] /\ j \in FinJob
    <3>1. pc' = [pc EXCEPT ![s] = "read"]
      BY <1>1, <1>2 DEF FinHandlers
    <3> QED  BY <1>10, <3>1 DEF FinJob
  <2>2. ~raced => \A q \in Slots \ {s} : job[q].kind # "yearly"
    BY <1>1, <1>2 DEF FinHandlers, FinApart
  <2> QED  BY <1>1, <1>2, <1>10, <1>11, <2>1, <2>2, FinOneMoves
<1>13. FinTables' /\ OnlyNamed'
  BY <1>2 DEF FinIInv, FinTables, OnlyNamed
<1> QED  BY <1>1, <1>2, <1>12, <1>13, RowsStay DEF FinIInv

LEMMA FinStep ==
    ASSUME FinIInv, desk = "finance", desk' = desk, Fin!FinNext
    PROVE  FinIInv'
<1>1. ASSUME NEW org \in Orgs, NEW tx \in bankTransactions, Fin!ConfirmReconciliation(org, tx)
      PROVE  FinIInv'
  BY <1>1, ConfirmReconciliationKeeps
<1>2. ASSUME NEW m \in Fin!Months1, NEW a \in Entries, Fin!RecordTransaction(m, a)
      PROVE  FinIInv'
  BY <1>2, RecordTransactionKeeps
<1>3. ASSUME NEW s \in Slots, NEW org \in Orgs, NEW bank \in Banks, NEW file \in Files,
             Fin!ImportBank(s, org, bank, file)
      PROVE  FinIInv'
  BY <1>3, ImportBankKeeps
<1>4. ASSUME NEW s \in Slots, Fin!CreateRow(s) \/ Fin!QuarantineRow(s) \/ Fin!ImportCompleted(s)
      PROVE  FinIInv'
  BY <1>4, CreateRowKeeps, QuarantineRowKeeps, ImportCompletedKeeps
<1>5. ASSUME NEW s \in Slots, NEW code \in Codes, Fin!CreateNamed(s, code)
      PROVE  FinIInv'
  BY <1>5, CreateNamedKeeps
<1>6. ASSUME NEW s \in Slots, Fin!InsertNamed(s) \/ Fin!NamedCreated(s)
      PROVE  FinIInv'
  BY <1>6, InsertNamedKeeps, NamedCreatedKeeps
<1>7. ASSUME NEW s \in Slots, Fin!YearlyStatement(s) \/ Fin!ListMonth(s)
      PROVE  FinIInv'
  BY <1>7, YearlyStatementKeeps, ListMonthKeeps
<1>8. ASSUME NEW s \in Slots, Fin!AnswerStatement(s) \/ Fin!Abort(s)
      PROVE  FinIInv'
  BY <1>8, FinEndsKeeps DEF Fin!AnswerStatement, Fin!Abort
<1> QED
  BY <1>1, <1>2, <1>3, <1>4, <1>5, <1>6, <1>7, <1>8, Zenon DEF Fin!FinNext

\* An import that completed has each of its rows on file, once for an organization unless
\* imports overlap; a name is reported as created once; and a yearly statement shows of every
\* month what there was when it began, and adds up to what its months add up to.
THEOREM ImportIsExactAlways == Spec => []ImportIsExact
<1>1. FinIInv /\ [Next]_vars => FinIInv'
  <2>1. [Next]_vars => desk' = desk
    BY DEF Next, vars
  <2> QED  BY <2>1, FinElsewhere, FinStep
<1>2. ASSUME FinIInv
      PROVE  ImportIsExact
  <2>1. Fin!OnFileOnce
    BY <1>2 DEF FinIInv, KeysOnce, OnlyNamed, Fin!OnFileOnce
  <2>2. ASSUME desk = "finance"
        PROVE  Fin!StatementAddsUp
    <3> SUFFICES ASSUME NEW s \in Slots, job[s].kind = "yearly"
                 PROVE  LET rows1 == job[s].rows
                            nets == [m \in DOMAIN rows1 |-> Fin!Summarize(rows1[m]).net] IN
                        /\ \A m \in DOMAIN rows1 : Fin!IsPrefix(job[s].before[m], rows1[m])
                                                   /\ Fin!IsPrefix(rows1[m], ledger[m])
                        /\ Fin!Summarize(job[s].all).net = Fin!Sum(nets, DOMAIN rows1)
      BY Zenon DEF Fin!StatementAddsUp
    <3>1. StatementIsDue(s)
      BY <1>2, <2>2, FinKinds DEF FinIInv, FinHandlers, FinRequestIsDue
    <3> QED  BY <3>1, FinSum, Zenon DEF StatementIsDue, Net
  <2> QED  BY <1>2, <2>1, <2>2 DEF FinIInv, ImportIsExact
<1> QED  BY FinInitially, <1>1, <1>2, PTL DEF Spec

-----------------------------------------------------------------------------
(***************************************************************************)
(* Types of what the inductive invariants leave open, while the component  *)
(* moves.                                                                  *)
(***************************************************************************)
GovTyped ==
    desk = "governance" =>
        /\ decisions \subseteq Gov!Majorities /\ requests \in 0..GovRequests

OpsJobTyped(s) ==
    /\ job[s].kind = "rule" => job[s].last \in Nat
    /\ job[s].kind = "handover" => job[s].org \in Orgs

OpsTyped ==
    desk = "operations" =>
        /\ suppliers \subseteq Orgs
        /\ \A r \in rows : r.table \in Ops!Tables /\ r.org \in Orgs
        /\ rules \in Seq(Nat \ {0}) /\ requests \in 0..OpsRequests
        /\ \A s \in Slots : OpsJobTyped(s)

UtilTyped ==
    desk = "meters" =>
        /\ settled \subseteq BilledPeriods /\ reminders \subseteq Util!Reminders
        /\ pc \in [Slots -> {"idle", "flag", "create", "charge", "remind"}]
        /\ requests \in 0..UtilRequests
        /\ \A s \in Slots : pc[s] = "remind" => job[s].event \in Util!Reminders

\* Who is to be bound to the property is on file.
Bound(places) == {s \in Slots : places[s] = "bind"}

PropTyped ==
    desk = "properties" =>
        /\ units \subseteq Prop!UnitCodes /\ configured \subseteq units \cup {Prop!Property}
        /\ ownerships \in Seq(Shares)
        /\ \A i \in DOMAIN tenancies :
               /\ tenancies[i].unit \in units \cup {Prop!NoUnit}
               /\ tenancies[i].from \in 0..Open /\ tenancies[i].to \in 0..Open
        /\ people \in Nat /\ IsFiniteSet(Bound(pc)) /\ Cardinality(Bound(pc)) <= people
        /\ attachments \subseteq 1..requests
        /\ pc \in [Slots -> {"idle", "create", "bind", "read", "delete"}]
        /\ requests \in 0..PropRequests
        /\ \A s \in Slots : job[s].kind = "tenant" => job[s].unit \in units \cup {Prop!NoUnit}

OfficeTyped == GovTyped /\ OpsTyped /\ UtilTyped /\ PropTyped

LEMMA TypedInitially == Init => OfficeTyped
<1> SUFFICES ASSUME Init
             PROVE  OfficeTyped
  OBVIOUS
<1>1. GovTyped
  BY BoundsAssumption DEF Init, Gov!GovInit, GovTyped
<1>2. OpsTyped
  <2>1. requests \in 0..OpsRequests
    BY BoundsAssumption DEF Init, Ops!OpsInit
  <2>2. /\ suppliers = {} /\ rows = {} /\ rules = <<>> /\ job = [s \in Slots |-> [kind |-> "none"]]
    BY DEF Init, Ops!OpsInit, Ops!Idle
  <2> QED  BY <2>1, <2>2 DEF OpsTyped, OpsJobTyped
<1>3. UtilTyped
  <2>1. requests \in 0..UtilRequests
    BY BoundsAssumption DEF Init, Util!UtilInit
  <2> QED  BY <2>1 DEF Init, Util!UtilInit, UtilTyped
<1>4. PropTyped
  <2>1. requests \in 0..PropRequests
    BY BoundsAssumption DEF Init, Prop!PropInit
  <2>2. /\ units = {} /\ ownerships = <<>> /\ tenancies = <<>> /\ people = 0 /\ attachments = {}
        /\ configured = {} /\ pc = [s \in Slots |-> "idle"] /\ job = [s \in Slots |-> [kind |-> "none"]]
    BY DEF Init, Prop!PropInit, Prop!Idle
  <2>3. IsFiniteSet(Bound(pc)) /\ Cardinality(Bound(pc)) = 0
    <3>1. Bound(pc) = {}
      BY <2>2 DEF Bound
    <3> QED  BY <3>1, FS_EmptySet
  <2>4. ownerships \in Seq(Shares)
    BY <2>2
  <2> QED  BY <2>1, <2>2, <2>3, <2>4 DEF PropTyped
<1> QED  BY <1>1, <1>2, <1>3, <1>4 DEF OfficeTyped

LEMMA GovTypedKeeps ==
    ASSUME GovTyped, [Next]_vars
    PROVE  GovTyped'
<1>1. CASE desk = "governance" /\ Gov!GovNext
  <2>1. desk' = desk /\ GovRequests \in Nat
    BY BoundsAssumption DEF Next, vars
  <2>2. decisions \subseteq Gov!Majorities /\ requests \in 0..GovRequests
    BY <1>1 DEF GovTyped
  <2>3. requests' = requests \/ (requests < GovRequests /\ requests' = requests + 1)
    BY <1>1 DEF Gov!GovNext, Gov!AddOwner, Gov!CreateAssemblyAct, Gov!CreateDecision, Gov!ListVotes,
                Gov!RecordVote, Gov!DecisionResult, Gov!Answer, Gov!CreatePhCuota, Gov!BillPhCuota,
                Gov!CreateAdHocCharge, Gov!Counted
  <2>4. decisions' = decisions \/ \E m \in Gov!Majorities : decisions' = decisions \cup {m}
    BY <1>1 DEF Gov!GovNext, Gov!AddOwner, Gov!CreateAssemblyAct, Gov!CreateDecision, Gov!ListVotes,
                Gov!RecordVote, Gov!DecisionResult, Gov!Answer, Gov!CreatePhCuota, Gov!BillPhCuota,
                Gov!CreateAdHocCharge, Gov!assembly, Gov!cuotas
  <2>6. requests' \in 0..GovRequests
    BY <2>1, <2>2, <2>3
  <2>7. decisions' \subseteq Gov!Majorities
    BY <2>2, <2>4
  <2> QED  BY <2>6, <2>7 DEF GovTyped
<1>2. CASE ~(desk = "governance" /\ Gov!GovNext)
  <2>1. desk' = desk /\ (desk = "governance" => UNCHANGED <<decisions, requests>>)
    BY <1>2 DEF Next, vars, assembly
  <2> QED  BY <2>1 DEF GovTyped
<1> QED  BY <1>1, <1>2

\* The next version of the house rules is a number.
LEMMA LastIsNumber ==
    ASSUME NEW list \in Seq(Nat \ {0})
    PROVE  Ops!Last(list) \in Nat
<1>1. CASE list = <<>>
  BY <1>1 DEF Ops!Last
<1>2. CASE list # <<>>
  <2> DEFINE n == Len(list)
             Bad == {k \in 1..n : ~ \E m \in 1..k : \A i \in 1..k : list[i] <= list[m]}
  <2>1. n \in Nat /\ DOMAIN list = 1..n /\ 1 \in 1..n /\ \A i \in 1..n : list[i] \in Nat
    BY <1>2
  <2> HIDE DEF n
  <2>2. Bad = {}
    <3> SUFFICES ASSUME Bad # {}
                 PROVE  FALSE
      OBVIOUS
    <3>1. Bad \subseteq Nat
      OBVIOUS
    <3> HIDE DEF Bad
    <3>2. PICK k \in Bad : \A l \in Bad : k <= l
      BY <3>1, SmallestNumber
    <3>3. k \in 1..n /\ ~ \E m \in 1..k : \A i \in 1..k : list[i] <= list[m]
      BY DEF Bad
    <3>4. k # 1
      <4>1. \A i \in 1..1 : list[i] <= list[1]
        BY <2>1
      <4> QED  BY <3>3, <4>1
    <3>5. k - 1 \in 1..n /\ k - 1 \notin Bad
      BY <2>1, <3>2, <3>3, <3>4
    <3>6. PICK m \in 1..(k - 1) : \A i \in 1..(k - 1) : list[i] <= list[m]
      BY <3>5 DEF Bad
    <3>7. /\ list[m] \in Nat /\ list[k] \in Nat /\ m \in 1..k /\ k \in 1..k
          /\ \A i \in 1..k : list[i] \in Nat /\ (i \in 1..(k - 1) \/ i = k)
      BY <2>1, <3>3, <3>5
    <3>8. CASE list[k] <= list[m]
      BY <3>3, <3>6, <3>7, <3>8
    <3>9. CASE list[m] <= list[k]
      <4>1. \A i \in 1..k : list[i] <= list[k]
        BY <3>6, <3>7, <3>9
      <4> QED  BY <3>3, <3>7, <4>1
    <3> QED  BY <3>7, <3>8, <3>9
  <2>3. PICK m \in 1..n : \A i \in 1..n : list[i] <= list[m]
    <3>1. n \in 1..n /\ n \notin Bad
      <4> HIDE DEF Bad
      <4> QED  BY <2>1, <2>2
    <3> QED  BY <3>1
  <2> DEFINE versions == {list[i] : i \in DOMAIN list}
  <2>4. list[m] \in versions /\ \A i \in DOMAIN list : list[i] <= list[m]
    BY <2>1, <2>3
  <2>5. Ops!Last(list) \in versions
    <3>1. Ops!Last(list) = CHOOSE v \in versions : \A i \in DOMAIN list : list[i] <= v
      BY <1>2 DEF Ops!Last
    <3> HIDE DEF versions
    <3> QED  BY <2>4, <3>1
  <2> QED  BY <2>1, <2>5
<1> QED  BY <1>1, <1>2

LEMMA OpsTypedKeeps ==
    ASSUME OpsIInv, OpsTyped, [Next]_vars
    PROVE  OpsTyped'
<1>1. CASE desk = "operations" /\ Ops!OpsNext
  <2> DEFINE IsRow(r) == r.table \in Ops!Tables /\ r.org \in Orgs
  <2>1. desk' = desk /\ OpsRequests \in Nat
    BY BoundsAssumption DEF Next, vars
  <2>2. /\ suppliers \subseteq Orgs /\ (\A r \in rows : IsRow(r)) /\ rules \in Seq(Nat \ {0})
        /\ requests \in 0..OpsRequests /\ (\A s \in Slots : OpsJobTyped(s))
        /\ job = [s \in Slots |-> job[s]]
    BY <1>1 DEF OpsTyped, OpsIInv, OpsHandlers
  <2> DEFINE Counts == requests' = requests \/ (requests < OpsRequests /\ requests' = requests + 1)
             Stays == UNCHANGED <<suppliers, rows, rules, job>>
             Kept == /\ suppliers' \subseteq Orgs /\ (\A r \in rows' : IsRow(r)) /\ rules' \in Seq(Nat \ {0})
                     /\ Counts /\ \A s \in Slots : OpsJobTyped(s)'
  <2>3. ASSUME NEW org \in Orgs, NEW p \in Orgs, NEW t \in Ops!Tickets, Ops!CreateTicket(t, org, p)
        PROVE  Kept
    <3>1. /\ rows' = rows \cup {Ops!Row(t, org, p, NoOne)} /\ UNCHANGED <<suppliers, rules, job>> /\ Counts
      BY <2>3 DEF Ops!CreateTicket, Ops!OneWrite, Ops!Counted
    <3>2. IsRow(Ops!Row(t, org, p, NoOne))
      BY DEF Ops!Row, Ops!Tables
    <3> HIDE DEF IsRow
    <3> QED  BY <2>2, <3>1, <3>2 DEF OpsJobTyped
  <2>4. ASSUME NEW org \in Orgs, NEW x,
               \/ Ops!CreateWorkOrder(org, x) \/ Ops!AssignSupplierToWorkOrder(org, x)
               \/ \E to \in Ops!RequestStatus : Ops!TransitionWorkOrder(org, to)
        PROVE  Kept
    <3>1. Stays /\ Counts
      BY <2>4 DEF Ops!CreateWorkOrder, Ops!AssignSupplierToWorkOrder, Ops!TransitionWorkOrder,
                  Ops!OneWrite, Ops!Counted
    <3> QED  BY <2>2, <3>1 DEF OpsJobTyped
  <2>5. ASSUME NEW org \in Orgs, NEW x, NEW p,
               Ops!CreateInsurance(org, x) \/ Ops!CreatePurchase(org, p, x) \/ Ops!CreateTaxRecord(org)
        PROVE  Kept
    <3>1. PICK row \in {Ops!Row("insurance", org, x, NoOne), Ops!Row("purchase", org, p, x),
                        Ops!Row("taxRecord", org, NoOne, NoOne)} : Ops!Enter(row)
      BY <2>5 DEF Ops!CreateInsurance, Ops!CreatePurchase, Ops!CreateTaxRecord
    <3>2. rows' = rows \cup {row} /\ UNCHANGED <<suppliers, rules, job>> /\ Counts
      BY <3>1 DEF Ops!Enter, Ops!OneWrite, Ops!Counted
    <3>3. IsRow(row)
      BY <3>1 DEF Ops!Row, Ops!Tables
    <3> HIDE DEF IsRow
    <3> QED  BY <2>2, <3>2, <3>3 DEF OpsJobTyped
  <2>6. ASSUME NEW org \in Orgs, Ops!CreateSupplier(org)
        PROVE  Kept
    <3>1. suppliers' = suppliers \cup {org} /\ UNCHANGED <<rows, rules, job>> /\ Counts
      BY <2>6 DEF Ops!CreateSupplier, Ops!OneWrite, Ops!Counted
    <3> QED  BY <2>2, <3>1 DEF OpsJobTyped
  <2>7. ASSUME NEW s \in Slots, NEW step, NEW j, Ops!Begin(s, step, j),
               j.kind = "rule" => j.last \in Nat, j.kind = "handover" => j.org \in Orgs
        PROVE  Kept
    <3>1. job' = [job EXCEPT ![s] = j] /\ UNCHANGED <<suppliers, rows, rules>> /\ Counts
      BY <2>7 DEF Ops!Begin, Ops!Counted, Ops!tables
    <3>2. job'[s] = j /\ \A q \in Slots \ {s} : job'[q] = job[q]
      BY <2>2, <3>1
    <3>3. \A q \in Slots : OpsJobTyped(q)'
      BY <2>2, <2>7, <3>2 DEF OpsJobTyped
    <3> QED  BY <2>2, <3>1, <3>3
  <2>8. ASSUME NEW s \in Slots, Ops!Done(s), UNCHANGED suppliers,
               \A r \in rows' : IsRow(r), rules' \in Seq(Nat \ {0})
        PROVE  Kept
    <3>1. job' = [job EXCEPT ![s] = Ops!Idle] /\ requests' = requests
      BY <2>8 DEF Ops!Done
    <3>2. job'[s].kind = "none" /\ \A q \in Slots \ {s} : job'[q] = job[q]
      BY <2>2, <3>1 DEF Ops!Idle
    <3>3. \A q \in Slots : OpsJobTyped(q)'
      BY <2>2, <3>2 DEF OpsJobTyped
    <3> QED  BY <2>2, <2>8, <3>1, <3>3
  <2>9. ASSUME NEW s \in Slots, NEW to, NEW t, Ops!TransitionRequest(s, to) \/ Ops!TransitionCase(s, t, to)
        PROVE  Kept
    <3>1. \E j : j.kind = "transition" /\ Ops!Begin(s, "write", j)
      BY <2>9 DEF Ops!TransitionRequest, Ops!TransitionCase
    <3> HIDE DEF Kept
    <3> QED  BY <2>7, <3>1
  <2>10. ASSUME NEW s \in Slots, Ops!FindLastRule(s)
         PROVE  Kept
    <3>1. Ops!Begin(s, "write", [kind |-> "rule", last |-> Ops!Last(rules)]) /\ Ops!Last(rules) \in Nat
      BY <2>2, <2>10, LastIsNumber DEF Ops!FindLastRule
    <3> HIDE DEF Kept
    <3> QED  BY <2>7, <3>1
  <2>11. ASSUME NEW s \in Slots, NEW org \in Orgs, NEW p, Ops!RecordHandover(s, org, p)
         PROVE  Kept
    <3>1. Ops!Begin(s, "act", [kind |-> "handover", org |-> org])
      BY <2>11 DEF Ops!RecordHandover
    <3> HIDE DEF Kept
    <3> QED  BY <2>7, <3>1
  <2>12. ASSUME NEW s \in Slots, Ops!SetStatus(s) \/ Ops!Abort(s)
         PROVE  Kept
    <3>1. Ops!Done(s) /\ UNCHANGED <<suppliers, rows, rules>>
      BY <2>12 DEF Ops!SetStatus, Ops!Abort, Ops!tables
    <3> HIDE DEF Kept, IsRow
    <3> QED  BY <2>2, <2>8, <3>1
  <2>13. ASSUME NEW s \in Slots, Ops!CreateHouseRule(s)
         PROVE  Kept
    <3>1. /\ Ops!Done(s) /\ UNCHANGED <<suppliers, rows>> /\ rules' = Append(rules, job[s].last + 1)
          /\ job[s].last \in Nat
      BY <2>2, <2>13 DEF Ops!CreateHouseRule, Ops!At, OpsJobTyped
    <3>2. rules' \in Seq(Nat \ {0})
      <4>1. job[s].last + 1 \in Nat \ {0}
        BY <3>1
      <4> QED  BY <2>2, <3>1, <4>1
    <3> HIDE DEF Kept, IsRow
    <3> QED  BY <2>2, <2>8, <3>1, <3>2
  <2>14. ASSUME NEW s \in Slots, Ops!CreateAct(s)
         PROVE  Kept
    <3>1. Stays /\ requests' = requests
      BY <2>14 DEF Ops!CreateAct
    <3> QED  BY <2>2, <3>1 DEF OpsJobTyped
  <2>15. ASSUME NEW s \in Slots, Ops!CreateHandover(s)
         PROVE  Kept
    <3>1. /\ Ops!Done(s) /\ UNCHANGED <<suppliers, rules>> /\ job[s].org \in Orgs
          /\ rows' = rows \cup {Ops!Row("handover", job[s].org, job[s].org, NoOne)}
      BY <2>2, <2>15 DEF Ops!CreateHandover, Ops!At, OpsJobTyped
    <3>2. IsRow(Ops!Row("handover", job[s].org, job[s].org, NoOne))
      BY <3>1 DEF Ops!Row, Ops!Tables
    <3> HIDE DEF Kept, IsRow
    <3> QED  BY <2>2, <2>8, <3>1, <3>2
  <2> HIDE DEF Kept
  <2>16. {"request", "complaint", "claim"} = Ops!Tickets
    BY DEF Ops!Tickets
  <2>17. Kept
    BY <1>1, <2>3, <2>4, <2>5, <2>6, <2>9, <2>10, <2>11, <2>12, <2>13, <2>14, <2>15, <2>16
       DEF Ops!OpsNext, Ops!CreateRequest, Ops!CreateComplaint, Ops!CreateClaim
  <2>18. requests' \in 0..OpsRequests
    BY <2>1, <2>2, <2>17 DEF Kept
  <2> QED  BY <2>17, <2>18 DEF Kept, OpsTyped
<1>2. CASE ~(desk = "operations" /\ Ops!OpsNext)
  <2>1. desk' = desk /\ (desk = "operations" => UNCHANGED <<suppliers, rows, rules, requests, job>>)
    BY <1>2 DEF Next, vars, operations
  <2> QED  BY <2>1 DEF OpsTyped, OpsJobTyped
<1> QED  BY <1>1, <1>2

\* A stage of dunning is one of four, or none.
LEMMA StageIs == \A d : Util!DunningStageFor(d) \in {3, 7, 15, 30, Util!NoStage}
<1> SUFFICES ASSUME NEW d
             PROVE  Util!DunningStageFor(d) \in {3, 7, 15, 30, Util!NoStage}
  OBVIOUS
<1> DEFINE due == {stage \in {3, 7, 15, 30} : d >= stage}
<1>1. CASE due = {}
  BY <1>1, Zenon DEF Util!DunningStageFor
<1>2. CASE due # {}
  <2>1. \E m \in due : \A y \in due : m >= y
    BY <1>2
  <2>2. Util!Max(due) \in due
    <3> HIDE DEF due
    <3> QED  BY <2>1 DEF Util!Max
  <2>3. Util!DunningStageFor(d) = Util!Max(due)
    BY <1>2, Zenon DEF Util!DunningStageFor
  <2> QED  BY <2>2, <2>3
<1> QED  BY <1>1, <1>2

LEMMA UtilTypedKeeps ==
    ASSUME UtilIInv, UtilTyped, [Next]_vars
    PROVE  UtilTyped'
<1>1. CASE desk = "meters" /\ Util!UtilNext
  <2> DEFINE Places == {"idle", "flag", "create", "charge", "remind"}
             Counts == requests' = requests \/ (requests < UtilRequests /\ requests' = requests + 1)
             EventsFit == \A s \in Slots : pc'[s] = "remind" => job'[s].event \in Util!Reminders
             Kept == /\ settled' \subseteq BilledPeriods /\ reminders' \subseteq Util!Reminders
                     /\ pc' \in [Slots -> Places] /\ Counts /\ EventsFit
  <2>1. desk' = desk /\ UtilRequests \in Nat
    BY BoundsAssumption DEF Next, vars
  <2>2. /\ settled \subseteq BilledPeriods /\ reminders \subseteq Util!Reminders
        /\ pc \in [Slots -> Places] /\ requests \in 0..UtilRequests
        /\ (\A s \in Slots : pc[s] = "remind" => job[s].event \in Util!Reminders)
        /\ job = [s \in Slots |-> job[s]]
    BY <1>1 DEF UtilTyped, UtilIInv
  <2>3. ASSUME NEW p \in BilledPeriods, Util!Settle(p)
        PROVE  Kept
    BY <2>2, <2>3 DEF Util!Settle
  <2>3a. ASSUME NEW p \in BilledPeriods, Util!EnterCharge(p)
         PROVE  Kept
    BY <2>2, <2>3a DEF Util!EnterCharge
  <2>4. ASSUME NEW s \in Slots, NEW step \in Places, pc' = [pc EXCEPT ![s] = step],
               settled' = settled, reminders' \subseteq Util!Reminders, Counts,
               \A q \in Slots \ {s} : job'[q] = job[q] \/ pc[q] # "remind",
               step = "remind" => job'[s].event \in Util!Reminders
        PROVE  Kept
    <3>1. pc' \in [Slots -> Places] /\ pc'[s] = step /\ \A q \in Slots \ {s} : pc'[q] = pc[q]
      BY <2>2, <2>4
    <3>2. EventsFit
      BY <2>2, <2>4, <3>1
    <3> QED  BY <2>2, <2>4, <3>1, <3>2
  <2>5. ASSUME NEW s \in Slots, NEW m \in Meters, NEW v \in Values, NEW d \in 0..MaxDate,
               Util!CheckDate(s, m, v, d)
        PROVE  Kept
    <3>1. /\ pc' = [pc EXCEPT ![s] = "flag"] /\ settled' = settled /\ reminders' = reminders /\ Counts
          /\ job' = [q \in Slots |->
                       IF q = s THEN [kind |-> "record", meter |-> m, value |-> v, date |-> d,
                                      anomaly |-> FALSE, raced |-> Util!Recording(m) # {}]
                       ELSE IF q \in Util!Recording(m) THEN [job[q] EXCEPT !.raced = TRUE] ELSE job[q]]
      BY <2>5, Zenon DEF Util!CheckDate, Util!Arrives, Util!Go, Util!billing
    <3>2. \A q \in Util!Recording(m) : pc[q] # "remind"
      BY <1>1 DEF UtilIInv, UtilRequestsDue, UtilRequestIsDue, Util!Recording
    <3>3. \A q \in Slots \ {s} : job'[q] = job[q] \/ pc[q] # "remind"
      BY <3>1, <3>2
    <3> HIDE DEF Kept
    <3> QED  BY <2>2, <2>4, <3>1, <3>3
  <2>6. ASSUME NEW s \in Slots, Util!FlagAnomaly(s)
        PROVE  Kept
    <3>1. /\ pc' = [pc EXCEPT ![s] = "create"] /\ settled' = settled /\ reminders' = reminders /\ Counts
          /\ \E a : job' = [job EXCEPT ![s].anomaly = a]
      BY <2>6 DEF Util!FlagAnomaly, Util!Go, Util!billing
    <3>2. \A q \in Slots \ {s} : job'[q] = job[q]
      BY <2>2, <3>1
    <3> HIDE DEF Kept
    <3> QED  BY <2>2, <2>4, <3>1, <3>2
  <2>7. ASSUME NEW s \in Slots, Util!CreateMeterReading(s) \/ Util!CreateCharge(s)
        PROVE  Kept
    <3>1. /\ pc' = [pc EXCEPT ![s] = "idle"] /\ settled' = settled /\ reminders' = reminders /\ Counts
          /\ job' = [job EXCEPT ![s] = Util!Idle]
      BY <2>7 DEF Util!CreateMeterReading, Util!CreateCharge, Util!Done, Util!Go, Util!billing
    <3>2. \A q \in Slots \ {s} : job'[q] = job[q]
      BY <2>2, <3>1
    <3> HIDE DEF Kept
    <3> QED  BY <2>2, <2>4, <3>1, <3>2
  <2>8. ASSUME NEW s \in Slots, NEW i, NEW p, NEW c, Util!ReadHistory(s, i, p, c)
        PROVE  Kept
    <3>1. /\ pc' = [pc EXCEPT ![s] = "charge"] /\ settled' = settled /\ reminders' = reminders /\ Counts
          /\ \E j : job' = [job EXCEPT ![s] = j]
      BY <2>8 DEF Util!ReadHistory, Util!Arrives, Util!Go, Util!billing
    <3>2. \A q \in Slots \ {s} : job'[q] = job[q]
      BY <2>2, <3>1
    <3> HIDE DEF Kept
    <3> QED  BY <2>2, <2>4, <3>1, <3>2
  <2>9. ASSUME NEW s \in Slots, NEW p \in BilledPeriods, NEW d \in Overdue, NEW ch \in Channels,
               Util!FindDunningEvent(s, p, d, ch)
        PROVE  Kept
    <3> DEFINE event == <<p, Util!DunningStageFor(d), ch>>
    <3>1. /\ pc' = [pc EXCEPT ![s] = "remind"] /\ settled' = settled /\ reminders' = reminders /\ Counts
          /\ job' = [job EXCEPT ![s] = [kind |-> "remind", event |-> event]]
          /\ Util!DunningStageFor(d) # Util!NoStage
      BY <2>9 DEF Util!FindDunningEvent, Util!Go, Util!billing
    <3>2. event \in Util!Reminders
      BY <3>1, StageIs DEF Util!Reminders
    <3>3. job'[s].event = event /\ \A q \in Slots \ {s} : job'[q] = job[q]
      BY <2>2, <3>1
    <3> HIDE DEF Kept, event
    <3> QED  BY <2>2, <2>4, <3>1, <3>2, <3>3
  <2>10. ASSUME NEW s \in Slots, Util!CreateDunningEvent(s)
         PROVE  Kept
    <3>1. /\ pc[s] = "remind" /\ pc' = [pc EXCEPT ![s] = "idle"] /\ settled' = settled /\ Counts
          /\ reminders' = reminders \cup {job[s].event} /\ job' = [job EXCEPT ![s] = Util!Idle]
      BY <2>10 DEF Util!CreateDunningEvent, Util!Done, Util!Go
    <3>2. reminders' \subseteq Util!Reminders /\ \A q \in Slots \ {s} : job'[q] = job[q]
      BY <2>2, <3>1
    <3> HIDE DEF Kept
    <3> QED  BY <2>2, <2>4, <3>1, <3>2
  <2> HIDE DEF Kept
  <2>11. Kept
    BY <1>1, <2>3, <2>5, <2>6, <2>7, <2>8, <2>9, <2>10, <2>3a DEF Util!UtilNext
  <2>12. requests' \in 0..UtilRequests
    BY <2>1, <2>2, <2>11 DEF Kept
  <2> QED  BY <2>11, <2>12 DEF Kept, UtilTyped
<1>2. CASE ~(desk = "meters" /\ Util!UtilNext)
  <2>1. desk' = desk /\ (desk = "meters" => UNCHANGED <<settled, reminders, pc, job, requests>>)
    BY <1>2 DEF Next, vars, meters
  <2> QED  BY <2>1 DEF UtilTyped
<1> QED  BY <1>1, <1>2

\* A day is cut from a time and stays within what times there are.
LEMMA MidnightStays == \A t \in 0..Open : Prop!Midnight(t) \in 0..Open
<1> SUFFICES ASSUME NEW t \in 0..Open
             PROVE  Prop!Midnight(t) \in 0..Open
  OBVIOUS
<1>1. Open \in Nat
  BY HomesAssumption DEF Prop!PropAssumption
<1>2. t \in Nat /\ t <= Open /\ t % 2 \in {0, 1} /\ t % 2 <= t
  BY <1>1
<1>3. t - (t % 2) \in 0..Open
  BY <1>1, <1>2
<1> QED  BY <1>3 DEF Prop!Midnight

LEMMA PropTypedKeeps ==
    ASSUME PropIInv, PropTyped, [Next]_vars
    PROVE  PropTyped'
<1>1. CASE desk = "properties" /\ Prop!PropNext
  <2> DEFINE Places == {"idle", "create", "bind", "read", "delete"}
             Counts == requests' = requests \/ (requests < PropRequests /\ requests' = requests + 1)
             IsTenancy(t) == /\ t.unit \in units' \cup {Prop!NoUnit}
                             /\ t.from \in 0..Open /\ t.to \in 0..Open
             TenantsFit == \A q \in Slots : job'[q].kind = "tenant" =>
                               job'[q].unit \in units' \cup {Prop!NoUnit}
             Tables == /\ units' \subseteq Prop!UnitCodes
                       /\ configured' \subseteq units' \cup {Prop!Property}
                       /\ ownerships' \in Seq(Shares)
                       /\ \A i \in DOMAIN tenancies' : IsTenancy(tenancies'[i])
                       /\ attachments' \subseteq 1..requests'
             PeopleFit == people' \in Nat /\ IsFiniteSet(Bound(pc')) /\ Cardinality(Bound(pc')) <= people'
             Kept == Tables /\ PeopleFit /\ pc' \in [Slots -> Places] /\ Counts /\ TenantsFit
  <2>1. desk' = desk /\ PropRequests \in Nat
    BY BoundsAssumption DEF Next, vars
  <2>2. /\ units \subseteq Prop!UnitCodes /\ configured \subseteq units \cup {Prop!Property}
        /\ ownerships \in Seq(Shares)
        /\ \A i \in DOMAIN tenancies :
               /\ tenancies[i].unit \in units \cup {Prop!NoUnit}
               /\ tenancies[i].from \in 0..Open /\ tenancies[i].to \in 0..Open
        /\ people \in Nat /\ IsFiniteSet(Bound(pc)) /\ Cardinality(Bound(pc)) <= people
        /\ attachments \subseteq 1..requests /\ requests \in 0..PropRequests
        /\ pc \in [Slots -> Places]
    BY <1>1 DEF PropTyped
  <2>3. /\ \A s \in Slots : job[s].kind = "tenant" => job[s].unit \in units \cup {Prop!NoUnit}
        /\ job = [s \in Slots |-> job[s]] /\ tenancies \in Seq(Tenancy) /\ Cardinality(Bound(pc)) \in Nat
    BY <1>1, <2>2, FS_CardinalityType DEF PropTyped, PropIInv, PropTables
  <2>4. ASSUME UNCHANGED <<units, ownerships, tenancies, configured>>, Counts,
               attachments' \subseteq attachments \cup {requests'} /\
                   (requests' = requests => attachments' \subseteq attachments)
        PROVE  Tables
    <3>1. attachments' \subseteq 1..requests'
      BY <2>2, <2>4
    <3> QED  BY <2>2, <2>4, <3>1
  \* One request goes on, and nobody is to be bound who was not, or who is on file.
  <2>5. ASSUME NEW s \in Slots, NEW step \in Places \ {"bind"}, pc' = [pc EXCEPT ![s] = step],
               pc[s] # "bind", people' = people
        PROVE  PeopleFit /\ pc' \in [Slots -> Places]
    <3>1. Bound(pc') = Bound(pc)
      BY <2>2, <2>5 DEF Bound
    <3> QED  BY <2>2, <2>5, <3>1
  <2>6. ASSUME NEW s \in Slots, pc[s] = "bind", pc' = [pc EXCEPT ![s] = "idle"],
               people' = people \/ people' = people - 1
        PROVE  PeopleFit /\ pc' \in [Slots -> Places]
    <3>1. Bound(pc') = Bound(pc) \ {s} /\ s \in Bound(pc)
      BY <2>2, <2>6 DEF Bound
    <3>2. /\ IsFiniteSet(Bound(pc')) /\ Cardinality(Bound(pc')) = Cardinality(Bound(pc)) - 1
          /\ Cardinality(Bound(pc')) \in Nat
      BY <2>2, <3>1, FS_RemoveElement, FS_CardinalityType
    <3>3. people' \in Nat /\ Cardinality(Bound(pc')) <= people'
      BY <2>2, <2>3, <2>6, <3>2
    <3> QED  BY <2>2, <2>6, <3>2, <3>3
  <2>7. ASSUME NEW s \in Slots, NEW j, job' = [job EXCEPT ![s] = j], j.kind # "tenant", units' = units
        PROVE  TenantsFit
    <3>1. job'[s] = j /\ \A q \in Slots \ {s} : job'[q] = job[q]
      BY <2>3, <2>7
    <3> QED  BY <2>3, <2>7, <3>1
  <2>8. Prop!Idle.kind # "tenant"
    BY DEF Prop!Idle
  <2> HIDE DEF Tables, PeopleFit, TenantsFit
  <2>9. ASSUME NEW l \in UnitLists, Prop!CreatePropertyWithUnits(l)
        PROVE  Kept
    <3>1. /\ units = {} /\ units' = Prop!ToSet(l)
          /\ UNCHANGED <<requests, ownerships, tenancies, people, attachments, configured, pc, job>>
      BY <2>9 DEF Prop!CreatePropertyWithUnits, Prop!Created
    <3>2. units' \subseteq Prop!UnitCodes
      BY <3>1, Zenon DEF Prop!UnitCodes
    <3> QED  BY <2>2, <2>3, <3>1, <3>2 DEF Tables, PeopleFit, TenantsFit
  <2>10. ASSUME NEW u, Prop!UpdateConfig(u)
         PROVE  Kept
    <3>1. /\ u \in units \cup {Prop!Property} /\ configured' = configured \cup {u} /\ Counts
          /\ UNCHANGED <<units, ownerships, tenancies, people, attachments, pc, job>>
      BY <2>10 DEF Prop!UpdateConfig, Prop!Counted
    <3>2. attachments' \subseteq 1..requests'
      BY <2>2, <3>1
    <3> QED  BY <2>2, <2>3, <3>1, <3>2 DEF Tables, PeopleFit, TenantsFit
  <2>11. ASSUME NEW u, Prop!AddAttachment(u)
         PROVE  Kept
    <3>1. /\ attachments' = attachments \cup {requests'} /\ Counts /\ requests' = requests + 1
          /\ UNCHANGED <<units, ownerships, tenancies, people, configured, pc, job>>
      BY <2>11 DEF Prop!AddAttachment, Prop!Counted
    <3>2. Tables
      BY <2>2, <2>4, <3>1
    <3> QED  BY <2>2, <2>3, <3>1, <3>2 DEF PeopleFit, TenantsFit
  <2>12. ASSUME NEW s \in Slots, NEW id, Prop!FindAttachment(s, id)
         PROVE  Kept
    <3>1. /\ pc[s] = "idle" /\ pc' = [pc EXCEPT ![s] = "delete"] /\ Counts
          /\ job' = [job EXCEPT ![s] = [kind |-> "attachment", id |-> id]]
          /\ UNCHANGED <<units, ownerships, tenancies, people, attachments, configured>>
      BY <2>12 DEF Prop!FindAttachment, Prop!Arrives, Prop!Counted, Prop!Go, Prop!tables
    <3>2. Tables
      BY <2>4, <3>1
    <3>3. PeopleFit /\ pc' \in [Slots -> Places]
      BY <2>5, <3>1
    <3>4. TenantsFit
      <4> DEFINE j == [kind |-> "attachment", id |-> id]
      <4>1. job' = [job EXCEPT ![s] = j] /\ units' = units
        BY <3>1
      <4>2. j.kind # "tenant"
        OBVIOUS
      <4> HIDE DEF j
      <4> QED  BY <2>7, <4>1, <4>2
    <3> QED  BY <3>1, <3>2, <3>3, <3>4
  <2>13. ASSUME NEW s \in Slots, Prop!DeleteAttachment(s)
         PROVE  Kept
    <3>1. /\ pc[s] = "delete" /\ pc' = [pc EXCEPT ![s] = "idle"] /\ requests' = requests
          /\ job' = [job EXCEPT ![s] = Prop!Idle] /\ attachments' = attachments \ {job[s].id}
          /\ UNCHANGED <<units, ownerships, tenancies, people, configured>>
      BY <2>13 DEF Prop!DeleteAttachment, Prop!Done, Prop!Go
    <3>2. Tables
      BY <2>4, <3>1
    <3>3. PeopleFit /\ pc' \in [Slots -> Places]
      BY <2>5, <3>1
    <3>4. TenantsFit
      BY <2>7, <2>8, <3>1
    <3> QED  BY <3>1, <3>2, <3>3, <3>4
  <2>14. ASSUME NEW s \in Slots, NEW pct \in Shares, Prop!AddOwnerWithShare(s, pct)
         PROVE  Kept
    <3>1. /\ pc[s] = "idle" /\ pc' = [pc EXCEPT ![s] = "create"] /\ Counts
          /\ job' = [job EXCEPT ![s] = [kind |-> "owner", share |-> pct]]
          /\ UNCHANGED <<units, ownerships, tenancies, people, attachments, configured>>
      BY <2>14 DEF Prop!AddOwnerWithShare, Prop!Arrives, Prop!Counted, Prop!Go, Prop!tables
    <3>2. Tables
      BY <2>4, <3>1
    <3>3. PeopleFit /\ pc' \in [Slots -> Places]
      BY <2>5, <3>1
    <3>4. TenantsFit
      <4> DEFINE j == [kind |-> "owner", share |-> pct]
      <4>1. job' = [job EXCEPT ![s] = j] /\ units' = units
        BY <3>1
      <4>2. j.kind # "tenant"
        OBVIOUS
      <4> HIDE DEF j
      <4> QED  BY <2>7, <4>1, <4>2
    <3> QED  BY <3>1, <3>2, <3>3, <3>4
  <2>15. ASSUME NEW s \in Slots, Prop!CreatePerson(s)
         PROVE  Kept
    <3>1. /\ pc[s] = "create" /\ pc' = [pc EXCEPT ![s] = "bind"] /\ people' = people + 1
          /\ UNCHANGED <<units, ownerships, tenancies, attachments, configured, job, requests>>
      BY <2>15 DEF Prop!CreatePerson, Prop!Go
    <3>2. Bound(pc') = Bound(pc) \cup {s} /\ s \notin Bound(pc) /\ pc' \in [Slots -> Places]
      BY <2>2, <3>1 DEF Bound
    <3>3. /\ IsFiniteSet(Bound(pc')) /\ Cardinality(Bound(pc')) = Cardinality(Bound(pc)) + 1
      BY <2>2, <3>2, FS_AddElement
    <3>4. PeopleFit
      BY <2>2, <2>3, <3>1, <3>3 DEF PeopleFit
    <3>5. Tables /\ TenantsFit
      BY <2>3, <2>4, <3>1 DEF TenantsFit
    <3> QED  BY <3>1, <3>2, <3>4, <3>5
  <2>16. ASSUME NEW s \in Slots, Prop!AssignOwnership(s)
         PROVE  Kept
    <3>1. /\ pc[s] = "bind" /\ job[s].kind = "owner" /\ pc' = [pc EXCEPT ![s] = "idle"]
          /\ people' = people - 1 /\ job' = [job EXCEPT ![s] = Prop!Idle]
          /\ ownerships' = Append(ownerships, job[s].share)
          /\ UNCHANGED <<units, tenancies, attachments, configured, requests>>
      BY <2>16 DEF Prop!AssignOwnership, Prop!Done, Prop!Go
    <3>2. job[s].share \in Shares
      BY <1>1, <3>1 DEF PropIInv, PropRequestsDue, PropRequestIsDue, OwnerJob
    <3>3. Tables
      BY <2>2, <3>1, <3>2 DEF Tables
    <3>4. PeopleFit /\ pc' \in [Slots -> Places]
      BY <2>6, <3>1
    <3>5. TenantsFit
      BY <2>7, <2>8, <3>1
    <3> QED  BY <3>1, <3>3, <3>4, <3>5
  <2>17. ASSUME NEW s \in Slots, Prop!CreateTenancy(s)
         PROVE  Kept
    <3> DEFINE p == job[s].period
               new == [unit |-> job[s].unit, from |-> Prop!Midnight(p.from), to |-> Prop!Midnight(p.to),
                       raced |-> job[s].raced,
                       timed |-> p.from # Prop!Midnight(p.from) \/ p.to # Prop!Midnight(p.to)]
    <3>1. /\ pc[s] = "bind" /\ job[s].kind = "tenant" /\ pc' = [pc EXCEPT ![s] = "idle"]
          /\ people' = people - 1 /\ job' = [job EXCEPT ![s] = Prop!Idle]
          /\ tenancies' = Append(tenancies, new)
          /\ UNCHANGED <<units, ownerships, attachments, configured, requests>>
      BY <2>17 DEF Prop!CreateTenancy, Prop!Done, Prop!Go
    <3>2. p \in Tenures
      BY <1>1, <3>1 DEF PropIInv, PropRequestsDue, PropRequestIsDue, TenantJob
    <3>3. p.from \in 0..Open /\ p.to \in 0..Open
      <4>1. Tenures \subseteq [from : 0..Open, to : 0..Open]
        BY HomesAssumption DEF Prop!PropAssumption
      <4> QED  BY <3>2, <4>1
    <3>4. IsTenancy(new)
      BY <2>3, <3>1, <3>3, MidnightStays
    <3> HIDE DEF new, IsTenancy
    <3>5. \A i \in DOMAIN tenancies' : tenancies'[i] = new \/ (i \in DOMAIN tenancies /\ tenancies'[i] = tenancies[i])
      <4> DEFINE old == tenancies
      <4>1. old \in Seq(Tenancy)
        BY <2>3
      <4>2. /\ \A i \in DOMAIN Append(old, new) : i = Len(old) + 1 \/ i \in DOMAIN old
            /\ Append(old, new)[Len(old) + 1] = new
            /\ \A i \in DOMAIN old : Append(old, new)[i] = old[i]
        <5> HIDE DEF old
        <5> QED  BY <4>1
      <4> QED  BY <3>1, <4>2
    <3>6. \A i \in DOMAIN tenancies' : IsTenancy(tenancies'[i])
      <4>1. \A i \in DOMAIN tenancies : IsTenancy(tenancies[i])
        BY <2>2, <3>1 DEF IsTenancy
      <4> QED  BY <3>4, <3>5, <4>1
    <3>7. Tables
      BY <2>2, <3>1, <3>6 DEF Tables
    <3>8. PeopleFit /\ pc' \in [Slots -> Places]
      BY <2>6, <3>1
    <3>9. TenantsFit
      BY <2>7, <2>8, <3>1
    <3> QED  BY <3>1, <3>7, <3>8, <3>9
  <2>18. ASSUME NEW s \in Slots, Prop!Abort(s)
         PROVE  Kept
    <3>1. /\ pc[s] \in {"create", "bind"} /\ pc' = [pc EXCEPT ![s] = "idle"]
          /\ job' = [job EXCEPT ![s] = Prop!Idle]
          /\ UNCHANGED <<units, ownerships, tenancies, people, attachments, configured, requests>>
      BY <2>18 DEF Prop!Abort, Prop!Done, Prop!Go, Prop!tables
    <3>2. Tables
      BY <2>4, <3>1
    <3>3. PeopleFit /\ pc' \in [Slots -> Places]
      BY <2>5, <2>6, <3>1
    <3>4. TenantsFit
      BY <2>7, <2>8, <3>1
    <3> QED  BY <3>1, <3>2, <3>3, <3>4
  <2>19. ASSUME NEW s \in Slots, NEW u, NEW p, Prop!AddTenantWithTenancy(s, u, p)
         PROVE  Kept
    <3> DEFINE others == {q \in Prop!Of("tenant") : job[q].unit = u}
    <3>1. /\ pc[s] = "idle" /\ pc' = [pc EXCEPT ![s] = "create"] /\ Counts
          /\ u \in units \cup {Prop!NoUnit}
          /\ job' = [q \in Slots |->
                       IF q = s THEN [kind |-> "tenant", unit |-> u, period |-> p, raced |-> others # {}]
                       ELSE IF q \in others THEN [job[q] EXCEPT !.raced = TRUE] ELSE job[q]]
          /\ UNCHANGED <<units, ownerships, tenancies, people, attachments, configured>>
      BY <2>19 DEF Prop!AddTenantWithTenancy, Prop!Arrives, Prop!Counted, Prop!Go, Prop!tables
    <3>2. Tables
      BY <2>4, <3>1
    <3>3. PeopleFit /\ pc' \in [Slots -> Places]
      BY <2>5, <3>1
    <3>4. \A q \in Slots \ {s} : /\ job'[q].kind = "tenant" => job[q].kind = "tenant"
                                 /\ job'[q].kind = "tenant" => job'[q].unit = job[q].unit
      <4> SUFFICES ASSUME NEW q \in Slots \ {s}, job'[q].kind = "tenant"
                   PROVE  job[q].kind = "tenant" /\ job'[q].unit = job[q].unit
        OBVIOUS
      <4>1. CASE q \in others
        <5>1. job[q].kind = "tenant"
          BY <4>1 DEF Prop!Of
        <5>2. job[q] \in TenantJob
          BY <1>1, <5>1 DEF PropIInv, PropRequestsDue, PropRequestIsDue
        <5>3. job'[q] = [job[q] EXCEPT !.raced = TRUE]
          BY <3>1, <4>1
        <5> QED  BY <5>1, <5>2, <5>3 DEF TenantJob
      <4>2. CASE q \notin others
        BY <3>1, <4>2
      <4> QED  BY <4>1, <4>2
    <3>5. job'[s].unit = u
      BY <3>1
    <3>6. TenantsFit
      BY <2>3, <3>1, <3>4, <3>5 DEF TenantsFit
    <3> QED  BY <3>1, <3>2, <3>3, <3>6
  <2>20. ASSUME NEW s \in Slots, Prop!SetupStatus(s)
         PROVE  Kept
    <3>1. /\ pc[s] = "idle" /\ pc' = [pc EXCEPT ![s] = "read"] /\ Counts
          /\ job' = [job EXCEPT ![s] = [kind |-> "setup", read |-> {}, total |-> 0, count |-> 0]]
          /\ UNCHANGED <<units, ownerships, tenancies, people, attachments, configured>>
      BY <2>20 DEF Prop!SetupStatus, Prop!Arrives, Prop!Counted, Prop!Go, Prop!tables
    <3>2. Tables
      BY <2>4, <3>1
    <3>3. PeopleFit /\ pc' \in [Slots -> Places]
      BY <2>5, <3>1
    <3>4. TenantsFit
      <4> DEFINE j == [kind |-> "setup", read |-> {}, total |-> 0, count |-> 0]
      <4>1. job' = [job EXCEPT ![s] = j] /\ units' = units
        BY <3>1
      <4>2. j.kind # "tenant"
        OBVIOUS
      <4> HIDE DEF j
      <4> QED  BY <2>7, <4>1, <4>2
    <3> QED  BY <3>1, <3>2, <3>3, <3>4
  <2>21. ASSUME NEW s \in Slots, NEW what, Prop!Query(s, what)
         PROVE  Kept
    <3> DEFINE j == [job[s] EXCEPT !.read = @ \cup {what},
                                   !.total = IF what = "total" THEN Prop!OwnershipTotalPct ELSE @,
                                   !.count = IF what = "count" THEN Len(tenancies) ELSE @]
    <3>1. /\ pc[s] = "read"
          /\ (IF j.read = {"total", "count"} THEN Prop!Done(s)
              ELSE job' = [job EXCEPT ![s] = j] /\ UNCHANGED pc)
          /\ UNCHANGED <<units, ownerships, tenancies, people, attachments, configured, requests>>
      BY <2>21, Zenon DEF Prop!Query, Prop!tables
    <3>2. job[s].kind = "setup" /\ job[s] \in SetupJob
      BY <1>1, <3>1 DEF PropIInv, PropRequestsDue, PropRequestIsDue
    <3>3. j.kind # "tenant"
      BY <3>2 DEF SetupJob
    <3> HIDE DEF j
    <3>4. /\ pc' = [pc EXCEPT ![s] = "idle"] \/ pc' = [pc EXCEPT ![s] = "read"]
          /\ job' = [job EXCEPT ![s] = Prop!Idle] \/ job' = [job EXCEPT ![s] = j]
      BY <2>2, <3>1 DEF Prop!Done, Prop!Go
    <3>5. Tables
      BY <2>4, <3>1
    <3>6. PeopleFit /\ pc' \in [Slots -> Places]
      BY <2>5, <3>1, <3>4
    <3>7. TenantsFit
      BY <2>7, <2>8, <3>1, <3>3, <3>4
    <3> QED  BY <3>1, <3>5, <3>6, <3>7
  <2> HIDE DEF Kept
  <2>22. Kept
    BY <1>1, <2>9, <2>10, <2>11, <2>12, <2>13, <2>14, <2>15, <2>16, <2>17, <2>18, <2>19, <2>20, <2>21
       DEF Prop!PropNext
  <2>23. requests' \in 0..PropRequests
    BY <2>1, <2>2, <2>22 DEF Kept
  <2> QED  BY <2>22, <2>23 DEF Kept, Tables, PeopleFit, TenantsFit, PropTyped
<1>2. CASE ~(desk = "properties" /\ Prop!PropNext)
  <2>1. desk' = desk
    BY DEF Next, vars
  <2>2. desk = "properties" =>
            UNCHANGED <<units, ownerships, tenancies, people, attachments, configured, pc, job, requests>>
    BY <1>2 DEF Next, vars, homes
  <2> QED  BY <2>1, <2>2 DEF PropTyped, Bound
<1> QED  BY <1>1, <1>2

\* What is present is a percentage, and the quorum is met or not.
LEMMA QuorumIsTyped ==
    ASSUME NEW list, AttendanceFits(list)
    PROVE  Gov!ComputeQuorum(list).present \in 0..100 /\ Gov!ComputeQuorum(list).quorumMet \in BOOLEAN
<1> DEFINE S == DOMAIN list
           share == [i \in S |-> list[i].share]
           holder == [i \in S |-> Gov!Holder(list[i])]
           holders == {Gov!Holder(list[i]) : i \in S}
           held == [h \in holders |-> Gov!HeldBy(list, h)]
<1>1. IsFiniteSet(S) /\ \A i \in S : share[i] \in Nat
  BY DEF AttendanceFits
<1>2. IsFiniteSet(holders)
  <2>1. holder \in Surjection(S, holders)
    BY DEF Surjection
  <2> QED  BY <1>1, <2>1, FS_Surjection
<1>3. ASSUME NEW h \in holders
      PROVE  held[h] \in Nat
  <2> DEFINE One == {i \in S : Gov!Holder(list[i]) = h}
  <2>1. Gov!HeldBy(list, h) = Gov!Sum(share, One)
    BY Zenon DEF Gov!HeldBy
  <2>2. IsFiniteSet(One) /\ \A i \in One : share[i] \in Nat
    BY <1>1, FS_Subset
  <2> HIDE DEF One, share
  <2>3. SumOver(share, One) \in Nat
    BY <2>2, SumNat
  <2> QED  BY <2>1, <2>3, GovSum
<1>4. Gov!Sum(held, holders) \in Nat
  <2>1. \A h \in holders : held[h] \in Nat
    BY <1>3
  <2> HIDE DEF held, holders
  <2> QED  BY <1>2, <2>1, GovSum, SumNat
<1>5. /\ Gov!ComputeQuorum(list).present = Gov!Least(100, Gov!Sum(held, holders))
      /\ Gov!ComputeQuorum(list).quorumMet = (Gov!Least(100, Gov!Sum(held, holders)) > 50)
  BY DEF Gov!ComputeQuorum
<1> HIDE DEF held, holders
<1>6. Gov!Least(100, Gov!Sum(held, holders)) \in 0..100
  BY <1>4 DEF Gov!Least
<1>7. (Gov!Least(100, Gov!Sum(held, holders)) > 50) \in BOOLEAN
  <2> DEFINE n == Gov!Least(100, Gov!Sum(held, holders))
  <2>1. n \in Int
    BY <1>6
  <2> HIDE DEF n
  <2>2. (n > 50) \in BOOLEAN
    BY <2>1
  <2> QED  BY <2>2 DEF n
<1>8. Gov!ComputeQuorum(list).quorumMet \in BOOLEAN
  BY <1>5, <1>7
<1> QED  BY <1>5, <1>6, <1>8

-----------------------------------------------------------------------------
\* The inductive invariant of a whole behaviour, and what of it is a type.
OfficeIInv ==
    /\ desk \in Desks
    /\ FinIInv /\ GovIInv /\ OpsIInv /\ AiIInv /\ RegIInv /\ UtilIInv /\ PropIInv
    /\ OfficeTyped

LEMMA OfficeInvariant == Spec => []OfficeIInv
<1>1. Init => desk \in Desks
  BY DEF Init
<1>2. ASSUME desk \in Desks /\ FinIInv /\ GovIInv /\ RegIInv /\ UtilIInv /\ PropIInv /\ OpsIInv /\ OfficeTyped,
             [Next]_vars
      PROVE  (desk \in Desks /\ FinIInv /\ GovIInv /\ RegIInv /\ UtilIInv /\ PropIInv /\ OfficeTyped)'
  <2>1. desk' = desk
    BY <1>2 DEF Next, vars
  <2>2. FinIInv'
    BY <1>2, <2>1, FinElsewhere, FinStep
  <2>3. GovIInv'
    BY <1>2, GovElsewhere, GovStep
  <2>4. RegIInv'
    BY <1>2, <2>1, RegElsewhere, RegStep
  <2>5. UtilIInv'
    BY <1>2, <2>1, UtilElsewhere, UtilStep
  <2>6. PropIInv'
    BY <1>2, <2>1, PropElsewhere, PropStep
  <2>7. GovTyped'
    BY <1>2, GovTypedKeeps DEF OfficeTyped, GovIInv
  <2>8. OpsTyped'
    BY <1>2, OpsTypedKeeps DEF OfficeTyped
  <2>9. UtilTyped'
    BY <1>2, UtilTypedKeeps DEF OfficeTyped
  <2>10. PropTyped'
    BY <1>2, PropTypedKeeps DEF OfficeTyped
  <2> QED  BY <1>2, <2>1, <2>2, <2>3, <2>4, <2>5, <2>6, <2>7, <2>8, <2>9, <2>10 DEF OfficeTyped
<1> QED
  BY FinInitially, GovInitially, RegInitially, UtilInitially, PropInitially, TypedInitially,
     OpsInvariant, AiInvariant, <1>1, <1>2, PTL DEF Spec, OfficeIInv

\* Whichever desk a behaviour is about, the rows of its tables, where its handlers stand and
\* the flags of the overlaps have the types the tables and the handlers give them: references
\* name rows on file, a percentage stays one, a person who is created is on file.
THEOREM TypeOKAlways == Spec => []TypeOK
<1>1. ASSUME OfficeIInv
      PROVE  TypeOK
  <2>1. ASSUME desk = "finance"
        PROVE  Fin!FinTypeOK
    <3>1. FinTables /\ FinHandlers
      BY <1>1, <2>1 DEF OfficeIInv, FinIInv
    <3>2. \A s \in Slots : job[s].kind \in {"none", "import", "name", "yearly"}
      <4>1. \A j \in FinJob : j.kind \in {"none", "import", "name", "yearly"}
        BY DEF FinJob, ImportJob, NameJob, YearlyJob, Fin!Idle
      <4> QED  BY <3>1, <4>1 DEF FinHandlers
    <3> QED  BY <3>1, <3>2 DEF FinTables, FinHandlers, Fin!FinTypeOK
  <2>2. ASSUME desk = "governance"
        PROVE  Gov!GovTypeOK
    <3>1. GovIInv /\ decisions \subseteq Gov!Majorities /\ requests \in 0..GovRequests
      BY <1>1, <2>2 DEF OfficeIInv, OfficeTyped, GovTyped
    <3>2. act.present \in 0..100 /\ act.quorumMet \in BOOLEAN
      <4>1. CASE act = Gov!NoAct
        BY <4>1 DEF Gov!NoAct
      <4>2. CASE AttendanceFits(act.attendance) /\ act = Gov!ComputeQuorum(act.attendance)
        BY <4>2, QuorumIsTyped
      <4> QED  BY <3>1, <4>1, <4>2 DEF GovIInv, ActFits
    <3>3. tally.at \in {"idle", "votes", "answer"}
      BY <3>1 DEF GovIInv, TallyFits, Gov!NoTally
    <3>4. billed \subseteq [fee : Fees, period : FeePeriods, told : Nat]
      BY <3>1 DEF GovIInv, CuotasFit
    <3> QED  BY <3>1, <3>2, <3>3, <3>4 DEF GovIInv, CuotasFit, Gov!GovTypeOK
  <2>3. ASSUME desk = "operations"
        PROVE  Ops!OpsTypeOK
    <3>1. OpsTables /\ pc \in [Slots -> {"idle", "write", "act", "handover"}]
      BY <1>1, <2>3 DEF OfficeIInv, OpsIInv, OpsHandlers
    <3>2. /\ suppliers \subseteq Orgs /\ \A r \in rows : r.table \in Ops!Tables /\ r.org \in Orgs
          /\ rules \in Seq(Nat \ {0}) /\ requests \in 0..OpsRequests
      BY <1>1, <2>3 DEF OfficeIInv, OfficeTyped, OpsTyped
    <3>3. order.status \in {"none"} \cup Ops!RequestStatus /\ order.supplier \in Orgs \cup {NoOne}
      BY <3>1 DEF OpsTables
    <3> QED  BY <3>1, <3>2, <3>3 DEF OpsTables, Ops!OpsTypeOK
  <2>4. ASSUME desk = "models"
        PROVE  Ai!AiTypeOK
    <3>1. /\ AiIInv /\ Labelled /\ suggestions \in Seq(Suggestion) /\ told \in Seq(Seq(Verdicts))
          /\ Len(told) = Len(suggestions)
          /\ pc \in [Slots -> Ai!Busy \cup {"idle"}] /\ requests \in 0..AiRequests
      BY <1>1, <2>4 DEF OfficeIInv, AiIInv
    <3>2. DOMAIN told = DOMAIN suggestions
      BY <3>1
    <3>3. \A i \in DOMAIN suggestions :
              /\ suggestions[i].requires \in BOOLEAN
              /\ suggestions[i].status \in {"PENDING", "CONFIRMED", "REJECTED"}
      <4> SUFFICES ASSUME NEW i \in DOMAIN suggestions
                   PROVE  /\ suggestions[i].requires \in BOOLEAN
                          /\ suggestions[i].status \in {"PENDING", "CONFIRMED", "REJECTED"}
        OBVIOUS
      <4>1. suggestions[i] \in Suggestion
        BY <3>1
      <4> QED  BY <4>1 DEF Suggestion, Verdicts
    <3> QED  BY <3>1, <3>2, <3>3 DEF AiIInv, Labelled, Ai!AiTypeOK
  <2>5. ASSUME desk = "library"
        PROVE  Reg!RegTypeOK
    BY <1>1, <2>5 DEF OfficeIInv, RegIInv
  <2>6. ASSUME desk = "meters"
        PROVE  Util!UtilTypeOK
    <3>1. UtilTables
      BY <1>1 DEF OfficeIInv, UtilIInv
    <3>2. /\ settled \subseteq BilledPeriods /\ reminders \subseteq Util!Reminders
          /\ pc \in [Slots -> {"idle", "flag", "create", "charge", "remind"}]
          /\ requests \in 0..UtilRequests
      BY <1>1, <2>6 DEF OfficeIInv, OfficeTyped, UtilTyped
    <3>3. readings \in Seq(Reading) /\ Len(readings) \in Nat /\ DOMAIN readings = 1..Len(readings)
      BY <3>1 DEF UtilTables
    <3>4. \A i \in DOMAIN readings :
              /\ readings[i].meter \in Meters /\ readings[i].value \in Values
              /\ readings[i].date \in 0..MaxDate
              /\ readings[i].anomaly \in BOOLEAN /\ readings[i].raced \in BOOLEAN
      <4> SUFFICES ASSUME NEW i \in DOMAIN readings
                   PROVE  /\ readings[i].meter \in Meters /\ readings[i].value \in Values
                          /\ readings[i].date \in 0..MaxDate
                          /\ readings[i].anomaly \in BOOLEAN /\ readings[i].raced \in BOOLEAN
        OBVIOUS
      <4>1. readings[i] \in Reading
        BY <3>3
      <4> QED  BY <4>1 DEF Reading
    <3>5. ASSUME NEW p \in BilledPeriods
          PROVE  charges[p] \in [reading : 0..Len(readings), previous : 0..Len(readings),
                                 confirmed : BOOLEAN]
      <4>1. charges[p] \in ChargeRow
        BY <3>1 DEF UtilTables
      <4>2. CASE charges[p] \in Unread
        <5>1. charges[p].reading = 0 /\ charges[p].previous = 0
          BY <4>2 DEF Unread, Util!NoCharge, Util!ByHand
        <5>2. 0 \in 0..Len(readings)
          BY <3>3
        <5> QED  BY <4>1, <5>1, <5>2 DEF ChargeRow
      <4>3. CASE ChargeFits(readings, charges[p])
        <5>1. charges[p].reading \in 0..Len(readings) /\ charges[p].previous \in 0..Len(readings)
          BY <3>3, <4>3 DEF ChargeFits
        <5> QED  BY <4>1, <5>1 DEF ChargeRow
      <4> QED  BY <3>1, <4>2, <4>3 DEF UtilTables
    <3>6. charges \in [BilledPeriods -> [reading : 0..Len(readings), previous : 0..Len(readings),
                                         confirmed : BOOLEAN]]
      <4>1. charges \in [BilledPeriods -> ChargeRow]
        BY <3>1 DEF UtilTables
      <4> QED  BY <3>5, <4>1
    <3>7. sentOut \in [Util!Reminders -> Nat]
      <4>1. \A r \in Util!Reminders : sentOut[r] \in Nat
        BY <3>1 DEF UtilTables, AnnouncedOnce
      <4>2. sentOut = [r \in Util!Reminders |-> sentOut[r]]
        BY <3>1 DEF UtilTables
      <4> QED  BY <4>1, <4>2
    <3> QED  BY <3>2, <3>4, <3>6, <3>7 DEF Util!UtilTypeOK
  <2>7. ASSUME desk = "properties"
        PROVE  Prop!PropTypeOK
    BY <1>1, <2>7 DEF OfficeIInv, OfficeTyped, PropIInv, PropTables, PropTyped, Prop!PropTypeOK
  <2>8. desk \in {"finance", "governance", "operations", "models", "library", "meters", "properties"}
    BY <1>1, DesksAssumption DEF OfficeIInv
  <2> QED  BY <2>1, <2>2, <2>3, <2>4, <2>5, <2>6, <2>7, <2>8 DEF TypeOK
<1> QED  BY OfficeInvariant, <1>1, PTL

-----------------------------------------------------------------------------
(***************************************************************************)
(* The rules that need no state, for every input.                          *)
(***************************************************************************)
\* Whatever an organization prefers and whatever runtimes there are, resolvePermittedRuntime
\* takes one of them, never the provider for sensitive data, and in hybrid mode finds one on
\* the premises when there is one.
THEOREM SensitiveStaysHome ==
    ASSUME NEW mode, NEW classes, NEW available, available \subseteq {"provider", "local", "webgpu"},
           NEW runtime, runtime = Ai!ResolvePermittedRuntime(mode, classes, available)
    PROVE  /\ runtime \in available \cup {"disabled"}
           /\ runtime = "provider" => classes \cap Ai!Sensitive = {}
           /\ mode = "hybrid" /\ available \cap {"local", "webgpu"} # {} => runtime # "disabled"
<1> DEFINE level == Ai!PrivacyLevelFor(classes)
           allowed == Ai!AllowedRuntimes(level, "provider" \in available)
           usable == available \cap allowed
           places == {i \in DOMAIN Ai!DefaultPriority : Ai!DefaultPriority[i] \in usable}
<1>1. /\ {"local", "webgpu"} \subseteq allowed /\ allowed \subseteq {"local", "webgpu", "provider"}
      /\ "provider" \in allowed => level # "local-only"
  BY DEF Ai!AllowedRuntimes
<1>2. level # "local-only" => classes \cap Ai!Sensitive = {}
  BY DEF Ai!PrivacyLevelFor
<1>3. runtime = Ai!First(mode, usable)
  BY DEF Ai!ResolvePermittedRuntime
<1>4. /\ DOMAIN Ai!DefaultPriority = 1..3 /\ Ai!DefaultPriority[1] = "webgpu"
      /\ Ai!DefaultPriority[2] = "local" /\ Ai!DefaultPriority[3] = "provider"
  BY DEF Ai!DefaultPriority
<1>5. places # {} => Ai!DefaultPriority[Ai!Min(places)] \in usable
  <2> SUFFICES ASSUME places # {}
               PROVE  Ai!DefaultPriority[Ai!Min(places)] \in usable
    OBVIOUS
  <2>1. places \subseteq 0..3 /\ places # {}
    BY <1>4
  <2>2. Ai!Min(places) \in places
    <3> HIDE DEF places
    <3> QED  BY <2>1, Extremes
  <2> QED  BY <2>2
<1>6. runtime = IF mode \in usable THEN mode
                ELSE IF mode = "hybrid" /\ places # {} THEN Ai!DefaultPriority[Ai!Min(places)]
                ELSE "disabled"
  BY <1>3, Zenon DEF Ai!First
<1>7. usable \cap {"local", "webgpu"} # {} => places # {}
  BY <1>4
<1>8. available \cap {"local", "webgpu"} # {} => usable \cap {"local", "webgpu"} # {}
  BY <1>1
<1>9. usable \subseteq available /\ "disabled" \notin usable
  OBVIOUS
<1>10. runtime \in usable \cup {"disabled"}
  <2> HIDE DEF places, usable
  <2> QED  BY <1>5, <1>6
<1>11. runtime = "provider" => classes \cap Ai!Sensitive = {}
  BY <1>1, <1>2, <1>10
<1>12. mode = "hybrid" /\ available \cap {"local", "webgpu"} # {} => runtime # "disabled"
  <2> HIDE DEF places, usable
  <2> QED  BY <1>5, <1>6, <1>7, <1>8, <1>9
<1> QED  BY <1>9, <1>10, <1>11, <1>12

LEMMA StageOf ==
    ASSUME NEW d \in Int
    PROVE  Util!DunningStageFor(d) = IF d < 3 THEN 0 ELSE IF d < 7 THEN 3 ELSE IF d < 15 THEN 7
                                     ELSE IF d < 30 THEN 15 ELSE 30
<1> DEFINE due == {stage \in {3, 7, 15, 30} : d >= stage}
<1>1. Util!DunningStageFor(d) = IF due = {} THEN Util!NoStage ELSE Util!Max(due)
  BY Zenon DEF Util!DunningStageFor
<1>2. ASSUME NEW m \in due, \A y \in due : m >= y
      PROVE  Util!Max(due) = m
  <2>1. \A x \in due : (\A y \in due : x >= y) => x = m
    BY <1>2
  <2> HIDE DEF due
  <2> QED  BY <1>2, <2>1 DEF Util!Max
<1>3. CASE d < 3
  BY <1>1, <1>3 DEF Util!NoStage
<1>4. CASE d >= 3 /\ d < 7
  <2>1. 3 \in due /\ (\A y \in due : 3 >= y) /\ due # {}
    BY <1>4
  <2> HIDE DEF due
  <2> QED  BY <1>1, <1>2, <1>4, <2>1
<1>5. CASE d >= 7 /\ d < 15
  <2>1. 7 \in due /\ (\A y \in due : 7 >= y) /\ due # {}
    BY <1>5
  <2> HIDE DEF due
  <2> QED  BY <1>1, <1>2, <1>5, <2>1
<1>6. CASE d >= 15 /\ d < 30
  <2>1. 15 \in due /\ (\A y \in due : 15 >= y) /\ due # {}
    BY <1>6
  <2> HIDE DEF due
  <2> QED  BY <1>1, <1>2, <1>6, <2>1
<1>7. CASE d >= 30
  <2>1. 30 \in due /\ (\A y \in due : 30 >= y) /\ due # {}
    BY <1>7
  <2> HIDE DEF due
  <2> QED  BY <1>1, <1>2, <1>7, <2>1
<1> QED  BY <1>3, <1>4, <1>5, <1>6, <1>7

\* dunningStageFor: reminders get more urgent as days go by, and start with the third.
THEOREM RemindersEscalate ==
    ASSUME NEW early \in Int, NEW late \in Int, early <= late
    PROVE  /\ Util!DunningStageFor(early) <= Util!DunningStageFor(late)
           /\ Util!DunningStageFor(early) = Util!NoStage <=> early < 3
<1>1. /\ Util!DunningStageFor(early) = IF early < 3 THEN 0 ELSE IF early < 7 THEN 3
                                       ELSE IF early < 15 THEN 7 ELSE IF early < 30 THEN 15 ELSE 30
      /\ Util!DunningStageFor(late) = IF late < 3 THEN 0 ELSE IF late < 7 THEN 3
                                      ELSE IF late < 15 THEN 7 ELSE IF late < 30 THEN 15 ELSE 30
  BY StageOf
<1> QED  BY <1>1 DEF Util!NoStage

\* Rounding to a whole unit keeps what lies between whole units there, and keeps the order.
LEMMA RoundedFits ==
    ASSUME NEW x \in Nat, NEW y \in Nat, NEW b \in Nat, x <= y, x <= 1000000 * b
    PROVE  /\ Util!Rounded(x, 1000000) \in 0..b
           /\ Util!Rounded(x, 1000000) <= Util!Rounded(y, 1000000)
<1> DEFINE q == (2 * x + 1000000) \div 2000000
           r == (2 * y + 1000000) \div 2000000
<1>1. /\ q \in Int /\ 2000000 * q <= 2 * x + 1000000 /\ 2 * x + 1000000 < 2000000 * q + 2000000
      /\ r \in Int /\ 2 * y + 1000000 < 2000000 * r + 2000000
  OBVIOUS
<1>2. Util!Rounded(x, 1000000) = q /\ Util!Rounded(y, 1000000) = r
  BY DEF Util!Rounded
<1> HIDE DEF q, r
<1> QED  BY <1>1, <1>2

\* evaluateLateFee with a percentage: nothing within the grace period, never more than what
\* is owed, and no less for a larger balance or for more days.
THEOREM LateFeesAreFair ==
    ASSUME NEW rule, rule.type = "PERCENTAGE", rule.rate \in Nat, Util!ValidLateFeeRule(rule),
           NEW owed \in Nat, NEW more \in Nat, owed <= more,
           NEW days \in Int, NEW later \in Int, days <= later
    PROVE  /\ days <= rule.grace => Util!LateFee(owed, days, rule) = 0
           /\ Util!LateFee(owed, days, rule) \in 0..owed
           /\ Util!LateFee(owed, days, rule) <= Util!LateFee(more, later, rule)
<1>1. rule.rate <= 1000000 /\ rule.grace \in Int
  BY DEF Util!ValidLateFeeRule
<1>2. /\ owed * rule.rate \in Nat /\ more * rule.rate \in Nat
      /\ owed * rule.rate <= more * rule.rate
      /\ owed * rule.rate <= 1000000 * owed /\ more * rule.rate <= 1000000 * more
  <2>1. \A a, b, c \in Nat : a <= b => c * a <= c * b /\ a * c <= b * c /\ a * c \in Nat /\ b * c \in Nat
    BY SMTT(30)
  <2>2. owed * rule.rate <= owed * 1000000 /\ more * rule.rate <= more * 1000000
    BY <1>1, <2>1
  <2> QED  BY <2>1, <2>2
<1>3. /\ Util!Rounded(owed * rule.rate, 1000000) \in 0..owed
      /\ Util!Rounded(more * rule.rate, 1000000) \in 0..more
      /\ Util!Rounded(owed * rule.rate, 1000000) <= Util!Rounded(more * rule.rate, 1000000)
  BY <1>2, RoundedFits
<1>4. \A b, d : Util!LateFee(b, d, rule) =
                    IF b = 0 \/ d <= rule.grace THEN 0 ELSE Util!Rounded(b * rule.rate, 1000000)
  BY DEF Util!LateFee
<1>5. CASE owed = 0 \/ days <= rule.grace
  <2>1. Util!LateFee(owed, days, rule) = 0
    BY <1>4, <1>5
  <2>2. Util!LateFee(more, later, rule) \in 0..more
    BY <1>3, <1>4
  <2> QED  BY <2>1, <2>2
<1>6. CASE ~(owed = 0 \/ days <= rule.grace)
  <2>1. Util!LateFee(owed, days, rule) = Util!Rounded(owed * rule.rate, 1000000)
    BY <1>4, <1>6
  <2>2. more # 0 /\ ~(later <= rule.grace)
    BY <1>1, <1>6
  <2>3. Util!LateFee(more, later, rule) = Util!Rounded(more * rule.rate, 1000000)
    BY <1>4, <2>2
  <2> QED  BY <1>3, <1>6, <2>1, <2>3
<1> QED  BY <1>5, <1>6

Balances(items) == [i \in items |-> i.balance]

\* A sum of balances is the sum over the items of the function that gives them.
LEMMA BalancesAreSums ==
    ASSUME NEW items, NEW S, S \subseteq items
    PROVE  Util!SumBalances(S) = SumOver(Balances(items), S)
<1> DEFINE f == Balances(items)
           Folds(g) == g = [s \in SUBSET S |-> IF s = {} THEN 0
                                ELSE Pick(s).balance + g[s \ {Pick(s)}]]
<1>1. Util!SumBalances(S) = (CHOOSE g : Folds(g))[S]
  BY Zenon DEF Util!SumBalances, Util!MapThenSumSet, Util!MapThenFoldSet, Pick
<1>2. \A g : Folds(g) <=> FoldsOn(g, f, SUBSET S)
  <2> SUFFICES ASSUME NEW g
               PROVE  Folds(g) <=> FoldsOn(g, f, SUBSET S)
    OBVIOUS
  <2>1. \A s \in SUBSET S : s # {} => f[Pick(s)] = Pick(s).balance
    BY PickIn DEF Balances
  <2> HIDE DEF f
  <2> QED  BY <2>1 DEF FoldsOn
<1>3. (CHOOSE g : Folds(g)) = (CHOOSE g : FoldsOn(g, f, SUBSET S))
  <2> HIDE DEF Folds, f
  <2> QED  BY <1>2
<1> QED  BY <1>1, <1>3, SumUnfolds

\* agingReport: every balance that is owed is in one bucket, so the buckets add up to the total.
THEOREM AgingAddsUp ==
    ASSUME NEW items, IsFiniteSet(items), \A i \in items : i.balance \in Int /\ i.due \in Int,
           NEW now \in Int, NEW report, report = Util!AgingReport(items, now)
    PROVE  report.total = report.current + report.d1_30 + report.d31_60 + report.d61_90 + report.d90Plus
<1> DEFINE all == Util!Positive(items)
           b0 == {i \in all : now - i.due <= 0}
           b1 == {i \in all : now - i.due \in 1..30}
           b2 == {i \in all : now - i.due \in 31..60}
           b3 == {i \in all : now - i.due \in 61..90}
           b4 == {i \in all : now - i.due > 90}
           f == Balances(items)
<1>1. all \subseteq items /\ IntOn(f, items) /\ (\A i \in all : now - i.due \in Int)
  BY DEF Util!Positive, Balances, IntOn
<1>2. /\ report.total = Util!SumBalances(all) /\ report.current = Util!SumBalances(b0)
      /\ report.d1_30 = Util!SumBalances(b1) /\ report.d31_60 = Util!SumBalances(b2)
      /\ report.d61_90 = Util!SumBalances(b3) /\ report.d90Plus = Util!SumBalances(b4)
  <2>1. report = [current |-> Util!SumBalances(b0), d1_30 |-> Util!SumBalances(b1),
                  d31_60 |-> Util!SumBalances(b2), d61_90 |-> Util!SumBalances(b3),
                  d90Plus |-> Util!SumBalances(b4), total |-> Util!SumBalances(all)]
    BY Zenon DEF Util!AgingReport
  <2> HIDE DEF all, b0, b1, b2, b3, b4
  <2> QED  BY <2>1
<1>3. /\ all = b0 \cup (b1 \cup (b2 \cup (b3 \cup b4)))
      /\ b0 \cap (b1 \cup (b2 \cup (b3 \cup b4))) = {} /\ b1 \cap (b2 \cup (b3 \cup b4)) = {}
      /\ b2 \cap (b3 \cup b4) = {} /\ b3 \cap b4 = {}
  <2> HIDE DEF all
  <2> QED  BY <1>1
<1>4. /\ b0 \subseteq items /\ b1 \subseteq items /\ b2 \subseteq items /\ b3 \subseteq items
      /\ b4 \subseteq items
  <2> HIDE DEF all
  <2> QED  BY <1>1
<1> HIDE DEF all, b0, b1, b2, b3, b4, f
<1>5. /\ IsFiniteSet(b0) /\ IsFiniteSet(b1) /\ IsFiniteSet(b2) /\ IsFiniteSet(b3) /\ IsFiniteSet(b4)
      /\ IsFiniteSet(b3 \cup b4) /\ IsFiniteSet(b2 \cup (b3 \cup b4))
      /\ IsFiniteSet(b1 \cup (b2 \cup (b3 \cup b4)))
  BY <1>4, FS_Subset, FS_Union
<1>6. /\ IntOn(f, b0) /\ IntOn(f, b1) /\ IntOn(f, b2) /\ IntOn(f, b3) /\ IntOn(f, b4)
      /\ IntOn(f, b3 \cup b4) /\ IntOn(f, b2 \cup (b3 \cup b4))
      /\ IntOn(f, b1 \cup (b2 \cup (b3 \cup b4))) /\ IntOn(f, b0 \cup (b1 \cup (b2 \cup (b3 \cup b4))))
  BY <1>1, <1>4 DEF IntOn
<1>7. SumOver(f, b3 \cup b4) = SumOver(f, b3) + SumOver(f, b4)
  BY <1>3, <1>5, <1>6, SumApart
<1>8. SumOver(f, b2 \cup (b3 \cup b4)) = SumOver(f, b2) + SumOver(f, b3 \cup b4)
  BY <1>3, <1>5, <1>6, SumApart
<1>9. SumOver(f, b1 \cup (b2 \cup (b3 \cup b4))) = SumOver(f, b1) + SumOver(f, b2 \cup (b3 \cup b4))
  BY <1>3, <1>5, <1>6, SumApart
<1>10. SumOver(f, all) = SumOver(f, b0) + SumOver(f, b1 \cup (b2 \cup (b3 \cup b4)))
  BY <1>3, <1>5, <1>6, SumApart
<1>11. /\ SumOver(f, b0) \in Int /\ SumOver(f, b1) \in Int /\ SumOver(f, b2) \in Int
       /\ SumOver(f, b3) \in Int /\ SumOver(f, b4) \in Int
  BY <1>5, <1>6, SumType
<1>12. \A S : S \subseteq items => Util!SumBalances(S) = SumOver(f, S)
  BY BalancesAreSums DEF f
<1>13. /\ report.total = SumOver(f, all) /\ report.current = SumOver(f, b0)
       /\ report.d1_30 = SumOver(f, b1) /\ report.d31_60 = SumOver(f, b2)
       /\ report.d61_90 = SumOver(f, b3) /\ report.d90Plus = SumOver(f, b4)
  BY <1>1, <1>2, <1>4, <1>12
<1> QED  BY <1>7, <1>8, <1>9, <1>10, <1>11, <1>13
=============================================================================
