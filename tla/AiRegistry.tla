------------------------------ MODULE AiRegistry ------------------------------
(***************************************************************************)
(* RegistryService: models and the stages of their life.  A request looks  *)
(* the model up and writes in a later step; what it decided by may have    *)
(* changed meanwhile, so a deprecated model can be brought back by a       *)
(* transition that was under way.                                          *)
(***************************************************************************)
EXTENDS AiPolicy

CONSTANTS
    Slots,       \* requests that may be under way at once
    Models,
    MaxRequests

VARIABLES
    registry,    \* registry[m]: [status, scored], status "none" before it is registered
    pc, job, requests,
    stages       \* history: stages[m]: stages the model has been in

regVars == <<registry, pc, job, requests, stages>>

Idle == [kind |-> "none"]
Stages == DOMAIN LifecycleNext \cup {"deprecated"}
Scoreable == {"evaluated", "approved", "active"}

RegTypeOK ==
    /\ registry \in [Models -> [status : Stages \cup {"none"}, scored : BOOLEAN]]
    /\ stages \in [Models -> SUBSET Stages]
    /\ pc \in [Slots -> {"idle", "register", "score", "status"}] /\ requests \in 0..MaxRequests

RegInit ==
    /\ registry = [m \in Models |-> [status |-> "none", scored |-> FALSE]]
    /\ stages = [m \in Models |-> {}]
    /\ pc = [s \in Slots |-> "idle"] /\ job = [s \in Slots |-> Idle] /\ requests = 0

Found(s, step, j) ==
    /\ pc[s] = "idle" /\ requests < MaxRequests /\ requests' = requests + 1
    /\ pc' = [pc EXCEPT ![s] = step] /\ job' = [job EXCEPT ![s] = j]
    /\ UNCHANGED <<registry, stages>>
Done(s) == pc' = [pc EXCEPT ![s] = "idle"] /\ job' = [job EXCEPT ![s] = Idle]

FindModelToRegister(s, m) ==
    registry[m].status = "none" /\ Found(s, "register", [kind |-> "register", model |-> m])

FindModelToScore(s, m) ==
    registry[m].status \in Scoreable /\ Found(s, "score", [kind |-> "score", model |-> m])

FindModelToMove(s, m, to) ==
    /\ registry[m].status # "none" /\ CanTransitionLifecycle(registry[m].status, to)
    /\ Found(s, "status", [kind |-> "status", model |-> m, to |-> to])

\* modelId is unique.
RegisterModel(s) ==
    LET m == job[s].model IN
    /\ pc[s] = "register"
    /\ IF registry[m].status = "none"
       THEN /\ registry' = [registry EXCEPT ![m].status = "candidate"]
            /\ stages' = [stages EXCEPT ![m] = @ \cup {"candidate"}]
       ELSE UNCHANGED <<registry, stages>>
    /\ Done(s) /\ UNCHANGED requests

SetModelScore(s) ==
    /\ pc[s] = "score"
    /\ registry' = [registry EXCEPT ![job[s].model].scored = TRUE]
    /\ Done(s) /\ UNCHANGED <<requests, stages>>

SetModelStatus(s) ==
    LET j == job[s] IN
    /\ pc[s] = "status"
    /\ registry' = [registry EXCEPT ![j.model].status = j.to]
    /\ stages' = [stages EXCEPT ![j.model] = @ \cup {j.to}]
    /\ Done(s) /\ UNCHANGED requests

RegNext ==
    \E s \in Slots :
        \/ \E m \in Models :
            \/ FindModelToRegister(s, m) \/ FindModelToScore(s, m)
            \/ \E to \in Stages : FindModelToMove(s, m, to)
        \/ RegisterModel(s) \/ SetModelScore(s) \/ SetModelStatus(s)

-----------------------------------------------------------------------------
\* Also when transitions overlap, a model that is in use has been in each stage
\* before, and a model with a score has been evaluated.
NoStageSkipped ==
    \A m \in Models :
        /\ registry[m].status = "active" => {"installed", "evaluated", "approved"} \subseteq stages[m]
        /\ registry[m].scored => "evaluated" \in stages[m]
=============================================================================
