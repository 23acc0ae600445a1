-------------------------------- MODULE Office --------------------------------
(***************************************************************************)
(* The components behind the desks of the office: money in and out,        *)
(* assemblies, operations, the gateway to models and the registry of them, *)
(* meters and property.  The components share no table; the initial state  *)
(* picks the desk a behaviour is about, and the others stand still.        *)
(***************************************************************************)
EXTENDS Integers, Sequences, FiniteSets

CONSTANTS
    Desks,          \* desks a behaviour may be about
    Slots,          \* requests that may be under way at once
    Orgs,
    Banks, Files, Referenced, Codes, Entries, Months, FinRequests,      \* Finance
    Owners, NoOwner, Attendances, Weights, Fees, HandAmounts, FeePeriods, GovRequests,  \* Governance
    NoOne, OpsRequests,                                                 \* Operations
    Configs, DirectAsks, FeaturesAsked, QuestionTypes, AnswerConfidences,
    Outcomes, MinSamples, MinDays, MaxRetries, MaxDay, AiRequests,      \* AiGateway
    Models, RegRequests,                                                \* AiRegistry
    Meters, Values, MaxDate, BilledPeriods, Channels, Overdue, UtilRequests,  \* Utilities
    UnitLists, Shares, Open, Tenures, PropRequests                      \* Properties

VARIABLES
    desk,
    bankTransactions, reconciled, named, created, ledger, imported, raced,
    shares, act, decisions, votes, fees, charged, billed, byHand, tally,
    suppliers, rows, status, order, rules, acts, overlapped,
    config, observations, suggestions, sent, advanced, told,
    registry, stages,
    readings, charges, settled, reminders, sentOut,
    units, ownerships, tenancies, people, attachments, configured, complete, racedShares,
    pc, job, requests     \* of the one component that moves

\* How many requests a behaviour has is a bound of the model, not of the code.
ASSUME BoundsAssumption ==
    {FinRequests, GovRequests, OpsRequests, AiRequests, RegRequests, UtilRequests, PropRequests}
        \subseteq Nat

ASSUME DesksAssumption ==
    Desks \subseteq {"finance", "governance", "operations", "models", "library", "meters", "properties"}

Fin  == INSTANCE Finance WITH MaxRequests <- FinRequests
Gov  == INSTANCE Governance WITH Periods <- FeePeriods, MaxRequests <- GovRequests
Ops  == INSTANCE Operations WITH MaxRequests <- OpsRequests
Ai   == INSTANCE AiGateway WITH MaxRequests <- AiRequests
Reg  == INSTANCE AiRegistry WITH MaxRequests <- RegRequests
Util == INSTANCE Utilities WITH Periods <- BilledPeriods, MaxRequests <- UtilRequests
Prop == INSTANCE Properties WITH Periods <- Tenures, MaxRequests <- PropRequests

ASSUME StatementsAssumption == Fin!FinAssumption

ASSUME ModelsAssumption == Ai!AiAssumption

ASSUME AssembliesAssumption == Gov!GovAssumption

ASSUME HomesAssumption == Prop!PropAssumption

ASSUME MetersAssumption == Util!UtilAssumption

finances == <<bankTransactions, reconciled, named, created, ledger, imported, raced>>
assembly == <<shares, act, decisions, votes, fees, charged, billed, byHand, tally>>
operations == <<suppliers, rows, status, order, rules, acts, overlapped>>
models == <<config, observations, suggestions, sent, advanced, told>>
library == <<registry, stages>>
meters == <<readings, charges, settled, reminders, sentOut>>
homes == <<units, ownerships, tenancies, people, attachments, configured, complete, racedShares>>
vars == <<desk, finances, assembly, operations, models, library, meters, homes, pc, job, requests>>

\* Only the desk of the models tells configurations apart.
Init ==
    /\ desk \in Desks
    /\ Fin!FinInit /\ Gov!GovInit /\ Ops!OpsInit /\ Ai!AiInit /\ Reg!RegInit /\ Util!UtilInit
    /\ Prop!PropInit
    /\ desk # "models" => config = CHOOSE c \in Configs : TRUE

Next ==
    /\ UNCHANGED desk
    /\ \/ /\ desk = "finance" /\ Fin!FinNext
          /\ UNCHANGED <<assembly, operations, models, library, meters, homes>>
       \/ /\ desk = "governance" /\ Gov!GovNext
          /\ UNCHANGED <<finances, operations, models, library, meters, homes, pc, job>>
       \/ /\ desk = "operations" /\ Ops!OpsNext
          /\ UNCHANGED <<finances, assembly, models, library, meters, homes>>
       \/ /\ desk = "models" /\ Ai!AiNext
          /\ UNCHANGED <<finances, assembly, operations, library, meters, homes>>
       \/ /\ desk = "library" /\ Reg!RegNext
          /\ UNCHANGED <<finances, assembly, operations, models, meters, homes>>
       \/ /\ desk = "meters" /\ Util!UtilNext
          /\ UNCHANGED <<finances, assembly, operations, models, library, homes>>
       \/ /\ desk = "properties" /\ Prop!PropNext
          /\ UNCHANGED <<finances, assembly, operations, models, library, meters>>

Spec == Init /\ [][Next]_vars

-----------------------------------------------------------------------------
TypeOK == CASE desk = "finance" -> Fin!FinTypeOK [] desk = "governance" -> Gov!GovTypeOK
            [] desk = "operations" -> Ops!OpsTypeOK [] desk = "models" -> Ai!AiTypeOK
            [] desk = "library" -> Reg!RegTypeOK [] desk = "meters" -> Util!UtilTypeOK
            [] desk = "properties" -> Prop!PropTypeOK

\* Importing a statement puts each of its rows on file, once unless imports overlap, and
\* what a statement of income adds up is what was recorded.
ImportIsExact ==
    Fin!OnFileOnce /\ Fin!ImportedIsOnFile /\ (desk = "finance" => Fin!StatementAddsUp)

\* An assembly decides with a quorum of the property and a majority of what voted.
VotesCarry == Gov!ApprovalIsCarried /\ Gov!QuorumIsOwned

\* A cuota that was reported as billed keeps the charge it was told, its own or the one that
\* was there first.
BilledIsCharged == Gov!BilledIsCharged

\* A closed maintenance request stays closed until two transitions overlap.
ClosedIsFinal == Ops!ClosedIsFinal

\* House rules are numbered one by one, and rows refer to rows of their organization.
DirectoryIsInOrder == Ops!RulesAreNumbered /\ Ops!ReferencesStayHome

\* What is sent to the provider is not of a local-only class.
SentIsPermitted == Ai!SentIsPermitted

\* The hosted decision model is spared such data as any external provider is.
HostedIsExternal == Ai!HostedIsExternal

\* Nothing is decided without a person unless calibrated, and nothing is decided twice.
DecisionsAreDue == Ai!UnattendedIsCalibrated /\ Ai!DecidedOnce

\* A model in use went through every stage before it, also when transitions overlap.
NoStageSkipped == Reg!NoStageSkipped

\* Tenants are charged for readings somebody vouches for, and reminded once per stage.
TenantsAreCharged == Util!SpikesAreConfirmed /\ Util!DunnedOnce

\* Tenancies of a unit lie apart, and a property that is set up stays so.
PropertyStaysSound == Prop!TenanciesApart /\ Prop!SetUpStays
=============================================================================
