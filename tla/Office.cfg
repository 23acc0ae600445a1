\* The desks of the office: money in and out, assemblies, operations, AI, meters, property.
SPECIFICATION Spec
CONSTANTS
    Desks = {"finance", "governance", "operations", "models", "library", "meters", "properties"}
    s1 = s1  s2 = s2  Slots <- MCSlots
    Orgs = {"north", "south"}
    Banks = {"BANCOLOMBIA", "DAVIVIENDA"}  Files <- MCFiles  Referenced = {"ref"}
    Codes = {"1105"}  Entries <- MCEntries  Months = 2  FinRequests = 3
    ana = ana  luis = luis  NoOwner = NoOwner  Owners <- MCOwners
    Attendances <- MCAttendances  Weights = {20, 60}  Fees <- MCFees  HandAmounts = {7}
    FeePeriods = {"june", "july"}  GovRequests = 5
    NoOne = NoOne  OpsRequests = 4
    Configs <- MCConfigs  DirectAsks <- MCDirectAsks  FeaturesAsked = {"draft"}
    QuestionTypes = {"triage", "proof-match"}  AnswerConfidences = {82, 95}
    Outcomes <- MCOutcomes  MinSamples = 2  MinDays = 1  MaxRetries = 1  MaxDay = 1
    AiRequests = 2
    Models = {"m"}  RegRequests = 7
    Meters = {"water"}  Values = {1, 4}  MaxDate = 2  BilledPeriods = {"june"}
    Channels = {"EMAIL"}  Overdue = {2, 10}  UtilRequests = 4
    UnitLists <- MCUnitLists  Shares = {50, 100}  Open = 8  Tenures <- MCTenures
    PropRequests = 4
SYMMETRY MCSymmetry
INVARIANTS TypeOK ImportIsExact VotesCarry BilledIsCharged DirectoryIsInOrder SentIsPermitted DecisionsAreDue NoStageSkipped TenantsAreCharged PropertyStaysSound
PROPERTY ClosedIsFinal
CHECK_DEADLOCK FALSE
