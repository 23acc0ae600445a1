\* A decision about sensitive data, with the hosted decision model configured.
SPECIFICATION Spec
CONSTANTS
    Desks = {"models"}
    s1 = s1  s2 = s2  Slots <- MCSlots
    Orgs = {"north", "south"}
    Banks = {"BANCOLOMBIA", "DAVIVIENDA"}  Files <- MCFiles  Referenced = {"ref"}
    Codes = {"1105"}  Entries <- MCEntries  Months = 2  FinRequests = 3
    ana = ana  luis = luis  NoOwner = NoOwner  Owners <- MCOwners
    Attendances <- MCAttendances  Weights = {20, 60}  Fees <- MCFees  HandAmounts = {7}
    FeePeriods = {"june", "july"}  GovRequests = 5
    NoOne = NoOne  OpsRequests = 4
    Configs <- MCConfigs  DirectAsks <- MCDirectAsks  FeaturesAsked = {}
    QuestionTypes = {"triage", "proof-match"}  AnswerConfidences = {82, 95}
    Outcomes = {}  MinSamples = 2  MinDays = 1  MaxRetries = 1  MaxDay = 1
    AiRequests = 2
    Models = {"m"}  RegRequests = 7
    Meters = {"water"}  Values = {1, 4}  MaxDate = 2  BilledPeriods = {"june"}
    Channels = {"EMAIL"}  Overdue = {2, 10}  UtilRequests = 4
    UnitLists <- MCUnitLists  Shares = {50, 100}  Open = 8  Tenures <- MCTenures
    PropRequests = 4
INVARIANT HostedIsExternal
CHECK_DEADLOCK FALSE
