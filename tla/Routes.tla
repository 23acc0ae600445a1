-------------------------------- MODULE Routes --------------------------------
(***************************************************************************)
(* The HTTP controllers: each handler with the permission it requires and  *)
(* with what it does: it reads, it writes data of the organization in      *)
(* x-org-id, or it writes rows of the caller alone.  All of them stand     *)
(* behind JwtAuthGuard and PermissionsGuard.  A body that is not of the    *)
(* right shape is refused before anything is called.                       *)
(***************************************************************************)
Gets(permission, handlers) ==
    {[handler |-> h, permission |-> permission, effect |-> "reads"] : h \in handlers}
Posts(permission, handlers) ==
    {[handler |-> h, permission |-> permission, effect |-> "writes"] : h \in handlers}
Own(permission, handlers) ==
    {[handler |-> h, permission |-> permission, effect |-> "own"] : h \in handlers}

(***************************************************************************)
(* RentalController                                                        *)
(***************************************************************************)
ContractRoutes ==
    Posts("contract:write", {"createContract", "chargeFromReading", "createAdHocCharge",
                             "generateCharge"})
      \cup Gets("contract:read", {"listContracts", "getContract", "listCharges"})

PaymentRoutes == Posts("payment:write", {"recordPayment"}) \cup Gets("payment:read", {"getReceipt"})

CodeudorRoutes ==
    Posts("contract:write", {"addCodeudor"})
      \cup Gets("contract:read", {"listCodeudores", "listExpiringPolicies", "listExpiringContracts"})

TermRoutes ==
    Posts("contract:write", {"renewContract", "terminateContract"})
      \cup Gets("contract:read", {"getTermination", "getSchedule"})

RentIndexRoutes ==
    Posts("contract:write", {"recordRentIndex", "applyRentIncrease"})
      \cup Gets("contract:read", {"getRentIndex"})

MeterRoutes ==
    Posts("contract:write", {"recordMeterReading"}) \cup Gets("contract:read", {"listMeterReadings"})

DepositRoutes ==
    Posts("payment:write", {"recordDeposit", "deductDeposit", "returnDeposit"})
      \cup Gets("payment:read", {"listDeposits"})

ArrearsRoutes ==
    Posts("contract:write", {"configureLateFeeRule", "recordDunningEvent"})
      \cup Gets("contract:read", {"getAging", "evaluateLateFee", "listDunningEvents"})

(***************************************************************************)
(* The other controllers                                                   *)
(***************************************************************************)
SettlementRoutes ==
    Posts("settlement:write", {"generateSettlement", "recordPayout"})
      \cup Gets("settlement:read", {"getSettlement"})

\* FinanceController
BankRoutes ==
    Posts("finance:write", {"importBank", "confirmReconciliation"})
      \cup Gets("finance:read", {"listBankTransactions", "suggestMatches"})
LedgerRoutes ==
    Posts("finance:write", {"createAccount", "createCategory", "recordTransaction"})
      \cup Gets("finance:read", {"listAccounts", "listCategories", "listTransactions",
                                 "monthlyStatement", "yearlyStatement"})

\* GovernanceController: evaluating an authorization writes nothing.
AssemblyRoutes ==
    Posts("property:write", {"createAct", "createDecision", "recordVote"})
      \cup Gets("property:read", {"listActs", "listDecisions", "decisionResult"})
CuotaRoutes ==
    Posts("property:write", {"createPhCuota"}) \cup Posts("contract:write", {"billPhCuota"})
      \cup Gets("property:read", {"evaluateAuthorization", "listPhCuotas"})

\* PropertiesController
PropertyRoutes ==
    Posts("property:write", {"createProperty", "updatePropertyConfig", "updateUnitConfig"})
      \cup Gets("property:read", {"listProperties", "getProperty", "setupStatus"})
OccupancyRoutes ==
    Posts("property:write", {"addOwner", "addTenant", "addAttachment", "deleteAttachment"})
      \cup Gets("property:read", {"listAttachments"})

\* DocumentsController
DocumentRoutes ==
    Posts("document:write", {"createTemplate", "updateTemplate", "createDocument"})
      \cup Gets("document:read", {"listTemplates", "listDocuments", "getDocument"})
ReviewRoutes ==
    Posts("document:write", {"editDocument", "transition", "sign", "requestPdf"})
      \cup Posts("document:approve", {"approve"})
      \cup Gets("document:read", {"listApprovals", "listSignatures"})

\* CommunicationsController: to read one's notifications is enough to mark them
\* and to change one's preferences.
NotificationRoutes ==
    Posts("communication:write", {"notify"})
      \cup Own("communication:read", {"markRead", "setPreference"})
      \cup Gets("communication:read", {"myNotifications", "myPreferences"})
CommunicationRoutes ==
    Posts("communication:write", {"sendCommunication", "upsertTemplate", "markOutbox"})
      \cup Gets("communication:read", {"listCommunications", "listTemplates", "pendingOutbox"})

\* MaintenanceController, CasesController, DirectoryController, HandoverController
MaintenanceRoutes ==
    Posts("maintenance:write", {"createRequest", "transition", "createWorkOrder",
                                "transitionWorkOrder"})
      \cup Gets("maintenance:read", {"listRequests", "listWorkOrders"})
CaseRoutes ==
    Posts("property:write", {"createComplaint", "transitionComplaint", "createClaim",
                             "transitionClaim", "createTaxRecord", "publishHouseRule"})
      \cup Gets("property:read", {"listComplaints", "listClaims", "upcomingDeadlines",
                                  "listHouseRules"})
DirectoryRoutes ==
    Posts("property:write", {"createSupplier", "createPurchase", "createInsurance"})
      \cup Posts("maintenance:write", {"assignSupplier"})
      \cup Gets("property:read", {"listSuppliers", "listPurchases", "listInsurance"})
HandoverRoutes ==
    Posts("contract:write", {"record"}) \cup Gets("contract:read", {"list", "get"})

\* AiController: a call writes its audit event; AiFeaturesController
InferenceRoutes ==
    Posts("ai:write", {"generateText", "generateStructured", "generateEmbedding", "decide",
                       "analyzeImage", "complete"})
      \cup Gets("ai:read", {"status"})
RegistryRoutes ==
    Posts("ai:write", {"registerModel", "recordEvaluation", "transitionModel", "recordObservation"})
      \cup Gets("ai:read", {"listModels", "calibration", "metrics", "modes"})
FeatureRoutes ==
    Posts("ai:write", {"draft", "communication", "summarize", "extract", "classify", "vision",
                       "triage", "confirm", "reject"})
      \cup Gets("ai:read", {"list", "get"})

\* AuditController, ReportsController
ReportRoutes == Gets("report:read", {"listEvents"}) \cup Gets("finance:read", {"kpis"})

\* OrganizationsController.listMembers; the others are actions of Access.
MemberRoutes == Gets("member:read", {"listMembers"})

-----------------------------------------------------------------------------
RoutesOnFile ==
    ContractRoutes \cup PaymentRoutes \cup CodeudorRoutes \cup TermRoutes \cup RentIndexRoutes
      \cup MeterRoutes \cup DepositRoutes \cup ArrearsRoutes \cup SettlementRoutes
      \cup BankRoutes \cup LedgerRoutes \cup AssemblyRoutes \cup CuotaRoutes
      \cup PropertyRoutes \cup OccupancyRoutes \cup DocumentRoutes \cup ReviewRoutes
      \cup NotificationRoutes \cup CommunicationRoutes \cup MaintenanceRoutes \cup CaseRoutes
      \cup DirectoryRoutes \cup HandoverRoutes \cup InferenceRoutes \cup RegistryRoutes
      \cup FeatureRoutes \cup ReportRoutes \cup MemberRoutes
=============================================================================
