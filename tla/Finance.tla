------------------------------- MODULE Finance -------------------------------
(***************************************************************************)
(* FinanceService over the statements of its Prisma store: importing bank  *)
(* statements, confirming reconciliations, opening accounts and            *)
(* categories, recording ledger transactions and adding up statements.     *)
(*                                                                         *)
(* An import lists what is on file once and inserts row by row; the unique *)
(* key (bank, account, date, amount, reference) takes a NULL reference for *)
(* a different one each time and knows no organization.                    *)
(***************************************************************************)
EXTENDS BankStatement

CONSTANTS
    Slots,        \* handlers that may be under way at once
    Orgs, Banks,
    Files,        \* statements: sequences of [group, amount]
    Referenced,   \* the groups whose reference is not NULL
    Codes,        \* codes of accounts and names of categories
    Entries,      \* amounts of ledger transactions in minor units
    Months,       \* number of months in a year
    MaxRequests   \* bound on the requests of a behaviour

VARIABLES
    bankTransactions, \* rows on file; copy tells apart what SQL tells apart by id
    reconciled,       \* rows of bankTransactions with a Reconciliation
    named,            \* accounts and categories on file
    created,          \* created[c]: audit events that say c was created
    ledger,           \* ledger[m]: amounts of the transactions of month m
    pc, job,          \* where the handler of each slot stands and what it knows
    requests,         \* requests so far
    imported,         \* history: <<org, bank, row>> of imports that completed
    raced             \* history: two handlers of a kind overlapped

tables == <<bankTransactions, reconciled, named, created, ledger>>
finVars == <<tables, pc, job, requests, imported, raced>>

BankRows == UNION {{f[i] : i \in DOMAIN f} : f \in Files}
BankRow == [org : Orgs, bank : Banks, group : {r.group : r \in BankRows},
            amount : {r.amount : r \in BankRows}, quarantined : BOOLEAN, copy : Nat \ {0}]
Months1 == 1..Months
FinAssumption ==
    Months \in Nat /\ Entries \subseteq Int /\ \A f \in Files : f \in Seq(BankRows)
Idle == [kind |-> "none"]

FinTypeOK ==
    /\ bankTransactions \subseteq BankRow /\ reconciled \subseteq bankTransactions
    /\ named \subseteq Codes /\ created \in [Codes -> Nat]
    /\ ledger \in [Months1 -> Seq(Entries)]
    /\ pc \in [Slots -> {"idle", "insert", "write", "read", "audit"}]
    /\ \A s \in Slots : job[s].kind \in {"none", "import", "name", "yearly"}
    /\ requests \in 0..MaxRequests /\ raced \in BOOLEAN

FinInit ==
    /\ bankTransactions = {} /\ reconciled = {} /\ named = {}
    /\ created = [c \in Codes |-> 0]
    /\ ledger = [m \in Months1 |-> <<>>]
    /\ pc = [s \in Slots |-> "idle"] /\ job = [s \in Slots |-> Idle]
    /\ requests = 0 /\ imported = {} /\ raced = FALSE

-----------------------------------------------------------------------------
Counted == requests < MaxRequests /\ requests' = requests + 1

\* A handler took a request and read what the request depends on.
Begin(s, step, request) ==
    /\ pc[s] = "idle" /\ Counted
    /\ pc' = [pc EXCEPT ![s] = step]
    /\ job' = [job EXCEPT ![s] = request]
    /\ raced' = (raced \/ \E q \in Slots : job[q].kind = request.kind)
    /\ UNCHANGED <<tables, imported>>

At(s, step, kind) == pc[s] = step /\ job[s].kind = kind
Done(s) ==
    /\ pc' = [pc EXCEPT ![s] = "idle"]
    /\ job' = [job EXCEPT ![s] = Idle]
    /\ UNCHANGED <<requests, raced>>

(***************************************************************************)
(* importBank                                                              *)
(***************************************************************************)
ListBankTransactions(org) == {r \in bankTransactions : r.org = org}

Mutant_NothingKnown(s, org, bank, file) ==
    Begin(s, "insert", [kind |-> "import", org |-> org, bank |-> bank, file |-> file,
                        toCreate |-> ToCreate(file), quarantined |-> Quarantined(file),
                        known |-> {}])
ImportBank(s, org, bank, file) ==
    Begin(s, "insert", [kind |-> "import", org |-> org, bank |-> bank, file |-> file,
                        toCreate |-> ToCreate(file), quarantined |-> Quarantined(file),
                        known |-> {DedupeKey(r) : r \in ListBankTransactions(org)}])

Same(r, bank, row) == r.bank = bank /\ r.group = row.group /\ r.amount = row.amount

\* tryCreateBankTransaction: the insert, or a conflict with the unique key.
TryCreateBankTransaction(org, bank, row, quarantined) ==
    LET alike == {r \in bankTransactions : Same(r, bank, row)}
        new == [org |-> org, bank |-> bank, group |-> row.group, amount |-> row.amount,
                quarantined |-> quarantined, copy |-> Cardinality(alike) + 1]
    IN  bankTransactions' = bankTransactions
                              \cup (IF row.group \in Referenced /\ alike # {} THEN {} ELSE {new})

CreateRow(s) ==
    LET j == job[s] i == NextOf(j.file, j.toCreate) row == j.file[i] IN
    /\ At(s, "insert", "import") /\ j.toCreate # {}
    /\ IF DedupeKey(row) \in j.known THEN UNCHANGED bankTransactions
       ELSE TryCreateBankTransaction(j.org, j.bank, row, FALSE)
    /\ job' = [job EXCEPT ![s].toCreate = @ \ {i}, ![s].known = @ \cup {DedupeKey(row)}]
    /\ UNCHANGED <<reconciled, named, created, ledger, pc, requests, imported, raced>>

\* Quarantined rows are not compared with what is known.
QuarantineRow(s) ==
    LET j == job[s] i == NextOf(j.file, j.quarantined) IN
    /\ At(s, "insert", "import") /\ j.toCreate = {} /\ j.quarantined # {}
    /\ TryCreateBankTransaction(j.org, j.bank, j.file[i], TRUE)
    /\ job' = [job EXCEPT ![s].quarantined = @ \ {i}]
    /\ UNCHANGED <<reconciled, named, created, ledger, pc, requests, imported, raced>>

ImportCompleted(s) ==
    LET j == job[s] IN
    /\ At(s, "insert", "import") /\ j.toCreate = {} /\ j.quarantined = {}
    /\ imported' = imported \cup {<<j.org, j.bank, j.file[i]>> : i \in DOMAIN j.file}
    /\ Done(s)
    /\ UNCHANGED tables

(***************************************************************************)
(* confirmReconciliation                                                   *)
(***************************************************************************)
\* The unique key of Reconciliation fails the handler that comes second.
ConfirmReconciliation(org, tx) ==
    /\ tx \in ListBankTransactions(org) \ reconciled
    /\ reconciled' = reconciled \cup {tx}
    /\ Counted
    /\ UNCHANGED <<bankTransactions, named, created, ledger, pc, job, imported, raced>>

(***************************************************************************)
(* createAccount, createCategory                                           *)
(***************************************************************************)
CreateNamed(s, code) ==
    /\ code \notin named
    /\ Begin(s, "write", [kind |-> "name", code |-> code])

\* The one that comes second is answered with the row of the first.
InsertNamed(s) ==
    /\ At(s, "write", "name")
    /\ named' = named \cup {job[s].code}
    /\ pc' = [pc EXCEPT ![s] = "audit"]
    /\ UNCHANGED <<bankTransactions, reconciled, created, ledger, imported, job, requests, raced>>

(***************************************************************************)
(* recordTransaction: its account is on file                               *)
(***************************************************************************)
RecordTransaction(month, amount) ==
    /\ named # {}
    /\ ledger' = [ledger EXCEPT ![month] = Append(@, amount)]
    /\ Counted
    /\ UNCHANGED <<bankTransactions, reconciled, named, created, pc, job, imported, raced>>

(***************************************************************************)
(* yearlyStatement: one statement per month; a monthly one is its case of  *)
(* one month                                                               *)
(***************************************************************************)
Sum(f, S) == SumFunctionOnSet(f, S)

Summarize(amounts) ==
    LET income == Sum(amounts, {i \in DOMAIN amounts : amounts[i] >= 0})
        expenses == Sum(amounts, {i \in DOMAIN amounts : amounts[i] < 0})
    IN  [income |-> income, expenses |-> expenses, net |-> income + expenses,
         entries |-> Len(amounts)]

YearlyStatement(s) ==
    Begin(s, "read", [kind |-> "yearly", before |-> ledger, rows |-> <<>>, all |-> <<>>])

\* all.push(...rows): the total of the year is that of the rows of its months.
ListMonth(s) ==
    LET month == Len(job[s].rows) + 1 IN
    /\ At(s, "read", "yearly") /\ month \in Months1
    /\ job' = [job EXCEPT ![s].rows = Append(@, ledger[month]), ![s].all = @ \o ledger[month]]
    /\ UNCHANGED <<tables, pc, requests, imported, raced>>

AnswerStatement(s) ==
    /\ At(s, "read", "yearly") /\ Len(job[s].rows) = Months
    /\ Done(s)
    /\ UNCHANGED <<tables, imported>>

-----------------------------------------------------------------------------
\* The audit event ends the other handlers without a step of its own.
NamedCreated(s) ==
    /\ pc[s] = "audit"
    /\ created' = [created EXCEPT ![job[s].code] = @ + 1]
    /\ Done(s)
    /\ UNCHANGED <<bankTransactions, reconciled, named, ledger, imported>>

\* A statement fails or the process dies; what was written stays.
Abort(s) ==
    /\ pc[s] # "idle"
    /\ Done(s)
    /\ UNCHANGED <<tables, imported>>

FinNext ==
    \/ \E org \in Orgs, tx \in bankTransactions : ConfirmReconciliation(org, tx)
    \/ \E m \in Months1, a \in Entries : RecordTransaction(m, a)
    \/ \E s \in Slots :
        \/ \E org \in Orgs, bank \in Banks, file \in Files : ImportBank(s, org, bank, file)
        \/ CreateRow(s) \/ QuarantineRow(s) \/ ImportCompleted(s)
        \/ \E code \in Codes : CreateNamed(s, code)
        \/ InsertNamed(s)
        \/ YearlyStatement(s) \/ ListMonth(s) \/ AnswerStatement(s)
        \/ NamedCreated(s) \/ Abort(s)

-----------------------------------------------------------------------------
\* Importing statements again, whole or overlapping, from one bank or another,
\* never puts a payment on file twice for an organization, nor is an account or
\* category reported as created twice, until two imports (or two creations)
\* overlap.  Quarantined rows are outside: nothing compares them.
OnFileOnce ==
    ~raced =>
        /\ \A r, q \in bankTransactions :
               /\ r.org = q.org /\ DedupeKey(r) = DedupeKey(q)
               /\ ~r.quarantined /\ ~q.quarantined
               => r = q
        /\ \A c \in Codes : created[c] <= 1

\* Every row of an import that completed is on file: for its organization, or,
\* as the unique key knows no organization, for another one at the same bank.
ImportedIsOnFile ==
    \A x \in imported :
        LET org == x[1] bank == x[2] row == x[3] IN
        \E r \in bankTransactions :
            /\ DedupeKey(r) = DedupeKey(row)
            /\ r.org = org \/ (r.bank = bank /\ row.group \in Referenced)

\* A statement read month by month while transactions are recorded shows, for
\* each month, everything there was when it began and nothing there is not, and
\* the net of the year is what the nets of its months add up to.
StatementAddsUp ==
    \A s \in Slots : job[s].kind = "yearly" =>
        LET rows == job[s].rows
            nets == [m \in DOMAIN rows |-> Summarize(rows[m]).net] IN
        /\ \A m \in DOMAIN rows : IsPrefix(job[s].before[m], rows[m]) /\ IsPrefix(rows[m], ledger[m])
        /\ Summarize(job[s].all).net = Sum(nets, DOMAIN rows)
=============================================================================
