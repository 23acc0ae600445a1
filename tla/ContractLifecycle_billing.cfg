\* Billing a contract that was terminated.
SPECIFICATION ContractsSpec
CONSTANTS
    Desks = {"life"}
    r1 = r1  r2 = r2  r3 = r3  g1 = g1  g2 = g2  p1 = p1  p2 = p2
    Movements <- MCRequests
    HeldAmounts = {0, 2, 3}
    MoveAmounts = {0, 1, 2}
    Requests <- MCRequests
    Months = {1, 3, 5}
    Rents = {3}
    Indexes <- MCIndexes
    Caps = {50, 100}
    Owners <- MCRequests
    Settlers <- MCSettlers
    Payers <- MCPayers
    Whole = 6
    Shares = {0, 2, 4}
    PayAmounts = {8}
    MaxPaid = 8
    Commissions = {0, 10}
SYMMETRY MCSymmetry
PROPERTY BilledOnlyWhileActive
CHECK_DEADLOCK FALSE
