\* Two payments that may overlap, two requests that create charges, aborts.
SPECIFICATION Spec
CONSTANTS
    p1 = p1  p2 = p2  g1 = g1  g2 = g2  jan = jan  fine = fine
    Payments <- MCPayments
    Generators <- MCGenerators
    Charges <- MCCharges
    RentCharges <- MCRentCharges
    Due <- MCDue
    PayAmounts = {0, 1, 2, 3}
    ChargeAmounts = {1, 2}
SYMMETRY MCSymmetry
INVARIANTS StatusIsBacked OldestDebtFirst ReceiptMeansPosted BooksAgree
PROPERTY ChargesLast
CHECK_DEADLOCK FALSE
