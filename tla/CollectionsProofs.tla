-------------------------- MODULE CollectionsProofs --------------------------
(***************************************************************************)
(* What Collections guarantees for every set of charges, payments and      *)
(* amounts, with any overlap of the handlers and aborts anywhere.          *)
(*                                                                         *)
(* The status written for a charge comes from a balance that may be long   *)
(* out of date.  It is still right to say PAID, because Allocation rows    *)
(* are only ever added: what the handler saw on the charge, plus its own   *)
(* row, is never more than what is there now.  That is the first conjunct  *)
(* of PairInv, and the reason StatusIsBacked needs it.                     *)
(*                                                                         *)
(* IInv carries the snapshots.  On top of it stand three layers, each kept *)
(* by every step: AccountsHold, the sums of the rows; OInv, what is still  *)
(* promised on a charge beside what it has received; SInv, what one        *)
(* handler alone may rely on.                                              *)
(***************************************************************************)
EXTENDS Collections, SumTheorems, TLAPS

Posted == {"PARTIAL", "PAID"}

PairInv(p, c) ==
    /\ c \in seen[p] =>
          status[c] # "NONE" /\ amount[c] + alloc[p][c] <= allocated[c] + bal[p][c]
    /\ c \in todo[p] => c \in seen[p] /\ alloc[p][c] = 0 /\ bal[p][c] > 0
    /\ c \in seen[p] \ todo[p] => bal[p][c] <= alloc[p][c] \/ left[p] = 0
    /\ c \in mark[p] => alloc[p][c] > 0
    /\ alloc[p][c] > 0 =>
          /\ c \in seen[p] /\ alloc[p][c] <= allocated[c]
          /\ c \in mark[p] \/ status[c] \in Posted

SnapshotsHold == \A p \in Payments, c \in Charges : PairInv(p, c)

\* The loop of allocatePayment has covered what is older than what it reached.
OlderCovered ==
    \A p \in Payments, c, d \in Charges :
        alloc[p][c] > 0 /\ d \in seen[p] /\ Due[d] < Due[c] => bal[p][d] <= alloc[p][d]

NothingSeenBefore ==
    \A p \in Payments : pc[p] \in {"idle", "stored"} => seen[p] = {}

ReceiptsLast ==
    \A p \in receipts :
        /\ pc[p] \in {"receipted", "done", "failed"}
        /\ mark[p] = {} /\ AllocationDone(p)

IInv ==
    /\ TypeOK
    /\ SnapshotsHold
    /\ OlderCovered
    /\ NothingSeenBefore
    /\ ReceiptsLast
    /\ StatusIsBacked

\* A share is never negative and never more than the balance or what is left.
LEMMA ShareBounds ==
    ASSUME TypeOK, NEW p \in Payments, NEW c \in Charges, bal[p][c] > 0, left[p] > 0
    PROVE  /\ Share(p, c) \in Nat /\ Share(p, c) > 0
           /\ Share(p, c) <= bal[p][c] /\ Share(p, c) <= left[p]
           /\ Share(p, c) = bal[p][c] \/ Share(p, c) = left[p]
<1>1. bal[p][c] \in Int /\ left[p] \in Nat
  BY DEF TypeOK
<1> QED
  BY <1>1 DEF Share

LEMMA InitIInv == Init => IInv
<1> SUFFICES ASSUME Init
             PROVE  IInv
  OBVIOUS
<1>1. TypeOK
  BY DEF Init, TypeOK, ChargeStatus, PayPC, GenPC
<1>2. \A p \in Payments : seen[p] = {} /\ todo[p] = {} /\ mark[p] = {}
  BY DEF Init
<1>3. \A p \in Payments, c \in Charges : alloc[p][c] = 0
  BY DEF Init
<1>4. SnapshotsHold
  BY <1>2, <1>3 DEF SnapshotsHold, PairInv
<1>5. OlderCovered /\ NothingSeenBefore
  BY <1>2, <1>3 DEF OlderCovered, NothingSeenBefore
<1>6. ReceiptsLast /\ StatusIsBacked
  BY DEF Init, ReceiptsLast, StatusIsBacked
<1> QED
  BY <1>1, <1>4, <1>5, <1>6 DEF IInv

\* Steps of the requests that create charges: a new charge has no rows yet and
\* no handler has seen it.
LEMMA GeneratorIInv ==
    ASSUME IInv, NEW g \in Generators,
           \/ \E a \in ChargeAmounts : GenerateMonthlyCharge(g, a) \/ CreateAdHocCharge(g, a)
           \/ CreateCharge(g) \/ AuditCharge(g) \/ AbortGenerator(g)
    PROVE  IInv'
<1>1. UNCHANGED <<allocated, alloc, receipts, pc, amt, seen, bal, left, todo, mark, peak>>
  BY DEF GenerateMonthlyCharge, CreateAdHocCharge, CreateCharge, AuditCharge, AbortGenerator,
         charges, rows, locals
<1>2. /\ status' \in [Charges -> ChargeStatus] /\ amount' \in [Charges -> Nat]
      /\ \A c \in Charges : status[c] # "NONE" => status'[c] = status[c] /\ amount'[c] = amount[c]
      /\ \A c \in Charges : status[c] = "NONE" => status'[c] \in {"NONE", "PENDING"}
  <2>1. CASE CreateCharge(g)
    <3>1. gkey[g] \in Charges /\ gamt[g] \in Nat
      BY DEF IInv, TypeOK
    <3> QED
      BY <2>1, <3>1 DEF CreateCharge, IInv, TypeOK, ChargeStatus
  <2>2. CASE ~CreateCharge(g)
    <3>1. status' = status /\ amount' = amount
      BY <2>2 DEF GenerateMonthlyCharge, CreateAdHocCharge, AuditCharge, AbortGenerator, charges
    <3> QED
      BY <3>1 DEF IInv, TypeOK
  <2> QED
    BY <2>1, <2>2
<1>3. gpc' \in [Generators -> GenPC] /\ gkey' \in [Generators -> Charges] /\ gamt' \in [Generators -> Nat]
  BY AmountsAssumption DEF GenerateMonthlyCharge, CreateAdHocCharge, CreateCharge, AuditCharge,
         AbortGenerator, IInv, TypeOK, GenPC
<1>4. TypeOK'
  BY <1>1, <1>2, <1>3 DEF IInv, TypeOK
<1>5. SnapshotsHold'
  BY <1>1, <1>2 DEF IInv, TypeOK, SnapshotsHold, PairInv, Posted
<1>6. OlderCovered' /\ NothingSeenBefore' /\ ReceiptsLast'
  BY <1>1 DEF IInv, OlderCovered, NothingSeenBefore, ReceiptsLast, AllocationDone
<1>7. StatusIsBacked'
  BY <1>1, <1>2 DEF IInv, StatusIsBacked
<1> QED
  BY <1>4, <1>5, <1>6, <1>7 DEF IInv

LEMMA StoreIInv ==
    ASSUME IInv, NEW p \in Payments, NEW a \in PayAmounts, StorePayment(p, a)
    PROVE  IInv'
<1>1. UNCHANGED <<charges, rows, seen, bal, left, todo, mark, glocals>>
  BY DEF StorePayment
<1>2. peak' \in Nat
  <2>1. Cardinality({q \in Payments : InFlight(q)}) \in Nat
    BY PaymentsAssumption, FS_Subset, FS_CardinalityType
  <2> QED
    BY <2>1 DEF StorePayment, IInv, TypeOK
<1>3. pc' \in [Payments -> PayPC] /\ amt' \in [Payments -> Nat]
  BY AmountsAssumption DEF StorePayment, IInv, TypeOK, PayPC
<1>4. TypeOK'
  BY <1>1, <1>2, <1>3 DEF IInv, TypeOK, charges, rows, glocals
<1>5. SnapshotsHold' /\ OlderCovered' /\ StatusIsBacked'
  BY <1>1 DEF IInv, SnapshotsHold, PairInv, OlderCovered, StatusIsBacked, charges, rows
<1>6. NothingSeenBefore'
  BY <1>1 DEF IInv, TypeOK, NothingSeenBefore, StorePayment
<1>7. ReceiptsLast'
  BY <1>1 DEF IInv, TypeOK, ReceiptsLast, AllocationDone, StorePayment, rows
<1> QED
  BY <1>4, <1>5, <1>6, <1>7 DEF IInv

LEMMA ReadIInv ==
    ASSUME IInv, NEW p \in Payments, ReadBalances(p)
    PROVE  IInv'
<1> DEFINE open == {c \in Charges : Pending(c)}
           reads == [c \in Charges |-> IF c \in open THEN Balance(c) ELSE 0]
<1>1. UNCHANGED <<charges, rows, amt, mark, glocals, peak>>
  BY DEF ReadBalances
<1>2. /\ seen' = [seen EXCEPT ![p] = open]
      /\ bal' = [bal EXCEPT ![p] = reads]
      /\ left' = [left EXCEPT ![p] = amt[p]]
      /\ todo' = [todo EXCEPT ![p] = {c \in open : Balance(c) > 0}]
      /\ pc' = [pc EXCEPT ![p] = IF amt[p] = 0 THEN "failed" ELSE "allocating"]
      /\ pc[p] = "stored"
  BY DEF ReadBalances
<1>3. reads \in [Charges -> Int]
  BY DEF IInv, TypeOK, Balance
<1>4. TypeOK'
  BY <1>1, <1>2, <1>3 DEF IInv, TypeOK, PayPC, charges, rows, glocals
<1>5. \A c \in Charges : alloc[p][c] = 0 /\ c \notin mark[p]
  <2>1. seen[p] = {}
    BY <1>2 DEF IInv, NothingSeenBefore
  <2>2. TAKE c \in Charges
  <2>3. PairInv(p, c) /\ alloc[p][c] \in Nat
    BY DEF IInv, TypeOK, SnapshotsHold
  <2>4. alloc[p][c] = 0
    BY <2>1, <2>3 DEF PairInv
  <2> QED
    BY <2>3, <2>4 DEF PairInv
<1>6. SnapshotsHold'
  <2> SUFFICES ASSUME NEW q \in Payments, NEW c \in Charges
               PROVE  PairInv(q, c)'
    BY DEF SnapshotsHold
  <2>1. CASE q = p
    <3>1. seen'[p] = open /\ bal'[p] = reads /\ todo'[p] = {d \in open : Balance(d) > 0} /\ alloc'[p][c] = 0
      BY <1>1, <1>2, <1>5 DEF IInv, TypeOK, rows
    <3>2. mark'[p] = mark[p] /\ status' = status /\ amount' = amount /\ allocated' = allocated
      BY <1>1 DEF charges
    <3> QED
      BY <2>1, <3>1, <3>2, <1>5 DEF IInv, TypeOK, PairInv, Pending, Balance
  <2>2. CASE q # p
    BY <1>1, <1>2, <2>2 DEF IInv, TypeOK, SnapshotsHold, PairInv, charges, rows
  <2> QED
    BY <2>1, <2>2
<1>7. OlderCovered'
  BY <1>1, <1>2, <1>5 DEF IInv, TypeOK, OlderCovered, rows
<1>8. NothingSeenBefore'
  BY <1>2 DEF IInv, TypeOK, NothingSeenBefore
<1>9. ReceiptsLast'
  BY <1>1, <1>2 DEF IInv, TypeOK, ReceiptsLast, AllocationDone, rows
<1>10. StatusIsBacked'
  BY <1>1 DEF IInv, StatusIsBacked, charges
<1> QED
  BY <1>4, <1>6, <1>7, <1>8, <1>9, <1>10 DEF IInv

LEMMA AllocateIInv ==
    ASSUME IInv, NEW p \in Payments, NEW c \in Charges, Allocate(p, c)
    PROVE  IInv'
<1> DEFINE s == Share(p, c)
<1>1. pc[p] = "allocating" /\ left[p] > 0 /\ c \in todo[p] /\ \A d \in todo[p] : Due[c] <= Due[d]
  BY DEF Allocate, Oldest
<1>2. PairInv(p, c) /\ c \in seen[p] /\ alloc[p][c] = 0 /\ bal[p][c] > 0
  BY <1>1 DEF IInv, SnapshotsHold, PairInv
<1>3. s \in Nat /\ s > 0 /\ s <= bal[p][c] /\ s <= left[p] /\ (s = bal[p][c] \/ s = left[p])
  BY <1>1, <1>2, ShareBounds DEF IInv
<1> HIDE DEF s
<1>4. /\ alloc' = [alloc EXCEPT ![p] = [alloc[p] EXCEPT ![c] = alloc[p][c] + s]]
      /\ allocated' = [allocated EXCEPT ![c] = @ + s]
      /\ left' = [left EXCEPT ![p] = @ - s]
      /\ todo' = [todo EXCEPT ![p] = @ \ {c}]
      /\ mark' = [mark EXCEPT ![p] = @ \cup {c}]
      /\ UNCHANGED <<status, amount, receipts, pc, amt, seen, bal, gpc, gkey, gamt, peak>>
  BY DEF Allocate, s, glocals
<1>5. TypeOK'
  <2>1. alloc' \in [Payments -> [Charges -> Nat]] /\ allocated' \in [Charges -> Nat]
    BY <1>3, <1>4 DEF IInv, TypeOK
  <2>2. left' \in [Payments -> Nat]
    BY <1>3, <1>4 DEF IInv, TypeOK
  <2> QED
    BY <1>4, <2>1, <2>2 DEF IInv, TypeOK
<1>6. alloc'[p][c] = s /\ allocated'[c] = allocated[c] + s /\ left'[p] = left[p] - s
  BY <1>2, <1>3, <1>4 DEF IInv, TypeOK
<1>7. \A q \in Payments, d \in Charges : (q # p \/ d # c) => alloc'[q][d] = alloc[q][d]
  BY <1>4 DEF IInv, TypeOK
<1>8. SnapshotsHold'
  <2> SUFFICES ASSUME NEW q \in Payments, NEW d \in Charges
               PROVE  PairInv(q, d)'
    BY DEF SnapshotsHold
  <2>0. PairInv(q, d) /\ alloc[q][d] \in Nat /\ allocated[d] \in Nat /\ amount[d] \in Nat /\ bal[q][d] \in Int
    BY DEF IInv, TypeOK, SnapshotsHold
  <2>1. allocated'[d] >= allocated[d] /\ allocated'[d] \in Nat
    BY <1>3, <1>4, <2>0 DEF IInv, TypeOK
  <2>2. CASE q = p /\ d = c
    <3>1. d \notin todo'[q] /\ d \in mark'[q] /\ d \in seen'[q]
      BY <1>2, <1>4, <2>2 DEF IInv, TypeOK
    <3>2. status'[d] = status[d] /\ amount'[d] = amount[d] /\ bal'[q][d] = bal[q][d]
      BY <1>4
    <3>3. bal'[q][d] <= alloc'[q][d] \/ left'[q] = 0
      BY <1>3, <1>6, <2>2, <3>2, <2>0 DEF IInv, TypeOK
    <3> QED
      BY <1>2, <1>3, <1>6, <2>0, <2>2, <3>1, <3>2, <3>3 DEF PairInv
  <2>3. CASE q = p /\ d # c
    <3>1. /\ (d \in todo'[q] <=> d \in todo[q]) /\ (d \in mark'[q] <=> d \in mark[q])
          /\ seen' = seen /\ status' = status /\ amount' = amount /\ bal' = bal
          /\ alloc'[q][d] = alloc[q][d]
      BY <1>4, <1>7, <2>3 DEF IInv, TypeOK
    <3>2. d \in seen[q] \ todo[q] => bal[q][d] <= alloc[q][d]
      BY <1>1, <2>0, <2>3 DEF PairInv
    <3> QED
      BY <2>0, <2>1, <3>1, <3>2 DEF PairInv
  <2>4. CASE q # p
    <3>1. /\ todo'[q] = todo[q] /\ mark'[q] = mark[q] /\ left'[q] = left[q]
          /\ seen' = seen /\ status' = status /\ amount' = amount /\ bal' = bal
          /\ alloc'[q][d] = alloc[q][d]
      BY <1>4, <1>7, <2>4 DEF IInv, TypeOK
    <3> QED
      BY <2>0, <2>1, <3>1 DEF PairInv
  <2> QED
    BY <2>2, <2>3, <2>4
<1>9. OlderCovered'
  <2> SUFFICES ASSUME NEW q \in Payments, NEW e \in Charges, NEW d \in Charges,
                      alloc'[q][e] > 0, d \in seen[q], Due[d] < Due[e]
               PROVE  bal[q][d] <= alloc'[q][d]
    BY <1>4 DEF OlderCovered
  <2>1. alloc'[q][d] >= alloc[q][d] /\ alloc[q][d] \in Nat /\ alloc'[q][d] \in Nat /\ bal[q][d] \in Int
    <3>1. alloc[q][d] \in Nat /\ alloc'[q][d] \in Nat /\ bal[q][d] \in Int
      BY <1>5 DEF IInv, TypeOK
    <3>2. CASE q = p /\ d = c
      BY <1>2, <1>3, <1>6, <3>1, <3>2
    <3>3. CASE ~(q = p /\ d = c)
      BY <1>7, <3>1, <3>3
    <3> QED
      BY <3>1, <3>2, <3>3
  <2>2. CASE alloc[q][e] > 0
    BY <2>1, <2>2 DEF IInv, OlderCovered
  <2>3. CASE ~(alloc[q][e] > 0)
    <3>1. q = p /\ e = c
      BY <1>7, <2>3
    <3>2. Due[d] \in Nat /\ Due[c] \in Nat
      BY DueAssumption
    <3>3. d \in seen[p] \ todo[p]
      BY <1>1, <3>1, <3>2
    <3>4. PairInv(p, d)
      BY DEF IInv, SnapshotsHold
    <3>5. bal[p][d] <= alloc[p][d]
      BY <1>1, <3>3, <3>4 DEF PairInv
    <3> QED
      BY <2>1, <3>1, <3>5
  <2> QED
    BY <2>2, <2>3
<1>10. NothingSeenBefore' /\ ReceiptsLast'
  BY <1>1, <1>4 DEF IInv, TypeOK, NothingSeenBefore, ReceiptsLast, AllocationDone
<1>11. StatusIsBacked'
  BY <1>3, <1>4 DEF IInv, TypeOK, StatusIsBacked
<1> QED
  BY <1>5, <1>8, <1>9, <1>10, <1>11 DEF IInv

LEMMA MarkIInv ==
    ASSUME IInv, NEW p \in Payments, NEW c \in Charges, MarkStatus(p, c)
    PROVE  IInv'
<1> DEFINE t == ChargePaymentStatus(bal[p][c], alloc[p][c])
<1>1. /\ pc[p] = "allocating" /\ c \in mark[p]
      /\ status' = [status EXCEPT ![c] = t]
      /\ mark' = [mark EXCEPT ![p] = @ \ {c}]
      /\ UNCHANGED <<amount, allocated, alloc, receipts, pc, amt, seen, bal, left, todo, gpc, gkey, gamt, peak>>
  BY DEF MarkStatus, Oldest, rows, glocals
<1>2. PairInv(p, c) /\ alloc[p][c] \in Nat /\ bal[p][c] \in Int /\ amount[c] \in Nat /\ allocated[c] \in Nat
  BY DEF IInv, TypeOK, SnapshotsHold
<1>3. /\ alloc[p][c] > 0 /\ alloc[p][c] <= allocated[c]
      /\ amount[c] + alloc[p][c] <= allocated[c] + bal[p][c]
  BY <1>1, <1>2 DEF PairInv
<1>4. t \in Posted /\ (t = "PAID" => bal[p][c] <= alloc[p][c])
  BY <1>2, <1>3 DEF ChargePaymentStatus, Posted
<1> HIDE DEF t
<1>5. TypeOK'
  BY <1>1, <1>4 DEF IInv, TypeOK, ChargeStatus, Posted
<1>6. SnapshotsHold'
  <2> SUFFICES ASSUME NEW q \in Payments, NEW d \in Charges
               PROVE  PairInv(q, d)'
    BY DEF SnapshotsHold
  <2>1. PairInv(q, d)
    BY DEF IInv, SnapshotsHold
  <2>2. status'[d] # "NONE" \/ status'[d] = status[d]
    BY <1>1, <1>4 DEF IInv, TypeOK, Posted
  <2>3. status[d] \in Posted => status'[d] \in Posted
    BY <1>1, <1>4 DEF IInv, TypeOK
  <2>4. d \in mark[q] => d \in mark'[q] \/ status'[d] \in Posted
    BY <1>1, <1>4 DEF IInv, TypeOK
  <2>5. d \in mark'[q] => d \in mark[q]
    BY <1>1 DEF IInv, TypeOK
  <2> QED
    BY <1>1, <2>1, <2>2, <2>3, <2>4, <2>5 DEF PairInv
<1>7. OlderCovered' /\ NothingSeenBefore' /\ ReceiptsLast'
  BY <1>1 DEF IInv, TypeOK, OlderCovered, NothingSeenBefore, ReceiptsLast, AllocationDone
<1>8. StatusIsBacked'
  <2> SUFFICES ASSUME NEW d \in Charges
               PROVE  /\ status'[d] = "PAID" => allocated[d] >= amount[d] /\ allocated[d] > 0
                      /\ status'[d] = "PARTIAL" => allocated[d] > 0
    BY <1>1 DEF StatusIsBacked
  <2>1. CASE d = c
    <3>1. status'[d] = t
      BY <1>1, <2>1 DEF IInv, TypeOK
    <3> QED
      BY <1>2, <1>3, <1>4, <2>1, <3>1
  <2>2. CASE d # c
    BY <1>1, <2>2 DEF IInv, TypeOK, StatusIsBacked
  <2> QED
    BY <2>1, <2>2
<1> QED
  BY <1>5, <1>6, <1>7, <1>8 DEF IInv

\* The receipt, the audit event and an abort touch no charge and no row.
LEMMA EndIInv ==
    ASSUME IInv, NEW p \in Payments, IssueReceipt(p) \/ AuditPayment(p) \/ AbortPayment(p)
    PROVE  IInv'
<1>1. /\ UNCHANGED <<status, amount, allocated, alloc, amt, seen, bal, left, todo, mark, gpc, gkey, gamt, peak>>
      /\ pc[p] \in {"stored", "allocating", "receipted"}
      /\ pc' = [pc EXCEPT ![p] = pc'[p]] /\ pc'[p] \in {"receipted", "done", "failed"}
  BY DEF IssueReceipt, AuditPayment, AbortPayment, InFlight, charges, rows, glocals, IInv, TypeOK
<1>2. receipts' = receipts \/ (receipts' = receipts \cup {p} /\ AllocationDone(p) /\ mark[p] = {})
  BY DEF IssueReceipt, AuditPayment, AbortPayment, rows
<1>3. TypeOK'
  BY <1>1, <1>2 DEF IInv, TypeOK, PayPC
<1>4. SnapshotsHold' /\ OlderCovered' /\ StatusIsBacked'
  BY <1>1 DEF IInv, SnapshotsHold, PairInv, OlderCovered, StatusIsBacked
<1>5. NothingSeenBefore'
  BY <1>1 DEF IInv, TypeOK, NothingSeenBefore
<1>6. ReceiptsLast'
  BY <1>1, <1>2 DEF IInv, TypeOK, ReceiptsLast, AllocationDone
<1> QED
  BY <1>3, <1>4, <1>5, <1>6 DEF IInv

LEMMA StepIInv == IInv /\ [Next]_vars => IInv'
<1> SUFFICES ASSUME IInv, [Next]_vars
             PROVE  IInv'
  OBVIOUS
<1>1. ASSUME NEW g \in Generators,
             \/ \E a \in ChargeAmounts : GenerateMonthlyCharge(g, a) \/ CreateAdHocCharge(g, a)
             \/ CreateCharge(g) \/ AuditCharge(g) \/ AbortGenerator(g)
      PROVE  IInv'
  BY <1>1, GeneratorIInv
<1>2. ASSUME NEW p \in Payments, NEW a \in PayAmounts, StorePayment(p, a)
      PROVE  IInv'
  BY <1>2, StoreIInv
<1>3. ASSUME NEW p \in Payments, ReadBalances(p)
      PROVE  IInv'
  BY <1>3, ReadIInv
<1>4. ASSUME NEW p \in Payments, NEW c \in Charges, Allocate(p, c)
      PROVE  IInv'
  BY <1>4, AllocateIInv
<1>5. ASSUME NEW p \in Payments, NEW c \in Charges, MarkStatus(p, c)
      PROVE  IInv'
  BY <1>5, MarkIInv
<1>6. ASSUME NEW p \in Payments, IssueReceipt(p) \/ AuditPayment(p) \/ AbortPayment(p)
      PROVE  IInv'
  BY <1>6, EndIInv
<1>7. CASE UNCHANGED vars
  BY <1>7 DEF vars, charges, rows, locals, glocals, IInv, TypeOK, SnapshotsHold, PairInv,
              OlderCovered, NothingSeenBefore, ReceiptsLast, AllocationDone, StatusIsBacked
<1> QED
  BY <1>1, <1>2, <1>3, <1>4, <1>5, <1>6, <1>7 DEF Next

LEMMA Invariance == Spec => []IInv
BY InitIInv, StepIInv, PTL DEF Spec

\* Every reachable state is well typed; in particular no balance handed out ever
\* takes the remainder of a payment below zero.
THEOREM TypeCorrect == Spec => []TypeOK
<1>1. IInv => TypeOK
  BY DEF IInv
<1> QED
  BY <1>1, Invariance, PTL

\* A charge shown PAID is covered by its Allocation rows, however many payments
\* overlap and wherever they stop.
THEOREM PaidChargesAreCovered == Spec => []StatusIsBacked
<1>1. IInv => StatusIsBacked
  BY DEF IInv
<1> QED
  BY <1>1, Invariance, PTL

\* A payment reaches a charge only when every older one it saw is covered.
THEOREM OldestFirst == Spec => []OldestDebtFirst
<1>1. IInv => OldestDebtFirst
  <2> SUFFICES ASSUME IInv, NEW p \in Payments, NEW c \in Charges, NEW d \in Charges,
                      alloc[p][c] > 0, d \in seen[p], Due[d] < Due[c]
               PROVE  allocated[d] >= amount[d]
    BY DEF OldestDebtFirst
  <2>1. bal[p][d] <= alloc[p][d]
    BY DEF IInv, OlderCovered
  <2>2. amount[d] + alloc[p][d] <= allocated[d] + bal[p][d]
    BY DEF IInv, SnapshotsHold, PairInv
  <2> QED
    BY <2>1, <2>2 DEF IInv, TypeOK
<1> QED
  BY <1>1, Invariance, PTL

\* The receipt of a payment exists only when its money is posted everywhere.
THEOREM ReceiptsArePosted == Spec => []ReceiptMeansPosted
<1>1. IInv => ReceiptMeansPosted
  <2> SUFFICES ASSUME IInv, NEW p \in receipts
               PROVE  /\ \A c \in Charges : alloc[p][c] > 0 => status[c] \in Posted
                      /\ left[p] > 0 => \A c \in seen[p] : allocated[c] >= amount[c]
    BY DEF ReceiptMeansPosted, Posted
  <2>0. p \in Payments
    BY DEF IInv, TypeOK
  <2>1. mark[p] = {} /\ (left[p] = 0 \/ todo[p] = {})
    BY DEF IInv, ReceiptsLast, AllocationDone
  <2>2. \A c \in Charges : PairInv(p, c)
    BY <2>0 DEF IInv, SnapshotsHold
  <2>3. \A c \in Charges : alloc[p][c] > 0 => status[c] \in Posted
    BY <2>1, <2>2 DEF PairInv
  <2>4. ASSUME left[p] > 0, NEW c \in seen[p]
        PROVE  allocated[c] >= amount[c]
    <3>1. c \in Charges /\ c \notin todo[p] /\ left[p] # 0
      BY <2>0, <2>1, <2>4 DEF IInv, TypeOK
    <3>2. bal[p][c] <= alloc[p][c] /\ amount[c] + alloc[p][c] <= allocated[c] + bal[p][c]
      BY <2>2, <2>4, <3>1 DEF PairInv
    <3> QED
      BY <2>0, <3>1, <3>2 DEF IInv, TypeOK
  <2> QED
    BY <2>3, <2>4
<1> QED
  BY <1>1, Invariance, PTL

-----------------------------------------------------------------------------
(***************************************************************************)
(* The sums: what the rows of one payment hold, what the rows of one       *)
(* charge hold.  Only Allocate changes either, and it adds the same share  *)
(* to both.                                                                *)
(***************************************************************************)
PaidIn(p) == SumOver(alloc[p], Charges)
RowsOn(c) == SumOver([p \in Payments |-> alloc[p][c]], Payments)

Counted == {"allocating", "receipted", "done"}

AccountsHold ==
    /\ \A p \in Payments :
          /\ PaidIn(p) <= amt[p]
          /\ pc[p] \in Counted => PaidIn(p) + left[p] = amt[p]
    /\ \A c \in Charges : allocated[c] = RowsOn(c)

LEMMA AccountsAreThePayments == TypeOK /\ AccountsHold => PaymentIsAccounted
<1> SUFFICES ASSUME TypeOK, AccountsHold
             PROVE  PaymentIsAccounted
  OBVIOUS
<1>1. \A f : SumFunction(f) = SumOver(f, DOMAIN f)
  BY Zenon DEF SumFunction, SumOver
<1>2. \A p \in Payments : SumFunction(alloc[p]) = PaidIn(p)
  <2> TAKE p \in Payments
  <2>1. DOMAIN alloc[p] = Charges
    BY DEF TypeOK
  <2> QED
    BY <1>1, <2>1 DEF PaidIn
<1>3. \A c \in Charges : SumFunction([p \in Payments |-> alloc[p][c]]) = RowsOn(c)
  <2> TAKE c \in Charges
  <2> DEFINE f == [p \in Payments |-> alloc[p][c]]
  <2>1. DOMAIN f = Payments
    OBVIOUS
  <2>2. RowsOn(c) = SumOver(f, Payments)
    BY DEF RowsOn
  <2> HIDE DEF f
  <2>3. SumFunction(f) = RowsOn(c)
    BY <1>1, <2>1, <2>2
  <2> QED
    BY <2>3 DEF f
<1> QED
  BY <1>2, <1>3 DEF AccountsHold, PaymentIsAccounted, Counted

LEMMA PaidInType ==
    ASSUME TypeOK, NEW p \in Payments
    PROVE  PaidIn(p) \in Nat
BY ChargesAssumption, SumNat DEF TypeOK, PaidIn

LEMMA NothingPaid ==
    ASSUME IInv, NEW p \in Payments, pc[p] \in {"idle", "stored"}
    PROVE  PaidIn(p) = 0
<1>1. \A c \in Charges : alloc[p][c] = 0
  <2> TAKE c \in Charges
  <2>1. PairInv(p, c) /\ c \notin seen[p] /\ alloc[p][c] \in Nat
    BY DEF IInv, TypeOK, SnapshotsHold, NothingSeenBefore
  <2> QED
    BY <2>1 DEF PairInv
<1> QED
  BY <1>1, ChargesAssumption, SumZero DEF PaidIn

LEMMA InitAccounts == Init => AccountsHold
<1> SUFFICES ASSUME Init
             PROVE  AccountsHold
  OBVIOUS
<1>1. IInv
  BY InitIInv
<1>2. \A p \in Payments : PaidIn(p) = 0 /\ pc[p] = "idle" /\ amt[p] = 0
  BY <1>1, NothingPaid DEF Init
<1>3. \A c \in Charges : RowsOn(c) = 0
  <2> TAKE c \in Charges
  <2>1. \A p \in Payments : [q \in Payments |-> alloc[q][c]][p] = 0
    BY DEF Init
  <2> QED
    BY <2>1, PaymentsAssumption, SumZero DEF RowsOn
<1>4. \A c \in Charges : allocated[c] = 0
  BY DEF Init
<1> QED
  BY <1>2, <1>3, <1>4 DEF AccountsHold, Counted

\* A step that writes no Allocation row keeps the accounts: a payment either
\* keeps its amount and remainder, or starts out with nothing paid yet.
LEMMA QuietAccounts ==
    ASSUME IInv, AccountsHold, UNCHANGED <<alloc, allocated>>,
           \A p \in Payments :
              \/ amt'[p] = amt[p] /\ left'[p] = left[p] /\ (pc'[p] \in Counted => pc[p] \in Counted)
              \/ PaidIn(p) = 0 /\ amt'[p] \in Nat /\ (pc'[p] \in Counted => left'[p] = amt'[p])
    PROVE  AccountsHold'
<1>1. \A p \in Payments : PaidIn(p)' = PaidIn(p)
  BY DEF PaidIn
<1>2. \A c \in Charges : RowsOn(c)' = RowsOn(c)
  BY DEF RowsOn
<1>3. \A c \in Charges : allocated'[c] = RowsOn(c)'
  BY <1>2 DEF AccountsHold
<1>4. \A p \in Payments :
          /\ PaidIn(p)' <= amt'[p]
          /\ pc'[p] \in Counted => PaidIn(p)' + left'[p] = amt'[p]
  BY <1>1 DEF AccountsHold
<1> QED
  BY <1>3, <1>4 DEF AccountsHold

\* The effect of a share: one row, its payment, its charge, the remainder.
LEMMA AllocateEffect ==
    ASSUME IInv, NEW p \in Payments, NEW c \in Charges, Allocate(p, c)
    PROVE  LET s == Share(p, c)
           IN  /\ pc[p] = "allocating" /\ left[p] > 0 /\ c \in todo[p] /\ c \in seen[p]
               /\ alloc[p][c] = 0 /\ s \in Nat /\ 0 < s /\ s <= bal[p][c] /\ s <= left[p]
               /\ alloc' = [alloc EXCEPT ![p] = [alloc[p] EXCEPT ![c] = s]]
               /\ allocated' = [allocated EXCEPT ![c] = @ + s]
               /\ left' = [left EXCEPT ![p] = @ - s]
               /\ todo' = [todo EXCEPT ![p] = @ \ {c}]
               /\ mark' = [mark EXCEPT ![p] = @ \cup {c}]
               /\ UNCHANGED <<status, amount, receipts, pc, amt, seen, bal, peak>>
<1> DEFINE s == Share(p, c)
<1>1. pc[p] = "allocating" /\ left[p] > 0 /\ c \in todo[p]
  BY DEF Allocate, Oldest
<1>2. c \in seen[p] /\ alloc[p][c] = 0 /\ bal[p][c] > 0
  BY <1>1 DEF IInv, SnapshotsHold, PairInv
<1>3. s \in Nat /\ s > 0 /\ s <= bal[p][c] /\ s <= left[p]
  BY <1>1, <1>2, ShareBounds DEF IInv
<1>4. /\ alloc' = [alloc EXCEPT ![p] = [alloc[p] EXCEPT ![c] = alloc[p][c] + s]]
      /\ allocated' = [allocated EXCEPT ![c] = @ + s]
      /\ left' = [left EXCEPT ![p] = @ - s]
      /\ todo' = [todo EXCEPT ![p] = @ \ {c}]
      /\ mark' = [mark EXCEPT ![p] = @ \cup {c}]
      /\ UNCHANGED <<status, amount, receipts, pc, amt, seen, bal, peak>>
  BY DEF Allocate, glocals
<1> HIDE DEF s
<1>5. alloc[p][c] + s = s
  BY <1>2, <1>3
<1>6. alloc' = [alloc EXCEPT ![p] = [alloc[p] EXCEPT ![c] = s]]
  BY <1>4, <1>5
<1>7. 0 < s
  BY <1>3
<1> QED
  BY <1>1, <1>2, <1>3, <1>4, <1>6, <1>7 DEF s

LEMMA AllocateAccounts ==
    ASSUME IInv, AccountsHold, NEW p \in Payments, NEW c \in Charges, Allocate(p, c)
    PROVE  AccountsHold'
<1> DEFINE s == Share(p, c)
<1>1. /\ pc[p] = "allocating" /\ alloc[p][c] = 0 /\ s \in Nat /\ s <= left[p]
      /\ alloc' = [alloc EXCEPT ![p] = [alloc[p] EXCEPT ![c] = s]]
      /\ allocated' = [allocated EXCEPT ![c] = @ + s]
      /\ left' = [left EXCEPT ![p] = @ - s]
      /\ UNCHANGED <<pc, amt>>
  BY AllocateEffect
<1> HIDE DEF s
<1>2. TypeOK
  BY DEF IInv
<1>3. PaidIn(p)' = PaidIn(p) + s
  <2>1. /\ alloc'[p][c] = s /\ \A d \in Charges \ {c} : alloc'[p][d] = alloc[p][d]
        /\ IntOn(alloc[p], Charges)
    BY <1>1, <1>2 DEF TypeOK, IntOn
  <2>2. SumOver(alloc'[p], Charges) = SumOver(alloc[p], Charges) - alloc[p][c] + alloc'[p][c]
    <3>1. IsFiniteSet(Charges) /\ alloc'[p][c] \in Int
      BY <1>1, <2>1, ChargesAssumption
    <3> QED
      BY <2>1, <3>1, SumUpdate
  <2>3. PaidIn(p) \in Nat
    BY <1>2, PaidInType
  <2> QED
    BY <1>1, <2>1, <2>2, <2>3 DEF PaidIn
<1>4. \A q \in Payments \ {p} : PaidIn(q)' = PaidIn(q)
  <2>1. \A q \in Payments \ {p} : alloc'[q] = alloc[q]
    BY <1>1, <1>2 DEF TypeOK
  <2> QED
    BY <2>1 DEF PaidIn
<1>5. ASSUME NEW d \in Charges
      PROVE  allocated'[d] = RowsOn(d)'
  <2> DEFINE f == [q \in Payments |-> alloc[q][d]]
             g == [q \in Payments |-> alloc'[q][d]]
  <2>1. RowsOn(d) = SumOver(f, Payments) /\ RowsOn(d)' = SumOver(g, Payments)
    BY DEF RowsOn
  <2>2. allocated[d] = SumOver(f, Payments)
    BY <2>1 DEF AccountsHold
  <2>3. CASE d = c
    <3>1. /\ f[p] = 0 /\ g[p] = s /\ \A q \in Payments \ {p} : g[q] = f[q]
          /\ IntOn(f, Payments)
      BY <1>1, <1>2, <2>3 DEF TypeOK, IntOn
    <3> HIDE DEF f, g
    <3>2. SumOver(g, Payments) = SumOver(f, Payments) - f[p] + g[p]
      BY <1>1, <3>1, PaymentsAssumption, SumUpdate
    <3>3. allocated'[d] = allocated[d] + s /\ allocated[d] \in Nat
      BY <1>1, <1>2, <2>3 DEF TypeOK
    <3> QED
      BY <1>1, <2>1, <2>2, <3>1, <3>2, <3>3
  <2>4. CASE d # c
    <3>1. \A q \in Payments : g[q] = f[q]
      BY <1>1, <1>2, <2>4 DEF TypeOK
    <3> HIDE DEF f, g
    <3>2. SumOver(g, Payments) = SumOver(f, Payments)
      BY <3>1, PaymentsAssumption, SumCongruent
    <3>3. allocated'[d] = allocated[d]
      BY <1>1, <1>2, <2>4 DEF TypeOK
    <3> QED
      BY <2>1, <2>2, <3>2, <3>3
  <2> QED
    BY <2>3, <2>4
<1>6. ASSUME NEW q \in Payments
      PROVE  /\ PaidIn(q)' <= amt'[q]
             /\ pc'[q] \in Counted => PaidIn(q)' + left'[q] = amt'[q]
  <2>0. PaidIn(q) \in Nat /\ left[q] \in Nat /\ amt[q] \in Nat
    BY <1>2, PaidInType DEF TypeOK
  <2>1. CASE q = p
    <3>1. PaidIn(p) + left[p] = amt[p] /\ left'[p] = left[p] - s
      BY <1>1, <1>2 DEF AccountsHold, TypeOK, Counted
    <3> QED
      BY <1>1, <1>3, <2>0, <2>1, <3>1
  <2>2. CASE q # p
    <3>1. left'[q] = left[q]
      BY <1>1, <1>2, <2>2 DEF TypeOK
    <3> QED
      BY <1>1, <1>4, <2>2, <3>1 DEF AccountsHold
  <2> QED
    BY <2>1, <2>2
<1> QED
  BY <1>5, <1>6 DEF AccountsHold

LEMMA StepAccounts == IInv /\ AccountsHold /\ [Next]_vars => AccountsHold'
<1> SUFFICES ASSUME IInv, AccountsHold, [Next]_vars
             PROVE  AccountsHold'
  OBVIOUS
<1>1. ASSUME NEW g \in Generators,
             \/ \E a \in ChargeAmounts : GenerateMonthlyCharge(g, a) \/ CreateAdHocCharge(g, a)
             \/ CreateCharge(g) \/ AuditCharge(g) \/ AbortGenerator(g)
      PROVE  AccountsHold'
  <2>1. UNCHANGED <<allocated, alloc, pc, amt, left>>
    BY <1>1 DEF GenerateMonthlyCharge, CreateAdHocCharge, CreateCharge, AuditCharge, AbortGenerator,
           charges, rows, locals
  <2> QED
    BY <2>1, QuietAccounts
<1>2. ASSUME NEW p \in Payments, NEW a \in PayAmounts, StorePayment(p, a)
      PROVE  AccountsHold'
  <2>1. PaidIn(p) = 0
    BY <1>2, NothingPaid DEF StorePayment
  <2>2. /\ UNCHANGED <<allocated, alloc, left>> /\ amt'[p] \in Nat /\ pc'[p] \notin Counted
        /\ \A q \in Payments \ {p} : amt'[q] = amt[q] /\ pc'[q] = pc[q]
    BY <1>2, AmountsAssumption DEF StorePayment, charges, rows, IInv, TypeOK, Counted
  <2> QED
    BY <2>1, <2>2, QuietAccounts
<1>3. ASSUME NEW p \in Payments, ReadBalances(p)
      PROVE  AccountsHold'
  <2>1. PaidIn(p) = 0
    BY <1>3, NothingPaid DEF ReadBalances
  <2>2. /\ UNCHANGED <<allocated, alloc, amt>> /\ left'[p] = amt[p] /\ amt[p] \in Nat
        /\ \A q \in Payments \ {p} : left'[q] = left[q] /\ pc'[q] = pc[q]
    BY <1>3 DEF ReadBalances, charges, rows, IInv, TypeOK
  <2> QED
    BY <2>1, <2>2, QuietAccounts
<1>4. ASSUME NEW p \in Payments, NEW c \in Charges, Allocate(p, c)
      PROVE  AccountsHold'
  BY <1>4, AllocateAccounts
<1>5. ASSUME NEW p \in Payments, NEW c \in Charges, MarkStatus(p, c)
      PROVE  AccountsHold'
  <2>1. UNCHANGED <<allocated, alloc, pc, amt, left>>
    BY <1>5 DEF MarkStatus, rows
  <2> QED
    BY <2>1, QuietAccounts
<1>6. ASSUME NEW p \in Payments, IssueReceipt(p) \/ AuditPayment(p) \/ AbortPayment(p)
      PROVE  AccountsHold'
  <2>1. /\ UNCHANGED <<allocated, alloc, amt, left>>
        /\ \A q \in Payments : pc'[q] \in Counted => pc[q] \in Counted
    BY <1>6 DEF IssueReceipt, AuditPayment, AbortPayment, charges, rows, Counted, IInv, TypeOK
  <2> QED
    BY <2>1, QuietAccounts
<1>7. CASE UNCHANGED vars
  <2>1. UNCHANGED <<allocated, alloc, pc, amt, left>>
    BY <1>7 DEF vars, charges, rows, locals
  <2> QED
    BY <2>1, QuietAccounts
<1> QED
  BY <1>1, <1>2, <1>3, <1>4, <1>5, <1>6, <1>7 DEF Next

-----------------------------------------------------------------------------
(***************************************************************************)
(* How much a charge can receive.  A handler in flight that has the charge *)
(* still to serve may add the balance it read to it, so the invariant      *)
(* counts what is promised beside what is allocated; and a handler that    *)
(* reads now promises no more than the amount, for itself alone.           *)
(***************************************************************************)
Flying == {q \in Payments : InFlight(q)}
Waiting(c) == {p \in Payments : pc[p] = "allocating" /\ c \in todo[p]}
Promised(c) == SumOver([p \in Payments |-> bal[p][c]], Waiting(c))

FlightsCounted == Cardinality(Flying) <= peak
PromisesBounded == \A c \in Charges : allocated[c] + Promised(c) <= peak * amount[c]
ReadingsBounded == \A p \in Payments, c \in Charges : c \in todo[p] => bal[p][c] <= amount[c]
FreshIsEmpty == \A c \in Charges : status[c] = "NONE" => allocated[c] = 0

OInv == FlightsCounted /\ PromisesBounded /\ ReadingsBounded /\ FreshIsEmpty

LEMMA FlyingIsFinite == IsFiniteSet(Flying) /\ Cardinality(Flying) \in Nat
BY PaymentsAssumption, FS_Subset, FS_CardinalityType DEF Flying

LEMMA Monotone == \A m, n, k \in Nat : m <= n => m * k <= n * k
OBVIOUS

\* What is promised on a charge is at most its amount for each who waits.
LEMMA PromisedBounds ==
    ASSUME IInv, ReadingsBounded, NEW c \in Charges
    PROVE  /\ IsFiniteSet(Waiting(c)) /\ Waiting(c) \subseteq Flying
           /\ \A p \in Waiting(c) : bal[p][c] \in Nat
           /\ Promised(c) \in Nat /\ Promised(c) <= Cardinality(Waiting(c)) * amount[c]
<1> DEFINE f == [p \in Payments |-> bal[p][c]]
<1>1. IsFiniteSet(Waiting(c)) /\ Waiting(c) \subseteq Payments /\ Waiting(c) \subseteq Flying
  BY PaymentsAssumption, FS_Subset DEF Waiting, Flying, InFlight
<1>2. amount[c] \in Nat
  BY DEF IInv, TypeOK
<1>3. \A p \in Waiting(c) : bal[p][c] \in 0..amount[c]
  BY <1>2 DEF IInv, TypeOK, Waiting, SnapshotsHold, PairInv, ReadingsBounded
<1>4. \A p \in Waiting(c) : f[p] \in 0..amount[c]
  BY <1>1, <1>3
<1>5. Promised(c) = SumOver(f, Waiting(c))
  BY DEF Promised
<1> HIDE DEF f
<1>6. Promised(c) \in Nat /\ Promised(c) <= Cardinality(Waiting(c)) * amount[c]
  BY <1>1, <1>2, <1>4, <1>5, SumBounds
<1> QED
  BY <1>1, <1>3, <1>6

\* Nothing more is promised on a charge when nobody new waits for it.
LEMMA PromisedShrinks ==
    ASSUME IInv, ReadingsBounded, NEW c \in Charges, NEW p,
           Waiting(c)' = Waiting(c) \/ Waiting(c)' = Waiting(c) \ {p},
           \A q \in Waiting(c)' : bal'[q][c] = bal[q][c]
    PROVE  /\ Promised(c)' \in Nat /\ Promised(c)' <= Promised(c)
           /\ p \in Waiting(c) /\ p \notin Waiting(c)' => Promised(c)' = Promised(c) - bal[p][c]
<1> DEFINE f == [q \in Payments |-> bal[q][c]]
           g == [q \in Payments |-> bal'[q][c]]
           W == Waiting(c)
           V == Waiting(c)'
<1>1. /\ IsFiniteSet(W) /\ Promised(c) \in Nat /\ W \subseteq Payments
      /\ \A q \in W : bal[q][c] \in Nat
  BY PromisedBounds DEF Waiting
<1>2. Promised(c) = SumOver(f, W) /\ Promised(c)' = SumOver(g, V)
  BY DEF Promised
<1>3. \A q \in W : f[q] \in Nat /\ f[q] = bal[q][c]
  BY <1>1
<1>4. IsFiniteSet(V) /\ V \subseteq W /\ (V = W \/ V = W \ {p})
  BY <1>1, FS_Subset
<1>5. \A q \in V : g[q] = f[q]
  BY <1>1, <1>4
<1> HIDE DEF f, g, V, W
<1>6. SumOver(g, V) = SumOver(f, V)
  BY <1>4, <1>5, SumCongruent
<1>7. SumOver(f, V) \in Nat
  BY <1>3, <1>4, SumNat
<1>8. CASE V = W
  BY <1>2, <1>6, <1>7, <1>8 DEF W, V
<1>9. CASE V = W \ {p} /\ p \in W
  <2>1. IntOn(f, W)
    BY <1>3 DEF IntOn
  <2>2. SumOver(f, W) = f[p] + SumOver(f, V)
    BY <1>1, <1>9, <2>1, SumRemove
  <2>3. f[p] \in Nat /\ f[p] = bal[p][c]
    BY <1>3, <1>9
  <2>4. Promised(c)' = Promised(c) - bal[p][c] /\ Promised(c)' <= Promised(c)
    BY <1>2, <1>6, <1>7, <2>2, <2>3
  <2> QED
    BY <1>2, <1>6, <1>7, <2>4
<1> QED
  BY <1>4, <1>8, <1>9

LEMMA InitOInv == Init => OInv
<1> SUFFICES ASSUME Init
             PROVE  OInv
  OBVIOUS
<1>1. Flying = {} /\ \A c \in Charges : Waiting(c) = {}
  BY DEF Init, Flying, InFlight, Waiting
<1>2. \A c \in Charges : Promised(c) = 0
  BY <1>1, SumEmpty DEF Promised
<1>3. Cardinality(Flying) = 0 /\ peak = 0
  BY <1>1, FS_EmptySet DEF Init
<1> QED
  BY <1>2, <1>3 DEF Init, OInv, FlightsCounted, PromisesBounded, ReadingsBounded, FreshIsEmpty

\* A step that starts no handler, reads no balance and writes no row: charges
\* keep their amounts, and the one that is created is seen by nobody yet.
LEMMA QuietOInv ==
    ASSUME IInv, OInv, IInv', NEW p,
           UNCHANGED <<allocated, bal, todo, peak>>,
           \A q \in Payments \ {p} : pc'[q] = pc[q],
           pc'[p] = pc[p] \/ (InFlight(p) /\ pc'[p] # "allocating"),
           \A c \in Charges : status[c] # "NONE" => amount'[c] = amount[c] /\ status'[c] # "NONE"
    PROVE  OInv'
<1>1. FlightsCounted'
  <2>1. Flying' \subseteq Flying
    BY DEF Flying, InFlight
  <2>2. Cardinality(Flying') <= Cardinality(Flying) /\ Cardinality(Flying') \in Nat
    BY <2>1, FlyingIsFinite, FS_Subset, FS_CardinalityType
  <2>3. Cardinality(Flying) <= peak /\ peak \in Nat /\ Cardinality(Flying) \in Nat
    BY FlyingIsFinite DEF OInv, FlightsCounted, IInv, TypeOK
  <2> QED
    BY <2>2, <2>3 DEF FlightsCounted
<1>2. ASSUME NEW c \in Charges
      PROVE  allocated'[c] + Promised(c)' <= peak' * amount'[c]
  <2>1. Waiting(c)' = Waiting(c) \/ Waiting(c)' = Waiting(c) \ {p}
    BY DEF Waiting
  <2>2. Promised(c)' \in Nat /\ Promised(c)' <= Promised(c) /\ Promised(c) \in Nat
    BY <2>1, PromisedShrinks, PromisedBounds DEF OInv
  <2>3. /\ allocated[c] \in Nat /\ amount[c] \in Nat /\ amount'[c] \in Nat /\ peak \in Nat
        /\ allocated[c] + Promised(c) <= peak * amount[c]
    BY DEF IInv, TypeOK, OInv, PromisesBounded
  <2>4. CASE status[c] # "NONE"
    BY <2>2, <2>3, <2>4
  <2>5. CASE status[c] = "NONE"
    <3>1. Waiting(c) = {} /\ allocated[c] = 0
      BY <2>5 DEF IInv, SnapshotsHold, PairInv, Waiting, OInv, FreshIsEmpty
    <3>2. Promised(c) = 0
      BY <3>1, SumEmpty DEF Promised
    <3>3. 0 <= peak * amount'[c]
      BY <2>3
    <3> QED
      BY <2>2, <3>1, <3>2, <3>3
  <2> QED
    BY <2>4, <2>5
<1>3. ReadingsBounded'
  BY DEF OInv, ReadingsBounded, IInv, SnapshotsHold, PairInv
<1>4. FreshIsEmpty'
  BY DEF OInv, FreshIsEmpty
<1> QED
  BY <1>1, <1>2, <1>3, <1>4 DEF OInv, PromisesBounded

LEMMA StoreOInv ==
    ASSUME IInv, OInv, NEW p \in Payments, NEW a \in PayAmounts, StorePayment(p, a)
    PROVE  OInv'
<1>1. UNCHANGED <<status, amount, allocated, bal, todo>>
  BY DEF StorePayment, charges
<1>2. Flying' = Flying \cup {p} /\ p \notin Flying
  BY DEF StorePayment, Flying, InFlight, IInv, TypeOK
<1>3. Cardinality(Flying') = Cardinality(Flying) + 1 /\ Cardinality(Flying) \in Nat
  BY <1>2, FlyingIsFinite, FS_AddElement
<1>4. peak' = IF Cardinality(Flying) + 1 > peak THEN Cardinality(Flying) + 1 ELSE peak
  BY DEF StorePayment, Flying
<1>5. peak \in Nat /\ peak' \in Nat /\ peak <= peak' /\ Cardinality(Flying') <= peak'
  BY <1>3, <1>4 DEF IInv, TypeOK
<1>6. ASSUME NEW c \in Charges
      PROVE  allocated'[c] + Promised(c)' <= peak' * amount'[c]
  <2>1. Waiting(c)' = Waiting(c)
    BY <1>1 DEF StorePayment, Waiting, IInv, TypeOK
  <2>2. Promised(c)' \in Nat /\ Promised(c)' <= Promised(c) /\ Promised(c) \in Nat
    BY <1>1, <2>1, PromisedShrinks, PromisedBounds DEF OInv
  <2>3. /\ allocated[c] \in Nat /\ amount[c] \in Nat
        /\ allocated[c] + Promised(c) <= peak * amount[c]
    BY DEF IInv, TypeOK, OInv, PromisesBounded
  <2>4. peak * amount[c] <= peak' * amount[c] /\ peak * amount[c] \in Nat /\ peak' * amount[c] \in Nat
    BY <1>5, <2>3, Monotone
  <2> QED
    BY <1>1, <2>2, <2>3, <2>4
<1>7. ReadingsBounded' /\ FreshIsEmpty'
  BY <1>1 DEF OInv, ReadingsBounded, FreshIsEmpty
<1> QED
  BY <1>5, <1>6, <1>7 DEF OInv, FlightsCounted, PromisesBounded

LEMMA ReadOInv ==
    ASSUME IInv, OInv, IInv', NEW p \in Payments, ReadBalances(p)
    PROVE  OInv'
<1>1. /\ UNCHANGED <<status, amount, allocated, peak>> /\ pc[p] = "stored"
      /\ \A q \in Payments \ {p} : pc'[q] = pc[q] /\ bal'[q] = bal[q] /\ todo'[q] = todo[q]
      /\ pc'[p] \in {"failed", "allocating"}
      /\ \A c \in Charges : c \in todo'[p] => bal'[p][c] = amount[c] - allocated[c]
  BY DEF ReadBalances, charges, Balance, IInv, TypeOK
<1>2. FlightsCounted'
  <2>1. Flying' \subseteq Flying
    BY <1>1 DEF Flying, InFlight
  <2>2. Cardinality(Flying') <= Cardinality(Flying) /\ Cardinality(Flying') \in Nat
    BY <2>1, FlyingIsFinite, FS_Subset, FS_CardinalityType
  <2>3. Cardinality(Flying) <= peak /\ peak \in Nat /\ Cardinality(Flying) \in Nat
    BY FlyingIsFinite DEF OInv, FlightsCounted, IInv, TypeOK
  <2> QED
    BY <1>1, <2>2, <2>3 DEF FlightsCounted
<1>3. ASSUME NEW c \in Charges
      PROVE  /\ allocated'[c] + Promised(c)' <= peak' * amount'[c]
             /\ \A q \in Payments : c \in todo'[q] => bal'[q][c] <= amount'[c]
  <2>0. allocated[c] \in Nat /\ amount[c] \in Nat /\ peak \in Nat
    BY DEF IInv, TypeOK
  <2>1. \A q \in Payments : c \in todo'[q] => bal'[q][c] <= amount'[c]
    BY <1>1, <2>0 DEF OInv, ReadingsBounded
  <2>2. p \notin Waiting(c) /\ Promised(c) \in Nat /\ Promised(c) <= Cardinality(Waiting(c)) * amount[c]
        /\ IsFiniteSet(Waiting(c)) /\ Waiting(c) \subseteq Flying /\ Waiting(c) \subseteq Payments
    BY <1>1, PromisedBounds DEF Waiting, OInv
  <2>3. CASE pc'[p] = "allocating" /\ c \in todo'[p]
    <3> DEFINE f == [q \in Payments |-> bal[q][c]]
               g == [q \in Payments |-> bal'[q][c]]
               W == Waiting(c)
    <3>1. Waiting(c)' = W \cup {p}
      BY <1>1, <2>3 DEF Waiting
    <3>2. /\ Promised(c)' = SumOver(g, W \cup {p}) /\ Promised(c) = SumOver(f, W)
          /\ \A q \in W : g[q] = f[q]
          /\ IntOn(g, W \cup {p}) /\ g[p] = amount[c] - allocated[c]
      <4>1. Promised(c)' = SumOver(g, W \cup {p}) /\ Promised(c) = SumOver(f, W)
        BY <3>1 DEF Promised
      <4>2. \A q \in W : g[q] = f[q]
        BY <1>1, <2>2
      <4>3. IntOn(g, W \cup {p})
        BY <2>2 DEF IntOn, IInv, TypeOK
      <4>4. g[p] = amount[c] - allocated[c]
        BY <1>1, <2>3
      <4> QED
        BY <4>1, <4>2, <4>3, <4>4
    <3> HIDE DEF f, g
    <3>3. SumOver(g, W \cup {p}) = g[p] + SumOver(g, W)
      BY <2>2, <3>2, SumAdd
    <3>4. SumOver(g, W) = SumOver(f, W)
      BY <2>2, <3>2, SumCongruent
    <3>5. allocated[c] + Promised(c)' = amount[c] + Promised(c)
      BY <2>0, <2>2, <3>2, <3>3, <3>4
    <3>6. Cardinality(W) \in Nat /\ Cardinality(W) + 1 <= peak
      <4>1. Cardinality(W \cup {p}) = Cardinality(W) + 1 /\ Cardinality(W) \in Nat
        BY <2>2, FS_AddElement, FS_CardinalityType
      <4>2. W \cup {p} \subseteq Flying
        BY <1>1, <2>2 DEF Flying, InFlight
      <4>3. Cardinality(W \cup {p}) <= Cardinality(Flying)
        BY <4>2, FlyingIsFinite, FS_Subset
      <4>4. Cardinality(Flying) <= peak /\ Cardinality(Flying) \in Nat
        BY FlyingIsFinite DEF OInv, FlightsCounted
      <4> QED
        BY <2>0, <4>1, <4>3, <4>4
    <3>7. (Cardinality(W) + 1) * amount[c] <= peak * amount[c]
      <4>1. Cardinality(W) + 1 \in Nat
        BY <3>6
      <4> QED
        BY <2>0, <3>6, <4>1, Monotone
    <3>8. (Cardinality(W) + 1) * amount[c] = Cardinality(W) * amount[c] + amount[c]
      BY <2>0, <3>6
    <3> DEFINE n == Cardinality(W) * amount[c]
               m == peak * amount[c]
    <3>9. n \in Nat /\ m \in Nat
      BY <2>0, <3>6
    <3>10. Promised(c) <= n /\ n + amount[c] <= m
      BY <2>2, <3>7, <3>8
    <3> HIDE DEF n, m
    <3>11. amount[c] + Promised(c) <= m
      BY <2>0, <2>2, <3>9, <3>10
    <3> QED
      BY <1>1, <2>1, <3>5, <3>11 DEF m
  <2>4. CASE ~(pc'[p] = "allocating" /\ c \in todo'[p])
    <3>1. Waiting(c)' = Waiting(c)
      BY <1>1, <2>4 DEF Waiting
    <3>2. \A q \in Waiting(c)' : bal'[q][c] = bal[q][c]
      BY <1>1, <2>2, <3>1
    <3>3. Promised(c)' \in Nat /\ Promised(c)' <= Promised(c)
      BY <3>1, <3>2, PromisedShrinks DEF OInv
    <3>4. allocated[c] + Promised(c) <= peak * amount[c]
      BY DEF OInv, PromisesBounded
    <3>5. peak * amount[c] \in Nat
      BY <2>0
    <3> QED
      BY <1>1, <2>0, <2>1, <2>2, <3>3, <3>4, <3>5
  <2> QED
    BY <2>3, <2>4
<1>4. FreshIsEmpty'
  BY <1>1 DEF OInv, FreshIsEmpty
<1> QED
  BY <1>2, <1>3, <1>4 DEF OInv, PromisesBounded, ReadingsBounded

LEMMA AllocateOInv ==
    ASSUME IInv, OInv, NEW p \in Payments, NEW c \in Charges, Allocate(p, c)
    PROVE  OInv'
<1> DEFINE s == Share(p, c)
<1>1. /\ pc[p] = "allocating" /\ c \in todo[p] /\ c \in seen[p] /\ s \in Nat /\ s <= bal[p][c]
      /\ allocated' = [allocated EXCEPT ![c] = @ + s]
      /\ todo' = [todo EXCEPT ![p] = @ \ {c}]
      /\ UNCHANGED <<status, amount, pc, bal, peak>>
  BY AllocateEffect
<1> HIDE DEF s
<1>2. FlightsCounted'
  <2>1. Flying' = Flying
    BY <1>1 DEF Flying, InFlight
  <2> QED
    BY <1>1, <2>1 DEF OInv, FlightsCounted
<1>3. ASSUME NEW d \in Charges
      PROVE  allocated'[d] + Promised(d)' <= peak' * amount'[d]
  <2>0. /\ allocated[d] \in Nat /\ Promised(d) \in Nat /\ bal[p][d] \in Int /\ peak * amount[d] \in Nat
        /\ allocated[d] + Promised(d) <= peak * amount[d]
    BY PromisedBounds DEF IInv, TypeOK, OInv, PromisesBounded
  <2>1. CASE d = c
    <3>1. Waiting(d)' = Waiting(d) \ {p} /\ p \in Waiting(d)
      BY <1>1, <2>1 DEF Waiting, IInv, TypeOK
    <3>2. \A q \in Waiting(d)' : bal'[q][d] = bal[q][d]
      BY <1>1
    <3>3. Promised(d)' \in Nat /\ Promised(d)' = Promised(d) - bal[p][d]
      BY <3>1, <3>2, PromisedShrinks DEF OInv
    <3>4. allocated'[d] = allocated[d] + s
      BY <1>1, <2>1 DEF IInv, TypeOK
    <3> QED
      BY <1>1, <2>0, <2>1, <3>3, <3>4
  <2>2. CASE d # c
    <3>1. Waiting(d)' = Waiting(d)
      BY <1>1, <2>2 DEF Waiting, IInv, TypeOK
    <3>2. \A q \in Waiting(d)' : bal'[q][d] = bal[q][d]
      BY <1>1
    <3>3. Promised(d)' \in Nat /\ Promised(d)' <= Promised(d)
      BY <3>1, <3>2, PromisedShrinks DEF OInv
    <3>4. allocated'[d] = allocated[d]
      BY <1>1, <2>2 DEF IInv, TypeOK
    <3> QED
      BY <1>1, <2>0, <3>3, <3>4
  <2> QED
    BY <2>1, <2>2
<1>4. ReadingsBounded'
  <2>1. \A q \in Payments : todo'[q] \subseteq todo[q]
    BY <1>1 DEF IInv, TypeOK
  <2> QED
    BY <1>1, <2>1 DEF OInv, ReadingsBounded
<1>5. FreshIsEmpty'
  <2>1. status[c] # "NONE"
    BY <1>1 DEF IInv, SnapshotsHold, PairInv
  <2> QED
    BY <1>1, <2>1 DEF OInv, FreshIsEmpty, IInv, TypeOK
<1> QED
  BY <1>2, <1>3, <1>4, <1>5 DEF OInv, PromisesBounded

\* What happens to the amounts and statuses, step by step: an amount is final
\* once there is a row, a row never goes, and only MarkStatus changes a status.
LEMMA ChargeSteps ==
    ASSUME IInv, [Next]_vars, NEW c \in Charges, status[c] # "NONE"
    PROVE  /\ amount'[c] = amount[c] /\ status'[c] # "NONE"
           /\ status'[c] = status[c] \/ \E p \in Payments : MarkStatus(p, c)
<1>1. ASSUME NEW g \in Generators,
             \/ \E a \in ChargeAmounts : GenerateMonthlyCharge(g, a) \/ CreateAdHocCharge(g, a)
             \/ CreateCharge(g) \/ AuditCharge(g) \/ AbortGenerator(g)
      PROVE  amount'[c] = amount[c] /\ status'[c] = status[c]
  BY <1>1 DEF GenerateMonthlyCharge, CreateAdHocCharge, CreateCharge, AuditCharge, AbortGenerator,
              charges, IInv, TypeOK
<1>2. ASSUME NEW p \in Payments,
             \/ \E a \in PayAmounts : StorePayment(p, a)
             \/ ReadBalances(p) \/ IssueReceipt(p) \/ AuditPayment(p) \/ AbortPayment(p)
             \/ \E d \in Charges : Allocate(p, d)
      PROVE  amount'[c] = amount[c] /\ status'[c] = status[c]
  BY <1>2 DEF StorePayment, ReadBalances, IssueReceipt, AuditPayment, AbortPayment, Allocate, charges
<1>3. ASSUME NEW p \in Payments, NEW d \in Charges, MarkStatus(p, d)
      PROVE  /\ amount'[c] = amount[c] /\ status'[c] # "NONE"
             /\ status'[c] = status[c] \/ MarkStatus(p, c)
  BY <1>3 DEF MarkStatus, ChargePaymentStatus, IInv, TypeOK
<1>4. CASE UNCHANGED vars
  BY <1>4 DEF vars, charges
<1> QED
  BY <1>1, <1>2, <1>3, <1>4 DEF Next

LEMMA StepOInv == IInv /\ OInv /\ [Next]_vars => OInv'
<1> SUFFICES ASSUME IInv, OInv, [Next]_vars
             PROVE  OInv'
  OBVIOUS
<1>0. IInv' /\ \A c \in Charges : status[c] # "NONE" => amount'[c] = amount[c] /\ status'[c] # "NONE"
  BY StepIInv, ChargeSteps
<1>1. ASSUME NEW p \in Payments, NEW a \in PayAmounts, StorePayment(p, a)
      PROVE  OInv'
  BY <1>1, StoreOInv
<1>2. ASSUME NEW p \in Payments, ReadBalances(p)
      PROVE  OInv'
  BY <1>0, <1>2, ReadOInv
<1>3. ASSUME NEW p \in Payments, NEW c \in Charges, Allocate(p, c)
      PROVE  OInv'
  BY <1>3, AllocateOInv
<1>4. ASSUME NEW p \in Payments, NEW c \in Charges, MarkStatus(p, c)
      PROVE  OInv'
  <2>1. UNCHANGED <<allocated, bal, todo, peak, pc>>
    BY <1>4 DEF MarkStatus
  <2> QED
    BY <1>0, <2>1, QuietOInv
<1>5. ASSUME NEW p \in Payments, IssueReceipt(p) \/ AuditPayment(p) \/ AbortPayment(p)
      PROVE  OInv'
  <2>1. /\ UNCHANGED <<allocated, bal, todo, peak>>
        /\ \A q \in Payments \ {p} : pc'[q] = pc[q]
        /\ InFlight(p) /\ pc'[p] # "allocating"
    BY <1>5 DEF IssueReceipt, AuditPayment, AbortPayment, charges, InFlight, IInv, TypeOK
  <2> QED
    BY <1>0, <2>1, QuietOInv
<1>6. ASSUME UNCHANGED <<allocated, bal, todo, peak, pc, status, amount>>
      PROVE  OInv'
  BY <1>6 DEF OInv, FlightsCounted, PromisesBounded, ReadingsBounded, FreshIsEmpty, Flying, InFlight,
              Promised, Waiting
<1>7. ASSUME NEW g \in Generators,
             \/ \E a \in ChargeAmounts : GenerateMonthlyCharge(g, a) \/ CreateAdHocCharge(g, a)
             \/ CreateCharge(g) \/ AuditCharge(g) \/ AbortGenerator(g)
      PROVE  OInv'
  <2>1. UNCHANGED <<allocated, bal, todo, peak, pc>>
    BY <1>7 DEF GenerateMonthlyCharge, CreateAdHocCharge, CreateCharge, AuditCharge, AbortGenerator,
           charges, locals
  <2>2. ASSUME NEW p
        PROVE  OInv'
    BY <1>0, <2>1, QuietOInv
  <2> QED
    BY <2>2
<1> QED
  BY <1>1, <1>2, <1>3, <1>4, <1>5, <1>6, <1>7 DEF Next, vars, charges, locals

-----------------------------------------------------------------------------
(***************************************************************************)
(* Payments that never overlapped.  What the one handler in flight read is *)
(* then what is on file but for its own rows, and the charges it has still *)
(* to write are open; so the status it derives is the right one.           *)
(***************************************************************************)
ReadingsAreExact ==
    \A p \in Payments, c \in Charges :
        pc[p] = "allocating" /\ c \in seen[p] => bal[p][c] + allocated[c] = amount[c] + alloc[p][c]
WorkIsOpen ==
    \A p \in Payments, c \in Charges :
        pc[p] = "allocating" /\ c \in mark[p] \cup todo[p] => Pending(c)

SInv == (peak <= 1 => ReadingsAreExact /\ WorkIsOpen) /\ StatusAgrees

LEMMA Alone ==
    ASSUME IInv, OInv, peak <= 1, NEW p \in Payments, NEW q \in Payments, InFlight(p), InFlight(q)
    PROVE  p = q
<1> SUFFICES ASSUME p # q
             PROVE  FALSE
  OBVIOUS
<1>1. Cardinality({p}) = 1 /\ IsFiniteSet({p}) /\ q \notin {p}
  BY FS_Singleton
<1>2. Cardinality({p} \cup {q}) = 2
  BY <1>1, FS_AddElement
<1>3. {p} \cup {q} \subseteq Flying
  BY DEF Flying
<1>4. Cardinality({p} \cup {q}) <= Cardinality(Flying)
  BY <1>3, FlyingIsFinite, FS_Subset
<1>5. Cardinality(Flying) <= peak
  BY DEF OInv, FlightsCounted
<1>6. Cardinality(Flying) \in Nat /\ peak \in Nat
  BY FlyingIsFinite DEF IInv, TypeOK
<1> QED
  BY <1>2, <1>4, <1>5, <1>6

\* A step that neither reads balances nor writes rows, marks or statuses of a
\* charge that is on file.
LEMMA QuietSInv ==
    ASSUME IInv, OInv, SInv, peak' \in Nat, peak <= peak',
           UNCHANGED <<allocated, alloc, seen, bal, todo, mark>>,
           \A q \in Payments : pc'[q] = "allocating" => pc[q] = "allocating",
           \A c \in Charges : status[c] # "NONE" => amount'[c] = amount[c] /\ status'[c] = status[c],
           \A c \in Charges : status[c] = "NONE" => status'[c] \in {"NONE", "PENDING"}
    PROVE  SInv'
<1>1. peak' <= 1 => peak <= 1
  BY DEF IInv, TypeOK
<1>2. ASSUME peak' <= 1
      PROVE  ReadingsAreExact' /\ WorkIsOpen'
  <2>1. \A p \in Payments, c \in Charges : c \in seen[p] \/ c \in todo[p] \/ c \in mark[p] => status[c] # "NONE"
    BY DEF IInv, SnapshotsHold, PairInv
  <2> QED
    BY <1>1, <1>2, <2>1 DEF SInv, ReadingsAreExact, WorkIsOpen, Pending
<1>3. StatusAgrees'
  BY <1>1 DEF OInv, FreshIsEmpty, SInv, StatusAgrees
<1> QED
  BY <1>2, <1>3 DEF SInv

LEMMA ReadSInv ==
    ASSUME IInv, OInv, SInv, NEW p \in Payments, ReadBalances(p)
    PROVE  SInv'
<1>1. /\ UNCHANGED <<status, amount, allocated, alloc, mark, peak>> /\ pc[p] = "stored"
      /\ \A q \in Payments \ {p} :
            pc'[q] = pc[q] /\ bal'[q] = bal[q] /\ todo'[q] = todo[q] /\ seen'[q] = seen[q]
      /\ todo'[p] \subseteq seen'[p]
      /\ \A c \in Charges : c \in seen'[p] => bal'[p][c] = amount[c] - allocated[c] /\ Pending(c)
  BY DEF ReadBalances, charges, rows, Balance, IInv, TypeOK
<1>2. \A c \in Charges : alloc[p][c] = 0 /\ c \notin mark[p]
  <2> TAKE c \in Charges
  <2>1. PairInv(p, c) /\ c \notin seen[p] /\ alloc[p][c] \in Nat
    BY <1>1 DEF IInv, TypeOK, SnapshotsHold, NothingSeenBefore
  <2> QED
    BY <2>1 DEF PairInv
<1>3. ASSUME peak <= 1, NEW q \in Payments, NEW c \in Charges, pc'[q] = "allocating"
      PROVE  /\ c \in seen'[q] => bal'[q][c] + allocated[c] = amount[c] + alloc[q][c]
             /\ c \in mark[q] \cup todo'[q] => Pending(c)
  <2>0. allocated[c] \in Nat /\ amount[c] \in Nat
    BY DEF IInv, TypeOK
  <2>1. CASE q = p
    BY <1>1, <1>2, <1>3, <2>0, <2>1
  <2>2. CASE q # p
    BY <1>1, <1>3, <2>2 DEF SInv, ReadingsAreExact, WorkIsOpen
  <2> QED
    BY <2>1, <2>2
<1>4. peak' <= 1 => ReadingsAreExact' /\ WorkIsOpen'
  BY <1>1, <1>3 DEF ReadingsAreExact, WorkIsOpen, Pending
<1>5. StatusAgrees'
  BY <1>1 DEF SInv, StatusAgrees
<1> QED
  BY <1>4, <1>5 DEF SInv

LEMMA AllocateSInv ==
    ASSUME IInv, OInv, SInv, NEW p \in Payments, NEW c \in Charges, Allocate(p, c)
    PROVE  SInv'
<1> DEFINE s == Share(p, c)
<1>1. /\ pc[p] = "allocating" /\ c \in todo[p] /\ alloc[p][c] = 0 /\ s \in Nat
      /\ alloc' = [alloc EXCEPT ![p] = [alloc[p] EXCEPT ![c] = s]]
      /\ allocated' = [allocated EXCEPT ![c] = @ + s]
      /\ todo' = [todo EXCEPT ![p] = @ \ {c}]
      /\ mark' = [mark EXCEPT ![p] = @ \cup {c}]
      /\ UNCHANGED <<status, amount, pc, seen, bal, peak>>
  BY AllocateEffect
<1> HIDE DEF s
<1>2. ASSUME peak <= 1, NEW q \in Payments, NEW d \in Charges, pc[q] = "allocating"
      PROVE  /\ d \in seen[q] => bal[q][d] + allocated'[d] = amount[d] + alloc'[q][d]
             /\ d \in mark'[q] \cup todo'[q] => Pending(d)
  <2>1. q = p
    BY <1>1, <1>2, Alone DEF InFlight
  <2>2. /\ allocated[d] \in Nat /\ amount[d] \in Nat /\ bal[p][d] \in Int /\ alloc[p][d] \in Nat
        /\ d \in seen[p] => bal[p][d] + allocated[d] = amount[d] + alloc[p][d]
        /\ d \in mark[p] \cup todo[p] => Pending(d)
    BY <1>1, <1>2 DEF IInv, TypeOK, SInv, ReadingsAreExact, WorkIsOpen
  <2>3. d \in mark'[p] \cup todo'[p] => d \in mark[p] \cup todo[p]
    BY <1>1 DEF IInv, TypeOK
  <2>4. CASE d = c
    <3>1. allocated'[d] = allocated[d] + s /\ alloc'[p][d] = alloc[p][d] + s
      BY <1>1, <2>2, <2>4 DEF IInv, TypeOK
    <3> QED
      BY <1>1, <2>1, <2>2, <2>3, <3>1
  <2>5. CASE d # c
    <3>1. allocated'[d] = allocated[d] /\ alloc'[p][d] = alloc[p][d]
      BY <1>1, <2>5 DEF IInv, TypeOK
    <3> QED
      BY <2>1, <2>2, <2>3, <3>1
  <2> QED
    BY <2>4, <2>5
<1>3. peak' <= 1 => ReadingsAreExact' /\ WorkIsOpen'
  BY <1>1, <1>2 DEF ReadingsAreExact, WorkIsOpen, Pending
<1>4. StatusAgrees'
  <2> SUFFICES ASSUME NEW d \in Charges, peak <= 1, status[d] # "NONE", \A q \in Payments : d \notin mark'[q]
               PROVE  /\ status[d] = "PENDING" <=> allocated'[d] = 0
                      /\ status[d] = "PAID" <=> allocated'[d] > 0 /\ allocated'[d] >= amount[d]
    BY <1>1 DEF StatusAgrees
  <2>1. d # c /\ \A q \in Payments : d \notin mark[q]
    BY <1>1 DEF IInv, TypeOK
  <2>2. allocated'[d] = allocated[d]
    BY <1>1, <2>1 DEF IInv, TypeOK
  <2> QED
    BY <2>1, <2>2 DEF SInv, StatusAgrees
<1> QED
  BY <1>3, <1>4 DEF SInv

LEMMA MarkSInv ==
    ASSUME IInv, OInv, SInv, NEW p \in Payments, NEW c \in Charges, MarkStatus(p, c)
    PROVE  SInv'
<1> DEFINE t == ChargePaymentStatus(bal[p][c], alloc[p][c])
<1>1. /\ pc[p] = "allocating" /\ c \in mark[p]
      /\ status' = [status EXCEPT ![c] = t]
      /\ mark' = [mark EXCEPT ![p] = @ \ {c}]
      /\ UNCHANGED <<amount, allocated, alloc, pc, seen, bal, todo, peak>>
  BY DEF MarkStatus, Oldest, rows
<1>2. /\ alloc[p][c] > 0 /\ alloc[p][c] <= allocated[c] /\ c \in seen[p] /\ c \notin todo[p]
      /\ alloc[p][c] \in Nat /\ bal[p][c] \in Int /\ amount[c] \in Nat /\ allocated[c] \in Nat
  BY <1>1 DEF IInv, TypeOK, SnapshotsHold, PairInv
<1>3. peak <= 1 => bal[p][c] + allocated[c] = amount[c] + alloc[p][c]
  BY <1>1, <1>2 DEF SInv, ReadingsAreExact
<1>4. /\ t = "PARTIAL" \/ t = "PAID"
      /\ peak <= 1 => (t = "PAID" <=> allocated[c] >= amount[c])
  BY <1>2, <1>3 DEF ChargePaymentStatus
<1> HIDE DEF t
<1>5. ASSUME peak <= 1, NEW q \in Payments, NEW d \in Charges, pc[q] = "allocating"
      PROVE  d \in mark'[q] \cup todo[q] => Pending(d)'
  <2>1. q = p
    BY <1>1, <1>5, Alone DEF InFlight
  <2>2. d \in mark'[q] \cup todo[q] => d # c /\ d \in mark[q] \cup todo[q]
    BY <1>1, <1>2, <2>1 DEF IInv, TypeOK
  <2>3. d # c => status'[d] = status[d]
    BY <1>1 DEF IInv, TypeOK
  <2> QED
    BY <1>5, <2>2, <2>3 DEF SInv, WorkIsOpen, Pending
<1>6. peak' <= 1 => ReadingsAreExact' /\ WorkIsOpen'
  BY <1>1, <1>5 DEF SInv, ReadingsAreExact, WorkIsOpen
<1>7. StatusAgrees'
  <2> SUFFICES ASSUME NEW d \in Charges, peak <= 1, status'[d] # "NONE", \A q \in Payments : d \notin mark'[q]
               PROVE  /\ status'[d] = "PENDING" <=> allocated[d] = 0
                      /\ status'[d] = "PAID" <=> allocated[d] > 0 /\ allocated[d] >= amount[d]
    BY <1>1 DEF StatusAgrees
  <2>1. CASE d = c
    <3>1. status'[d] = t
      BY <1>1, <2>1 DEF IInv, TypeOK
    <3> QED
      BY <1>2, <1>4, <2>1, <3>1
  <2>2. CASE d # c
    <3>1. status'[d] = status[d] /\ \A q \in Payments : d \notin mark[q]
      BY <1>1, <2>2 DEF IInv, TypeOK
    <3> QED
      BY <3>1 DEF SInv, StatusAgrees
  <2> QED
    BY <2>1, <2>2
<1> QED
  BY <1>6, <1>7 DEF SInv

LEMMA InitSInv == Init => SInv
BY DEF Init, SInv, ReadingsAreExact, WorkIsOpen, StatusAgrees

LEMMA StepSInv == IInv /\ OInv /\ SInv /\ [Next]_vars => SInv'
<1> SUFFICES ASSUME IInv, OInv, SInv, [Next]_vars
             PROVE  SInv'
  OBVIOUS
<1>0. peak \in Nat
  BY DEF IInv, TypeOK
<1>1. ASSUME NEW g \in Generators,
             \/ \E a \in ChargeAmounts : GenerateMonthlyCharge(g, a) \/ CreateAdHocCharge(g, a)
             \/ CreateCharge(g) \/ AuditCharge(g) \/ AbortGenerator(g)
      PROVE  SInv'
  <2>1. UNCHANGED <<allocated, alloc, seen, bal, todo, mark, peak, pc>>
    BY <1>1 DEF GenerateMonthlyCharge, CreateAdHocCharge, CreateCharge, AuditCharge, AbortGenerator,
           charges, rows, locals
  <2>2. /\ \A c \in Charges : status[c] # "NONE" => amount'[c] = amount[c] /\ status'[c] = status[c]
        /\ \A c \in Charges : status[c] = "NONE" => status'[c] \in {"NONE", "PENDING"}
    BY <1>1 DEF GenerateMonthlyCharge, CreateAdHocCharge, CreateCharge, AuditCharge, AbortGenerator,
           charges, IInv, TypeOK
  <2>3. peak' \in Nat /\ peak <= peak'
    BY <1>0, <2>1
  <2>4. \A q \in Payments : pc'[q] = "allocating" => pc[q] = "allocating"
    BY <2>1
  <2> QED
    BY <2>1, <2>2, <2>3, <2>4, QuietSInv
<1>2. ASSUME NEW p \in Payments, NEW a \in PayAmounts, StorePayment(p, a)
      PROVE  SInv'
  <2>1. /\ UNCHANGED <<status, amount, allocated, alloc, seen, bal, todo, mark>>
        /\ \A q \in Payments : pc'[q] = "allocating" => pc[q] = "allocating"
    BY <1>2 DEF StorePayment, charges, rows, IInv, TypeOK
  <2>2. peak' \in Nat /\ peak <= peak'
    <3>1. Cardinality(Flying) \in Nat
      BY FlyingIsFinite
    <3> QED
      BY <1>0, <1>2, <3>1 DEF StorePayment, Flying
  <2> QED
    BY <2>1, <2>2, QuietSInv
<1>3. ASSUME NEW p \in Payments, ReadBalances(p)
      PROVE  SInv'
  BY <1>3, ReadSInv
<1>4. ASSUME NEW p \in Payments, NEW c \in Charges, Allocate(p, c)
      PROVE  SInv'
  BY <1>4, AllocateSInv
<1>5. ASSUME NEW p \in Payments, NEW c \in Charges, MarkStatus(p, c)
      PROVE  SInv'
  BY <1>5, MarkSInv
<1>6. ASSUME NEW p \in Payments, IssueReceipt(p) \/ AuditPayment(p) \/ AbortPayment(p)
      PROVE  SInv'
  <2>1. /\ UNCHANGED <<status, amount, allocated, alloc, seen, bal, todo, mark, peak>>
        /\ \A q \in Payments : pc'[q] = "allocating" => pc[q] = "allocating"
    BY <1>6 DEF IssueReceipt, AuditPayment, AbortPayment, charges, rows, IInv, TypeOK
  <2> QED
    BY <1>0, <2>1, QuietSInv
<1>7. CASE UNCHANGED vars
  BY <1>7 DEF vars, charges, rows, locals, SInv, ReadingsAreExact, WorkIsOpen, Pending, StatusAgrees
<1> QED
  BY <1>1, <1>2, <1>3, <1>4, <1>5, <1>6, <1>7 DEF Next

LEMMA BooksInvariance == Spec => [](IInv /\ AccountsHold /\ OInv /\ SInv)
BY InitIInv, InitAccounts, InitOInv, InitSInv, StepIInv, StepAccounts, StepOInv, StepSInv, PTL DEF Spec

\* Money is conserved inside every payment, a charge receives at most its
\* amount for each payment that overlapped, and without overlap its status is
\* what its rows say.
THEOREM BooksAgreeAlways == Spec => []BooksAgree
<1>1. IInv /\ AccountsHold => PaymentIsAccounted
  BY AccountsAreThePayments DEF IInv
<1>2. IInv /\ OInv => OverAllocationBounded
  <2> SUFFICES ASSUME IInv, OInv, NEW c \in Charges
               PROVE  allocated[c] <= peak * amount[c]
    BY DEF OverAllocationBounded
  <2>1. Promised(c) \in Nat /\ allocated[c] \in Nat /\ allocated[c] + Promised(c) <= peak * amount[c]
    BY PromisedBounds DEF OInv, PromisesBounded, IInv, TypeOK
  <2>2. peak * amount[c] \in Nat
    BY DEF IInv, TypeOK
  <2> QED
    BY <2>1, <2>2
<1>3. SInv => StatusAgrees
  BY DEF SInv
<1>4. IInv /\ AccountsHold /\ OInv /\ SInv => BooksAgree
  BY <1>1, <1>2, <1>3 DEF BooksAgree
<1> QED
  BY <1>4, BooksInvariance, PTL

\* A charge is written once, and while payments do not overlap one that was
\* paid is never reopened.
THEOREM ChargesAreKept == Spec => ChargesLast
<1> DEFINE Written == \A c \in Charges : status[c] # "NONE" => amount'[c] = amount[c] /\ status'[c] # "NONE"
           Kept == peak <= 1 => \A c \in Charges : status[c] = "PAID" => status'[c] = "PAID"
<1>1. IInv /\ SInv /\ [Next]_vars => Written
  BY ChargeSteps
<1>2. IInv /\ SInv /\ [Next]_vars => Kept
  <2> SUFFICES ASSUME IInv, SInv, [Next]_vars, peak <= 1, NEW c \in Charges, status[c] = "PAID"
               PROVE  status'[c] = "PAID"
    OBVIOUS
  <2>1. status'[c] = status[c] \/ \E p \in Payments : MarkStatus(p, c)
    BY ChargeSteps
  <2>2. ASSUME NEW p \in Payments, MarkStatus(p, c)
        PROVE  FALSE
    <3>1. pc[p] = "allocating" /\ c \in mark[p]
      BY <2>2 DEF MarkStatus, Oldest
    <3> QED
      BY <3>1 DEF SInv, WorkIsOpen, Pending
  <2> QED
    BY <2>1, <2>2
<1>3. Spec => [][Written]_vars
  BY <1>1, BooksInvariance, PTL DEF Spec
<1>4. Spec => [][Kept]_vars
  BY <1>2, BooksInvariance, PTL DEF Spec
<1> QED
  BY <1>3, <1>4, PTL DEF ChargesLast, ChargeWrittenOnce, PaidStaysPaid
=============================================================================
