--------------------------- MODULE ContractsProofs ---------------------------
(***************************************************************************)
(* What Contracts guarantees for every set of requests, amounts, months,   *)
(* rents, indexes, owners and shares: for each of its parts the types, the *)
(* safety invariants and the step properties the runs check, for the       *)
(* deposit also that it implements DepositAccount; at the end, that a      *)
(* behaviour of Contracts is one of each part.                             *)
(***************************************************************************)
EXTENDS Contracts, SumTheorems, TLAPS

-----------------------------------------------------------------------------
(***************************************************************************)
(* What DepositLedger guarantees for every set of requests and amounts:    *)
(* its types, that the columns stay within what is held, that they are     *)
(* reconciled with the movements, and that it implements DepositAccount.   *)
(*                                                                         *)
(* WithinHeld is not inductive: AdjustDeposit writes totals computed from  *)
(* an old snapshot.  DepositInv adds what makes that write safe: the snapshot is *)
(* a ledger that was on file, every ledger ever on file was within bounds  *)
(* with the same held amount, and the movement was validated against it.   *)
(***************************************************************************)

Bounded(l) == l.deducted + l.returned <= l.held

PastIsBounded ==
    /\ recorded => ledger \in past
    /\ \A l \in past : Bounded(l) /\ l.held = ledger.held
    /\ ~recorded => ledger = NoLedger /\ past = {}

SnapshotsAreValid ==
    \A r \in Movements : mpc[r] = "validated" =>
        /\ recorded
        /\ snap[r] \in past
        /\ amt[r] \in MoveAmounts
        /\ ValidMovement(snap[r], amt[r])

\* Until a race, the one movement under way starts from the ledger on file.
NoRace ==
    ~racing =>
        /\ \A r \in Movements : mpc[r] = "validated" => snap[r] = ledger
        /\ \A r, q \in Movements : mpc[r] = "validated" /\ mpc[q] = "validated" => r = q

DepositInv == DepositTypeOK /\ PastIsBounded /\ SnapshotsAreValid /\ NoRace

LEMMA DepositInitInv == DepositInit => DepositInv
<1> SUFFICES ASSUME DepositInit
             PROVE  DepositInv
  OBVIOUS
<1>1. NoLedger \in Ledger /\ "deduct" \in Kinds
  BY DEF NoLedger, Ledger, Kinds
<1>2. DepositTypeOK
  BY <1>1 DEF DepositInit, DepositTypeOK
<1>3. \A r \in Movements : mpc[r] = "idle"
  BY DEF DepositInit
<1>4. PastIsBounded
  BY DEF DepositInit, PastIsBounded
<1>5. SnapshotsAreValid /\ NoRace
  BY <1>3 DEF SnapshotsAreValid, NoRace
<1> QED
  BY <1>2, <1>4, <1>5 DEF DepositInv

\* A validated movement of a bounded ledger gives a bounded ledger with the
\* same held amount.
LEMMA MovedIsBounded ==
    ASSUME NEW l \in Ledger, NEW k \in Kinds, NEW a \in Nat, ValidMovement(l, a)
    PROVE  /\ Moved(l, k, a) \in Ledger
           /\ Moved(l, k, a).held = l.held
           /\ Bounded(Moved(l, k, a))
BY DEF Ledger, Kinds, ValidMovement, DepositRemaining, Moved, Bounded

LEMMA RecordIInv ==
    ASSUME DepositInv, NEW h \in HeldAmounts, RecordDeposit(h)
    PROVE  DepositInv'
<1>1. h \in Nat
  BY DepositAmounts
<1>2. ledger' \in Ledger /\ Bounded(ledger') /\ recorded' = TRUE /\ past' = {ledger'}
  BY <1>1 DEF RecordDeposit, Ledger, Bounded
<1>3. UNCHANGED <<mpc, kind, amt, snap, applied, racing>>
  BY DEF RecordDeposit, locals
<1>4. \A r \in Movements : mpc[r] # "validated"
  BY DEF DepositInv, SnapshotsAreValid, RecordDeposit
<1>5. DepositTypeOK'
  BY <1>2, <1>3 DEF DepositInv, DepositTypeOK
<1>6. PastIsBounded'
  BY <1>2 DEF PastIsBounded
<1>7. SnapshotsAreValid' /\ NoRace'
  BY <1>3, <1>4 DEF SnapshotsAreValid, NoRace
<1> QED
  BY <1>5, <1>6, <1>7 DEF DepositInv

LEMMA FindIInv ==
    ASSUME DepositInv, NEW r \in Movements, NEW k \in Kinds, NEW a \in MoveAmounts, FindDeposit(r, k, a)
    PROVE  DepositInv'
<1>1. a \in Nat
  BY DepositAmounts
<1>2. UNCHANGED <<recorded, ledger, applied, past>> /\ recorded
  BY DEF FindDeposit, depositRows
<1>3. DepositTypeOK'
  BY <1>1, <1>2 DEF DepositInv, DepositTypeOK, FindDeposit
<1>4. PastIsBounded'
  BY <1>2 DEF DepositInv, PastIsBounded, FindDeposit
<1>5. SnapshotsAreValid'
  BY <1>2 DEF DepositInv, DepositTypeOK, SnapshotsAreValid, PastIsBounded, FindDeposit, ValidMovement, DepositRemaining
<1>6. NoRace'
  BY <1>2 DEF DepositInv, DepositTypeOK, NoRace, FindDeposit
<1> QED
  BY <1>3, <1>4, <1>5, <1>6 DEF DepositInv

LEMMA AdjustIInv ==
    ASSUME DepositInv, NEW r \in Movements, AdjustDeposit(r)
    PROVE  DepositInv'
<1> DEFINE m == Moved(snap[r], kind[r], amt[r])
<1>1. mpc[r] = "validated" /\ snap[r] \in past /\ ValidMovement(snap[r], amt[r]) /\ recorded
  BY DEF AdjustDeposit, DepositInv, SnapshotsAreValid
<1>2. snap[r] \in Ledger /\ kind[r] \in Kinds /\ amt[r] \in Nat /\ ledger \in Ledger
  BY DEF DepositInv, DepositTypeOK
<1>3. m \in Ledger /\ m.held = snap[r].held /\ Bounded(m)
  BY <1>1, <1>2, MovedIsBounded
<1>4. snap[r].held = ledger.held
  BY <1>1 DEF DepositInv, PastIsBounded
<1> HIDE DEF m
<1>5. ledger' = m
  BY <1>2, <1>3, <1>4 DEF AdjustDeposit, m, Ledger
<1>6. UNCHANGED <<recorded, kind, amt, snap, racing>> /\ past' = past \cup {ledger'}
  BY DEF AdjustDeposit
<1>7. DepositTypeOK'
  BY <1>3, <1>5, <1>6 DEF DepositInv, DepositTypeOK, AdjustDeposit
<1>8. PastIsBounded'
  BY <1>1, <1>3, <1>4, <1>5, <1>6 DEF DepositInv, PastIsBounded
<1>9. SnapshotsAreValid'
  BY <1>6 DEF DepositInv, DepositTypeOK, SnapshotsAreValid, AdjustDeposit, ValidMovement, DepositRemaining
<1>10. NoRace'
  BY <1>1, <1>6 DEF DepositInv, DepositTypeOK, NoRace, AdjustDeposit
<1> QED
  BY <1>7, <1>8, <1>9, <1>10 DEF DepositInv

LEMMA EndIInv ==
    ASSUME DepositInv, NEW r \in Movements, AuditMovement(r) \/ AbortMovement(r)
    PROVE  DepositInv'
<1>1. UNCHANGED <<recorded, ledger, kind, amt, snap, applied, past, racing>>
  BY DEF AuditMovement, AbortMovement, depositRows, history
<1>2. /\ mpc' \in [Movements -> {"idle", "validated", "written", "done", "rejected", "failed"}]
      /\ \A q \in Movements : mpc'[q] = "validated" => mpc[q] = "validated"
  BY DEF AuditMovement, AbortMovement, DepositInv, DepositTypeOK
<1> QED
  BY <1>1, <1>2 DEF DepositInv, DepositTypeOK, PastIsBounded, SnapshotsAreValid, NoRace, ValidMovement, DepositRemaining

LEMMA DepositStepInv == DepositInv /\ [DepositNext]_depositVars => DepositInv'
<1> SUFFICES ASSUME DepositInv, [DepositNext]_depositVars
             PROVE  DepositInv'
  OBVIOUS
<1>1. ASSUME NEW h \in HeldAmounts, RecordDeposit(h)
      PROVE  DepositInv'
  BY <1>1, RecordIInv
<1>2. ASSUME NEW r \in Movements, NEW k \in Kinds, NEW a \in MoveAmounts, FindDeposit(r, k, a)
      PROVE  DepositInv'
  BY <1>2, FindIInv
<1>3. ASSUME NEW r \in Movements, AdjustDeposit(r)
      PROVE  DepositInv'
  BY <1>3, AdjustIInv
<1>4. ASSUME NEW r \in Movements, AuditMovement(r) \/ AbortMovement(r)
      PROVE  DepositInv'
  BY <1>4, EndIInv
<1>5. CASE UNCHANGED depositVars
  BY <1>5 DEF depositVars, depositRows, locals, history, DepositInv, DepositTypeOK, PastIsBounded, SnapshotsAreValid,
              NoRace, ValidMovement, DepositRemaining
<1> QED
  BY <1>1, <1>2, <1>3, <1>4, <1>5 DEF DepositNext

LEMMA DepositInvariance == DepositSpec => []DepositInv
BY DepositInitInv, DepositStepInv, PTL DEF DepositSpec

\* Every state of the deposit and of its requests is well typed: no column is
\* ever negative, whatever the requests write over each other.
THEOREM DepositTypeCorrect == DepositSpec => []DepositTypeOK
<1>1. DepositInv => DepositTypeOK
  BY DEF DepositInv
<1> QED
  BY <1>1, DepositInvariance, PTL

\* Movements that read, validate and overwrite without a transaction still
\* never take the columns past what is held.
THEOREM DepositWithinHeld == DepositSpec => []WithinHeld
<1>1. DepositInv => WithinHeld
  BY DEF DepositInv, PastIsBounded, DepositTypeOK, Bounded, WithinHeld, NoLedger
<1> QED
  BY <1>1, DepositInvariance, PTL

-----------------------------------------------------------------------------
(***************************************************************************)
(* The columns against the movements.  A movement writes a ledger that was *)
(* on file plus its own amount, so what has to be carried along is that no *)
(* ledger ever on file showed more than was moved so far.                  *)
(***************************************************************************)
Column(l, k) == IF k = "deduct" THEN l.deducted ELSE l.returned

PastReconciles == \A l \in past, k \in Kinds : Column(l, k) <= Total(applied, k)

FileReconciles == ~racing => \A k \in Kinds : Column(ledger, k) = Total(applied, k)

AppliedIsWritten == \A r \in applied : mpc[r] \in {"written", "done", "failed"}

RInv == PastReconciles /\ FileReconciles /\ AppliedIsWritten

LEMMA TotalIsSum ==
    ASSUME NEW k
    PROVE  /\ Total(applied, k) = SumOver(amt, {r \in applied : kind[r] = k})
           /\ Total(applied, k)' = SumOver(amt', {r \in applied' : kind'[r] = k})
BY Zenon DEF Total, SumOver

\* The total of some requests depends on nothing but their kinds and amounts.
LEMMA TotalStays ==
    ASSUME DepositTypeOK, NEW k \in Kinds,
           \A r \in applied : kind'[r] = kind[r] /\ amt'[r] = amt[r], applied' = applied
    PROVE  Total(applied, k)' = Total(applied, k)
<1> DEFINE S == {r \in applied : kind[r] = k}
<1>1. S = {r \in applied' : kind'[r] = k}
  OBVIOUS
<1>2. IsFiniteSet(S)
  BY MovementsAssumption, FS_Subset DEF DepositTypeOK
<1>3. SumOver(amt', S) = SumOver(amt, S)
  BY <1>2, SumCongruent
<1>4. Total(applied, k) = SumOver(amt, S)
  BY TotalIsSum
<1>5. Total(applied, k)' = SumOver(amt', S)
  BY <1>1, TotalIsSum
<1> QED
  BY <1>3, <1>4, <1>5

LEMMA TotalType ==
    ASSUME DepositTypeOK, NEW k \in Kinds
    PROVE  Total(applied, k) \in Nat
<1> DEFINE S == {r \in applied : kind[r] = k}
<1>1. IsFiniteSet(S) /\ \A r \in S : amt[r] \in Nat
  BY MovementsAssumption, FS_Subset DEF DepositTypeOK
<1>2. SumOver(amt, S) \in Nat
  BY <1>1, SumNat
<1> QED
  BY <1>2, TotalIsSum

\* One more request has been applied.
LEMMA TotalGrows ==
    ASSUME DepositTypeOK, NEW r \in Movements \ applied, NEW k \in Kinds,
           applied' = applied \cup {r}, UNCHANGED <<kind, amt>>
    PROVE  Total(applied, k)' = IF kind[r] = k THEN Total(applied, k) + amt[r] ELSE Total(applied, k)
<1> DEFINE S == {q \in applied : kind[q] = k}
           T == {q \in applied \cup {r} : kind[q] = k}
<1>1. IsFiniteSet(S) /\ IntOn(amt, S \cup {r}) /\ r \notin S /\ amt[r] \in Nat
  BY MovementsAssumption, FS_Subset DEF DepositTypeOK, IntOn
<1>2. Total(applied, k) = SumOver(amt, S) /\ Total(applied, k)' = SumOver(amt, T)
  BY TotalIsSum
<1>3. Total(applied, k) \in Nat
  BY TotalType
<1>4. CASE kind[r] = k
  <2>1. T = S \cup {r}
    BY <1>4
  <2>2. SumOver(amt, T) = amt[r] + SumOver(amt, S)
    BY <1>1, <2>1, SumAdd
  <2> QED
    BY <1>1, <1>2, <1>3, <1>4, <2>2
<1>5. CASE kind[r] # k
  <2>1. T = S
    BY <1>5
  <2> QED
    BY <1>2, <1>5, <2>1
<1> QED
  BY <1>4, <1>5

LEMMA InitRInv == DepositInit => RInv
<1> SUFFICES ASSUME DepositInit
             PROVE  RInv
  OBVIOUS
<1>1. applied = {} /\ past = {} /\ ledger = NoLedger
  BY DEF DepositInit
<1>2. \A k \in Kinds : Total(applied, k) = 0
  <2>1. \A k \in Kinds : {r \in applied : kind[r] = k} = {}
    BY <1>1
  <2> QED
    BY <2>1, TotalIsSum, SumEmpty
<1> QED
  BY <1>1, <1>2 DEF RInv, PastReconciles, FileReconciles, AppliedIsWritten, Column, NoLedger

LEMMA AdjustRInv ==
    ASSUME DepositInv, RInv, NEW r \in Movements, AdjustDeposit(r)
    PROVE  RInv'
<1>1. /\ mpc[r] = "validated" /\ snap[r] \in past
      /\ snap[r] \in Ledger /\ kind[r] \in Kinds /\ amt[r] \in Nat /\ ledger \in Ledger
  BY DEF AdjustDeposit, DepositInv, DepositTypeOK, SnapshotsAreValid
<1>2. snap[r].held = ledger.held
  BY <1>1 DEF DepositInv, PastIsBounded
<1>3. ledger' = Moved(snap[r], kind[r], amt[r])
  BY <1>1, <1>2 DEF AdjustDeposit, Ledger, Moved, Kinds
<1>4. /\ applied' = applied \cup {r} /\ past' = past \cup {ledger'} /\ racing' = racing
      /\ UNCHANGED <<kind, amt>> /\ mpc' = [mpc EXCEPT ![r] = "written"]
  BY DEF AdjustDeposit
<1>5. r \notin applied
  BY <1>1 DEF RInv, AppliedIsWritten
<1>6. ASSUME NEW k \in Kinds
      PROVE  /\ Column(ledger', k) = Column(snap[r], k) + (IF kind[r] = k THEN amt[r] ELSE 0)
             /\ Total(applied, k)' = Total(applied, k) + (IF kind[r] = k THEN amt[r] ELSE 0)
             /\ Total(applied, k) \in Nat /\ Column(snap[r], k) \in Nat
             /\ Column(snap[r], k) <= Total(applied, k)
  <2>1. Total(applied, k) \in Nat
    BY TotalType DEF DepositInv
  <2>2. Total(applied, k)' = Total(applied, k) + (IF kind[r] = k THEN amt[r] ELSE 0)
    <3>1. Total(applied, k)' = IF kind[r] = k THEN Total(applied, k) + amt[r] ELSE Total(applied, k)
      BY <1>4, <1>5, TotalGrows DEF DepositInv
    <3> QED
      BY <1>1, <2>1, <3>1
  <2>3. /\ Column(ledger', k) = Column(snap[r], k) + (IF kind[r] = k THEN amt[r] ELSE 0)
        /\ Column(snap[r], k) \in Nat
    BY <1>1, <1>3 DEF Column, Moved, Kinds, Ledger
  <2> QED
    BY <1>1, <2>1, <2>2, <2>3 DEF RInv, PastReconciles
<1>7. PastReconciles'
  <2> SUFFICES ASSUME NEW l \in past', NEW k \in Kinds
               PROVE  Column(l, k) <= Total(applied, k)'
    BY DEF PastReconciles
  <2>1. CASE l \in past
    <3>1. Column(l, k) \in Nat /\ Column(l, k) <= Total(applied, k)
      BY <2>1 DEF DepositInv, DepositTypeOK, Ledger, Column, RInv, PastReconciles
    <3> QED
      BY <1>1, <1>6, <3>1
  <2>2. CASE l = ledger'
    BY <1>1, <1>6, <2>2
  <2> QED
    BY <1>4, <2>1, <2>2
<1>8. FileReconciles'
  <2> SUFFICES ASSUME ~racing, NEW k \in Kinds
               PROVE  Column(ledger', k) = Total(applied, k)'
    BY <1>4 DEF FileReconciles
  <2>1. snap[r] = ledger /\ Column(ledger, k) = Total(applied, k)
    BY <1>1 DEF DepositInv, NoRace, RInv, FileReconciles
  <2> QED
    BY <1>6, <2>1
<1>9. AppliedIsWritten'
  BY <1>4 DEF DepositInv, DepositTypeOK, RInv, AppliedIsWritten
<1> QED
  BY <1>7, <1>8, <1>9 DEF RInv

\* The other steps apply nothing, and write no ledger that shows a movement.
LEMMA QuietRInv ==
    ASSUME DepositInv, RInv, applied' = applied, racing => racing',
           \A r \in applied : kind'[r] = kind[r] /\ amt'[r] = amt[r] /\ mpc'[r] \in {"written", "done", "failed"},
           \/ UNCHANGED <<ledger, past>>
           \/ ledger = NoLedger /\ ledger' \in [held : Nat, deducted : {0}, returned : {0}] /\ past' = {ledger'}
    PROVE  RInv'
<1>1. \A k \in Kinds : Total(applied, k)' = Total(applied, k) /\ Total(applied, k) \in Nat
  BY TotalStays, TotalType DEF DepositInv
<1>2. AppliedIsWritten'
  BY DEF AppliedIsWritten
<1>3. CASE UNCHANGED <<ledger, past>>
  BY <1>1, <1>2, <1>3 DEF RInv, PastReconciles, FileReconciles
<1>4. CASE ledger = NoLedger /\ ledger' \in [held : Nat, deducted : {0}, returned : {0}] /\ past' = {ledger'}
  <2>1. \A k \in Kinds : Column(ledger', k) = 0 /\ Column(ledger, k) = 0
    BY <1>4 DEF Column, NoLedger
  <2> QED
    BY <1>1, <1>2, <1>4, <2>1 DEF RInv, PastReconciles, FileReconciles
<1> QED
  BY <1>3, <1>4

LEMMA StepRInv == DepositInv /\ RInv /\ [DepositNext]_depositVars => RInv'
<1> SUFFICES ASSUME DepositInv, RInv, [DepositNext]_depositVars
             PROVE  RInv'
  OBVIOUS
<1>0. \A r \in applied : r \in Movements /\ mpc[r] \in {"written", "done", "failed"}
  BY DEF DepositInv, DepositTypeOK, RInv, AppliedIsWritten
<1>1. ASSUME NEW h \in HeldAmounts, RecordDeposit(h)
      PROVE  RInv'
  <2>1. /\ ledger = NoLedger /\ past' = {ledger'}
        /\ ledger' \in [held : Nat, deducted : {0}, returned : {0}]
    BY <1>1, DepositAmounts DEF RecordDeposit, DepositInv, PastIsBounded
  <2>2. UNCHANGED <<applied, racing, kind, amt, mpc>>
    BY <1>1 DEF RecordDeposit, locals
  <2> QED
    BY <1>0, <2>1, <2>2, QuietRInv
<1>2. ASSUME NEW r \in Movements, NEW k \in Kinds, NEW a \in MoveAmounts, FindDeposit(r, k, a)
      PROVE  RInv'
  <2>1. UNCHANGED <<applied, ledger, past>> /\ (racing => racing') /\ mpc[r] = "idle"
    BY <1>2 DEF FindDeposit, depositRows
  <2>2. \A q \in applied : q # r
    BY <1>0, <2>1
  <2>3. \A q \in applied : kind'[q] = kind[q] /\ amt'[q] = amt[q] /\ mpc'[q] = mpc[q]
    BY <1>0, <1>2, <2>2 DEF FindDeposit, DepositInv, DepositTypeOK
  <2> QED
    BY <1>0, <2>1, <2>3, QuietRInv
<1>3. ASSUME NEW r \in Movements, AdjustDeposit(r)
      PROVE  RInv'
  BY <1>3, AdjustRInv
<1>4. ASSUME NEW r \in Movements, AuditMovement(r) \/ AbortMovement(r)
      PROVE  RInv'
  <2>1. UNCHANGED <<applied, racing, kind, amt, ledger, past>>
    BY <1>4 DEF AuditMovement, AbortMovement, depositRows, history
  <2>2. \A q \in Movements : mpc'[q] = mpc[q] \/ mpc'[q] \in {"done", "failed"}
    BY <1>4 DEF AuditMovement, AbortMovement, DepositInv, DepositTypeOK
  <2> QED
    BY <1>0, <2>1, <2>2, QuietRInv
<1>5. CASE UNCHANGED depositVars
  <2>1. UNCHANGED <<applied, racing, kind, amt, ledger, past, mpc>>
    BY <1>5 DEF depositVars, depositRows, locals, history
  <2> QED
    BY <1>0, <2>1, QuietRInv
<1> QED
  BY <1>1, <1>2, <1>3, <1>4, <1>5 DEF DepositNext

\* Until two movements race the columns are exactly the sums of what was moved,
\* and after a race they never show more, for any number of requests.
THEOREM ColumnsReconcile == DepositSpec => []MovementsReconcile
<1>1. DepositInv /\ RInv => MovementsReconcile
  <2> SUFFICES ASSUME DepositInv, RInv, NEW k \in Kinds
               PROVE  IF racing THEN Column(ledger, k) <= Total(applied, k)
                                ELSE Column(ledger, k) = Total(applied, k)
    BY DEF MovementsReconcile, Column
  <2>1. CASE recorded
    BY <2>1 DEF DepositInv, PastIsBounded, RInv, PastReconciles, FileReconciles
  <2>2. CASE ~recorded
    <3>1. Column(ledger, k) = 0
      BY <2>2 DEF DepositInv, PastIsBounded, Column, NoLedger
    <3> QED
      BY <3>1, TotalType DEF DepositInv, RInv, FileReconciles
  <2> QED
    BY <2>1, <2>2
<1>2. DepositSpec => []RInv
  BY DepositInvariance, InitRInv, StepRInv, PTL DEF DepositSpec
<1> QED
  BY <1>1, <1>2, DepositInvariance, PTL

-----------------------------------------------------------------------------
(***************************************************************************)
(* The implementation proof: RecordDeposit is Open, AdjustDeposit is Move, *)
(* the FindDeposit that starts a race is Race, all else stutters.          *)
(***************************************************************************)

LEMMA InitImplements == DepositInit => Account!Init
BY DEF DepositInit, Account!Init, NoLedger

LEMMA AdjustIsMove ==
    ASSUME DepositInv, NEW r \in Movements, AdjustDeposit(r)
    PROVE  Account!Move
<1>1. /\ mpc[r] = "validated" /\ snap[r] \in past /\ recorded
      /\ amt[r] \in MoveAmounts /\ ValidMovement(snap[r], amt[r])
  BY DEF AdjustDeposit, DepositInv, SnapshotsAreValid
<1>2. snap[r] \in Ledger /\ kind[r] \in Kinds /\ amt[r] \in Nat /\ ledger \in Ledger
  BY DEF DepositInv, DepositTypeOK
<1>3. snap[r].held = ledger.held
  BY <1>1 DEF DepositInv, PastIsBounded
<1>4. ledger' = Moved(snap[r], kind[r], amt[r])
  BY <1>2, <1>3 DEF AdjustDeposit, Ledger, Moved, Kinds
<1>5. Account!Movement(snap[r], ledger')
  BY <1>1, <1>2, <1>4 DEF Account!Movement, Account!Remaining, Moved, Kinds, ValidMovement, DepositRemaining
<1>6. ~racing => snap[r] = ledger
  BY <1>1 DEF DepositInv, NoRace
<1>7. past' = past \cup {ledger'} /\ UNCHANGED <<recorded, racing>>
  BY DEF AdjustDeposit
<1>8. Account!Movement(ledger, ledger') \/ (racing /\ \E l \in past : Account!Movement(l, ledger'))
  <2>1. CASE racing
    BY <1>1, <1>5, <2>1
  <2>2. CASE ~racing
    BY <1>5, <1>6, <2>2
  <2> QED
    BY <2>1, <2>2
<1> QED
  BY <1>1, <1>7, <1>8 DEF Account!Move

LEMMA StepImplements == DepositInv /\ [DepositNext]_depositVars => [Account!Next]_(Account!vars)
<1> SUFFICES ASSUME DepositInv, [DepositNext]_depositVars
             PROVE  Account!Next \/ UNCHANGED <<recorded, ledger, past, racing>>
  BY DEF Account!vars
<1>1. ASSUME NEW h \in HeldAmounts, RecordDeposit(h)
      PROVE  Account!Open
  BY <1>1 DEF RecordDeposit, Account!Open
<1>2. ASSUME NEW r \in Movements, NEW k \in Kinds, NEW a \in MoveAmounts, FindDeposit(r, k, a)
      PROVE  Account!Race \/ UNCHANGED <<recorded, ledger, past, racing>>
  <2>1. racing' \in BOOLEAN /\ (racing => racing') /\ racing \in BOOLEAN
    BY <1>2 DEF FindDeposit, DepositInv, DepositTypeOK
  <2>2. UNCHANGED <<recorded, ledger, past>>
    BY <1>2 DEF FindDeposit, depositRows
  <2> QED
    BY <2>1, <2>2 DEF Account!Race
<1>3. ASSUME NEW r \in Movements, AdjustDeposit(r)
      PROVE  Account!Move
  BY <1>3, AdjustIsMove
<1>4. ASSUME NEW r \in Movements, AuditMovement(r) \/ AbortMovement(r)
      PROVE  UNCHANGED <<recorded, ledger, past, racing>>
  BY <1>4 DEF AuditMovement, AbortMovement, depositRows, history
<1>5. CASE UNCHANGED depositVars
  BY <1>5 DEF depositVars, depositRows, locals, history
<1> QED
  BY <1>1, <1>2, <1>3, <1>4, <1>5 DEF DepositNext, Account!Next

\* moveDeposit keeps the promise of DepositAccount: exact while movements do not
\* race, and never more than one legal movement from a past ledger when they do.
THEOREM ImplementsAccount == DepositSpec => AccountSpec
BY InitImplements, StepImplements, DepositInvariance, PTL DEF DepositSpec, AccountSpec, Account!Spec

-----------------------------------------------------------------------------
(***************************************************************************)
(* What ContractLifecycle guarantees for any number of requests, any       *)
(* months, rents, indexes and caps.                                        *)
(*                                                                         *)
(* terminateContract writes in three statements: the FINE charge, the row  *)
(* that names it, the status.  Because a charge is never taken back, each  *)
(* can rely on the ones before, whoever else writes.  That the amounts are *)
(* the quoted ones needs more: that no two handlers overlapped and none    *)
(* stopped half-way, so that what a handler loaded is still on file.       *)
(***************************************************************************)

\* The indemnity the terms on file call for at month m.
Quoted(m) == (IF row.end - m < 3 THEN row.end - m ELSE 3) * row.rent

JobsFit ==
    \A r \in Requests :
        /\ pc[r] \in {"charging", "saving", "billing"} => job[r].month \in Months
        /\ pc[r] \in {"charging", "increasing"} => job[r].amount > 0

PostedFirst ==
    /\ \A r \in Requests :
          /\ pc[r] = "marking" => termination.saved
          /\ pc[r] = "saving" /\ job[r].charged => fine[job[r].month] > 0
    /\ termination.charged => termination.month \in Months /\ fine[termination.month] > 0

NoOverlap ==
    /\ \A r, q \in Requests : InFlight(r) /\ InFlight(q) => r = q
    /\ \A r \in Requests :
          /\ InFlight(r) /\ pc[r] # "billing" => row.status = "ACTIVE"
          /\ pc[r] = "renewing" => job[r].end > row.end
          /\ pc[r] = "increasing" => \E rate \in Indexes \cup Caps : job[r].amount = Increased(row.rent, rate)

\* How far the one termination under way has come.
OneTermination ==
    /\ row.status = "ACTIVE" /\ (\A r \in Requests : pc[r] \notin {"saving", "marking"}) =>
          \A m \in Months : fine[m] = 0
    /\ \A r \in Requests :
          /\ pc[r] = "charging" => ~job[r].charged /\ job[r].amount = Quoted(job[r].month)
          /\ pc[r] = "saving" =>
                \A m \in Months : fine[m] = IF job[r].charged /\ m = job[r].month THEN Quoted(m) ELSE 0
          /\ pc[r] = "marking" =>
                \A m \in Months : fine[m] = IF termination.charged /\ m = termination.month THEN Quoted(m) ELSE 0

LifeInv ==
    /\ LifeTypeOK /\ row.rent > 0
    /\ JobsFit
    /\ PostedFirst /\ TerminationOnFile
    /\ ~raced => NoOverlap
    /\ ~raced /\ ~interrupted => OneTermination /\ IndemnityIsTheQuote

PCs == Writing \cup {"idle", "auditing", "done", "rejected", "failed"}

\* Rounding to the minor unit stays within half of one.
LEMMA Rounded == \A k \in Int : 100 * ((k + 50) \div 100) - k \in -50..50
OBVIOUS

LEMMA IncreasedType ==
    ASSUME LifecycleAssumption, NEW rent \in Nat, rent > 0, NEW rate \in Indexes \cup Caps
    PROVE  Increased(rent, rate) \in Nat /\ Increased(rent, rate) > 0
<1> DEFINE k == rent * (100 + rate)
<1>1. rate \in Int /\ rate >= -50 /\ 100 + rate \in Nat /\ 100 + rate >= 50
  BY DEF LifecycleAssumption
<1>2. \A x \in Nat, y \in Nat : x > 0 /\ y >= 50 => x * y \in Nat /\ x * y >= 50
  OBVIOUS
<1>3. k \in Nat /\ k >= 50
  BY <1>1, <1>2
<1> HIDE DEF k
<1>4. (k + 50) \div 100 \in Nat /\ (k + 50) \div 100 > 0
  BY <1>3
<1> QED
  BY <1>4 DEF Increased, k

LEMMA QuoteType ==
    ASSUME NEW generic \in BOOLEAN, NEW rent \in Nat, NEW end \in Nat, NEW m \in Nat
    PROVE  LET quote == QuoteIndemnity(generic, rent, MonthsRemaining(end, m))
           IN  /\ quote \in Nat
               /\ quote > 0 => quote = (IF end - m < 3 THEN end - m ELSE 3) * rent
<1>1. MonthsRemaining(end, m) \in Nat
      /\ (MonthsRemaining(end, m) > 0 => MonthsRemaining(end, m) = end - m)
  BY DEF MonthsRemaining
<1> QED
  BY <1>1 DEF QuoteIndemnity

LEMMA LifeInitInv == LifecycleAssumption /\ LifeInit => LifeInv
<1> SUFFICES ASSUME LifecycleAssumption, LifeInit
             PROVE  LifeInv
  OBVIOUS
<1>1. row \in Row /\ row.status = "ACTIVE" /\ row.rent > 0
  <2>1. row \in [status : {"ACTIVE"}, end : Months, rent : Rents]
    BY DEF LifeInit
  <2>2. row.status = "ACTIVE" /\ row.end \in Months /\ row.rent \in Rents
    BY <2>1
  <2>3. row.end \in Nat /\ row.rent \in Nat /\ row.rent > 0
    <3>1. Months \subseteq Nat /\ \A rent \in Rents : rent \in Nat /\ rent # 0
      BY DEF LifecycleAssumption
    <3>2. row.end \in Nat /\ row.rent \in Nat /\ row.rent # 0
      BY <2>2, <3>1
    <3> QED
      BY <3>2
  <2>4. row = [status |-> row.status, end |-> row.end, rent |-> row.rent]
    BY <2>1
  <2> QED
    BY <2>2, <2>3, <2>4 DEF Row
<1>2. LifeTypeOK
  BY <1>1 DEF LifeInit, LifeTypeOK, Termination, Job, NoJob
<1>3. \A r \in Requests : pc[r] = "idle"
  BY DEF LifeInit
<1>4. JobsFit /\ PostedFirst
  BY <1>3 DEF LifeInit, JobsFit, PostedFirst
<1>6. NoOverlap
  BY <1>3 DEF NoOverlap, InFlight, Writing
<1>5. OneTermination /\ IndemnityIsTheQuote /\ TerminationOnFile
  BY <1>1, <1>3 DEF LifeInit, OneTermination, IndemnityIsTheQuote, TerminationOnFile
<1> QED
  BY <1>1, <1>2, <1>4, <1>5, <1>6 DEF LifeInv

\* A handler that goes on starts from what is on file now.
LEMMA LoadedInv ==
    ASSUME LifeInv, NEW r \in Requests, NEW accepted \in BOOLEAN, NEW step \in Writing, NEW j \in Job,
           Loaded(r, accepted, step, j),
           accepted =>
              /\ step # "marking" /\ ~j.charged
              /\ step # "billing" => row.status # "TERMINATED"
              /\ step \in {"charging", "saving", "billing"} => j.month \in Months
              /\ step \in {"charging", "increasing"} => j.amount > 0
              /\ step = "charging" => j.amount = Quoted(j.month)
              /\ step = "renewing" => j.end > row.end
              /\ step = "increasing" => \E rate \in Indexes \cup Caps : j.amount = Increased(row.rent, rate)
    PROVE  LifeInv'
<1>1. /\ pc[r] = "idle" /\ UNCHANGED <<row, termination, fine, rentCharge, interrupted>>
      /\ pc'[r] = (IF accepted THEN step ELSE "rejected") /\ job'[r] = (IF accepted THEN j ELSE NoJob)
      /\ \A q \in Requests \ {r} : pc'[q] = pc[q] /\ job'[q] = job[q]
      /\ raced' = (raced \/ (accepted /\ \E q \in Requests : InFlight(q)))
  BY DEF Loaded, tables, LifeInv, LifeTypeOK
<1>2. LifeTypeOK'
  <2>1. NoJob \in Job
    BY DEF NoJob, Job
  <2>2. pc' \in [Requests -> PCs] /\ job' \in [Requests -> Job]
    BY <2>1 DEF Loaded, LifeInv, LifeTypeOK, PCs
  <2>3. raced' \in BOOLEAN
    BY <1>1 DEF LifeInv, LifeTypeOK
  <2> QED
    BY <1>1, <2>2, <2>3 DEF LifeInv, LifeTypeOK, PCs
<1>3. JobsFit' /\ PostedFirst' /\ TerminationOnFile'
  BY <1>1 DEF LifeInv, JobsFit, PostedFirst, TerminationOnFile
<1>4. row.status \in {"ACTIVE", "TERMINATED"}
  BY DEF LifeInv, LifeTypeOK, Row
<1>5. ~raced' => NoOverlap'
  <2> SUFFICES ASSUME ~raced'
               PROVE  NoOverlap'
    OBVIOUS
  <2>1. ~raced /\ (accepted => \A q \in Requests : ~InFlight(q))
    BY <1>1 DEF LifeInv, LifeTypeOK
  <2>2. \A q, p \in Requests : InFlight(q)' /\ InFlight(p)' => q = p
    BY <1>1, <2>1 DEF LifeInv, NoOverlap, InFlight, Writing
  <2>3. ASSUME NEW q \in Requests
        PROVE  /\ InFlight(q)' /\ pc'[q] # "billing" => row.status = "ACTIVE"
               /\ pc'[q] = "renewing" => job'[q].end > row.end
               /\ pc'[q] = "increasing" => \E rate \in Indexes \cup Caps : job'[q].amount = Increased(row.rent, rate)
    <3>1. CASE q = r
      BY <1>1, <1>4, <3>1 DEF InFlight, Writing
    <3>2. CASE q # r
      BY <1>1, <2>1, <3>2 DEF LifeInv, NoOverlap, InFlight
    <3> QED
      BY <3>1, <3>2
  <2> QED
    BY <1>1, <2>2, <2>3 DEF NoOverlap
<1>6. ~raced' /\ ~interrupted' => OneTermination' /\ IndemnityIsTheQuote'
  <2> SUFFICES ASSUME ~raced', ~interrupted
               PROVE  OneTermination' /\ IndemnityIsTheQuote'
    BY <1>1
  <2>1. ~raced /\ OneTermination /\ IndemnityIsTheQuote /\ (accepted => \A q \in Requests : ~InFlight(q))
    BY <1>1 DEF LifeInv, LifeTypeOK
  <2>2. IndemnityIsTheQuote'
    BY <1>1, <2>1, IndemnityIsTheQuote DEF IndemnityIsTheQuote
  <2>3. accepted /\ step # "billing" => \A m \in Months : fine[m] = 0
    BY <1>4, <2>1 DEF OneTermination, InFlight, Writing
  <2>4. (\A q \in Requests : pc'[q] \notin {"saving", "marking"})
          => \A q \in Requests : pc[q] \notin {"saving", "marking"}
    BY <1>1
  <2>5. row'.status = "ACTIVE" /\ (\A q \in Requests : pc'[q] \notin {"saving", "marking"}) =>
          \A m \in Months : fine'[m] = 0
    BY <1>1, <2>1, <2>4 DEF OneTermination
  <2>6. ASSUME NEW q \in Requests
        PROVE  /\ pc'[q] = "charging" => ~job'[q].charged /\ job'[q].amount = Quoted(job'[q].month)
               /\ pc'[q] = "saving" =>
                     \A m \in Months : fine[m] = IF job'[q].charged /\ m = job'[q].month THEN Quoted(m) ELSE 0
               /\ pc'[q] = "marking" =>
                     \A m \in Months : fine[m] = IF termination.charged /\ m = termination.month THEN Quoted(m) ELSE 0
    <3>1. CASE q = r
      BY <1>1, <2>3, <3>1
    <3>2. CASE q # r
      BY <1>1, <2>1, <3>2 DEF OneTermination
    <3> QED
      BY <3>1, <3>2
  <2>7. \A m : Quoted(m)' = Quoted(m)
    BY <1>1 DEF Quoted
  <2> QED
    BY <1>1, <2>2, <2>5, <2>6, <2>7 DEF OneTermination
<1> QED
  BY <1>1, <1>2, <1>3, <1>5, <1>6 DEF LifeInv

\* A step that writes no table: the audit event, a stop.
LEMMA QuietInv ==
    ASSUME LifeInv, NEW r \in Requests, Audit(r) \/ Abort(r)
    PROVE  LifeInv'
<1>1. /\ UNCHANGED <<row, termination, fine, rentCharge, raced>>
      /\ pc'[r] \in {"done", "failed"}
      /\ \A q \in Requests \ {r} : pc'[q] = pc[q] /\ job'[q] = job[q]
      /\ InFlight(r) => interrupted'
      /\ interrupted => interrupted'
      /\ interrupted' \in BOOLEAN
  BY DEF Audit, Abort, Goto, tables, LifeInv, LifeTypeOK, InFlight, Writing
<1>2. LifeTypeOK'
  <2>1. NoJob \in Job
    BY DEF NoJob, Job
  <2>2. pc' \in [Requests -> PCs] /\ job' \in [Requests -> Job]
    BY <2>1 DEF Audit, Abort, Goto, LifeInv, LifeTypeOK, PCs
  <2> QED
    BY <1>1, <2>2 DEF LifeInv, LifeTypeOK, PCs
<1>3. JobsFit' /\ PostedFirst' /\ TerminationOnFile'
  BY <1>1 DEF LifeInv, JobsFit, PostedFirst, TerminationOnFile
<1>4. ~raced => NoOverlap'
  BY <1>1 DEF LifeInv, NoOverlap, InFlight, Writing
<1>5. ~raced /\ ~interrupted' => OneTermination' /\ IndemnityIsTheQuote'
  <2> SUFFICES ASSUME ~raced, ~interrupted'
               PROVE  OneTermination' /\ IndemnityIsTheQuote'
    OBVIOUS
  <2>1. ~interrupted /\ pc[r] \notin {"saving", "marking"}
    BY <1>1 DEF InFlight, Writing
  <2>2. OneTermination /\ IndemnityIsTheQuote
    BY <2>1 DEF LifeInv
  <2> QED
    BY <1>1, <2>1, <2>2 DEF OneTermination, IndemnityIsTheQuote, Quoted
<1> QED
  BY <1>1, <1>2, <1>3, <1>4, <1>5 DEF LifeInv

\* The last write of a handler leaves it with nothing under way.
LEMMA LastWriteFrame ==
    ASSUME LifeInv, NEW r \in Requests, NEW from \in Writing, LastWrite(r, from)
    PROVE  /\ pc[r] = from /\ pc'[r] = "auditing" /\ InFlight(r)
           /\ \A q \in Requests \ {r} : pc'[q] = pc[q] /\ job'[q] = job[q]
           /\ pc' \in [Requests -> PCs] /\ job' \in [Requests -> Job]
           /\ \A q \in Requests : InFlight(q)' => InFlight(q) /\ q # r
           /\ ~raced => \A q \in Requests : ~InFlight(q)'
<1>1. NoJob \in Job
  BY DEF NoJob, Job
<1>2. /\ pc[r] = from /\ pc' = [pc EXCEPT ![r] = "auditing"] /\ job' = [job EXCEPT ![r] = NoJob]
  BY DEF LastWrite, Goto
<1>3. /\ pc'[r] = "auditing" /\ InFlight(r)
      /\ \A q \in Requests \ {r} : pc'[q] = pc[q] /\ job'[q] = job[q]
  BY <1>2 DEF LifeInv, LifeTypeOK, InFlight
<1>4. pc' \in [Requests -> PCs] /\ job' \in [Requests -> Job]
  BY <1>1, <1>2 DEF LifeInv, LifeTypeOK, PCs
<1>5. \A q \in Requests : InFlight(q)' => InFlight(q) /\ q # r
  BY <1>3 DEF InFlight, Writing
<1>6. ~raced => \A q \in Requests : ~InFlight(q)'
  BY <1>3, <1>5 DEF LifeInv, NoOverlap
<1> QED
  BY <1>2, <1>3, <1>4, <1>5, <1>6

\* A renewal and an increase change the terms; without overlap no termination
\* is under way and none was saved.
LEMMA TermsInv ==
    ASSUME LifecycleAssumption, LifeInv, NEW r \in Requests, WriteRenewal(r) \/ WriteIncrease(r)
    PROVE  LifeInv'
<1> DEFINE from == IF WriteRenewal(r) THEN "renewing" ELSE "increasing"
<1>1. from \in {"renewing", "increasing"} /\ from \in Writing /\ LastWrite(r, from)
      /\ UNCHANGED <<termination, fine, rentCharge, raced, interrupted>>
  BY DEF WriteRenewal, WriteIncrease, Writing
<1> HIDE DEF from
<1>2. /\ pc[r] = from /\ pc'[r] = "auditing" /\ InFlight(r)
      /\ \A q \in Requests \ {r} : pc'[q] = pc[q] /\ job'[q] = job[q]
      /\ pc' \in [Requests -> PCs] /\ job' \in [Requests -> Job]
      /\ \A q \in Requests : InFlight(q)' => InFlight(q) /\ q # r
      /\ ~raced => \A q \in Requests : ~InFlight(q)'
  BY <1>1, LastWriteFrame
<1>3. row' \in Row /\ row'.rent > 0
  <2>1. row \in Row /\ job[r] \in Job /\ row.rent > 0
    BY DEF LifeInv, LifeTypeOK
  <2>2. CASE WriteRenewal(r)
    <3>1. /\ row'.status = "ACTIVE" /\ row'.end = job[r].end
          /\ row' \in [status : {row'.status}, end : {row'.end}, rent : {row'.rent}]
          /\ row'.rent = row.rent \/ (row'.rent = job[r].amount /\ job[r].amount # 0)
      BY <2>2 DEF WriteRenewal
    <3> QED
      BY <2>1, <3>1 DEF Row, Job
  <2>3. CASE WriteIncrease(r)
    <3>1. row' = [row EXCEPT !.rent = job[r].amount] /\ job[r].amount > 0
      BY <2>3 DEF WriteIncrease, LastWrite, Goto, LifeInv, JobsFit
    <3> QED
      BY <2>1, <3>1 DEF Row, Job
  <2> QED
    BY <2>2, <2>3
<1>4. LifeTypeOK'
  BY <1>1, <1>2, <1>3 DEF LifeInv, LifeTypeOK, PCs
<1>5. row'.status \in {"ACTIVE", row.status}
  BY DEF WriteRenewal, WriteIncrease, LifeInv, LifeTypeOK, Row
<1>6. JobsFit' /\ PostedFirst' /\ TerminationOnFile'
  BY <1>1, <1>2, <1>5 DEF LifeInv, JobsFit, PostedFirst, TerminationOnFile
<1>7. ~raced => NoOverlap'
  BY <1>2 DEF NoOverlap, InFlight, Writing
<1>8. ~raced /\ ~interrupted => OneTermination' /\ IndemnityIsTheQuote'
  <2> SUFFICES ASSUME ~raced, ~interrupted
               PROVE  OneTermination' /\ IndemnityIsTheQuote'
    OBVIOUS
  <2>1. row.status = "ACTIVE" /\ \A q \in Requests : InFlight(q) => q = r
    BY <1>1, <1>2 DEF LifeInv, NoOverlap
  <2>2. \A q \in Requests : pc[q] \notin {"saving", "marking"}
    BY <1>1, <1>2, <2>1 DEF InFlight, Writing
  <2>3. \A m \in Months : fine[m] = 0
    BY <2>1, <2>2 DEF LifeInv, OneTermination
  <2>4. row'.status = "ACTIVE" /\ \A q \in Requests : pc'[q] \notin {"charging", "saving", "marking"}
    BY <1>2, <1>5, <2>1 DEF InFlight, Writing
  <2> QED
    BY <1>1, <2>3, <2>4 DEF OneTermination, IndemnityIsTheQuote
<1> QED
  BY <1>1, <1>3, <1>4, <1>6, <1>7, <1>8 DEF LifeInv

LEMMA CreateRentInv ==
    ASSUME LifeInv, NEW r \in Requests, CreateRent(r)
    PROVE  LifeInv'
<1>1. /\ LastWrite(r, "billing") /\ "billing" \in Writing
      /\ UNCHANGED <<row, termination, fine, raced, interrupted>>
  BY DEF CreateRent, Writing
<1>2. /\ pc[r] = "billing" /\ pc'[r] = "auditing" /\ InFlight(r)
      /\ \A q \in Requests \ {r} : pc'[q] = pc[q] /\ job'[q] = job[q]
      /\ pc' \in [Requests -> PCs] /\ job' \in [Requests -> Job]
      /\ \A q \in Requests : InFlight(q)' => InFlight(q) /\ q # r
      /\ ~raced => \A q \in Requests : ~InFlight(q)'
  BY <1>1, LastWriteFrame
<1>3. LifeTypeOK'
  <2>1. rentCharge' \in [Months -> Nat]
    BY DEF CreateRent, LifeInv, LifeTypeOK, Job
  <2> QED
    BY <1>1, <1>2, <2>1 DEF LifeInv, LifeTypeOK, PCs
<1>4. JobsFit' /\ PostedFirst' /\ TerminationOnFile'
  BY <1>1, <1>2 DEF LifeInv, JobsFit, PostedFirst, TerminationOnFile
<1>5. ~raced => NoOverlap'
  BY <1>2 DEF NoOverlap, InFlight, Writing
<1>6. ~raced /\ ~interrupted => OneTermination' /\ IndemnityIsTheQuote'
  BY <1>1, <1>2 DEF LifeInv, OneTermination, IndemnityIsTheQuote, Quoted
<1> QED
  BY <1>1, <1>3, <1>4, <1>5, <1>6 DEF LifeInv

\* The three writes of a termination.
LEMMA CreateIndemnityInv ==
    ASSUME LifeInv, NEW r \in Requests, CreateIndemnity(r)
    PROVE  LifeInv'
<1> DEFINE m == job[r].month
           a == job[r].amount
<1>1. /\ pc[r] = "charging" /\ InFlight(r) /\ m \in Months /\ a \in Nat /\ a > 0
      /\ UNCHANGED <<row, termination, rentCharge, raced, interrupted>>
      /\ pc'[r] = "saving" /\ job'[r].month = m /\ job'[r].charged
      /\ \A q \in Requests \ {r} : pc'[q] = pc[q] /\ job'[q] = job[q]
  BY DEF CreateIndemnity, Goto, InFlight, Writing, LifeInv, JobsFit, LifeTypeOK, Job
<1>2. /\ fine'[m] = (IF fine[m] = 0 THEN a ELSE fine[m]) /\ fine' \in [Months -> Nat]
      /\ \A n \in Months \ {m} : fine'[n] = fine[n]
  BY <1>1 DEF CreateIndemnity, LifeInv, LifeTypeOK
<1>3. \A n \in Months : fine[n] \in Nat /\ fine'[n] \in Nat /\ (fine[n] > 0 => fine'[n] > 0)
  BY <1>1, <1>2 DEF LifeInv, LifeTypeOK
<1>4. LifeTypeOK'
  <2>1. pc' \in [Requests -> PCs] /\ job' \in [Requests -> Job]
    BY DEF CreateIndemnity, Goto, LifeInv, LifeTypeOK, PCs, Writing, Job
  <2> QED
    BY <1>1, <1>2, <2>1 DEF LifeInv, LifeTypeOK, PCs
<1>5. JobsFit' /\ TerminationOnFile'
  BY <1>1 DEF LifeInv, JobsFit, TerminationOnFile
<1>6. PostedFirst'
  <2>1. fine'[m] > 0
    BY <1>1, <1>2, <1>3
  <2>2. \A q \in Requests : pc[q] = "saving" => job[q].month \in Months
    BY DEF LifeInv, JobsFit
  <2> QED
    BY <1>1, <1>3, <2>1, <2>2 DEF LifeInv, PostedFirst
<1>7. ~raced => NoOverlap'
  BY <1>1 DEF LifeInv, NoOverlap, InFlight, Writing
<1>8. ~raced /\ ~interrupted => OneTermination' /\ IndemnityIsTheQuote'
  <2> SUFFICES ASSUME ~raced, ~interrupted
               PROVE  OneTermination' /\ IndemnityIsTheQuote'
    OBVIOUS
  <2>1. row.status = "ACTIVE" /\ \A q \in Requests : InFlight(q) => q = r
    BY <1>1 DEF LifeInv, NoOverlap
  <2>2. \A q \in Requests : pc[q] \notin {"saving", "marking"} /\ (q # r => pc[q] # "charging")
    BY <1>1, <2>1 DEF InFlight, Writing
  <2>3. (\A n \in Months : fine[n] = 0) /\ a = Quoted(m)
    BY <1>1, <2>1, <2>2 DEF LifeInv, OneTermination
  <2>4. \A n \in Months : fine'[n] = IF n = m THEN Quoted(n) ELSE 0
    BY <1>2, <2>3
  <2>5. \A n : Quoted(n)' = Quoted(n)
    BY <1>1 DEF Quoted
  <2>6. \A q \in Requests : pc'[q] \notin {"charging", "marking"} /\ (pc'[q] = "saving" => q = r)
    BY <1>1, <2>2
  <2> QED
    BY <1>1, <2>1, <2>4, <2>5, <2>6 DEF OneTermination, IndemnityIsTheQuote
<1> QED
  BY <1>1, <1>4, <1>5, <1>6, <1>7, <1>8 DEF LifeInv

LEMMA SaveTerminationInv ==
    ASSUME LifeInv, NEW r \in Requests, SaveTermination(r)
    PROVE  LifeInv'
<1>1. /\ pc[r] = "saving" /\ InFlight(r) /\ job[r] \in Job /\ job[r].month \in Months
      /\ UNCHANGED <<row, fine, rentCharge, job, raced, interrupted>>
      /\ pc'[r] = "marking" /\ \A q \in Requests \ {r} : pc'[q] = pc[q]
      /\ termination' = [saved |-> TRUE, month |-> job[r].month, charged |-> job[r].charged]
  BY DEF SaveTermination, Goto, InFlight, Writing, LifeInv, JobsFit, LifeTypeOK
<1>2. LifeTypeOK'
  <2>1. pc' \in [Requests -> PCs]
    BY DEF SaveTermination, Goto, LifeInv, LifeTypeOK, PCs, Writing
  <2>2. termination' \in Termination
    BY <1>1 DEF Termination, Job
  <2> QED
    BY <1>1, <2>1, <2>2 DEF LifeInv, LifeTypeOK, PCs
<1>3. JobsFit' /\ TerminationOnFile' /\ PostedFirst'
  BY <1>1 DEF LifeInv, JobsFit, TerminationOnFile, PostedFirst
<1>4. ~raced => NoOverlap'
  BY <1>1 DEF LifeInv, NoOverlap, InFlight, Writing
<1>5. ~raced /\ ~interrupted => OneTermination' /\ IndemnityIsTheQuote'
  <2> SUFFICES ASSUME ~raced, ~interrupted
               PROVE  OneTermination' /\ IndemnityIsTheQuote'
    OBVIOUS
  <2>1. row.status = "ACTIVE" /\ \A q \in Requests : InFlight(q) => q = r
    BY <1>1 DEF LifeInv, NoOverlap
  <2>2. \A q \in Requests \ {r} : pc'[q] \notin Writing
    BY <1>1, <2>1 DEF InFlight
  <2>3. \A n \in Months : fine[n] = IF job[r].charged /\ n = job[r].month THEN Quoted(n) ELSE 0
    BY <1>1 DEF LifeInv, OneTermination
  <2>4. \A n : Quoted(n)' = Quoted(n)
    BY <1>1 DEF Quoted
  <2> QED
    BY <1>1, <2>1, <2>2, <2>3, <2>4 DEF OneTermination, IndemnityIsTheQuote, Writing
<1> QED
  BY <1>1, <1>2, <1>3, <1>4, <1>5 DEF LifeInv

LEMMA MarkTerminatedInv ==
    ASSUME LifeInv, NEW r \in Requests, MarkTerminated(r)
    PROVE  LifeInv'
<1>1. /\ LastWrite(r, "marking") /\ "marking" \in Writing
      /\ UNCHANGED <<termination, fine, rentCharge, raced, interrupted>>
      /\ row' = [row EXCEPT !.status = "TERMINATED"]
  BY DEF MarkTerminated, Writing
<1>2. /\ pc[r] = "marking" /\ pc'[r] = "auditing" /\ InFlight(r)
      /\ \A q \in Requests \ {r} : pc'[q] = pc[q] /\ job'[q] = job[q]
      /\ pc' \in [Requests -> PCs] /\ job' \in [Requests -> Job]
      /\ \A q \in Requests : InFlight(q)' => InFlight(q) /\ q # r
      /\ ~raced => \A q \in Requests : ~InFlight(q)'
  BY <1>1, LastWriteFrame
<1>3. row' \in Row /\ row'.status = "TERMINATED" /\ row'.end = row.end /\ row'.rent = row.rent
  BY <1>1 DEF LifeInv, LifeTypeOK, Row
<1>4. LifeTypeOK'
  BY <1>1, <1>2, <1>3 DEF LifeInv, LifeTypeOK, PCs
<1>5. JobsFit' /\ PostedFirst' /\ TerminationOnFile'
  BY <1>1, <1>2 DEF LifeInv, JobsFit, PostedFirst, TerminationOnFile
<1>6. ~raced => NoOverlap'
  BY <1>2 DEF NoOverlap, InFlight, Writing
<1>7. ~raced /\ ~interrupted => OneTermination' /\ IndemnityIsTheQuote'
  <2> SUFFICES ASSUME ~raced, ~interrupted
               PROVE  OneTermination' /\ IndemnityIsTheQuote'
    OBVIOUS
  <2>1. \A n \in Months : fine[n] = IF termination.charged /\ n = termination.month THEN Quoted(n) ELSE 0
    BY <1>2 DEF LifeInv, OneTermination
  <2>2. IndemnityIsTheQuote'
    BY <1>1, <1>3, <2>1 DEF IndemnityIsTheQuote, Quoted
  <2>3. OneTermination'
    BY <1>2, <1>3 DEF OneTermination, InFlight, Writing
  <2> QED
    BY <2>2, <2>3
<1> QED
  BY <1>1, <1>3, <1>4, <1>5, <1>6, <1>7 DEF LifeInv

LEMMA LifeStepInv == LifecycleAssumption /\ LifeInv /\ [LifeNext]_lifeVars => LifeInv'
<1> SUFFICES ASSUME LifecycleAssumption, LifeInv, [LifeNext]_lifeVars
             PROVE  LifeInv'
  OBVIOUS
<1>0. /\ row.rent \in Nat /\ row.rent > 0 /\ row.end \in Nat /\ Months \subseteq Nat
      /\ Rents \subseteq Nat
  BY DEF LifeInv, LifeTypeOK, Row, LifecycleAssumption
<1>1. ASSUME NEW r \in Requests, NEW m \in Months, NEW rent \in Rents \cup {0}, LoadRenewal(r, m, rent)
      PROVE  LifeInv'
  <2> DEFINE go == row.status # "TERMINATED" /\ m > row.end
             j == [NoJob EXCEPT !.end = m, !.amount = rent]
  <2>1. go \in BOOLEAN /\ j \in Job /\ ~j.charged /\ j.end = m /\ "renewing" \in Writing
    <3>1. m \in Nat /\ rent \in Nat
      BY <1>0
    <3>2. [NoJob EXCEPT !.end = m] \in Job /\ ~[NoJob EXCEPT !.end = m].charged
          /\ [NoJob EXCEPT !.end = m].end = m
      BY <3>1 DEF Job, NoJob
    <3>5. j = [[NoJob EXCEPT !.end = m] EXCEPT !.amount = rent]
      OBVIOUS
    <3>3. go \in BOOLEAN
      OBVIOUS
    <3> HIDE DEF go, j
    <3>4. j \in Job /\ ~j.charged /\ j.end = m
      BY <3>1, <3>2, <3>5 DEF Job
    <3> QED
      BY <3>3, <3>4 DEF Writing
  <2>2. Loaded(r, go, "renewing", j)
    BY <1>1 DEF LoadRenewal
  <2>3. go => row.status # "TERMINATED" /\ m > row.end
    OBVIOUS
  <2> HIDE DEF go, j
  <2> QED
    BY <2>1, <2>2, <2>3, LoadedInv
<1>2. ASSUME NEW r \in Requests, NEW m \in Months, NEW generic \in BOOLEAN, LoadTermination(r, m, generic)
      PROVE  LifeInv'
  <2> DEFINE quote == QuoteIndemnity(generic, row.rent, MonthsRemaining(row.end, m))
             go == row.status # "TERMINATED"
             j == [NoJob EXCEPT !.month = m, !.amount = quote]
             step == IF quote > 0 THEN "charging" ELSE "saving"
  <2>1. m \in Nat /\ quote \in Nat /\ (quote > 0 => quote = Quoted(m))
    BY <1>0, QuoteType DEF Quoted
  <2>2. Loaded(r, go, step, j)
    BY <1>2 DEF LoadTermination
  <2> HIDE DEF quote
  <2>3. j \in Job /\ ~j.charged /\ j.month = m /\ j.amount = quote
    BY <2>1 DEF Job, NoJob
  <2>4. go \in BOOLEAN /\ (go => row.status # "TERMINATED")
    OBVIOUS
  <2>5. step \in Writing /\ step \in {"charging", "saving"} /\ (step = "charging" => quote > 0)
    BY DEF Writing
  <2> HIDE DEF go, j, step
  <2> QED
    BY <2>1, <2>2, <2>3, <2>4, <2>5, LoadedInv
<1>3. ASSUME NEW r \in Requests, NEW m \in Months, LoadBilling(r, m)
      PROVE  LifeInv'
  <2> DEFINE go == rentCharge[m] = 0
             j == [NoJob EXCEPT !.month = m, !.amount = row.rent]
  <2>1. go \in BOOLEAN /\ j \in Job /\ ~j.charged /\ j.month = m /\ "billing" \in Writing
    BY <1>0 DEF Job, NoJob, Writing
  <2>2. Loaded(r, go, "billing", j)
    BY <1>3 DEF LoadBilling
  <2> HIDE DEF go, j
  <2> QED
    BY <2>1, <2>2, LoadedInv
<1>4. ASSUME NEW r \in Requests, NEW index \in Indexes, NEW cap \in Caps, LoadIncrease(r, index, cap)
      PROVE  LifeInv'
  <2> DEFINE rate == IF cap < index THEN cap ELSE index
             go == row.status # "TERMINATED"
             j == [NoJob EXCEPT !.amount = Increased(row.rent, rate)]
  <2>1. rate \in Indexes \cup Caps
    OBVIOUS
  <2>2. Loaded(r, go, "increasing", j)
    BY <1>4 DEF LoadIncrease
  <2> HIDE DEF rate
  <2>3. Increased(row.rent, rate) \in Nat /\ Increased(row.rent, rate) > 0
    BY <1>0, <2>1, IncreasedType
  <2>4. j \in Job /\ ~j.charged /\ j.amount = Increased(row.rent, rate) /\ "increasing" \in Writing
    BY <2>3 DEF Job, NoJob, Writing
  <2>5. go \in BOOLEAN /\ (go => row.status # "TERMINATED")
    OBVIOUS
  <2> HIDE DEF go, j
  <2> QED
    BY <2>1, <2>2, <2>3, <2>4, <2>5, LoadedInv
<1>5. ASSUME NEW r \in Requests, WriteRenewal(r) \/ WriteIncrease(r)
      PROVE  LifeInv'
  BY <1>5, TermsInv
<1>6. ASSUME NEW r \in Requests,
             CreateRent(r) \/ CreateIndemnity(r) \/ SaveTermination(r) \/ MarkTerminated(r)
      PROVE  LifeInv'
  BY <1>6, CreateRentInv, CreateIndemnityInv, SaveTerminationInv, MarkTerminatedInv
<1>7. ASSUME NEW r \in Requests, Audit(r) \/ Abort(r)
      PROVE  LifeInv'
  BY <1>7, QuietInv
<1>8. CASE UNCHANGED lifeVars
  BY <1>8 DEF lifeVars, tables, LifeInv, LifeTypeOK, JobsFit, PostedFirst, TerminationOnFile, NoOverlap, InFlight,
              OneTermination, IndemnityIsTheQuote, Quoted
<1> QED
  BY <1>1, <1>2, <1>3, <1>4, <1>5, <1>6, <1>7, <1>8 DEF LifeNext

LEMMA LifeInvariance == ASSUME LifecycleAssumption PROVE LifeSpec => []LifeInv
<1>1. LifeInit => LifeInv
  BY LifeInitInv
<1>2. LifeInv /\ [LifeNext]_lifeVars => LifeInv'
  BY LifeStepInv
<1> QED
  BY <1>1, <1>2, PTL DEF LifeSpec

\* Every state of the contract and of its requests is well typed: terms that ended
\* before the termination, and indexes that lower a rent, make no amount negative.
THEOREM LifeTypeCorrect ==
    ASSUME LifecycleAssumption
    PROVE  LifeSpec => []LifeTypeOK
<1>1. LifeInv => LifeTypeOK
  BY DEF LifeInv
<1> QED
  BY <1>1, LifeInvariance, PTL

\* A terminated contract has its termination on file, a termination that names
\* an indemnity has it charged, and without overlap or a stop half-way it is the
\* one its terms call for.
THEOREM IndemnityIsDueAlways ==
    ASSUME LifecycleAssumption
    PROVE  LifeSpec => []IndemnityIsDue
<1>1. LifeInv => IndemnityOnFile
  <2> SUFFICES ASSUME LifeInv, termination.charged
               PROVE  fine[termination.month] > 0
    BY DEF IndemnityOnFile
  <2> QED
    BY DEF LifeInv, PostedFirst
<1>2. LifeInv => TerminationOnFile /\ IndemnityIsTheQuote
  <2> SUFFICES ASSUME LifeInv
               PROVE  TerminationOnFile /\ IndemnityIsTheQuote
    OBVIOUS
  <2>1. ~raced /\ ~interrupted => IndemnityIsTheQuote
    BY DEF LifeInv
  <2>2. raced \/ interrupted => IndemnityIsTheQuote
    BY DEF IndemnityIsTheQuote
  <2> QED
    BY <2>1, <2>2 DEF LifeInv
<1>3. LifeInv => IndemnityIsDue
  BY <1>1, <1>2 DEF IndemnityIsDue
<1> QED
  BY <1>3, LifeInvariance, PTL

\* Until two handlers overlap nothing changes a terminated contract, and an
\* increase starts from the rent that is on file when it is written.
THEOREM ChangesFollowTheRowAlways ==
    ASSUME LifecycleAssumption
    PROVE  LifeSpec => ChangesFollowTheRow
<1> DEFINE Final == ~raced /\ row.status = "TERMINATED" => UNCHANGED <<row, termination, fine>>
           Raised == ~raced /\ row'.rent # row.rent /\ row'.end = row.end =>
                        \E rate \in Indexes \cup Caps :
                            LET exact == row.rent * (100 + rate)
                            IN  100 * row'.rent - exact \in -50..50
<1>1. LifeInv /\ [LifeNext]_lifeVars => Final
  <2> SUFFICES ASSUME LifeInv, [LifeNext]_lifeVars, ~raced, row.status = "TERMINATED"
               PROVE  UNCHANGED <<row, termination, fine>>
    OBVIOUS
  <2>1. \A r \in Requests : pc[r] \notin Writing \ {"billing"}
    BY DEF LifeInv, NoOverlap, InFlight
  <2>2. \A r \in Requests : ~ \/ WriteRenewal(r) \/ WriteIncrease(r) \/ CreateIndemnity(r)
                              \/ SaveTermination(r) \/ MarkTerminated(r)
    BY <2>1 DEF WriteRenewal, WriteIncrease, CreateIndemnity, SaveTermination, MarkTerminated,
                LastWrite, Goto, Writing
  <2> QED
    BY <2>2 DEF LifeNext, LoadRenewal, LoadTermination, LoadBilling, LoadIncrease, CreateRent, Audit, Abort,
                Loaded, tables, lifeVars
<1>2. LifeInv /\ [LifeNext]_lifeVars => Raised
  <2> SUFFICES ASSUME LifeInv, [LifeNext]_lifeVars, ~raced, row'.rent # row.rent, row'.end = row.end
               PROVE  \E rate \in Indexes \cup Caps :
                         100 * row'.rent - row.rent * (100 + rate) \in -50..50
    OBVIOUS
  <2>0. row \in Row
    BY DEF LifeInv, LifeTypeOK
  <2>1. ASSUME NEW r \in Requests, WriteRenewal(r)
        PROVE  FALSE
    <3>1. row'.end = job[r].end /\ job[r].end > row.end
      BY <2>1 DEF WriteRenewal, LastWrite, Goto, LifeInv, NoOverlap
    <3>2. row.end \in Nat /\ row.end > row.end
      BY <2>0, <3>1 DEF Row
    <3> QED
      BY <3>2
  <2>2. \E r \in Requests : WriteIncrease(r)
    <3>1. row' # row
      OBVIOUS
    <3>2. ASSUME NEW r \in Requests, MarkTerminated(r)
          PROVE  FALSE
      BY <2>0, <3>2 DEF MarkTerminated, Row
    <3> QED
      BY <2>1, <3>1, <3>2
         DEF LifeNext, LoadRenewal, LoadTermination, LoadBilling, LoadIncrease, CreateRent, CreateIndemnity,
             SaveTermination, Audit, Abort, Loaded, tables, lifeVars
  <2>3. PICK r \in Requests : WriteIncrease(r)
    BY <2>2
  <2>4. row'.rent = job[r].amount /\ pc[r] = "increasing"
    BY <2>0, <2>3 DEF WriteIncrease, LastWrite, Goto, Row
  <2>5. PICK rate \in Indexes \cup Caps : job[r].amount = Increased(row.rent, rate)
    BY <2>4 DEF LifeInv, NoOverlap
  <2> DEFINE k == row.rent * (100 + rate)
  <2>6. row'.rent = (k + 50) \div 100
    BY <2>4, <2>5 DEF Increased
  <2>7. k \in Int
    BY <2>0 DEF Row, LifecycleAssumption
  <2> HIDE DEF k
  <2>8. 100 * row'.rent - k \in -50..50
    BY <2>6, <2>7, Rounded
  <2> QED
    BY <2>8 DEF k
<1>3. LifeSpec => [][Final]_lifeVars
  BY <1>1, LifeInvariance, PTL DEF LifeSpec
<1>4. LifeSpec => [][Raised]_lifeVars
  BY <1>2, LifeInvariance, PTL DEF LifeSpec
<1>5. LifeSpec => TerminatedIsFinal
  BY <1>3 DEF TerminatedIsFinal
<1>6. LifeSpec => IncreaseFromRentOnFile
  BY <1>4 DEF IncreaseFromRentOnFile
<1> QED
  BY <1>5, <1>6 DEF ChangesFollowTheRow

-----------------------------------------------------------------------------
(***************************************************************************)
(* What Settlements guarantees for any number of owners, settlement and    *)
(* payout requests, any shares and any amounts.                            *)
(*                                                                         *)
(* The heart of it is splitByShares: that the floors and the units left    *)
(* over add up to the net, and that nobody is a whole unit off, rests on   *)
(* sums over all the owners (SumTheorems).  Around it, what a request has  *)
(* read stays true until it writes for a reason each time: payments only   *)
(* add up, and a property whose shares are all given away has none left    *)
(* for a request that adds an owner.                                       *)
(***************************************************************************)

Ints ==
    /\ share \in [Owners -> 0..Whole] /\ asked \in [Owners -> 0..Whole]
    /\ paid \in Nat /\ pct \in Commissions /\ peak \in Nat /\ payout \in Nat
    /\ overlapped \in BOOLEAN
    /\ opc \in [Owners -> {"idle", "accepted", "named", "owning", "over"}]
    /\ gpc \in [Settlers -> {"idle", "reading", "collected", "dividing", "settled", "over"}]
    /\ ppc \in [Payers -> {"idle", "found", "paid", "over"}]

\* What has been given away and what is about to be.
GivenAway ==
    /\ \A o \in Owners : opc[o] \in {"idle", "accepted", "named"} => share[o] = 0
    /\ \A o \in Owners : ~Adding(o) => asked[o] = 0
    /\ Cardinality({o \in Owners : Adding(o)}) <= peak
    /\ SumFunction(share) + SumFunction(asked) <= peak * Whole

Balanced(s) ==
    /\ s.collected \in Nat /\ s.collected <= paid
    /\ s.net \in Nat /\ s.net + s.commission = s.collected

Divided(s) ==
    /\ s.shares \in [Owners -> 0..Whole] /\ SumFunction(s.shares) = Whole
    /\ s.lines \in Splits(s.net, s.shares)
    /\ peak <= 1 => s.shares = share

Drafts ==
    /\ draft \in [Settlers -> Settlement]
    /\ \A g \in Settlers :
          /\ gpc[g] \in {"collected", "dividing"} => Balanced(draft[g])
          /\ gpc[g] = "dividing" => Divided(draft[g])

Settled == settlement.made => Balanced(settlement) /\ Divided(settlement)

Payouts ==
    ~overlapped =>
        /\ payout <= 1
        /\ \A p, q \in Payers : ppc[p] = "found" /\ ppc[q] = "found" => p = q
        /\ (\E q \in Payers : ppc[q] = "found") => payout = 0

SettlementInv == Ints /\ GivenAway /\ Drafts /\ Settled /\ Payouts

-----------------------------------------------------------------------------
(***************************************************************************)
(* splitByShares                                                           *)
(***************************************************************************)
LEMMA DivMod ==
    ASSUME NEW n \in Nat, NEW w \in Nat, w > 0
    PROVE  /\ n \div w \in Nat /\ n % w \in Nat /\ n % w < w
           /\ n = w * (n \div w) + (n % w)
OBVIOUS

LEMMA SumsOverOwners ==
    ASSUME NEW f, DOMAIN f = Owners
    PROVE  SumFunction(f) = SumOver(f, Owners)
BY DEF SumFunction, SumOver

\* What a part is made of, and how the parts of two owners compare.
LEMMA Parts ==
    ASSUME SettlementAssumption, NEW net \in Nat, NEW s \in 0..Whole
    PROVE  /\ net * s \in Nat /\ Floor(net, s) \in Nat /\ (net * s) % Whole \in 0..(Whole - 1)
           /\ net * s = Whole * Floor(net, s) + ((net * s) % Whole)
<1>1. Whole \in Nat /\ Whole > 0 /\ net * s \in Nat
  BY DEF SettlementAssumption
<1> DEFINE n == net * s
<1>2. n \in Nat
  BY <1>1
<1> HIDE DEF n
<1>3. /\ n \div Whole \in Nat /\ n % Whole \in Nat /\ n % Whole < Whole
      /\ n = Whole * (n \div Whole) + (n % Whole)
  BY <1>1, <1>2, DivMod
<1> QED
  BY <1>1, <1>3 DEF n, Floor

LEMMA SplitShape ==
    ASSUME SettlementAssumption, NEW net \in Nat, NEW shares \in [Owners -> 0..Whole],
           NEW lines \in Splits(net, shares)
    PROVE  LET floors == [o \in Owners |-> Floor(net, shares[o])]
           IN  \E E \in SUBSET Owners :
                  /\ Cardinality(E) = net - SumOver(floors, Owners)
                  /\ \A o \in E, p \in Owners \ E : ~Before(net, shares, p, o)
                  /\ lines = [o \in Owners |-> Floor(net, shares[o]) + (IF o \in E THEN 1 ELSE 0)]
<1> DEFINE floors == [o \in Owners |-> Floor(net, shares[o])]
<1>1. SumFunction(floors) = SumOver(floors, Owners)
  BY SumsOverOwners
<1> QED
  BY <1>1 DEF Splits

\* The lines add up to what is divided.
LEMMA SplitAddsUp ==
    ASSUME SettlementAssumption, NEW net \in Nat, NEW shares \in [Owners -> 0..Whole],
           NEW lines \in Splits(net, shares)
    PROVE  lines \in [Owners -> Nat] /\ SumFunction(lines) = net
<1> DEFINE floors == [o \in Owners |-> Floor(net, shares[o])]
<1>1. PICK E \in SUBSET Owners :
         /\ Cardinality(E) = net - SumOver(floors, Owners)
         /\ lines = [o \in Owners |-> Floor(net, shares[o]) + (IF o \in E THEN 1 ELSE 0)]
  BY SplitShape
<1> DEFINE units == [o \in Owners |-> IF o \in E THEN 1 ELSE 0]
<1>2. IsFiniteSet(Owners) /\ IsFiniteSet(E)
  BY FS_Subset DEF SettlementAssumption
<1>3. \A o \in Owners : Floor(net, shares[o]) \in Nat
  BY Parts
<1>4. /\ DOMAIN lines = Owners /\ lines \in [Owners -> Nat]
      /\ \A o \in Owners : lines[o] = floors[o] + units[o]
  BY <1>1, <1>3
<1>5. IntOn(floors, Owners) /\ IntOn(units, Owners)
  BY <1>3 DEF IntOn
<1>6. SumOver(units, Owners) = Cardinality(E)
  <2>1. (\A o \in Owners \ E : units[o] = 0) /\ (\A o \in E : units[o] = 1)
    OBVIOUS
  <2> HIDE DEF units
  <2>2. SumOver(units, Owners) = SumOver(units, E)
    BY <1>2, <1>5, <2>1, SumRestrict
  <2> QED
    BY <1>2, <2>1, <2>2, SumCounts
<1>7. SumFunction(lines) = SumOver(lines, Owners)
  BY <1>4, SumsOverOwners
<1> HIDE DEF floors, units
<1>8. SumOver(lines, Owners) = SumOver(floors, Owners) + SumOver(units, Owners)
  BY <1>2, <1>4, <1>5, SumPlus
<1>9. SumOver(floors, Owners) \in Int
  BY <1>2, <1>5, SumType
<1> QED
  BY <1>1, <1>4, <1>6, <1>7, <1>8, <1>9

\* As many units are left over as all the fractions together make.
LEMMA FractionsAddUp ==
    ASSUME SettlementAssumption, NEW net \in Nat, NEW shares \in [Owners -> 0..Whole],
           SumFunction(shares) = Whole
    PROVE  LET floors == [o \in Owners |-> Floor(net, shares[o])]
               fractions == [o \in Owners |-> (net * shares[o]) % Whole]
           IN  (net - SumOver(floors, Owners)) * Whole = SumOver(fractions, Owners)
<1> DEFINE floors == [o \in Owners |-> Floor(net, shares[o])]
           fractions == [o \in Owners |-> (net * shares[o]) % Whole]
           parts == [o \in Owners |-> net * shares[o]]
           wholes == [o \in Owners |-> Whole * floors[o]]
<1>1. IsFiniteSet(Owners) /\ Whole \in Nat
  BY DEF SettlementAssumption
<1>2. \A o \in Owners : /\ shares[o] \in Int /\ floors[o] \in Int /\ fractions[o] \in Int
                        /\ net * shares[o] = Whole * floors[o] + fractions[o]
  <2> SUFFICES ASSUME NEW o \in Owners
               PROVE  /\ shares[o] \in Int /\ floors[o] \in Int /\ fractions[o] \in Int
                      /\ net * shares[o] = Whole * floors[o] + fractions[o]
    OBVIOUS
  <2>1. shares[o] \in 0..Whole /\ shares[o] \in Int
    BY <1>1
  <2>2. floors[o] = Floor(net, shares[o]) /\ fractions[o] = (net * shares[o]) % Whole
    OBVIOUS
  <2>3. Floor(net, shares[o]) \in Nat /\ (net * shares[o]) % Whole \in Int
        /\ net * shares[o] = Whole * Floor(net, shares[o]) + ((net * shares[o]) % Whole)
    <3>1. \A x \in 0..(Whole - 1) : x \in Int
      BY <1>1
    <3> QED
      BY <2>1, <3>1, Parts
  <2> HIDE DEF floors, fractions
  <2> QED
    BY <2>1, <2>2, <2>3
<1>3. \A o \in Owners : parts[o] = net * shares[o] /\ wholes[o] = Whole * floors[o]
  OBVIOUS
<1>4. SumOver(shares, Owners) = Whole
  BY SumsOverOwners
<1> HIDE DEF floors, fractions, parts, wholes
<1>5. \A o \in Owners : wholes[o] \in Int
  BY <1>1, <1>2, <1>3
<1>6. IntOn(shares, Owners) /\ IntOn(floors, Owners) /\ IntOn(fractions, Owners) /\ IntOn(wholes, Owners)
  BY <1>2, <1>5 DEF IntOn
<1>7. SumOver(parts, Owners) = net * Whole
  <2>1. SumOver(parts, Owners) = net * SumOver(shares, Owners)
    BY <1>1, <1>3, <1>6, SumScale
  <2> QED
    BY <1>4, <2>1
<1>8. SumOver(wholes, Owners) = Whole * SumOver(floors, Owners)
  BY <1>1, <1>3, <1>6, SumScale
<1>9. SumOver(parts, Owners) = SumOver(wholes, Owners) + SumOver(fractions, Owners)
  <2>1. \A o \in Owners : parts[o] = wholes[o] + fractions[o]
    BY <1>2, <1>3
  <2> QED
    BY <1>1, <1>6, <2>1, SumPlus
<1>10. SumOver(floors, Owners) \in Int /\ SumOver(fractions, Owners) \in Int
  BY <1>1, <1>6, SumType
<1>11. \A a, b, c, w \in Int : a * w = w * b + c => (a - b) * w = c
  OBVIOUS
<1>12. (net - SumOver(floors, Owners)) * Whole = SumOver(fractions, Owners)
  BY <1>1, <1>7, <1>8, <1>9, <1>10, <1>11
<1> QED
  BY <1>12 DEF floors, fractions

\* A unit goes only to an owner who is due a fraction of one.
LEMMA UnitsGoToFractions ==
    ASSUME SettlementAssumption, NEW net \in Nat, NEW shares \in [Owners -> 0..Whole],
           SumFunction(shares) = Whole, NEW E \in SUBSET Owners,
           Cardinality(E) = net - SumOver([o \in Owners |-> Floor(net, shares[o])], Owners),
           \A o \in E, p \in Owners \ E : ~Before(net, shares, p, o),
           NEW e \in E
    PROVE  (net * shares[e]) % Whole > 0
<1> DEFINE fractions == [o \in Owners |-> (net * shares[o]) % Whole]
           R == E \ {e}
<1>1. \A o \in Owners : fractions[o] \in 0..(Whole - 1) /\ fractions[o] = (net * shares[o]) % Whole
  BY Parts
<1> SUFFICES ASSUME fractions[e] = 0
             PROVE  FALSE
  BY <1>1
<1>2. Whole \in Nat /\ Whole > 0 /\ IsFiniteSet(Owners) /\ IsFiniteSet(E) /\ IsFiniteSet(R)
  BY FS_Subset DEF SettlementAssumption
<1>3. Cardinality(E) * Whole = SumOver(fractions, Owners)
  BY FractionsAddUp
<1> HIDE DEF fractions
<1>4. \A p \in Owners \ R : fractions[p] = 0
  BY <1>1 DEF Before
<1>5. SumOver(fractions, Owners) = SumOver(fractions, R)
  <2>1. IntOn(fractions, Owners)
    BY <1>1, <1>2 DEF IntOn
  <2>2. R \subseteq Owners
    OBVIOUS
  <2> HIDE DEF R
  <2> QED
    BY <1>2, <1>4, <2>1, <2>2, SumRestrict
<1>6. SumOver(fractions, R) \in Nat /\ SumOver(fractions, R) <= Cardinality(R) * (Whole - 1)
  <2>1. \A p \in R : fractions[p] \in 0..(Whole - 1)
    BY <1>1
  <2>2. Whole - 1 \in Nat
    BY <1>2
  <2> HIDE DEF R
  <2> QED
    BY <1>2, <2>1, <2>2, SumBounds
<1>7. Cardinality(E) = Cardinality(R) + 1 /\ Cardinality(R) \in Nat
  <2>1. Cardinality(R) = Cardinality(E) - 1 /\ Cardinality(R) \in Nat /\ Cardinality(E) \in Nat
    BY <1>2, FS_RemoveElement, FS_CardinalityType
  <2> QED
    BY <2>1
<1>8. \A c, w \in Nat : w > 0 => c * (w - 1) < (c + 1) * w
  <2> SUFFICES ASSUME NEW c \in Nat, NEW w \in Nat, w > 0
               PROVE  c * (w - 1) < (c + 1) * w
    OBVIOUS
  <2>1. c * (w - 1) = c * w - c /\ (c + 1) * w = c * w + w /\ c * w \in Int
    OBVIOUS
  <2> QED
    BY <2>1
<1> QED
  BY <1>2, <1>3, <1>5, <1>6, <1>7, <1>8

\* Nobody is a whole unit off, and no one gets less than an owner of less.
LEMMA SplitIsFair ==
    ASSUME SettlementAssumption, NEW net \in Nat, NEW shares \in [Owners -> 0..Whole],
           SumFunction(shares) = Whole, NEW lines \in Splits(net, shares),
           NEW o \in Owners, NEW p \in Owners
    PROVE  /\ lines[o] * Whole - net * shares[o] \in (1 - Whole)..(Whole - 1)
           /\ shares[o] > shares[p] => lines[o] >= lines[p]
<1> DEFINE fraction(q) == (net * shares[q]) % Whole
           floor(q) == Floor(net, shares[q])
<1>1. PICK E \in SUBSET Owners :
         /\ Cardinality(E) = net - SumOver([q \in Owners |-> Floor(net, shares[q])], Owners)
         /\ \A q \in E, r \in Owners \ E : ~Before(net, shares, r, q)
         /\ lines = [q \in Owners |-> Floor(net, shares[q]) + (IF q \in E THEN 1 ELSE 0)]
  BY SplitShape
<1>2. Whole \in Nat /\ Whole > 0
  BY DEF SettlementAssumption
<1>3. \A q \in Owners : /\ floor(q) \in Nat /\ fraction(q) \in 0..(Whole - 1)
                        /\ net * shares[q] = Whole * floor(q) + fraction(q)
                        /\ net * shares[q] \in Nat
  BY Parts
<1>4. \A q \in E : fraction(q) > 0
  BY <1>1, UnitsGoToFractions
<1>5. \A q \in Owners : lines[q] = floor(q) + (IF q \in E THEN 1 ELSE 0)
  BY <1>1
<1>6. shares[o] > shares[p] => ~(p \in E /\ o \notin E /\ fraction(o) >= fraction(p))
  BY <1>1, <1>3 DEF Before
<1> HIDE DEF fraction, floor
<1>7. lines[o] * Whole - net * shares[o] \in (1 - Whole)..(Whole - 1)
  <2>1. floor(o) * Whole \in Int /\ floor(o) * Whole = Whole * floor(o)
        /\ (floor(o) + 1) * Whole = Whole * floor(o) + Whole
    BY <1>2, <1>3
  <2>2. CASE o \in E
    <3>1. lines[o] = floor(o) + 1
      BY <1>5, <2>2
    <3> QED
      BY <1>2, <1>3, <1>4, <2>1, <2>2, <3>1
  <2>3. CASE o \notin E
    <3>1. lines[o] = floor(o)
      BY <1>3, <1>5, <2>3
    <3> QED
      BY <1>2, <1>3, <2>1, <3>1
  <2> QED
    BY <2>2, <2>3
<1>8. shares[o] > shares[p] => lines[o] >= lines[p]
  <2> SUFFICES ASSUME shares[o] > shares[p]
               PROVE  lines[o] >= lines[p]
    OBVIOUS
  <2>1. net * shares[o] >= net * shares[p]
    <3>1. \A n, a, b \in Nat : a > b => n * a >= n * b
      OBVIOUS
    <3> QED
      BY <3>1
  <2>2. Whole * floor(o) + fraction(o) >= Whole * floor(p) + fraction(p)
    BY <1>3, <2>1
  <2>3. floor(o) >= floor(p)
    <3>1. ASSUME floor(p) >= floor(o) + 1
          PROVE  FALSE
      <4>1. \A w, a, b \in Nat : b >= a + 1 => w * b >= w * a + w
        <5> SUFFICES ASSUME NEW w \in Nat, NEW a \in Nat, NEW b \in Nat, b >= a + 1
                     PROVE  w * b >= w * a + w
          OBVIOUS
        <5>1. w * b = w * (a + 1) + w * (b - (a + 1)) /\ w * (a + 1) = w * a + w
              /\ w * (b - (a + 1)) \in Nat /\ w * a \in Nat
          OBVIOUS
        <5> QED
          BY <5>1
      <4>2. Whole * floor(p) >= Whole * floor(o) + Whole
        BY <1>2, <1>3, <3>1, <4>1
      <4>3. Whole * floor(p) \in Int /\ Whole * floor(o) \in Int
        BY <1>2, <1>3
      <4> QED
        BY <1>2, <1>3, <2>2, <4>2, <4>3
    <3> QED
      BY <1>3, <3>1
  <2>4. CASE floor(o) > floor(p)
    BY <1>3, <1>5, <2>4
  <2>5. CASE floor(o) = floor(p)
    <3>1. fraction(o) >= fraction(p)
      <4>1. Whole * floor(p) \in Int
        BY <1>2, <1>3
      <4> QED
        BY <1>2, <1>3, <2>2, <2>5, <4>1
    <3>2. ~(p \in E /\ o \notin E)
      BY <1>6, <3>1
    <3> QED
      BY <1>3, <1>5, <2>5, <3>2
  <2>6. floor(o) \in Nat /\ floor(p) \in Nat
    BY <1>3
  <2> QED
    BY <2>3, <2>4, <2>5, <2>6
<1> QED
  BY <1>7, <1>8

-----------------------------------------------------------------------------
(***************************************************************************)
(* addOwnerWithShare                                                       *)
(***************************************************************************)
LEMMA SettlementInitInv == SettlementAssumption /\ SettlementInit => SettlementInv
<1> SUFFICES ASSUME SettlementAssumption, SettlementInit
             PROVE  SettlementInv
  OBVIOUS
<1>0. Whole \in Nat /\ Whole > 0 /\ IsFiniteSet(Owners)
  BY DEF SettlementAssumption
<1>1. Ints
  <2>1. 0 \in 0..Whole
    BY <1>0
  <2>2. share \in [Owners -> 0..Whole] /\ asked \in [Owners -> 0..Whole]
    BY <2>1 DEF SettlementInit
  <2> QED
    BY <2>2 DEF SettlementInit, Ints
<1>2. /\ \A o \in Owners : share[o] = 0 /\ asked[o] = 0 /\ opc[o] = "idle"
      /\ DOMAIN share = Owners /\ DOMAIN asked = Owners /\ peak = 0
  BY DEF SettlementInit
<1>3. GivenAway
  <2>1. SumFunction(share) = 0 /\ SumFunction(asked) = 0
    BY <1>0, <1>2, SumsOverOwners, SumZero
  <2>2. {o \in Owners : Adding(o)} = {}
    BY <1>2 DEF Adding
  <2>3. Cardinality({o \in Owners : Adding(o)}) <= peak
    BY <1>2, <2>2, FS_EmptySet
  <2>4. SumFunction(share) + SumFunction(asked) <= peak * Whole
    BY <1>0, <1>2, <2>1
  <2> QED
    BY <1>2, <2>3, <2>4 DEF GivenAway
<1>4. NoSettlement \in Settlement
  BY <1>0 DEF NoSettlement, Settlement
<1>5. Drafts
  BY <1>4 DEF SettlementInit, Drafts
<1>6. Settled
  BY DEF SettlementInit, Settled, NoSettlement
<1>7. Payouts
  BY DEF SettlementInit, Payouts
<1> QED
  BY <1>1, <1>3, <1>5, <1>6, <1>7 DEF SettlementInv

LEMMA Product == \A a, b, w \in Nat : a <= b => a * w <= b * w /\ a * w \in Nat /\ b * w \in Nat
<1> SUFFICES ASSUME NEW a \in Nat, NEW b \in Nat, NEW w \in Nat, a <= b
             PROVE  a * w <= b * w /\ a * w \in Nat /\ b * w \in Nat
  OBVIOUS
<1>1. b * w = a * w + (b - a) * w /\ (b - a) * w \in Nat /\ a * w \in Nat
  OBVIOUS
<1> QED
  BY <1>1

\* The sums are numbers, and what is asked for is at most one property each.
LEMMA SumsOfShares ==
    ASSUME SettlementAssumption, Ints
    PROVE  /\ SumFunction(share) = SumOver(share, Owners) /\ SumFunction(share) \in Nat
           /\ SumFunction(asked) = SumOver(asked, Owners) /\ SumFunction(asked) \in Nat
           /\ IntOn(share, Owners) /\ IntOn(asked, Owners) /\ IsFiniteSet(Owners)
           /\ Whole \in Nat /\ Whole > 0
<1>1. Whole \in Nat /\ Whole > 0 /\ IsFiniteSet(Owners)
  BY DEF SettlementAssumption
<1>2. /\ DOMAIN share = Owners /\ DOMAIN asked = Owners
      /\ \A o \in Owners : share[o] \in 0..Whole /\ asked[o] \in 0..Whole
  BY DEF Ints
<1>3. \A o \in Owners : share[o] \in Nat /\ asked[o] \in Nat
  BY <1>1, <1>2
<1>4. IntOn(share, Owners) /\ IntOn(asked, Owners)
  BY <1>3 DEF IntOn
<1>5. SumOver(share, Owners) \in Nat /\ SumOver(asked, Owners) \in Nat
  BY <1>1, <1>3, SumNat
<1> QED
  BY <1>1, <1>2, <1>4, <1>5, SumsOverOwners

LEMMA AddingAsk ==
    ASSUME SettlementAssumption, Ints, GivenAway
    PROVE  LET A == {o \in Owners : Adding(o)}
           IN  /\ IsFiniteSet(A) /\ Cardinality(A) \in Nat
               /\ SumFunction(asked) <= Cardinality(A) * Whole
<1> DEFINE A == {o \in Owners : Adding(o)}
<1>1. IsFiniteSet(A) /\ A \subseteq Owners
  BY SumsOfShares, FS_Subset
<1>2. \A o \in Owners \ A : asked[o] = 0
  BY DEF GivenAway
<1>3. \A o \in A : asked[o] \in 0..Whole
  BY DEF Ints
<1> HIDE DEF A
<1>4. SumOver(asked, Owners) = SumOver(asked, A)
  BY <1>1, <1>2, SumsOfShares, SumRestrict
<1>5. SumOver(asked, A) <= Cardinality(A) * Whole
  BY <1>1, <1>3, SumsOfShares, SumBounds
<1>6. Cardinality(A) \in Nat
  BY <1>1, FS_CardinalityType
<1> QED
  BY <1>1, <1>4, <1>5, <1>6, SumsOfShares DEF A

\* A request that reads the shares adds to them no more than is left of one property.
LEMMA AcceptGiven ==
    ASSUME SettlementAssumption, Ints, GivenAway, NEW o \in Owners, NEW s \in Shares, OwnershipTotal(o, s)
    PROVE  Ints' /\ GivenAway' /\ peak' >= peak
<1> DEFINE A == {q \in Owners : Adding(q)}
           n == Cardinality(A) + 1
           fits == Fits(SumFunction(share), s)
<1>1. /\ opc[o] = "idle" /\ UNCHANGED <<share, paid, pct, payout, gpc, ppc, overlapped>>
      /\ opc' = [opc EXCEPT ![o] = IF fits THEN "accepted" ELSE "over"]
      /\ asked' = [asked EXCEPT ![o] = IF fits THEN s ELSE 0]
      /\ peak' = IF fits /\ n > peak THEN n ELSE peak
  BY DEF OwnershipTotal, settlementRows, settling, paying
<1>2. s \in 0..Whole /\ s \in Nat
  <2>1. s \in 0..Whole
    BY DEF SettlementAssumption
  <2> QED
    BY <2>1, SumsOfShares
<1>3. IsFiniteSet(A) /\ Cardinality(A) \in Nat /\ SumFunction(asked) <= Cardinality(A) * Whole
  BY AddingAsk
<1>4. o \notin A /\ asked[o] = 0 /\ A \subseteq Owners /\ share[o] = 0
  BY <1>1 DEF GivenAway, Adding
<1>5. fits => SumFunction(share) + s <= Whole
  BY DEF Fits
<1>6. /\ fits \in BOOLEAN
      /\ {q \in Owners : Adding(q)'} = IF fits THEN A \cup {o} ELSE A
  <2>1. opc'[o] = (IF fits THEN "accepted" ELSE "over") /\ \A q \in Owners \ {o} : opc'[q] = opc[q]
    BY <1>1 DEF Ints
  <2>2. fits \in BOOLEAN
    BY DEF Fits
  <2> HIDE DEF fits
  <2> QED
    BY <1>1, <2>1, <2>2 DEF Adding
<1> HIDE DEF A, n, fits
<1>7. n \in Nat /\ peak \in Nat /\ peak' \in Nat /\ peak' >= peak /\ (fits => n <= peak')
  BY <1>1, <1>3 DEF n, Ints
<1>8. Ints'
  <2>1. asked' \in [Owners -> 0..Whole]
    BY <1>1, <1>2, SumsOfShares DEF Ints
  <2>2. opc' \in [Owners -> {"idle", "accepted", "named", "owning", "over"}]
    BY <1>1 DEF Ints
  <2> QED
    BY <1>1, <1>7, <2>1, <2>2 DEF Ints
<1>9. SumFunction(asked') = SumFunction(asked) + (IF fits THEN s ELSE 0)
  <2>1. asked'[o] = (IF fits THEN s ELSE 0) /\ (\A q \in Owners \ {o} : asked'[q] = asked[q])
        /\ DOMAIN asked' = Owners
    BY <1>1 DEF Ints
  <2>2. asked'[o] \in Int
    BY <1>2, <2>1
  <2>3. SumOver(asked', Owners) = SumOver(asked, Owners) - asked[o] + asked'[o]
    BY <2>1, <2>2, SumsOfShares, SumUpdate
  <2>4. SumFunction(asked') = SumOver(asked', Owners)
    BY <2>1, SumsOverOwners
  <2> QED
    BY <1>2, <1>4, <2>1, <2>3, <2>4, SumsOfShares
<1>10. SumFunction(share') + SumFunction(asked') <= peak' * Whole
  <2>1. SumFunction(share) \in Nat /\ SumFunction(asked) \in Nat /\ Whole \in Nat
    BY SumsOfShares
  <2>2. CASE fits
    <3>1. n * Whole <= peak' * Whole /\ n * Whole \in Nat /\ peak' * Whole \in Nat
      BY <1>7, <2>1, <2>2, Product
    <3>2. n * Whole = Cardinality(A) * Whole + Whole /\ Cardinality(A) * Whole \in Nat
      BY <1>3, <2>1 DEF n
    <3> QED
      BY <1>1, <1>2, <1>3, <1>5, <1>9, <2>1, <2>2, <3>1, <3>2
  <2>3. CASE ~fits
    <3>1. peak * Whole <= peak' * Whole /\ peak * Whole \in Nat /\ peak' * Whole \in Nat
      BY <1>7, <2>1, Product
    <3>2. SumFunction(share) + SumFunction(asked) <= peak * Whole
      BY DEF GivenAway
    <3> QED
      BY <1>1, <1>9, <2>1, <2>3, <3>1, <3>2
  <2> QED
    BY <2>2, <2>3
<1>11. Cardinality({q \in Owners : Adding(q)'}) <= peak'
  <2>1. Cardinality(A \cup {o}) = n
    BY <1>3, <1>4, FS_AddElement DEF n
  <2>2. Cardinality(A) <= peak
    BY DEF A, GivenAway
  <2>3. CASE fits
    <3>1. {q \in Owners : Adding(q)'} = A \cup {o}
      BY <1>6, <2>3
    <3> QED
      BY <1>7, <2>1, <2>3, <3>1
  <2>4. CASE ~fits
    <3>1. {q \in Owners : Adding(q)'} = A
      BY <1>6, <2>4
    <3> QED
      BY <1>3, <1>7, <2>2, <3>1
  <2> QED
    BY <2>3, <2>4
<1>12. \A q \in Owners : /\ opc'[q] \in {"idle", "accepted", "named"} => share'[q] = 0
                         /\ ~Adding(q)' => asked'[q] = 0
  BY <1>1, <1>4 DEF GivenAway, Adding, Ints
<1> QED
  BY <1>7, <1>8, <1>10, <1>11, <1>12 DEF GivenAway

\* A share that is written was asked for before.
LEMMA AssignGiven ==
    ASSUME SettlementAssumption, Ints, GivenAway, NEW o \in Owners, AssignOwnership(o)
    PROVE  Ints' /\ GivenAway'
<1>1. /\ opc[o] = "named" /\ UNCHANGED <<paid, pct, payout, gpc, ppc, overlapped, peak>>
      /\ opc' = [opc EXCEPT ![o] = "owning"]
      /\ share' = [share EXCEPT ![o] = asked[o]] /\ asked' = [asked EXCEPT ![o] = 0]
  BY DEF AssignOwnership, settling, paying
<1>2. asked[o] \in 0..Whole /\ asked[o] \in Int /\ share[o] = 0
  <2>1. asked[o] \in 0..Whole /\ share[o] = 0
    BY <1>1 DEF Ints, GivenAway
  <2> QED
    BY <2>1, SumsOfShares
<1>3. /\ share'[o] = asked[o] /\ asked'[o] = 0 /\ opc'[o] = "owning"
      /\ \A q \in Owners \ {o} : share'[q] = share[q] /\ asked'[q] = asked[q] /\ opc'[q] = opc[q]
      /\ DOMAIN share' = Owners /\ DOMAIN asked' = Owners
  BY <1>1 DEF Ints
<1>4. Ints'
  <2>1. 0 \in 0..Whole
    BY SumsOfShares
  <2>2. share' \in [Owners -> 0..Whole] /\ asked' \in [Owners -> 0..Whole]
    BY <1>1, <1>2, <2>1 DEF Ints
  <2> QED
    BY <1>1, <2>2 DEF Ints
<1>5. SumFunction(share') + SumFunction(asked') = SumFunction(share) + SumFunction(asked)
  <2>1. SumOver(share', Owners) = SumOver(share, Owners) - share[o] + share'[o]
    BY <1>2, <1>3, SumsOfShares, SumUpdate
  <2>2. SumOver(asked', Owners) = SumOver(asked, Owners) - asked[o] + asked'[o]
    BY <1>2, <1>3, SumsOfShares, SumUpdate
  <2>3. SumFunction(share') = SumOver(share', Owners) /\ SumFunction(asked') = SumOver(asked', Owners)
    BY <1>3, SumsOverOwners
  <2> QED
    BY <1>2, <1>3, <2>1, <2>2, <2>3, SumsOfShares
<1>6. Cardinality({q \in Owners : Adding(q)'}) <= peak'
  <2> DEFINE A == {q \in Owners : Adding(q)}
             B == {q \in Owners : Adding(q)'}
  <2>1. B \subseteq A
    BY <1>3 DEF Adding
  <2>2. IsFiniteSet(A) /\ Cardinality(A) \in Nat /\ Cardinality(A) <= peak
    BY AddingAsk DEF GivenAway
  <2> HIDE DEF A, B
  <2>3. Cardinality(B) \in Nat /\ Cardinality(B) <= Cardinality(A)
    BY <2>1, <2>2, FS_Subset, FS_CardinalityType
  <2>4. Cardinality(B) <= peak
    BY <2>2, <2>3 DEF Ints
  <2> QED
    BY <1>1, <2>4 DEF B
<1>7. \A q \in Owners : /\ opc'[q] \in {"idle", "accepted", "named"} => share'[q] = 0
                        /\ ~Adding(q)' => asked'[q] = 0
  BY <1>3 DEF GivenAway, Adding
<1>8. SumFunction(share') + SumFunction(asked') <= peak' * Whole
  BY <1>1, <1>5 DEF GivenAway
<1> QED
  BY <1>4, <1>6, <1>7, <1>8 DEF GivenAway

\* Nothing is written, and no more is asked for.
LEMMA QuietGiven ==
    ASSUME SettlementAssumption, Ints, GivenAway, UNCHANGED <<share, peak>>,
           opc' \in [Owners -> {"idle", "accepted", "named", "owning", "over"}],
           asked' \in [Owners -> 0..Whole],
           \A q \in Owners :
              /\ asked'[q] = asked[q] \/ asked'[q] = 0
              /\ Adding(q)' => Adding(q)
              /\ ~Adding(q)' /\ Adding(q) => asked'[q] = 0
              /\ opc'[q] \in {"idle", "accepted", "named"} => opc[q] \in {"idle", "accepted", "named"}
    PROVE  GivenAway'
<1>1. Cardinality({q \in Owners : Adding(q)'}) <= peak'
  <2> DEFINE A == {q \in Owners : Adding(q)}
             B == {q \in Owners : Adding(q)'}
  <2>1. B \subseteq A
    OBVIOUS
  <2>2. IsFiniteSet(A) /\ Cardinality(A) \in Nat /\ Cardinality(A) <= peak
    BY AddingAsk DEF GivenAway
  <2> HIDE DEF A, B
  <2>3. Cardinality(B) \in Nat /\ Cardinality(B) <= Cardinality(A)
    BY <2>1, <2>2, FS_Subset, FS_CardinalityType
  <2>4. Cardinality(B) <= peak
    BY <2>2, <2>3 DEF Ints
  <2> QED
    BY <2>4 DEF B
<1>2. SumFunction(asked') \in Nat /\ SumFunction(asked') <= SumFunction(asked)
  <2> DEFINE less == [q \in Owners |-> asked[q] - asked'[q]]
  <2>1. \A q \in Owners : asked[q] \in Nat /\ asked'[q] \in Nat /\ less[q] \in Nat
                         /\ asked[q] = asked'[q] + less[q]
    <3> SUFFICES ASSUME NEW q \in Owners
                 PROVE  asked[q] \in Nat /\ asked'[q] \in Nat /\ less[q] \in Nat
                        /\ asked[q] = asked'[q] + less[q]
      OBVIOUS
    <3>1. \A x \in 0..Whole : x \in Nat
      BY SumsOfShares
    <3>2. asked[q] \in Nat /\ asked'[q] \in Nat
      BY <3>1 DEF Ints
    <3> QED
      BY <3>2
  <2> HIDE DEF less
  <2>2. SumOver(asked, Owners) = SumOver(asked', Owners) + SumOver(less, Owners)
    <3>1. IntOn(asked', Owners) /\ IntOn(less, Owners)
      BY <2>1 DEF IntOn
    <3> QED
      BY <2>1, <3>1, SumsOfShares, SumPlus
  <2>3. SumOver(asked', Owners) \in Nat /\ SumOver(less, Owners) \in Nat
    BY <2>1, SumsOfShares, SumNat
  <2>4. SumFunction(asked') = SumOver(asked', Owners)
    BY SumsOverOwners
  <2> QED
    BY <2>2, <2>3, <2>4, SumsOfShares
<1>3. SumFunction(share') + SumFunction(asked') <= peak' * Whole
  <2>1. peak * Whole \in Nat
    BY SumsOfShares DEF Ints
  <2>2. SumFunction(share) + SumFunction(asked) <= peak * Whole
    BY DEF GivenAway
  <2> QED
    BY <1>2, <2>1, <2>2, SumsOfShares
<1>4. \A q \in Owners : /\ opc'[q] \in {"idle", "accepted", "named"} => share'[q] = 0
                        /\ ~Adding(q)' => asked'[q] = 0
  BY DEF GivenAway
<1> QED
  BY <1>1, <1>3, <1>4 DEF GivenAway

\* Once the whole property is given away nothing is asked for, unless requests overlapped.
LEMMA FullIsFull ==
    ASSUME SettlementAssumption, Ints, GivenAway, peak <= 1, SumFunction(share) = Whole, NEW o \in Owners
    PROVE  asked[o] = 0
<1>1. SumFunction(asked) = 0
  <2>1. peak * Whole <= Whole /\ peak * Whole \in Int
    <3>1. peak = 0 \/ peak = 1
      BY DEF Ints
    <3> QED
      BY <3>1, SumsOfShares
  <2>2. SumFunction(share) + SumFunction(asked) <= peak * Whole
    BY DEF GivenAway
  <2> QED
    BY <2>1, <2>2, SumsOfShares
<1>2. \A q \in Owners : asked[q] \in Nat
  <2>1. \A x \in 0..Whole : x \in Nat
    BY SumsOfShares
  <2> QED
    BY <2>1 DEF Ints
<1>3. SumOver(asked, Owners) = asked[o] + SumOver(asked, Owners \ {o})
  BY SumsOfShares, SumRemove
<1>4. SumOver(asked, Owners \ {o}) \in Nat
  <2>1. IsFiniteSet(Owners \ {o})
    BY SumsOfShares, FS_Subset
  <2> QED
    BY <1>2, <2>1, SumNat
<1> QED
  BY <1>1, <1>2, <1>3, <1>4, SumsOfShares

LEMMA GivenStep == SettlementAssumption /\ SettlementInv /\ [SettlementNext]_settlementVars => Ints' /\ GivenAway' /\ peak' >= peak /\ paid' >= paid
<1> SUFFICES ASSUME SettlementAssumption, SettlementInv, [SettlementNext]_settlementVars
             PROVE  Ints' /\ GivenAway' /\ peak' >= peak /\ paid' >= paid
  OBVIOUS
<1>0. Ints /\ GivenAway /\ peak \in Nat /\ paid \in Nat
  BY DEF SettlementInv, Ints
<1>a. ASSUME UNCHANGED <<share, opc, asked, peak>>
      PROVE  GivenAway'
  BY <1>0, <1>a DEF GivenAway, Adding
<1>1. ASSUME NEW o \in Owners, NEW s \in Shares, OwnershipTotal(o, s)
      PROVE  Ints' /\ GivenAway' /\ peak' >= peak /\ paid' >= paid
  <2>1. UNCHANGED paid
    BY <1>1 DEF OwnershipTotal, settlementRows
  <2> QED
    BY <1>0, <1>1, <2>1, AcceptGiven
<1>2. ASSUME NEW o \in Owners, AssignOwnership(o)
      PROVE  Ints' /\ GivenAway' /\ peak' >= peak /\ paid' >= paid
  <2>1. UNCHANGED <<paid, peak>>
    BY <1>2 DEF AssignOwnership
  <2> QED
    BY <1>0, <1>2, <2>1, AssignGiven
<1>3. ASSUME NEW o \in Owners, CreateOwner(o) \/ AuditOwner(o) \/ AbortOwner(o)
      PROVE  Ints' /\ GivenAway' /\ peak' >= peak /\ paid' >= paid
  <2>1. UNCHANGED <<share, paid, pct, payout, peak, gpc, ppc, overlapped>>
    BY <1>3 DEF CreateOwner, AuditOwner, AbortOwner, settlementRows, settling, paying
  <2>2. /\ opc' \in [Owners -> {"idle", "accepted", "named", "owning", "over"}]
        /\ \A q \in Owners \ {o} : opc'[q] = opc[q] /\ asked'[q] = asked[q]
        /\ \/ opc[o] = "accepted" /\ opc'[o] = "named" /\ asked'[o] = asked[o]
           \/ opc[o] = "owning" /\ opc'[o] = "over" /\ asked'[o] = asked[o]
           \/ opc[o] \in {"accepted", "named", "owning"} /\ opc'[o] = "over" /\ asked'[o] = 0
    BY <1>0, <1>3 DEF CreateOwner, AuditOwner, AbortOwner, Ints
  <2>3. asked' \in [Owners -> 0..Whole]
    <3>1. 0 \in 0..Whole
      BY <1>0, SumsOfShares
    <3>2. asked' = asked \/ asked' = [asked EXCEPT ![o] = 0]
      BY <1>3 DEF CreateOwner, AuditOwner, AbortOwner
    <3> QED
      BY <1>0, <3>1, <3>2 DEF Ints
  <2>4. \A q \in Owners :
           /\ asked'[q] = asked[q] \/ asked'[q] = 0
           /\ Adding(q)' => Adding(q)
           /\ ~Adding(q)' /\ Adding(q) => asked'[q] = 0
           /\ opc'[q] \in {"idle", "accepted", "named"} => opc[q] \in {"idle", "accepted", "named"}
    BY <2>2 DEF Adding
  <2>5. GivenAway'
    BY <1>0, <2>1, <2>2, <2>3, <2>4, QuietGiven
  <2>6. Ints'
    BY <1>0, <2>1, <2>2, <2>3 DEF Ints
  <2> QED
    BY <1>0, <2>1, <2>5, <2>6
<1>4. ASSUME NEW a \in PayAmounts, StorePayment(a)
      PROVE  Ints' /\ GivenAway' /\ peak' >= peak /\ paid' >= paid
  <2>1. a \in Nat
    BY DEF SettlementAssumption
  <2>2. paid' = paid + a /\ UNCHANGED <<share, pct, payout, opc, asked, peak, gpc, ppc, overlapped>>
    BY <1>4 DEF StorePayment, adding, settling, paying
  <2>3. paid' \in Nat /\ paid' >= paid
    BY <1>0, <2>1, <2>2
  <2> QED
    BY <1>0, <1>a, <2>2, <2>3 DEF Ints
<1>5. ASSUME NEW g \in Settlers, \/ FindSettlement(g) \/ ReadCollected(g) \/ ReadShares(g)
                                \/ CreateSettlement(g) \/ AuditSettlement(g) \/ AbortSettler(g)
      PROVE  Ints' /\ GivenAway' /\ peak' >= peak /\ paid' >= paid
  <2>1. UNCHANGED <<share, paid, pct, payout, opc, asked, peak, ppc, overlapped>>
    BY <1>5 DEF FindSettlement, ReadCollected, ReadShares, CreateSettlement, AuditSettlement, AbortSettler,
                settlementRows, adding, paying
  <2>2. \E to \in {"reading", "collected", "dividing", "settled", "over"} : gpc' = [gpc EXCEPT ![g] = to]
    BY <1>5 DEF FindSettlement, ReadCollected, ReadShares, CreateSettlement, AuditSettlement, AbortSettler
  <2>3. gpc' \in [Settlers -> {"idle", "reading", "collected", "dividing", "settled", "over"}]
    BY <1>0, <2>2 DEF Ints
  <2> QED
    BY <1>0, <1>a, <2>1, <2>3 DEF Ints
<1>6. ASSUME NEW q \in Payers, FindForPayout(q) \/ RecordPayout(q) \/ AuditPayout(q) \/ AbortPayer(q)
      PROVE  Ints' /\ GivenAway' /\ peak' >= peak /\ paid' >= paid
  <2>1. UNCHANGED <<share, paid, pct, opc, asked, peak, gpc>>
    BY <1>6 DEF FindForPayout, RecordPayout, AuditPayout, AbortPayer, settlementRows, adding, settling
  <2>2. payout' \in Nat
    BY <1>0, <1>6 DEF FindForPayout, RecordPayout, AuditPayout, AbortPayer, settlementRows, Ints
  <2>3. overlapped' \in BOOLEAN
    BY <1>0, <1>6 DEF FindForPayout, RecordPayout, AuditPayout, AbortPayer, Ints
  <2>4. ppc' \in [Payers -> {"idle", "found", "paid", "over"}]
    BY <1>0, <1>6 DEF FindForPayout, RecordPayout, AuditPayout, AbortPayer, Ints
  <2> QED
    BY <1>0, <1>a, <2>1, <2>2, <2>3, <2>4 DEF Ints
<1>7. CASE UNCHANGED settlementVars
  BY <1>0, <1>7, <1>a DEF settlementVars, settlementRows, adding, settling, paying, Ints
<1> QED
  BY <1>1, <1>2, <1>3, <1>4, <1>5, <1>6, <1>7 DEF SettlementNext

-----------------------------------------------------------------------------
(***************************************************************************)
(* generateSettlement                                                      *)
(***************************************************************************)

\* The commission is at most what was collected.
LEMMA CommissionFits ==
    ASSUME SettlementAssumption, Ints
    PROVE  /\ Commission(paid) \in Nat /\ paid - Commission(paid) \in Nat /\ paid \in Nat
           /\ paid - Commission(paid) + Commission(paid) = paid
<1>1. paid \in Nat /\ pct \in Nat /\ pct <= 100
  <2>1. pct \in 0..100 /\ paid \in Nat
    BY DEF SettlementAssumption, Ints
  <2> QED
    BY <2>1
<1> DEFINE k == paid * pct
<1>2. k \in Nat /\ k <= 100 * paid
  <2>1. pct * paid <= 100 * paid /\ pct * paid \in Nat
    BY <1>1, Product
  <2>2. pct * paid = paid * pct
    BY <1>1
  <2> QED
    BY <2>1, <2>2
<1> HIDE DEF k
<1>3. (k + 50) \div 100 \in Nat /\ (k + 50) \div 100 <= paid
  BY <1>1, <1>2
<1>4. Commission(paid) = (k + 50) \div 100
  BY DEF Commission, k
<1> QED
  BY <1>1, <1>3, <1>4

SameSums(s, t) == s.collected = t.collected /\ s.commission = t.commission /\ s.net = t.net

\* What the collections read.
LEMMA CollectedIsBalanced ==
    ASSUME SettlementAssumption, SettlementInv, NEW g \in Settlers, ReadCollected(g)
    PROVE  /\ draft' \in [Settlers -> Settlement] /\ Balanced(draft'[g])
           /\ \A h \in Settlers \ {g} : draft'[h] = draft[h]
<1> DEFINE a == [draft EXCEPT ![g].collected = paid]
           b == [a EXCEPT ![g].commission = Commission(paid)]
           c == [b EXCEPT ![g].net = paid - Commission(paid)]
<1>1. draft' = c
  BY DEF ReadCollected
<1>2. /\ Commission(paid) \in Nat /\ paid - Commission(paid) \in Nat /\ paid \in Nat
      /\ paid - Commission(paid) + Commission(paid) = paid
  BY CommissionFits DEF SettlementInv
<1>3. draft \in [Settlers -> Settlement]
  BY DEF SettlementInv, Drafts
<1>4. /\ a \in [Settlers -> Settlement] /\ a[g].collected = paid
      /\ \A h \in Settlers \ {g} : a[h] = draft[h]
  BY <1>2, <1>3 DEF Settlement
<1> HIDE DEF a
<1>5. /\ b \in [Settlers -> Settlement] /\ b[g].collected = paid /\ b[g].commission = Commission(paid)
      /\ \A h \in Settlers \ {g} : b[h] = a[h]
  BY <1>2, <1>4 DEF Settlement
<1> HIDE DEF b
<1>6. /\ c \in [Settlers -> Settlement] /\ c[g].collected = paid /\ c[g].commission = Commission(paid)
      /\ c[g].net = paid - Commission(paid)
      /\ \A h \in Settlers \ {g} : c[h] = b[h]
  BY <1>2, <1>5 DEF Settlement
<1> HIDE DEF c
<1>7. Balanced(c[g])
  BY <1>2, <1>6 DEF Balanced
<1> QED
  BY <1>1, <1>4, <1>5, <1>6, <1>7

\* What the shares read, and the split of it, add to the draft.
LEMMA SharesAreDivided ==
    ASSUME SettlementAssumption, SettlementInv, NEW g \in Settlers, gpc[g] = "collected", SumFunction(share) = Whole,
           NEW lines \in Splits(draft[g].net, share),
           draft' = [draft EXCEPT ![g].made = TRUE, ![g].shares = share, ![g].lines = lines]
    PROVE  /\ draft' \in [Settlers -> Settlement] /\ Balanced(draft'[g]) /\ Divided(draft'[g])
           /\ \A h \in Settlers \ {g} : draft'[h] = draft[h]
<1> DEFINE a == [draft EXCEPT ![g].made = TRUE]
           b == [a EXCEPT ![g].shares = share]
           c == [b EXCEPT ![g].lines = lines]
<1>1. draft' = c
  OBVIOUS
<1>2. share \in [Owners -> 0..Whole] /\ draft \in [Settlers -> Settlement] /\ Balanced(draft[g])
  BY DEF SettlementInv, Ints, Drafts
<1>3. lines \in [Owners -> Nat]
  BY <1>2, SplitAddsUp DEF Balanced
<1>4. a \in [Settlers -> Settlement] /\ SameSums(a[g], draft[g]) /\ \A h \in Settlers \ {g} : a[h] = draft[h]
  BY <1>2, <1>3 DEF Settlement, SameSums
<1> HIDE DEF a
<1>5. /\ b \in [Settlers -> Settlement] /\ SameSums(b[g], a[g]) /\ b[g].shares = share
      /\ \A h \in Settlers \ {g} : b[h] = a[h]
  <2>1. b[g] = [a[g] EXCEPT !.shares = share] /\ \A h \in Settlers \ {g} : b[h] = a[h]
    BY <1>4
  <2>2. a[g] \in Settlement /\ share \in [Owners -> 0..Whole]
    BY <1>2, <1>4
  <2>3. b[g] = [made |-> a[g].made, collected |-> a[g].collected, commission |-> a[g].commission,
                net |-> a[g].net, shares |-> share, lines |-> a[g].lines]
    BY <2>1, <2>2 DEF Settlement
  <2> HIDE DEF b
  <2>4. b[g] \in Settlement /\ SameSums(b[g], a[g]) /\ b[g].shares = share
    BY <2>2, <2>3 DEF Settlement, SameSums
  <2>5. b \in [Settlers -> Settlement]
    BY <1>4, <2>4 DEF b
  <2> QED
    BY <2>1, <2>4, <2>5
<1> HIDE DEF b
<1>6. /\ c \in [Settlers -> Settlement] /\ SameSums(c[g], b[g]) /\ c[g].shares = share /\ c[g].lines = lines
      /\ \A h \in Settlers \ {g} : c[h] = b[h]
  <2>1. c[g] = [b[g] EXCEPT !.lines = lines] /\ \A h \in Settlers \ {g} : c[h] = b[h]
    BY <1>5
  <2>2. b[g] \in Settlement
    BY <1>5
  <2>3. c[g] = [made |-> b[g].made, collected |-> b[g].collected, commission |-> b[g].commission,
                net |-> b[g].net, shares |-> b[g].shares, lines |-> lines]
    BY <2>1, <2>2 DEF Settlement
  <2> HIDE DEF c
  <2>4. c[g] \in Settlement /\ SameSums(c[g], b[g]) /\ c[g].shares = share /\ c[g].lines = lines
    BY <1>3, <1>5, <2>2, <2>3 DEF Settlement, SameSums
  <2>5. c \in [Settlers -> Settlement]
    BY <1>5, <2>4 DEF c
  <2> QED
    BY <2>1, <2>4, <2>5
<1> HIDE DEF c
<1>7. SameSums(c[g], draft[g])
  BY <1>4, <1>5, <1>6 DEF SameSums
<1>8. Balanced(c[g]) /\ Divided(c[g])
  BY <1>2, <1>6, <1>7 DEF SameSums, Balanced, Divided
<1> QED
  BY <1>1, <1>4, <1>5, <1>6, <1>8

\* What a request has read, and what is on file, stays true while others act:
\* payments add up, and no share is written when all of them are given away.
BalancedNext(s) == s.collected \in Nat /\ s.collected <= paid' /\ s.net \in Nat /\ s.net + s.commission = s.collected
DividedNext(s) ==
    /\ s.shares \in [Owners -> 0..Whole] /\ SumFunction(s.shares) = Whole
    /\ s.lines \in Splits(s.net, s.shares)
    /\ peak' <= 1 => s.shares = share'

LEMMA ReadStaysTrue ==
    ASSUME SettlementAssumption, SettlementInv, [SettlementNext]_settlementVars, NEW s
    PROVE  (Balanced(s) => BalancedNext(s)) /\ (Divided(s) => DividedNext(s))
<1>0. /\ peak \in Nat /\ peak' \in Nat /\ peak' >= peak
      /\ paid \in Nat /\ paid' \in Nat /\ paid' >= paid /\ Ints /\ GivenAway
  BY GivenStep DEF SettlementInv, Ints
<1>1. Balanced(s) => BalancedNext(s)
  BY <1>0 DEF Balanced, BalancedNext
<1>2. ASSUME Divided(s)
      PROVE  DividedNext(s)
  <2> SUFFICES ASSUME peak' <= 1
               PROVE  s.shares = share'
    BY <1>2 DEF Divided, DividedNext
  <2>1. peak <= 1 /\ s.shares = share /\ SumFunction(share) = Whole
    BY <1>0, <1>2 DEF Divided
  <2>2. CASE \E o \in Owners : AssignOwnership(o)
    <3>1. PICK o \in Owners : AssignOwnership(o)
      BY <2>2
    <3>2. asked[o] = 0
      BY <1>0, <2>1, FullIsFull
    <3>3. share[o] = 0
      BY <1>0, <3>1 DEF AssignOwnership, GivenAway
    <3>4. share' = [share EXCEPT ![o] = asked[o]]
      BY <3>1 DEF AssignOwnership
    <3>5. share' = share
      BY <1>0, <3>2, <3>3, <3>4 DEF Ints
    <3> QED
      BY <2>1, <3>5
  <2>3. CASE ~\E o \in Owners : AssignOwnership(o)
    <3>1. UNCHANGED share
      BY <2>3 DEF SettlementNext, settlementVars, settlementRows, OwnershipTotal, CreateOwner, AuditOwner, AbortOwner, StorePayment,
                  FindSettlement, ReadCollected, ReadShares, CreateSettlement, AuditSettlement, AbortSettler,
                  FindForPayout, RecordPayout, AuditPayout, AbortPayer
    <3> QED
      BY <2>1, <3>1
  <2> QED
    BY <2>2, <2>3
<1> QED
  BY <1>1, <1>2

LEMMA NothingRead == SettlementAssumption => NoSettlement \in Settlement
<1> SUFFICES ASSUME SettlementAssumption
             PROVE  NoSettlement \in Settlement
  OBVIOUS
<1>1. 0 \in 0..Whole
  BY DEF SettlementAssumption
<1> QED
  BY <1>1 DEF NoSettlement, Settlement

LEMMA DraftStep == SettlementAssumption /\ SettlementInv /\ [SettlementNext]_settlementVars => Drafts' /\ Settled'
<1> SUFFICES ASSUME SettlementAssumption, SettlementInv, [SettlementNext]_settlementVars
             PROVE  Drafts' /\ Settled'
  OBVIOUS
<1> DEFINE DraftIsKept(h) ==
              /\ gpc'[h] \in {"collected", "dividing"} => Balanced(draft[h]) /\ draft'[h] = draft[h]
              /\ gpc'[h] = "dividing" => Divided(draft[h])
           SettlementIsKept == settlement'.made => settlement' = settlement /\ settlement.made
           DraftsNext ==
              /\ draft' \in [Settlers -> Settlement]
              /\ \A g \in Settlers :
                    /\ gpc'[g] \in {"collected", "dividing"} => BalancedNext(draft'[g])
                    /\ gpc'[g] = "dividing" => DividedNext(draft'[g])
           SettledNext == settlement'.made => BalancedNext(settlement') /\ DividedNext(settlement')
<1>0. /\ draft \in [Settlers -> Settlement]
      /\ \A g \in Settlers : /\ gpc[g] \in {"collected", "dividing"} => Balanced(draft[g])
                             /\ gpc[g] = "dividing" => Divided(draft[g])
      /\ settlement.made => Balanced(settlement) /\ Divided(settlement)
      /\ gpc \in [Settlers -> {"idle", "reading", "collected", "dividing", "settled", "over"}]
  BY DEF SettlementInv, Ints, Drafts, Settled
<1>a. \A s : (Balanced(s) => BalancedNext(s)) /\ (Divided(s) => DividedNext(s))
  BY ReadStaysTrue
<1> SUFFICES DraftsNext /\ SettledNext
  BY DEF Drafts, Settled, Balanced, Divided, BalancedNext, DividedNext
<1>b. ASSUME SettlementIsKept
      PROVE  SettledNext
  BY <1>0, <1>a, <1>b
<1>c. ASSUME NEW h \in Settlers, DraftIsKept(h)
      PROVE  /\ gpc'[h] \in {"collected", "dividing"} => BalancedNext(draft'[h])
             /\ gpc'[h] = "dividing" => DividedNext(draft'[h])
  BY <1>a, <1>c
<1>d. ASSUME UNCHANGED <<draft, gpc, settlement>>
      PROVE  DraftsNext /\ SettledNext
  <2>1. SettlementIsKept
    BY <1>d
  <2>2. \A h \in Settlers : DraftIsKept(h)
    <3> SUFFICES ASSUME NEW h \in Settlers
                 PROVE  DraftIsKept(h)
      OBVIOUS
    <3>1. gpc'[h] = gpc[h] /\ draft'[h] = draft[h]
      BY <1>d
    <3> QED
      BY <1>0, <3>1
  <2> QED
    BY <1>0, <1>b, <1>c, <1>d, <2>1, <2>2
<1>1. ASSUME NEW o \in Owners, \/ \E s \in Shares : OwnershipTotal(o, s)
                               \/ CreateOwner(o) \/ AssignOwnership(o) \/ AuditOwner(o) \/ AbortOwner(o)
      PROVE  DraftsNext /\ SettledNext
  <2>1. UNCHANGED <<draft, gpc, settlement>>
    BY <1>1 DEF OwnershipTotal, CreateOwner, AssignOwnership, AuditOwner, AbortOwner, settlementRows, settling
  <2> QED
    BY <1>d, <2>1
<1>2. ASSUME NEW a \in PayAmounts, StorePayment(a)
      PROVE  DraftsNext /\ SettledNext
  BY <1>2, <1>d DEF StorePayment, settling
<1>3. ASSUME NEW g \in Settlers, FindSettlement(g)
      PROVE  DraftsNext /\ SettledNext
  <2>1. /\ UNCHANGED <<draft, settlement>> /\ gpc'[g] \in {"over", "reading"}
        /\ \A h \in Settlers \ {g} : gpc'[h] = gpc[h]
    BY <1>0, <1>3 DEF FindSettlement, settlementRows
  <2>2. SettlementIsKept /\ \A h \in Settlers : DraftIsKept(h)
    BY <1>0, <2>1
  <2> QED
    BY <1>0, <1>b, <1>c, <2>1, <2>2
<1>4. ASSUME NEW g \in Settlers, ReadCollected(g)
      PROVE  DraftsNext /\ SettledNext
  <2>1. /\ draft' \in [Settlers -> Settlement] /\ Balanced(draft'[g])
        /\ \A h \in Settlers \ {g} : draft'[h] = draft[h]
    BY <1>4, CollectedIsBalanced
  <2>2. /\ UNCHANGED settlement /\ gpc'[g] = "collected"
        /\ \A h \in Settlers \ {g} : gpc'[h] = gpc[h]
    BY <1>0, <1>4 DEF ReadCollected, settlementRows
  <2>3. SettlementIsKept /\ \A h \in Settlers \ {g} : DraftIsKept(h)
    BY <1>0, <2>1, <2>2
  <2>4. BalancedNext(draft'[g])
    BY <1>a, <2>1
  <2> QED
    BY <1>b, <1>c, <2>1, <2>2, <2>3, <2>4
<1>5. ASSUME NEW g \in Settlers, ReadShares(g)
      PROVE  DraftsNext /\ SettledNext
  <2>0. /\ UNCHANGED settlement /\ gpc[g] = "collected"
        /\ \A h \in Settlers \ {g} : gpc'[h] = gpc[h]
    BY <1>0, <1>5 DEF ReadShares, settlementRows
  <2>1. ASSUME SumFunction(share) = Whole, NEW lines \in Splits(draft[g].net, share), gpc'[g] = "dividing",
               draft' = [draft EXCEPT ![g].made = TRUE, ![g].shares = share, ![g].lines = lines]
        PROVE  DraftsNext /\ SettledNext
    <3>1. /\ draft' \in [Settlers -> Settlement] /\ Balanced(draft'[g]) /\ Divided(draft'[g])
          /\ \A h \in Settlers \ {g} : draft'[h] = draft[h]
      BY <2>0, <2>1, SharesAreDivided
    <3>2. SettlementIsKept /\ \A h \in Settlers \ {g} : DraftIsKept(h)
      BY <1>0, <2>0, <3>1
    <3>3. BalancedNext(draft'[g]) /\ DividedNext(draft'[g])
      BY <1>a, <3>1
    <3> QED
      BY <1>b, <1>c, <3>1, <3>2, <3>3
  <2>2. ASSUME draft' = [draft EXCEPT ![g] = NoSettlement], gpc'[g] = "over"
        PROVE  DraftsNext /\ SettledNext
    <3>1. /\ draft' \in [Settlers -> Settlement] /\ \A h \in Settlers \ {g} : draft'[h] = draft[h]
      BY <1>0, <2>2, NothingRead
    <3>2. SettlementIsKept /\ \A h \in Settlers : DraftIsKept(h)
      BY <1>0, <2>0, <2>2, <3>1
    <3> QED
      BY <1>b, <1>c, <3>1, <3>2
  <2>3. \/ /\ SumFunction(share) = Whole /\ gpc'[g] = "dividing"
           /\ \E lines \in Splits(draft[g].net, share) :
                 draft' = [draft EXCEPT ![g].made = TRUE, ![g].shares = share, ![g].lines = lines]
        \/ draft' = [draft EXCEPT ![g] = NoSettlement] /\ gpc'[g] = "over"
    BY <1>0, <1>5 DEF ReadShares, Settleable
  <2> QED
    BY <2>1, <2>2, <2>3
<1>6. ASSUME NEW g \in Settlers, CreateSettlement(g) \/ AuditSettlement(g) \/ AbortSettler(g)
      PROVE  DraftsNext /\ SettledNext
  <2>1. /\ draft' \in [Settlers -> Settlement] /\ \A h \in Settlers \ {g} : draft'[h] = draft[h] /\ gpc'[h] = gpc[h]
        /\ gpc'[g] \in {"over", "settled"}
    BY <1>0, <1>6, NothingRead DEF CreateSettlement, AuditSettlement, AbortSettler
  <2>2. DraftsNext
    <3>1. \A h \in Settlers : DraftIsKept(h)
      BY <1>0, <2>1
    <3> QED
      BY <1>c, <2>1, <3>1
  <2>3. \/ SettlementIsKept
        \/ settlement' = draft[g] /\ Balanced(draft[g]) /\ Divided(draft[g])
    BY <1>0, <1>6 DEF CreateSettlement, AuditSettlement, AbortSettler, settlementRows
  <2> QED
    BY <1>a, <1>b, <2>2, <2>3
<1>7. ASSUME NEW q \in Payers, FindForPayout(q) \/ RecordPayout(q) \/ AuditPayout(q) \/ AbortPayer(q)
      PROVE  DraftsNext /\ SettledNext
  <2>1. UNCHANGED <<draft, gpc, settlement>>
    BY <1>7 DEF FindForPayout, RecordPayout, AuditPayout, AbortPayer, settlementRows, settling
  <2> QED
    BY <1>d, <2>1
<1>8. CASE UNCHANGED settlementVars
  BY <1>8, <1>d DEF settlementVars, settlementRows, settling
<1> QED
  BY <1>1, <1>2, <1>3, <1>4, <1>5, <1>6, <1>7, <1>8 DEF SettlementNext

-----------------------------------------------------------------------------
(***************************************************************************)
(* recordPayout                                                            *)
(***************************************************************************)
LEMMA PayoutStep == SettlementInv /\ [SettlementNext]_settlementVars => Payouts'
<1> SUFFICES ASSUME SettlementInv, [SettlementNext]_settlementVars
             PROVE  Payouts'
  OBVIOUS
<1>0. Payouts /\ ppc \in [Payers -> {"idle", "found", "paid", "over"}] /\ payout \in Nat /\ overlapped \in BOOLEAN
  BY DEF SettlementInv, Ints
<1>a. ASSUME UNCHANGED <<payout, ppc, overlapped>>
      PROVE  Payouts'
  BY <1>0, <1>a DEF Payouts
<1>1. ASSUME NEW o \in Owners, \/ \E s \in Shares : OwnershipTotal(o, s)
                               \/ CreateOwner(o) \/ AssignOwnership(o) \/ AuditOwner(o) \/ AbortOwner(o)
      PROVE  Payouts'
  <2>1. UNCHANGED <<payout, ppc, overlapped>>
    BY <1>1 DEF OwnershipTotal, CreateOwner, AssignOwnership, AuditOwner, AbortOwner, settlementRows, paying
  <2> QED
    BY <1>a, <2>1
<1>2. ASSUME NEW a \in PayAmounts, StorePayment(a)
      PROVE  Payouts'
  BY <1>2, <1>a DEF StorePayment, paying
<1>3. ASSUME NEW g \in Settlers, \/ FindSettlement(g) \/ ReadCollected(g) \/ ReadShares(g)
                                \/ CreateSettlement(g) \/ AuditSettlement(g) \/ AbortSettler(g)
      PROVE  Payouts'
  <2>1. UNCHANGED <<payout, ppc, overlapped>>
    BY <1>3 DEF FindSettlement, ReadCollected, ReadShares, CreateSettlement, AuditSettlement, AbortSettler,
                settlementRows, paying
  <2> QED
    BY <1>a, <2>1
<1>4. ASSUME NEW q \in Payers, FindForPayout(q)
      PROVE  Payouts'
  <2>1. /\ UNCHANGED payout /\ ppc' = [ppc EXCEPT ![q] = IF payout = 0 THEN "found" ELSE "over"]
        /\ overlapped' = (overlapped \/ (payout = 0 /\ \E p \in Payers : ppc[p] = "found"))
    BY <1>4 DEF FindForPayout, settlementRows
  <2>2. CASE payout = 0
    <3> SUFFICES ASSUME ~overlapped'
                 PROVE  /\ payout' <= 1
                        /\ \A p, r \in Payers : ppc'[p] = "found" /\ ppc'[r] = "found" => p = r
                        /\ (\E r \in Payers : ppc'[r] = "found") => payout' = 0
      BY DEF Payouts
    <3>1. ~overlapped /\ \A p \in Payers : ppc[p] # "found"
      BY <1>0, <2>1, <2>2
    <3> QED
      BY <1>0, <2>1, <2>2, <3>1
  <2>3. CASE payout # 0
    <3>1. \A p \in Payers : ppc'[p] = "found" => ppc[p] = "found"
      BY <1>0, <2>1, <2>3
    <3>2. ~overlapped' => ~overlapped
      BY <2>1
    <3> QED
      BY <1>0, <2>1, <2>3, <3>1, <3>2 DEF Payouts
  <2> QED
    BY <2>2, <2>3
<1>5. ASSUME NEW q \in Payers, RecordPayout(q)
      PROVE  Payouts'
  <2>1. /\ ppc[q] = "found" /\ payout' = payout + 1 /\ UNCHANGED overlapped
        /\ ppc' = [ppc EXCEPT ![q] = "paid"]
    BY <1>5 DEF RecordPayout
  <2>2. ~overlapped => payout = 0 /\ \A p \in Payers : ppc[p] = "found" => p = q
    BY <1>0, <2>1 DEF Payouts
  <2>3. ~overlapped => \A p \in Payers : ppc'[p] # "found"
    BY <1>0, <2>1, <2>2
  <2>4. ~overlapped => payout' = 1
    BY <2>1, <2>2
  <2> QED
    BY <2>1, <2>3, <2>4 DEF Payouts
<1>6. ASSUME NEW q \in Payers, AuditPayout(q) \/ AbortPayer(q)
      PROVE  Payouts'
  <2>1. UNCHANGED <<payout, overlapped>> /\ \A p \in Payers : ppc'[p] = "found" => ppc[p] = "found"
    BY <1>0, <1>6 DEF AuditPayout, AbortPayer, settlementRows
  <2> QED
    BY <1>0, <2>1 DEF Payouts
<1>7. CASE UNCHANGED settlementVars
  BY <1>7, <1>a DEF settlementVars, settlementRows, paying
<1> QED
  BY <1>1, <1>2, <1>3, <1>4, <1>5, <1>6, <1>7 DEF SettlementNext

-----------------------------------------------------------------------------
LEMMA SettlementInvariance == ASSUME SettlementAssumption PROVE SettlementSpec => []SettlementInv
<1>1. SettlementInit => SettlementInv
  BY SettlementInitInv
<1>2. SettlementInv /\ [SettlementNext]_settlementVars => SettlementInv'
  BY GivenStep, DraftStep, PayoutStep DEF SettlementInv
<1> QED
  BY <1>1, <1>2, PTL DEF SettlementSpec

\* What a settlement says is complete and fair: every minor unit collected is
\* commission or in a line, nobody is a whole unit off its part, everyone who
\* owns at the end shares in it unless two requests that add owners overlapped
\* (and the shares exceed the property only by as many requests), and it is paid
\* out once unless two payouts were looked up at once; for any owners, shares,
\* amounts and requests, in any interleaving, with any of them stopping midway.
THEOREM SettledInFullAlways == ASSUME SettlementAssumption PROVE SettlementSpec => []SettledInFull
<1>1. SettlementInv => SettledInFull
  <2> SUFFICES ASSUME SettlementInv
               PROVE  SettledInFull
    OBVIOUS
  <2>1. SharesBounded
    <3>1. SumFunction(share) + SumFunction(asked) <= peak * Whole
      BY DEF SettlementInv, GivenAway
    <3>2. peak * Whole \in Int
      BY DEF SettlementInv, Ints, SettlementAssumption
    <3> QED
      BY <3>1, <3>2, SumsOfShares DEF SettlementInv, SharesBounded
  <2>2. ASSUME settlement.made
        PROVE  /\ Balanced(settlement) /\ Divided(settlement) /\ settlement.net \in Nat
               /\ settlement.shares \in [Owners -> 0..Whole] /\ SumFunction(settlement.shares) = Whole
               /\ settlement.lines \in Splits(settlement.net, settlement.shares)
    BY <2>2 DEF SettlementInv, Settled, Balanced, Divided
  <2>3. MoneyConserved
    <3>1. settlement.made => SumFunction(settlement.lines) = settlement.net
      BY <2>2, SplitAddsUp
    <3> QED
      BY <2>2, <3>1 DEF MoneyConserved, Balanced
  <2>4. FairSplit
    BY <2>2, SplitIsFair DEF FairSplit
  <2>5. WholePropertySettled
    BY <2>2 DEF WholePropertySettled, Divided
  <2>6. PayoutOnce
    BY DEF SettlementInv, Payouts, PayoutOnce
  <2> QED
    BY <2>1, <2>3, <2>4, <2>5, <2>6 DEF SettledInFull
<1> QED
  BY <1>1, SettlementInvariance, PTL

-----------------------------------------------------------------------------
(***************************************************************************)
(* Types, with the bounds that requests put on what they count             *)
(***************************************************************************)
Unpaid == {q \in Payers : ppc[q] \in {"idle", "found"}}

Bounds ==
    /\ settlement \in Settlement
    /\ paid <= MaxPaid /\ peak <= Cardinality(Owners)
    /\ payout + Cardinality(Unpaid) <= Cardinality(Payers)

LEMMA BoundsInit == ASSUME SettlementAssumption, SettlementInit PROVE Bounds
<1>1. NoSettlement \in Settlement
  BY DEF NoSettlement, Settlement, SettlementAssumption
<1>2. Unpaid = Payers
  BY DEF Unpaid, SettlementInit
<1>3. Cardinality(Owners) \in Nat /\ Cardinality(Payers) \in Nat
  BY FS_CardinalityType DEF SettlementAssumption
<1> QED
  BY <1>1, <1>2, <1>3 DEF Bounds, SettlementInit, SettlementAssumption

LEMMA BoundsStep == ASSUME SettlementAssumption, SettlementInv, Bounds, [SettlementNext]_settlementVars PROVE Bounds'
<1>0. /\ paid \in Nat /\ peak \in Nat /\ payout \in Nat
      /\ ppc \in [Payers -> {"idle", "found", "paid", "over"}] /\ draft \in [Settlers -> Settlement]
  BY DEF SettlementInv, Ints, Drafts
<1>1. IsFiniteSet(Unpaid) /\ Cardinality(Unpaid) \in Nat /\ Cardinality(Payers) \in Nat
      /\ Cardinality(Owners) \in Nat
  <2>1. Unpaid \in SUBSET Payers
    BY DEF Unpaid
  <2> QED
    BY <2>1, FS_Subset, FS_CardinalityType DEF SettlementAssumption
\* A payer that moves on without paying leaves at most fewer who may still pay.
<1>a. ASSUME UNCHANGED payout, \A q \in Payers : ppc'[q] \in {"idle", "found"} => ppc[q] \in {"idle", "found"}
      PROVE  payout' + Cardinality(Unpaid') <= Cardinality(Payers)
  <2>1. Unpaid' \in SUBSET Unpaid
    BY <1>a DEF Unpaid
  <2>2. Cardinality(Unpaid') <= Cardinality(Unpaid) /\ Cardinality(Unpaid') \in Nat
    BY <1>1, <2>1, FS_Subset, FS_CardinalityType
  <2> QED
    BY <1>0, <1>1, <1>a, <2>2 DEF Bounds
<1>b. ASSUME UNCHANGED <<payout, ppc>>
      PROVE  payout' + Cardinality(Unpaid') <= Cardinality(Payers)
  BY <1>a, <1>b
<1>2. ASSUME NEW o \in Owners, NEW s \in Shares, OwnershipTotal(o, s)
      PROVE  Bounds'
  <2> DEFINE adding0 == {q \in Owners : Adding(q)}
  <2>1. UNCHANGED <<settlement, paid, payout, ppc>>
    BY <1>2 DEF OwnershipTotal, settlementRows, paying
  <2>2. ~Adding(o)
    BY <1>2 DEF OwnershipTotal, Adding
  <2>3. IsFiniteSet(Owners \ {o}) /\ Cardinality(Owners \ {o}) = Cardinality(Owners) - 1
    BY FS_RemoveElement DEF SettlementAssumption
  <2>4. adding0 \in SUBSET (Owners \ {o})
    BY <2>2
  <2>5. Cardinality(adding0) <= Cardinality(Owners) - 1 /\ Cardinality(adding0) \in Nat
    BY <2>3, <2>4, FS_Subset, FS_CardinalityType
  <2>6. peak' = Cardinality(adding0) + 1 \/ peak' = peak
    BY <1>2 DEF OwnershipTotal
  <2>7. peak' <= Cardinality(Owners)
    BY <1>0, <1>1, <2>5, <2>6 DEF Bounds
  <2> QED
    BY <1>b, <2>1, <2>7 DEF Bounds
<1>3. ASSUME NEW o \in Owners, CreateOwner(o) \/ AssignOwnership(o) \/ AuditOwner(o) \/ AbortOwner(o)
      PROVE  Bounds'
  <2>1. UNCHANGED <<settlement, paid, payout, peak, ppc>>
    BY <1>3 DEF CreateOwner, AssignOwnership, AuditOwner, AbortOwner, settlementRows, paying
  <2> QED
    BY <1>b, <2>1 DEF Bounds
<1>4. ASSUME NEW a \in PayAmounts, StorePayment(a)
      PROVE  Bounds'
  <2>1. paid' <= MaxPaid /\ UNCHANGED <<settlement, payout, peak, ppc>>
    BY <1>4 DEF StorePayment, adding, paying
  <2> QED
    BY <1>b, <2>1 DEF Bounds
<1>5. ASSUME NEW g \in Settlers, \/ FindSettlement(g) \/ ReadCollected(g) \/ ReadShares(g)
                                \/ CreateSettlement(g) \/ AuditSettlement(g) \/ AbortSettler(g)
      PROVE  Bounds'
  <2>1. UNCHANGED <<paid, payout, peak, ppc>>
    BY <1>5 DEF FindSettlement, ReadCollected, ReadShares, CreateSettlement, AuditSettlement, AbortSettler,
                settlementRows, adding, paying
  <2>2. settlement' = settlement \/ settlement' = draft[g]
    BY <1>5 DEF FindSettlement, ReadCollected, ReadShares, CreateSettlement, AuditSettlement, AbortSettler,
                settlementRows
  <2> QED
    BY <1>0, <1>b, <2>1, <2>2 DEF Bounds
<1>6. ASSUME NEW q \in Payers, FindForPayout(q) \/ AuditPayout(q) \/ AbortPayer(q)
      PROVE  Bounds'
  <2>1. UNCHANGED <<settlement, paid, payout, peak>>
    BY <1>6 DEF FindForPayout, AuditPayout, AbortPayer, settlementRows, adding
  <2>2. \A p \in Payers : ppc'[p] \in {"idle", "found"} => ppc[p] \in {"idle", "found"}
    BY <1>0, <1>6 DEF FindForPayout, AuditPayout, AbortPayer
  <2> QED
    BY <1>a, <2>1, <2>2 DEF Bounds
<1>7. ASSUME NEW q \in Payers, RecordPayout(q)
      PROVE  Bounds'
  <2>1. /\ q \in Unpaid /\ payout' = payout + 1 /\ ppc' = [ppc EXCEPT ![q] = "paid"]
        /\ UNCHANGED <<settlement, paid, peak>>
    BY <1>7 DEF RecordPayout, Unpaid, adding
  <2>2. Unpaid' = Unpaid \ {q}
    BY <1>0, <2>1 DEF Unpaid
  <2>3. Cardinality(Unpaid') = Cardinality(Unpaid) - 1
    BY <1>1, <2>1, <2>2, FS_RemoveElement
  <2> QED
    BY <1>0, <1>1, <2>1, <2>3 DEF Bounds
<1>8. CASE UNCHANGED settlementVars
  BY <1>8, <1>b DEF settlementVars, settlementRows, adding, paying, Bounds
<1> QED
  BY <1>2, <1>3, <1>4, <1>5, <1>6, <1>7, <1>8 DEF SettlementNext

\* Every state is well typed: no line and no net is ever negative, no payment is
\* lost or counted twice, and there are never more transfers than payout requests.
THEOREM SettlementTypeCorrect == ASSUME SettlementAssumption PROVE SettlementSpec => []SettlementTypeOK
<1>1. SettlementInit => Bounds
  BY BoundsInit
<1>2. SettlementInv /\ Bounds /\ [SettlementNext]_settlementVars => Bounds'
  BY BoundsStep
<1>3. SettlementInv /\ Bounds => SettlementTypeOK
  <2> SUFFICES ASSUME SettlementInv, Bounds
               PROVE  SettlementTypeOK
    OBVIOUS
  <2>1. Unpaid \in SUBSET Payers
    BY DEF Unpaid
  <2>2. Cardinality(Unpaid) \in Nat /\ Cardinality(Payers) \in Nat /\ Cardinality(Owners) \in Nat
    BY <2>1, FS_Subset, FS_CardinalityType DEF SettlementAssumption
  <2>3. payout \in 0..Cardinality(Payers)
    BY <2>2 DEF SettlementInv, Ints, Bounds
  <2>4. paid \in 0..MaxPaid /\ peak \in 0..Cardinality(Owners)
    BY <2>2 DEF SettlementInv, Ints, Bounds, SettlementAssumption
  <2> QED
    BY <2>3, <2>4 DEF SettlementInv, Ints, Drafts, Bounds, SettlementTypeOK
<1> QED
  BY <1>1, <1>2, <1>3, SettlementInvariance, PTL DEF SettlementSpec

-----------------------------------------------------------------------------
(***************************************************************************)
(* Contracts: a behaviour of the whole is a behaviour of each part, which  *)
(* moves while its desk is the one exercised and stutters otherwise.       *)
(***************************************************************************)
\* A behaviour of Contracts is one of the deposit, one of the contract's life and one of
\* the settlement: what is proved of a part holds of the whole.
THEOREM ContractsImplementsItsParts == ContractsSpec => DepositSpec /\ LifeSpec /\ SettlementSpec
<1>1. ContractsInit => DepositInit /\ LifeInit /\ SettlementInit
  BY DEF ContractsInit
<1>2. [ContractsNext]_ContractsVars => [DepositNext]_depositVars
  BY DEF ContractsNext, ContractsVars
<1>3. [ContractsNext]_ContractsVars => [LifeNext]_lifeVars
  BY DEF ContractsNext, ContractsVars
<1>4. [ContractsNext]_ContractsVars => [SettlementNext]_settlementVars
  BY DEF ContractsNext, ContractsVars
<1> QED
  BY <1>1, <1>2, <1>3, <1>4, PTL DEF ContractsSpec, DepositSpec, LifeSpec, SettlementSpec

\* Whatever overlaps and wherever a handler stops, every column, quote, charge, line and
\* net stays in its type: none of them falls below zero.
THEOREM ContractsTypeCorrect == ContractsSpec => []ContractsTypeOK
BY ContractsAssumption, ContractsImplementsItsParts, DepositTypeCorrect, LifeTypeCorrect,
   SettlementTypeCorrect, PTL DEF ContractsTypeOK
=============================================================================
