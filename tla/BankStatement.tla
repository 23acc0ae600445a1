--------------------------- MODULE BankStatement ---------------------------
(***************************************************************************)
(* What finance-import.ts computes of a statement without touching the     *)
(* database: amounts read from text, rows put in quarantine, payments      *)
(* suggested for a bank row.                                               *)
(*                                                                         *)
(* A row is a record with a group, which stands for the account, the date  *)
(* and the reference it names, and an amount in minor units.               *)
(***************************************************************************)
EXTENDS Integers, Sequences, FiniteSets, SequencesExt, FiniteSetsExt, Functions

-----------------------------------------------------------------------------
(***************************************************************************)
(* parseAmountToMinor on a text without "$" and blanks: a sequence of      *)
(* one-character strings.                                                  *)
(***************************************************************************)
Digits == <<"0", "1", "2", "3", "4", "5", "6", "7", "8", "9">>
Digit == [c \in ToSet(Digits) |-> (CHOOSE i \in 1..10 : Digits[i] = c) - 1]

Drop(text, c) == SelectSeq(text, LAMBDA x : x # c)
LastAt(text, c) == Max({0} \cup {i \in DOMAIN text : text[i] = c})
FirstAt(text, c) == Min({Len(text) + 1} \cup {i \in DOMAIN text : text[i] = c})
\* String.replace: the first occurrence only.
ReplaceFirst(text, c, by) ==
    [i \in DOMAIN text |-> IF i = FirstAt(text, c) THEN by ELSE text[i]]

\* The separator seen last decides; a lone one with more than two characters
\* behind it separates thousands.
Normalized(text) ==
    LET comma == LastAt(text, ",")
        dot == LastAt(text, ".")
        decimals(at) == Len(text) - at
    IN  CASE comma # 0 /\ dot # 0 ->
                 IF comma > dot THEN ReplaceFirst(Drop(text, "."), ",", ".") ELSE Drop(text, ",")
          [] comma # 0 /\ dot = 0 ->
                 IF decimals(comma) \in 1..2 THEN ReplaceFirst(text, ",", ".") ELSE Drop(text, ",")
          [] comma = 0 /\ dot # 0 -> IF decimals(dot) \in 1..2 THEN text ELSE Drop(text, ".")
          [] OTHER -> text

Value(digits) == FoldLeft(LAMBDA v, c : 10 * v + Digit[c], 0, digits)

\* Number(...) of what is left, times 100 and rounded; -1 stands for the error.
ParseAmountToMinor(text) ==
    LET n == Normalized(text)
        point == FirstAt(n, ".")
        fraction == SubSeq(n, point + 1, Len(n))
        cents(k) == IF k \in DOMAIN fraction THEN Digit[fraction[k]] ELSE 0
    IN  IF \/ text = <<>>
           \/ \E c \in ToSet(n) : c \notin DOMAIN Digit \cup {"."}
           \/ "." \in ToSet(fraction)
           \/ n = <<".">>
        THEN -1
        ELSE 100 * Value(SubSeq(n, 1, point - 1)) + 10 * cents(1) + cents(2)
                 + (IF cents(3) >= 5 THEN 1 ELSE 0)

\* One column for BANCOLOMBIA; DAVIVIENDA has one for each direction, either
\* of which may be empty.
ParsedAmount(bank, cells) ==
    LET column(text) == IF text = <<>> THEN 0 ELSE ParseAmountToMinor(text)
    IN  IF bank = "BANCOLOMBIA" THEN ParseAmountToMinor(cells.valor)
        ELSE column(cells.credito) - column(cells.debito)

-----------------------------------------------------------------------------
\* dedupeKey: its bank is the one of the import under way on both sides.
DedupeKey(row) == <<row.group, row.amount>>

\* decideImport: a group whose rows disagree about the amount is quarantined
\* as a whole.  Rows go by their places in the file.
Disputed(file, i) ==
    \E k \in DOMAIN file : file[k].group = file[i].group /\ file[k].amount # file[i].amount
ToCreate(file) == {i \in DOMAIN file : ~Disputed(file, i)}
Quarantined(file) == DOMAIN file \ ToCreate(file)

\* Group by group, in the order in which the groups first appear.
FirstOfGroup(file, i) == Min({k \in DOMAIN file : file[k].group = file[i].group})
Turn(file, i) == FirstOfGroup(file, i) * Len(file) + i
NextOf(file, places) == CHOOSE i \in places : \A k \in places : Turn(file, i) <= Turn(file, k)

-----------------------------------------------------------------------------
(***************************************************************************)
(* suggestMatches: a bank row and payments, [amount, day, ref] each, where *)
(* ref is a reference of more than three characters or ""; references that *)
(* contain one another are one.                                            *)
(***************************************************************************)
Apart(a, b) == IF a < b THEN b - a ELSE a - b

\* The store reads payments from seven days before up to, not including,
\* seven days after.
PaymentCandidates(tx, payments) ==
    {i \in DOMAIN payments : payments[i].day \in (tx.day - 7)..(tx.day + 6)}

Score(tx, p) ==
    (IF p.amount = tx.amount THEN 50 ELSE 20)
      + Max({0, 30 - 10 * Apart(p.day, tx.day)})
      + (IF p.ref = tx.ref /\ tx.ref # "" THEN 20 ELSE 0)

\* The five best, the earlier one first among equals.
SuggestMatches(tx, payments) ==
    LET near == {i \in PaymentCandidates(tx, payments) :
                     Apart(payments[i].amount, tx.amount) <= 100}
        score(i) == Score(tx, payments[i])
        before(i, j) == score(i) > score(j) \/ (score(i) = score(j) /\ i < j)
        ranked == SetToSortSeq(near, before)
    IN  SubSeq(ranked, 1, Min({5, Len(ranked)}))
=============================================================================
