-------------------------- MODULE TestHarnessProofs --------------------------
(***************************************************************************)
(* Proofs about TestHarness and its TestDataTable.                         *)
(*                                                                         *)
(* First, what the methods of TestDataTable do to the cursor, for every    *)
(* number of columns and rows and whatever is in the cells.                *)
(***************************************************************************)
EXTENDS TestHarness, WellFoundedInduction, TLAPS

(* Rows are full, and the cursor is in a column that is there and in a row *)
(* that is there or in the one after the last.                             *)
Tables(cols, Cell) ==
  [mTable : Seq([1..cols -> Cell]), miCols : {cols},
   miColIndex : 0..(cols - 1), miRowIndex : Nat, outside : BOOLEAN]

WellFormed(t, cols, Cell) ==
  t \in Tables(cols, Cell) /\ t.miRowIndex <= Len(t.mTable)

-----------------------------------------------------------------------------
(* A table stays one when one of its fields is changed.                    *)
LEMMA NewRows ==
  ASSUME NEW cols \in Nat \ {0}, NEW Cell, NEW t, WellFormed(t, cols, Cell),
         NEW table \in Seq([1..cols -> Cell]), t.miRowIndex <= Len(table)
  PROVE  /\ WellFormed([t EXCEPT !.mTable = table], cols, Cell)
         /\ [t EXCEPT !.mTable = table].outside = t.outside
         /\ [t EXCEPT !.mTable = table].mTable = table
  BY DEF WellFormed, Tables

LEMMA NewCol ==
  ASSUME NEW cols \in Nat \ {0}, NEW Cell, NEW t, WellFormed(t, cols, Cell),
         NEW col \in 0..(cols - 1)
  PROVE  /\ WellFormed([t EXCEPT !.miColIndex = col], cols, Cell)
         /\ [t EXCEPT !.miColIndex = col].outside = t.outside
         /\ [t EXCEPT !.miColIndex = col].mTable = t.mTable
  BY DEF WellFormed, Tables

LEMMA NewRowIndex ==
  ASSUME NEW cols \in Nat \ {0}, NEW Cell, NEW t, WellFormed(t, cols, Cell),
         NEW row \in 0..Len(t.mTable)
  PROVE  /\ WellFormed([t EXCEPT !.miRowIndex = row], cols, Cell)
         /\ [t EXCEPT !.miRowIndex = row].miRowIndex = row
  BY DEF WellFormed, Tables

LEMMA NewOutside ==
  ASSUME NEW cols \in Nat \ {0}, NEW Cell, NEW t, WellFormed(t, cols, Cell)
  PROVE  /\ WellFormed([t EXCEPT !.outside = TRUE], cols, Cell)
         /\ [t EXCEPT !.outside = TRUE].outside = TRUE
  BY DEF WellFormed, Tables

(* The cursor is where WellFormed says.                                    *)
LEMMA CursorType ==
  ASSUME NEW cols \in Nat \ {0}, NEW Cell, NEW t, WellFormed(t, cols, Cell)
  PROVE  /\ t.mTable \in Seq([1..cols -> Cell]) /\ Len(t.mTable) \in Nat
         /\ t.miCols = cols /\ t.miColIndex \in 0..(cols - 1)
         /\ t.miRowIndex \in 0..Len(t.mTable)
  BY DEF WellFormed, Tables

-----------------------------------------------------------------------------
LEMMA SetKeepsShape ==
  ASSUME NEW cols \in Nat \ {0}, NEW Cell, NEW s \in Cell,
         NEW t, WellFormed(t, cols, Cell), NEW row \in Nat, NEW col \in 0..(cols - 1)
  PROVE  /\ WellFormed(Set(t, row, col, s), cols, Cell)
         /\ row < Rows(t) => Set(t, row, col, s).outside = t.outside
         /\ row >= Rows(t) => Set(t, row, col, s).outside = TRUE
<1>0. /\ t.mTable \in Seq([1..cols -> Cell]) /\ Len(t.mTable) \in Nat
      /\ t.miCols = cols /\ t.miRowIndex \in 0..Len(t.mTable)
  BY CursorType
<1>1. CASE row < Rows(t)
  <2> DEFINE table == [t.mTable EXCEPT ![row + 1] =
                         [t.mTable[row + 1] EXCEPT ![col + 1] = s]]
  <2>2. t.mTable[row + 1] \in [1..cols -> Cell]
    BY <1>0, <1>1 DEF Rows
  <2>3. [t.mTable[row + 1] EXCEPT ![col + 1] = s] \in [1..cols -> Cell]
    BY <2>2
  <2>4. table \in Seq([1..cols -> Cell]) /\ Len(table) = Len(t.mTable)
    BY <1>0, <1>1, <2>3 DEF Rows
  <2>5. Set(t, row, col, s) = [t EXCEPT !.mTable = table]
    BY <1>0, <1>1 DEF Set, Cols
  <2> HIDE DEF table
  <2>6. t.miRowIndex <= Len(table)
    BY <1>0, <2>4
  <2>7. /\ WellFormed([t EXCEPT !.mTable = table], cols, Cell)
        /\ [t EXCEPT !.mTable = table].outside = t.outside
    BY <2>4, <2>6, NewRows
  <2>8. QED
    BY <1>0, <1>1, <2>5, <2>7 DEF Rows
<1>2. CASE ~(row < Rows(t))
  <2>1. Set(t, row, col, s) = [t EXCEPT !.outside = TRUE]
    BY <1>2 DEF Set
  <2>2. /\ WellFormed([t EXCEPT !.outside = TRUE], cols, Cell)
        /\ [t EXCEPT !.outside = TRUE].outside = TRUE
    BY NewOutside
  <2>3. QED
    BY <1>0, <1>2, <2>1, <2>2 DEF Rows
<1>3. QED
  BY <1>1, <1>2

LEMMA NextColKeepsShape ==
  ASSUME NEW cols \in Nat \ {0}, NEW Cell, NEW t, WellFormed(t, cols, Cell)
  PROVE  WellFormed(NextCol(t), cols, Cell) /\ NextCol(t).outside = t.outside
<1> DEFINE next == IF t.miColIndex + 1 >= cols THEN 0 ELSE t.miColIndex + 1
<1>1. t.miCols = cols /\ t.miColIndex \in 0..(cols - 1)
  BY CursorType
<1>2. next \in 0..(cols - 1)
  BY <1>1
<1>3. NextCol(t) = [t EXCEPT !.miColIndex = next]
  BY <1>1 DEF NextCol, Cols
<1> HIDE DEF next
<1>4. QED
  BY <1>2, <1>3, NewCol

LEMMA InsertRowKeepsShape ==
  ASSUME NEW cols \in Nat \ {0}, NEW Cell, Blank \in Cell,
         NEW t, WellFormed(t, cols, Cell)
  PROVE  WellFormed(InsertRow(t), cols, Cell) /\ Rows(InsertRow(t)) = Rows(t) + 1
<1> DEFINE row == [c \in 1..cols |-> Blank]
           table == Append(t.mTable, row)
<1>1. row \in [1..cols -> Cell]
  OBVIOUS
<1>2. /\ t.mTable \in Seq([1..cols -> Cell]) /\ t.miCols = cols
      /\ Len(t.mTable) \in Nat /\ t.miRowIndex \in 0..Len(t.mTable)
  BY CursorType
<1>3. InsertRow(t) = [t EXCEPT !.mTable = table]
  BY <1>2 DEF InsertRow, Cols
<1> HIDE DEF row
<1>4. table \in Seq([1..cols -> Cell]) /\ Len(table) = Len(t.mTable) + 1
  BY <1>1, <1>2
<1> HIDE DEF table
<1>5. t.miRowIndex <= Len(table)
  BY <1>2, <1>4
<1>6. /\ WellFormed([t EXCEPT !.mTable = table], cols, Cell)
      /\ [t EXCEPT !.mTable = table].mTable = table
  <2>1. table \in Seq([1..cols -> Cell])
    BY <1>4
  <2>2. QED
    BY ONLY <2>1, <1>5, NewRows, WellFormed(t, cols, Cell), cols \in Nat \ {0}
<1>7. QED
  BY <1>3, <1>4, <1>6 DEF Rows

-----------------------------------------------------------------------------
(* However the methods of a table are called, its cursor stays in a column *)
(* that is there and at most one row past the last, and insertCell writes  *)
(* outside the table exactly when nextRow has gone to that row and         *)
(* insertRow has not followed.                                             *)
THEOREM CursorStays ==
  ASSUME NEW cols \in Nat \ {0}, NEW Cell, Blank \in Cell, NEW s \in Cell,
         NEW t, WellFormed(t, cols, Cell)
  PROVE  /\ WellFormed(NewTable(cols), cols, Cell)
         /\ \A u \in {InsertRow(t), NewRow(t), InsertCell(t, s), NextCol(t),
                      NextRow(t), Reset(t), Clear(t)} : WellFormed(u, cols, Cell)
         /\ t.miRowIndex < Rows(t) => InsertCell(t, s).outside = t.outside
         /\ t.miRowIndex = Rows(t) => InsertCell(t, s).outside = TRUE
<1>0. /\ t.mTable \in Seq([1..cols -> Cell]) /\ Len(t.mTable) \in Nat
      /\ t.miCols = cols /\ t.miColIndex \in 0..(cols - 1)
      /\ t.miRowIndex \in 0..Len(t.mTable)
  BY CursorType
<1>1. WellFormed(NewTable(cols), cols, Cell)
  <2>1. <<>> \in Seq([1..cols -> Cell]) /\ Len(<<>>) = 0
    OBVIOUS
  <2>2. QED
    BY <2>1 DEF NewTable, WellFormed, Tables
<1>2. /\ WellFormed(InsertCell(t, s), cols, Cell)
      /\ t.miRowIndex < Rows(t) => InsertCell(t, s).outside = t.outside
      /\ t.miRowIndex = Rows(t) => InsertCell(t, s).outside = TRUE
  <2> DEFINE written == Set(t, t.miRowIndex, t.miColIndex, s)
  <2>1. InsertCell(t, s) = NextCol(written)
    BY <1>0 DEF InsertCell, Cols
  <2>2. /\ WellFormed(written, cols, Cell)
        /\ t.miRowIndex < Rows(t) => written.outside = t.outside
        /\ t.miRowIndex >= Rows(t) => written.outside = TRUE
    <3>1. t.miRowIndex \in Nat
      BY <1>0
    <3>2. QED
      BY <1>0, <3>1, SetKeepsShape
  <2> HIDE DEF written
  <2>3. WellFormed(InsertCell(t, s), cols, Cell)
        /\ InsertCell(t, s).outside = written.outside
    BY <2>1, <2>2, NextColKeepsShape
  <2>4. QED
    BY <1>0, <2>2, <2>3 DEF Rows
<1>3. WellFormed(NextRow(t), cols, Cell)
  <2>1. CASE t.miRowIndex < Rows(t)
    <3> DEFINE moved == [t EXCEPT !.miRowIndex = t.miRowIndex + 1]
    <3>0. t.miRowIndex + 1 \in 0..Len(t.mTable)
      BY <1>0, <2>1 DEF Rows
    <3>1. WellFormed(moved, cols, Cell)
      BY <3>0, NewRowIndex
    <3>2. NextRow(t) = [moved EXCEPT !.miColIndex = 0]
      BY <2>1 DEF NextRow
    <3> HIDE DEF moved
    <3>3. QED
      BY <3>1, <3>2, NewCol
  <2>2. CASE ~(t.miRowIndex < Rows(t))
    BY <2>2 DEF NextRow
  <2>3. QED
    BY <2>1, <2>2
<1>4. WellFormed(Reset(t), cols, Cell) /\ Reset(t).miRowIndex = 0
  <2> DEFINE moved == [t EXCEPT !.miColIndex = 0]
  <2>1. WellFormed(moved, cols, Cell)
    <3>1. 0 \in 0..(cols - 1)
      OBVIOUS
    <3>2. QED
      BY <3>1, NewCol
  <2>2. Reset(t) = [moved EXCEPT !.miRowIndex = 0]
    BY DEF Reset
  <2> HIDE DEF moved
  <2>3. 0 \in 0..Len(moved.mTable)
    BY <2>1, CursorType
  <2>4. QED
    BY <2>1, <2>2, <2>3, NewRowIndex
<1>5. WellFormed(Clear(t), cols, Cell)
  <2>1. /\ <<>> \in Seq([1..cols -> Cell])
        /\ Reset(t).miRowIndex <= Len(<<>>)
    BY <1>4
  <2>2. QED
    BY <1>4, <2>1, NewRows DEF Clear
<1>6. QED
  BY <1>1, <1>2, <1>3, <1>4, <1>5, InsertRowKeepsShape, NextColKeepsShape DEF NewRow

-----------------------------------------------------------------------------
(***************************************************************************)
(* The harness: what a test that has not run says of the loop.             *)
(***************************************************************************)

(* The loop has run every test before the one it is at.                    *)
RunSoFar ==
  /\ phase \in {"loop", "test"} => \A i \in 1..(it - 1) : mbRun[mlistTests[i]]
  /\ phase = "test" => mbRun[mlistTests[it]]

HInv == TypeOK /\ reports \in Nat /\ RunSoFar /\ SkippedOnlyAfterFailure

(* A list of tests, seen as a function.                                    *)
LEMMA ListFacts ==
  ASSUME TypeOK
  PROVE  /\ Len(mlistTests) \in Nat /\ DOMAIN mlistTests = 1..Len(mlistTests)
         /\ \A i \in 1..Len(mlistTests) : mlistTests[i] \in TestCases
         /\ phase \in {"loop", "test"} => it \in 1..Len(mlistTests)
BY DEF TypeOK

LEMMA InitHInv == Init => HInv
<1> SUFFICES ASSUME Init PROVE HInv
  OBVIOUS
<1>1. TypeOK
  BY DEF Init, NewTests, TypeOK, IsInjective
<1>2. reports \in Nat /\ RunSoFar /\ SkippedOnlyAfterFailure
  BY DEF Init, RunSoFar, SkippedOnlyAfterFailure
<1>3. QED
  BY <1>1, <1>2 DEF HInv

LEMMA AddPreserves ==
  ASSUME HInv, NEW t \in TestCases, Add(t)
  PROVE  HInv'
<1> DEFINE n == Len(mlistTests)
<1>1. /\ n \in Nat /\ DOMAIN mlistTests = 1..n
      /\ mlistTests' \in Seq(TestCases) /\ Len(mlistTests') = n + 1
      /\ DOMAIN mlistTests' = 1..(n + 1)
      /\ \A i \in 1..n : mlistTests'[i] = mlistTests[i]
      /\ mlistTests'[n + 1] = t
  BY DEF HInv, TypeOK, Add
<1>2. \A i \in 1..n : mlistTests[i] # t
  BY <1>1 DEF Add, Added, ToSet
<1>3. IsInjective(mlistTests')
  <2>1. \A i, j \in 1..n : mlistTests[i] = mlistTests[j] => i = j
    BY <1>1 DEF HInv, TypeOK, IsInjective
  <2>2. \A i \in 1..(n + 1) : i \in 1..n \/ i = n + 1
    BY <1>1
  <2>3. QED
    BY <1>1, <1>2, <2>1, <2>2 DEF IsInjective
<1>4. TypeOK'
  BY <1>1, <1>3 DEF HInv, TypeOK, Add, tests, options
<1>5. RunSoFar'
  <2>1. phase = "test" => it \in 1..n
    BY <1>1 DEF HInv, TypeOK
  <2>2. QED
    BY <1>1, <2>1 DEF HInv, RunSoFar, Add, tests
<1>6. QED
  BY <1>4, <1>5 DEF HInv, Add, SkippedOnlyAfterFailure

LEMMA RunPreserves == HInv /\ Run => HInv'
<1> SUFFICES ASSUME HInv, Run PROVE HInv'
  OBVIOUS
<1>1. mlistTests # <<>> => 1 \in DOMAIN mlistTests
  BY DEF HInv, TypeOK
<1>2. TypeOK'
  BY <1>1 DEF HInv, TypeOK, Run, tests, options
<1>3. RunSoFar' /\ SkippedOnlyAfterFailure'
  BY DEF Run, RunSoFar, SkippedOnlyAfterFailure
<1>4. QED
  BY <1>2, <1>3 DEF HInv, Run

LEMMA StartTestPreserves == HInv /\ StartTest => HInv'
<1> SUFFICES ASSUME HInv, StartTest PROVE HInv'
  OBVIOUS
<1> DEFINE t == mlistTests[it]
<1>1. /\ phase = "loop" /\ phase' = "test" /\ it' = it
      /\ mlistTests' = mlistTests /\ mbRun' = [mbRun EXCEPT ![t] = TRUE]
  BY DEF StartTest
<1>2. t \in TestCases /\ mbRun \in [TestCases -> BOOLEAN]
  BY <1>1, ListFacts DEF HInv, TypeOK
<1>3. mbRun' \in [TestCases -> BOOLEAN] /\ mbRun'[t]
      /\ \A s \in TestCases : mbRun[s] => mbRun'[s]
  BY <1>1, <1>2
<1>4. TypeOK'
  <2>1. muDotCount' \in 0..79
    BY DEF HInv, TypeOK, StartTest, OutDot
  <2>2. QED
    BY <1>1, <1>3, <2>1 DEF HInv, TypeOK, StartTest, options
<1>5. \A i \in 1..(it - 1) : mbRun[mlistTests[i]] /\ mlistTests[i] \in TestCases
  BY <1>1, ListFacts DEF HInv, RunSoFar
<1>6. RunSoFar' /\ SkippedOnlyAfterFailure'
  BY <1>1, <1>3, <1>5 DEF RunSoFar, SkippedOnlyAfterFailure
<1>7. QED
  BY <1>4, <1>6 DEF HInv, StartTest

(* The place after one that is not the last.                               *)
LEMMA NextPlace ==
  ASSUME NEW n \in Nat, NEW i \in 1..n, NEW j, j = i + 1
  PROVE  j - 1 = i /\ (i # n => j \in 1..n)
OBVIOUS

(* The step that ends the loop, or goes round once more.                   *)
LEMMA EndTestPreserves ==
  ASSUME HInv, NEW pass \in BOOLEAN, NEW message \in Messages,
         EndTest(pass, message)
  PROVE  HInv'
<1> DEFINE t == mlistTests[it]
           n == Len(mlistTests)
<1>1. /\ phase = "test" /\ it' = it + 1
      /\ phase' = IF (~pass /\ mbStopOnError) \/ it = n THEN "report" ELSE "loop"
      /\ mbPass' = [mbPass EXCEPT ![t] = pass]
      /\ mMessage' = [mMessage EXCEPT ![t] = message]
      /\ UNCHANGED <<mlistTests, mbRun, options>>
  BY DEF EndTest, Store
<1>2. n \in Nat /\ DOMAIN mlistTests = 1..n /\ it \in 1..n
  BY <1>1, ListFacts DEF HInv
<1>3. phase' \in {"loop", "test"} => it # n /\ phase' = "loop"
  BY <1>1
<1>4. it' = it + 1 /\ it' - 1 = it /\ (it # n => it' \in 1..n)
  <2>1. it' = it + 1
    BY <1>1
  <2> HIDE DEF n
  <2>2. QED
    BY <1>2, <2>1, NextPlace
<1>5. TypeOK'
  <2>1. mbPass' \in [TestCases -> BOOLEAN]
    BY <1>1 DEF HInv, TypeOK
  <2>2. mMessage' \in [TestCases -> Messages \cup {NoMessage}]
    <3>1. mMessage \in [TestCases -> Messages \cup {NoMessage}]
      BY DEF HInv, TypeOK
    <3>2. mMessage' = [mMessage EXCEPT ![t] = message]
      BY <1>1
    <3> HIDE DEF t
    <3>3. QED
      BY <3>1, <3>2
  <2>3. phase' \in {"loop", "test"} => it' \in DOMAIN mlistTests
    BY <1>2, <1>3, <1>4
  <2>4. phase' \in {"loop", "report"} /\ UNCHANGED <<muDotCount, log, console, reports>>
    BY <1>1 DEF EndTest
  <2>5. QED
    BY <1>1, <2>1, <2>2, <2>3, <2>4 DEF HInv, TypeOK, options
<1>6. \A i \in 1..it : mbRun[mlistTests[i]]
  <2>1. \A i \in 1..it : i \in 1..(it - 1) \/ i = it
    BY <1>2
  <2>2. QED
    BY <1>1, <2>1 DEF HInv, RunSoFar
<1>7. RunSoFar'
  BY <1>1, <1>3, <1>4, <1>6 DEF RunSoFar
<1>8. SkippedOnlyAfterFailure'
  <2>1. SUFFICES ASSUME phase' = "report", NEW i \in DOMAIN mlistTests,
                        ~mbRun[mlistTests[i]]
                 PROVE  /\ mbStopOnError
                        /\ \E j \in 1..(i - 1) : ~mbPass'[mlistTests[j]]
    BY <1>1 DEF SkippedOnlyAfterFailure, options
  <2>2. i \in 1..n /\ i \notin 1..it
    BY <1>2, <1>6, <2>1
  <2>3. it # n /\ it \in 1..(i - 1)
    <3> HIDE DEF n
    <3>1. QED
      BY <1>2, <2>2
  <2>4. ~pass /\ mbStopOnError
    BY <1>1, <2>1, <2>3
  <2>5. ~mbPass'[mlistTests[it]]
    <3>1. t \in TestCases
      BY <1>2, ListFacts DEF HInv
    <3>2. QED
      BY <1>1, <2>4, <3>1 DEF HInv, TypeOK
  <2>6. QED
    BY <2>3, <2>4, <2>5
<1>9. QED
  BY <1>5, <1>7, <1>8 DEF HInv, EndTest

LEMMA ThrowPreserves ==
  ASSUME HInv, NEW message \in Messages, Throw(message)
  PROVE  HInv'
<1>1. mMessage' \in [TestCases -> Messages \cup {NoMessage}]
  BY DEF HInv, TypeOK, Throw
<1>2. TypeOK'
  BY <1>1 DEF HInv, TypeOK, Throw, options
<1>3. RunSoFar' /\ SkippedOnlyAfterFailure'
  BY DEF Throw, RunSoFar, SkippedOnlyAfterFailure
<1>4. QED
  BY <1>2, <1>3 DEF HInv, Throw

LEMMA ReportPreserves == HInv /\ Report => HInv'
<1> SUFFICES ASSUME HInv, Report PROVE HInv'
  OBVIOUS
<1>1. {log', console'} \subseteq 0..reports' /\ reports' \in Nat
  <2>1. log \in 0..reports /\ console \in 0..reports /\ reports \in Nat
    BY DEF HInv, TypeOK
  <2>2. log' \in {log, reports + 1} /\ console' \in {console, reports + 1}
    BY DEF Report, Dump
  <2>3. reports' = reports + 1
    BY DEF Report
  <2>4. QED
    BY <2>1, <2>2, <2>3
<1>2. TypeOK'
  BY <1>1 DEF HInv, TypeOK, Report, tests, options
<1>3. RunSoFar' /\ SkippedOnlyAfterFailure'
  BY DEF Report, RunSoFar, SkippedOnlyAfterFailure
<1>4. QED
  BY <1>1, <1>2, <1>3 DEF HInv

LEMMA DestroyPreserves == HInv /\ Destroy => HInv'
<1> SUFFICES ASSUME HInv, Destroy PROVE HInv'
  OBVIOUS
<1>1. TypeOK'
  BY DEF HInv, TypeOK, Destroy, tests, options, IsInjective
<1>2. RunSoFar' /\ SkippedOnlyAfterFailure'
  BY DEF Destroy, RunSoFar, SkippedOnlyAfterFailure
<1>3. QED
  BY <1>1, <1>2 DEF HInv, Destroy

LEMMA HStep == HInv /\ [Next]_vars => HInv'
<1> SUFFICES ASSUME HInv, [Next]_vars PROVE HInv'
  OBVIOUS
<1>1. CASE \E t \in TestCases : Add(t)
  BY <1>1, AddPreserves
<1>2. CASE Run
  BY <1>2, RunPreserves
<1>3. CASE StartTest
  BY <1>3, StartTestPreserves
<1>4. CASE \E pass \in BOOLEAN, message \in Messages : EndTest(pass, message)
  BY <1>4, EndTestPreserves
<1>5. CASE \E message \in Messages : Throw(message)
  BY <1>5, ThrowPreserves
<1>6. CASE Report
  BY <1>6, ReportPreserves
<1>7. CASE Destroy
  BY <1>7, DestroyPreserves
<1>8. CASE UNCHANGED vars
  BY <1>8 DEF vars, tests, options, HInv, TypeOK, RunSoFar, SkippedOnlyAfterFailure
<1>9. QED
  BY <1>1, <1>2, <1>3, <1>4, <1>5, <1>6, <1>7, <1>8 DEF Next

LEMMA HarnessInvariant == Spec => []HInv
<1>1. QED
  BY InitHInv, HStep, PTL DEF Spec

(* However many tests there are, whatever they return or throw and         *)
(* whichever tests they add, the iterator of run() is at a test, the list  *)
(* has no test twice, and no report is newer than the last.                *)
THEOREM HarnessTypes == Spec => []TypeOK
<1>1. HInv => TypeOK
  BY DEF HInv
<1>2. QED
  BY <1>1, HarnessInvariant, PTL

(* A test is reported as not run only when run() stopped at a failed test  *)
(* before it: the loop reaches the tests that running tests have added.    *)
THEOREM NothingSkippedSilently == Spec => []SkippedOnlyAfterFailure
<1>1. HInv => SkippedOnlyAfterFailure
  BY DEF HInv
<1>2. QED
  BY <1>1, HarnessInvariant, PTL

-----------------------------------------------------------------------------
(***************************************************************************)
(* The report.  What insertCell and the loop over the tests make of the    *)
(* table is given as a closed form: it exists, and the recursive functions *)
(* of the model are equal to it, step by step.                             *)
(***************************************************************************)

(* A set of numbers that is not empty has a least one.                     *)
LEMMA Smallest ==
  ASSUME NEW T \in SUBSET Nat, T # {}
  PROVE  \E i \in T : \A j \in T : ~(j < i)
<1>1. PICK i \in T : \A j \in T : ~(<<j, i>> \in OpToRel(<, Nat))
  BY WFMin, NatLessThanWellFounded
<1>2. QED
  BY <1>1 DEF OpToRel

(* Two functions that start alike, and stay alike at each step, are alike. *)
LEMMA SameSteps ==
  ASSUME NEW n \in Nat, NEW f, NEW g, f[0] = g[0],
         \A i \in 1..n : f[i - 1] = g[i - 1] => f[i] = g[i]
  PROVE  f[n] = g[n]
<1> DEFINE bad == {i \in 0..n : f[i] # g[i]}
<1>0. SUFFICES ASSUME f[n] # g[n] PROVE FALSE
  OBVIOUS
<1>1. bad # {}
  BY <1>0
<1>2. PICK i \in bad : \A j \in bad : ~(j < i)
  <2>1. bad \in SUBSET Nat
    OBVIOUS
  <2>2. QED
    BY <1>1, <2>1, Smallest
<1>3. i \in 1..n /\ i - 1 \in 0..n /\ i - 1 < i
  BY <1>2
<1>4. f[i - 1] = g[i - 1]
  BY <1>2, <1>3
<1>5. QED
  BY <1>2, <1>3, <1>4

(* The table of the harness with the given rows and cursor.  Rows are      *)
(* followed without a set that cells are taken from: a grid is a sequence  *)
(* of m rows of six cells.                                                 *)
Tab(rows, k, col) == [mTable |-> rows, miCols |-> 6, miColIndex |-> col,
                      miRowIndex |-> k, outside |-> FALSE]

BlankRow == [c \in 1..6 |-> Blank]

IsCell(s) == s = [text |-> s.text, width |-> s.width]
IsRow(r) == r = [c \in 1..6 |-> r[c]] /\ \A c \in 1..6 : IsCell(r[c])

Grid(rows, m) ==
  rows = [j \in 1..m |-> rows[j]] /\ \A j \in 1..m : IsRow(rows[j])

(* A grid is a sequence.                                                   *)
LEMMA GridLen ==
  ASSUME NEW m \in Nat, NEW rows, Grid(rows, m)
  PROVE  rows \in Seq({rows[j] : j \in 1..m}) /\ Len(rows) = m
<1> DEFINE S == {rows[j] : j \in 1..m}
<1>1. rows \in [1..m -> S]
  BY DEF Grid
<1>2. QED
  BY <1>1

LEMMA Appended ==
  ASSUME NEW m \in Nat, NEW rows, Grid(rows, m), NEW row
  PROVE  Append(rows, row) = [j \in 1..(m + 1) |-> IF j <= m THEN rows[j] ELSE row]
<1> DEFINE S == {rows[j] : j \in 1..m} \cup {row}
<1>1. rows \in [1..m -> S] /\ Len(rows) = m
  BY GridLen DEF Grid
<1>2. rows \in Seq(S)
  BY <1>1
<1>3. Append(rows, row) \in Seq(S) /\ Len(Append(rows, row)) = m + 1
  BY <1>1, <1>2
<1>4. \A j \in 1..(m + 1) : Append(rows, row)[j] = IF j <= m THEN rows[j] ELSE row
  BY <1>1, <1>2
<1>5. Append(rows, row) \in [1..(m + 1) -> S]
  <2>1. ASSUME NEW q \in Seq(S), Len(q) = m + 1 PROVE q \in [1..(m + 1) -> S]
    BY <2>1
  <2>2. QED
    BY <1>3, <2>1
<1>6. QED
  BY <1>4, <1>5
(* The methods, on such a table.                                           *)
LEMMA InsertRowIs ==
  ASSUME NEW rows, NEW k, NEW c
  PROVE  InsertRow(Tab(rows, k, c)) = Tab(Append(rows, BlankRow), k, c)
<1> DEFINE t == Tab(rows, k, c)
<1>1. InsertRow(t) = [t EXCEPT !.mTable = Append(rows, BlankRow)]
  BY DEF InsertRow, Tab, Cols, BlankRow
<1>2. QED
  BY <1>1 DEF Tab

LEMMA NextRowIs ==
  ASSUME NEW rows, NEW k \in Nat, NEW c, k < Len(rows)
  PROVE  NextRow(Tab(rows, k, c)) = Tab(rows, k + 1, 0)
BY DEF NextRow, Tab, Rows

LEMMA InsertCellIs ==
  ASSUME NEW rows, NEW k \in Nat, NEW c \in 0..5, k < Len(rows), NEW s
  PROVE  InsertCell(Tab(rows, k, c), s)
           = Tab([rows EXCEPT ![k + 1] = [rows[k + 1] EXCEPT ![c + 1] = s]],
                 k, IF c = 5 THEN 0 ELSE c + 1)
<1> DEFINE t == Tab(rows, k, c)
           row == [rows[k + 1] EXCEPT ![c + 1] = s]
           new == [rows EXCEPT ![k + 1] = row]
           u == Tab(new, k, c)
<1>1. Set(t, k, c, s) = [t EXCEPT !.mTable = new]
  BY DEF Set, Tab, Rows, Cols
<1>2. Set(t, k, c, s) = u
  BY <1>1 DEF Tab
<1>3. InsertCell(t, s) = NextCol(u)
  BY <1>2 DEF InsertCell, Tab, Cols
<1>4. NextCol(u) = [u EXCEPT !.miColIndex = IF c = 5 THEN 0 ELSE c + 1]
  <2>1. u.miColIndex = c /\ Cols(u) = 6
    BY DEF Tab, Cols
  <2>2. (c + 1 >= 6) <=> c = 5
    OBVIOUS
  <2> HIDE DEF u
  <2>3. QED
    BY <2>1, <2>2 DEF NextCol
<1>5. QED
  BY <1>3, <1>4 DEF Tab

(* What insertCell makes of the table, one text after another, is any      *)
(* function that takes the same steps.                                     *)
LEMMA InsertCellsIs ==
  ASSUME NEW table, NEW texts, Len(texts) \in Nat, NEW closed,
         closed = [i \in 0..Len(texts) |->
                     IF i = 0 THEN table ELSE InsertCell(closed[i - 1], Cells(texts)[i])]
  PROVE  InsertCells(table, texts) = closed[Len(texts)]
<1> DEFINE Steps(f) == [i \in 0..Len(texts) |->
                         IF i = 0 THEN table ELSE InsertCell(f[i - 1], Cells(texts)[i])]
           after[i \in 0..Len(texts)] ==
             IF i = 0 THEN table ELSE InsertCell(after[i - 1], Cells(texts)[i])
<1>1. \E f : f = Steps(f)
  OBVIOUS
<1>2. after = Steps(after)
  BY <1>1
<1>3. InsertCells(table, texts) = after[Len(texts)]
  BY DEF InsertCells
<1> HIDE DEF after
<1>4. after[0] = closed[0]
  BY <1>2
<1>5. ASSUME NEW i \in 1..Len(texts), after[i - 1] = closed[i - 1] PROVE after[i] = closed[i]
  BY <1>2, <1>5
<1>6. QED
  BY <1>3, <1>4, <1>5, SameSteps

(* The texts of a row.                                                     *)
IsText(texts) == texts = [c \in 1..6 |-> texts[c]] /\ Len(texts) = 6

LEMMA CellsRow ==
  ASSUME NEW texts, IsText(texts)
  PROVE  /\ IsRow(Cells(texts))
         /\ \A c \in 1..6 : Cells(texts)[c] = [text |-> texts[c], width |-> 0]
<1>1. DOMAIN texts = 1..6
  BY DEF IsText
<1>2. QED
  BY <1>1 DEF IsRow, IsCell, Cells

(* Six calls of insertCell at the start of a row that is there fill it and *)
(* leave the cursor at its start, and touch nothing else.                  *)
LEMMA RowWritten ==
  ASSUME NEW m \in Nat, NEW rows, Grid(rows, m), NEW k \in 0..(m - 1),
         NEW texts, IsText(texts)
  PROVE  InsertCells(Tab(rows, k, 0), texts)
           = Tab([rows EXCEPT ![k + 1] = Cells(texts)], k, 0)
<1> DEFINE table == Tab(rows, k, 0)
           part(i) == [c \in 1..6 |-> IF c <= i THEN Cells(texts)[c] ELSE rows[k + 1][c]]
           grid(i) == [rows EXCEPT ![k + 1] = part(i)]
           closed == [i \in 0..6 |-> Tab(grid(i), k, IF i = 6 THEN 0 ELSE i)]
<1>1. k + 1 \in 1..m /\ k \in Nat /\ DOMAIN rows = 1..m /\ Len(texts) = 6
  BY DEF Grid, IsText
<1>2. rows[k + 1] = [c \in 1..6 |-> rows[k + 1][c]]
  BY <1>1 DEF Grid, IsRow
<1>3. Cells(texts) = [c \in 1..6 |-> Cells(texts)[c]]
  BY CellsRow DEF IsRow
<1>4. closed[0] = table
  <2>1. part(0) = rows[k + 1]
    <3>1. part(0) = [c \in 1..6 |-> rows[k + 1][c]]
      OBVIOUS
    <3>2. QED
      BY <1>2, <3>1
  <2> HIDE DEF part
  <2>2. grid(0) = rows
    BY <1>1, <2>1 DEF Grid
  <2> HIDE DEF grid
  <2>3. QED
    BY <2>2
<1>5. closed[6] = Tab([rows EXCEPT ![k + 1] = Cells(texts)], k, 0)
  <2>1. part(6) = Cells(texts)
    <3>1. part(6) = [c \in 1..6 |-> Cells(texts)[c]]
      OBVIOUS
    <3>2. QED
      BY <1>3, <3>1
  <2>2. grid(6) = [rows EXCEPT ![k + 1] = Cells(texts)]
    BY <2>1
  <2> HIDE DEF part, grid
  <2>3. closed[6] = Tab(grid(6), k, 0)
    OBVIOUS
  <2> HIDE DEF closed
  <2>4. QED
    BY <2>2, <2>3, Zenon
<1>6. ASSUME NEW i \in 1..6
      PROVE  InsertCell(closed[i - 1], Cells(texts)[i]) = closed[i]
  <2> DEFINE cell == Cells(texts)[i]
  <2>0. i - 1 \in 0..5 /\ i - 1 \in 0..6 /\ (i - 1) + 1 = i /\ i - 1 # 6
    OBVIOUS
  <2>1. closed[i - 1] = Tab(grid(i - 1), k, i - 1)
    BY <2>0
  <2>2. Len(grid(i - 1)) = m
    <3>1. rows \in Seq({rows[j] : j \in 1..m}) /\ Len(rows) = m
      BY GridLen
    <3> HIDE DEF part
    <3>2. rows \in Seq({rows[j] : j \in 1..m} \cup {part(i - 1)})
      BY <1>1 DEF Grid
    <3>3. QED
      BY <1>1, <3>1, <3>2
  <2>3. grid(i - 1)[k + 1] = part(i - 1)
    BY <1>1
  <2>4. [part(i - 1) EXCEPT ![i] = cell] = part(i)
    <3>1. ASSUME NEW c \in 1..6
          PROVE  [part(i - 1) EXCEPT ![i] = cell][c] = part(i)[c]
      <4>1. c = i \/ (c <= i <=> c <= i - 1)
        OBVIOUS
      <4>2. QED
        BY <4>1
    <3>2. QED
      BY <3>1
  <2> HIDE DEF part, cell
  <2>5. [grid(i - 1) EXCEPT ![k + 1] = part(i)] = grid(i)
    BY <1>1
  <2> HIDE DEF grid, closed
  <2>6. InsertCell(Tab(grid(i - 1), k, i - 1), cell)
          = Tab([grid(i - 1) EXCEPT ![k + 1] =
                   [grid(i - 1)[k + 1] EXCEPT ![(i - 1) + 1] = cell]],
                k, IF i - 1 = 5 THEN 0 ELSE (i - 1) + 1)
    BY <1>1, <2>0, <2>2, InsertCellIs, SMTT(30)
  <2>7. InsertCell(Tab(grid(i - 1), k, i - 1), cell)
          = Tab(grid(i), k, IF i = 6 THEN 0 ELSE i)
    BY <2>0, <2>3, <2>4, <2>5, <2>6
  <2>8. QED
    BY <2>1, <2>7 DEF closed, cell
<1> HIDE DEF part, grid
<1>7. closed = [i \in 0..Len(texts) |->
                  IF i = 0 THEN table
                  ELSE InsertCell(closed[i - 1], Cells(texts)[i])]
  <2>1. ASSUME NEW i \in 0..6
        PROVE  closed[i] = IF i = 0 THEN table
                           ELSE InsertCell(closed[i - 1], Cells(texts)[i])
    <3>1. i = 0 \/ i \in 1..6
      OBVIOUS
    <3> HIDE DEF closed, table
    <3>2. QED
      BY <1>4, <1>6, <3>1
  <2>2. closed = [i \in 0..6 |-> closed[i]]
    OBVIOUS
  <2> HIDE DEF closed, table
  <2>3. QED
    BY <1>1, <2>1, <2>2
<1> HIDE DEF closed, table
<1>8. InsertCells(table, texts) = closed[6]
  <2>1. Len(texts) \in Nat
    BY <1>1
  <2>2. InsertCells(table, texts) = closed[Len(texts)]
    BY <1>7, <2>1, InsertCellsIs
  <2>3. QED
    BY <1>1, <2>2
<1>9. QED
  BY <1>5, <1>8 DEF table

(* A grid stays one.                                                       *)
LEMMA GridSet ==
  ASSUME NEW m \in Nat, NEW rows, Grid(rows, m), NEW k \in 1..m, NEW r, IsRow(r)
  PROVE  Grid([rows EXCEPT ![k] = r], m)
BY DEF Grid

LEMMA GridAppend ==
  ASSUME NEW m \in Nat, NEW rows, Grid(rows, m)
  PROVE  Grid(Append(rows, BlankRow), m + 1) /\ Len(Append(rows, BlankRow)) = m + 1
<1>1. IsRow(BlankRow)
  BY DEF IsRow, BlankRow, IsCell, Blank
<1>2. Append(rows, BlankRow)
        = [j \in 1..(m + 1) |-> IF j <= m THEN rows[j] ELSE BlankRow]
  BY Appended
<1>3. Grid(Append(rows, BlankRow), m + 1)
  <2> DEFINE new == [j \in 1..(m + 1) |-> IF j <= m THEN rows[j] ELSE BlankRow]
  <2>1. \A j \in 1..(m + 1) : IsRow(new[j])
    BY <1>1 DEF Grid
  <2>2. Grid(new, m + 1)
    BY <2>1 DEF Grid
  <2>3. QED
    BY <1>2, <2>2
<1>4. m + 1 \in Nat
  OBVIOUS
<1>5. QED
  BY <1>3, <1>4, GridLen

(* insertRow and nextRow: the cursor is in a row that is there.            *)
LEMMA NewLineIs ==
  ASSUME NEW m \in Nat, NEW rows, Grid(rows, m), NEW k \in 0..m, NEW c
  PROVE  NewLine(Tab(rows, k, c)) = Tab(Append(rows, BlankRow), k + 1, 0)
<1>1. InsertRow(Tab(rows, k, c)) = Tab(Append(rows, BlankRow), k, c)
  BY InsertRowIs
<1>2. k < Len(Append(rows, BlankRow)) /\ k \in Nat
  BY GridAppend
<1>3. QED
  BY <1>1, <1>2, NextRowIs DEF NewLine

(* The same for the loop over the tests.                                   *)
LEMMA InsertResultsIs ==
  ASSUME NEW table, Len(mlistTests) \in Nat, NEW closed,
         closed = [i \in 0..Len(mlistTests) |->
                     IF i = 0 THEN table ELSE InsertCells(NewLine(closed[i - 1]), Result(i))]
  PROVE  InsertResults(table) = closed[Len(mlistTests)]
<1> DEFINE Steps(f) == [i \in 0..Len(mlistTests) |->
                         IF i = 0 THEN table ELSE InsertCells(NewLine(f[i - 1]), Result(i))]
           after[i \in 0..Len(mlistTests)] ==
             IF i = 0 THEN table ELSE InsertCells(NewLine(after[i - 1]), Result(i))
<1>1. \E f : f = Steps(f)
  OBVIOUS
<1>2. after = Steps(after)
  BY <1>1
<1>3. InsertResults(table) = after[Len(mlistTests)]
  BY DEF InsertResults
<1> HIDE DEF after
<1>4. after[0] = closed[0]
  BY <1>2
<1>5. ASSUME NEW i \in 1..Len(mlistTests), after[i - 1] = closed[i - 1] PROVE after[i] = closed[i]
  BY <1>2, <1>5
<1>6. QED
  BY <1>3, <1>4, <1>5, SameSteps

(* Every row that is written has six texts.                                *)
LEMMA Texts ==
  IsText(Totals) /\ IsText(Titles) /\ \A i : IsText(Result(i))
<1>1. \A a, b, c, d, e, f : IsText(<<a, b, c, d, e, f>>)
  BY DEF IsText
<1>2. QED
  BY <1>1 DEF Totals, Titles, Result

(* The rows after i tests, when there were m and the cursor was in the one *)
(* of index k.                                                             *)
Filled(rows, m, k, i) ==
  [j \in 1..(m + i) |->
     IF j \in (k + 2)..(k + 1 + i) THEN Cells(Result(j - k - 1))
     ELSE IF j <= m THEN rows[j] ELSE BlankRow]

LEMMA FilledGrid ==
  ASSUME NEW m \in Nat, NEW rows, Grid(rows, m), NEW k \in 0..(m - 1), NEW i \in Nat
  PROVE  Grid(Filled(rows, m, k, i), m + i)
<1>1. \A j : IsRow(Cells(Result(j)))
  BY Texts, CellsRow
<1>2. IsRow(BlankRow)
  BY DEF IsRow, BlankRow, IsCell, Blank
<1>3. \A j \in 1..(m + i) : IsRow(Filled(rows, m, k, i)[j])
  BY <1>1, <1>2 DEF Filled, Grid
<1>4. Filled(rows, m, k, i) = [j \in 1..(m + i) |-> Filled(rows, m, k, i)[j]]
  BY DEF Filled
<1>5. QED
  BY <1>3, <1>4 DEF Grid

(* One test more.                                                          *)
LEMMA NextFilled ==
  ASSUME NEW m \in Nat, NEW rows, Grid(rows, m), NEW k \in 0..(m - 1),
         NEW i \in Nat \ {0}, NEW old, old = Filled(rows, m, k, i - 1)
  PROVE  [Append(old, BlankRow) EXCEPT ![k + i + 1] = Cells(Result(i))]
           = Filled(rows, m, k, i)
<1>1. PICK M \in Nat : M = m + (i - 1)
  OBVIOUS
<1>2. PICK more : more = Append(old, BlankRow)
  OBVIOUS
<1>3. Grid(old, M)
  BY <1>1, FilledGrid
<1>4. more = [j \in 1..(M + 1) |-> IF j <= M THEN old[j] ELSE BlankRow]
  BY <1>2, <1>3, Appended
<1>5. M + 1 = m + i
  BY <1>1
<1>6. ASSUME NEW j \in 1..(m + i)
      PROVE  [more EXCEPT ![k + i + 1] = Cells(Result(i))][j]
               = Filled(rows, m, k, i)[j]
  <2>1. CASE j = k + i + 1
    BY <1>4, <1>5, <2>1 DEF Filled
  <2>2. CASE j # k + i + 1 /\ j <= M
    <3>1. j \in 1..M /\ j \in 1..(m + (i - 1))
      BY <1>1, <2>2
    <3>2. j \in (k + 2)..(k + 1 + i) <=> j \in (k + 2)..(k + 1 + (i - 1))
      BY <2>2
    <3>3. [more EXCEPT ![k + i + 1] = Cells(Result(i))][j] = old[j]
      BY <1>4, <1>5, <2>2
    <3>4. QED
      BY <3>1, <3>2, <3>3 DEF Filled
  <2>3. CASE j # k + i + 1 /\ ~(j <= M)
    <3>1. j \notin (k + 2)..(k + 1 + i) /\ ~(j <= m)
      BY <1>1, <2>3
    <3>2. [more EXCEPT ![k + i + 1] = Cells(Result(i))][j] = BlankRow
      BY <1>4, <1>5, <2>3
    <3>3. QED
      BY <3>1, <3>2 DEF Filled
  <2>4. QED
    BY <2>1, <2>2, <2>3
<1>7. Filled(rows, m, k, i) = [j \in 1..(m + i) |-> Filled(rows, m, k, i)[j]]
  BY DEF Filled
<1>8. [more EXCEPT ![k + i + 1] = Cells(Result(i))] = Filled(rows, m, k, i)
  BY <1>4, <1>5, <1>6, <1>7
<1>9. QED
  BY <1>2, <1>8

LEMMA ResultsInserted ==
  ASSUME Len(mlistTests) \in Nat,
         NEW m \in Nat, NEW rows, Grid(rows, m), NEW k \in 0..(m - 1)
  PROVE  InsertResults(Tab(rows, k, 0))
           = Tab(Filled(rows, m, k, Len(mlistTests)), k + Len(mlistTests), 0)
<1> DEFINE n == Len(mlistTests)
           F(i) == Filled(rows, m, k, i)
           closed == [i \in 0..n |-> Tab(F(i), k + i, 0)]
           table == Tab(rows, k, 0)
<1>1. closed[0] = table
  <2>1. F(0) = [j \in 1..m |-> rows[j]]
    BY DEF Filled
  <2>2. F(0) = rows
    BY <2>1 DEF Grid
  <2>3. k + 0 = k /\ 0 \in 0..n
    OBVIOUS
  <2> HIDE DEF F
  <2>4. QED
    BY <2>2, <2>3
<1>2. ASSUME NEW i \in 1..n
      PROVE  InsertCells(NewLine(closed[i - 1]), Result(i)) = closed[i]
  <2> DEFINE M == m + (i - 1)
             K == k + (i - 1)
             more == Append(F(i - 1), BlankRow)
  <2>1. /\ M \in Nat /\ K \in 0..M /\ K + 1 \in 0..((M + 1) - 1) /\ M + 1 \in Nat
        /\ i - 1 \in Nat /\ i - 1 \in 0..n /\ K + 1 = k + i /\ M + 1 = m + i
        /\ (K + 1) + 1 = k + i + 1
    OBVIOUS
  <2>2. Grid(F(i - 1), M)
    BY <2>1, FilledGrid
  <2>3. closed[i - 1] = Tab(F(i - 1), K, 0)
    BY <2>1
  <2>4. [more EXCEPT ![k + i + 1] = Cells(Result(i))] = F(i)
    <3>1. i \in Nat \ {0}
      OBVIOUS
    <3> HIDE DEF F
    <3>2. QED
      BY <3>1, NextFilled DEF F
  <2> HIDE DEF F, closed, M, K
  <2>5. NewLine(closed[i - 1]) = Tab(more, K + 1, 0)
    BY <2>1, <2>2, <2>3, NewLineIs
  <2>6. Grid(more, M + 1)
    BY <2>1, <2>2, GridAppend
  <2> HIDE DEF more
  <2>7. InsertCells(Tab(more, K + 1, 0), Result(i))
          = Tab([more EXCEPT ![(K + 1) + 1] = Cells(Result(i))], K + 1, 0)
    BY <2>1, <2>6, Texts, RowWritten
  <2>8. InsertCells(Tab(more, K + 1, 0), Result(i)) = Tab(F(i), k + i, 0)
    BY <2>1, <2>4, <2>7
  <2>9. QED
    BY <2>5, <2>8 DEF closed
<1> HIDE DEF F
<1>3. closed = [i \in 0..n |->
                  IF i = 0 THEN table ELSE InsertCells(NewLine(closed[i - 1]), Result(i))]
  <2>1. ASSUME NEW i \in 0..n
        PROVE  closed[i] = IF i = 0 THEN table
                           ELSE InsertCells(NewLine(closed[i - 1]), Result(i))
    <3>1. i = 0 \/ i \in 1..n
      OBVIOUS
    <3> HIDE DEF closed, table
    <3>2. QED
      BY <1>1, <1>2, <3>1
  <2>2. closed = [i \in 0..n |-> closed[i]]
    OBVIOUS
  <2> HIDE DEF closed, table
  <2>3. QED
    BY <2>1, <2>2
<1>4. closed[n] = Tab(F(n), k + n, 0)
  OBVIOUS
<1> HIDE DEF closed, table
<1>5. InsertResults(table) = closed[n]
  BY <1>3, InsertResultsIs
<1>6. QED
  BY <1>4, <1>5 DEF table, F

(* formatResults: the totals go into the row of the cursor, the titles     *)
(* into the next, and the tests into those that follow.                    *)
Headed(rows, k) ==
  LET first == [Append(rows, BlankRow) EXCEPT ![k + 1] = Cells(Totals)]
  IN [Append(first, BlankRow) EXCEPT ![k + 2] = Cells(Titles)]

Reported(rows, m, k) == Filled(Headed(rows, k), m + 2, k + 1, Len(mlistTests))

LEMMA FormatIs ==
  ASSUME Len(mlistTests) \in Nat, NEW m \in Nat, NEW rows, Grid(rows, m),
         NEW k \in 0..m
  PROVE  /\ FormatResults(Tab(rows, k, 0))
              = Tab(Reported(rows, m, k), k + 1 + Len(mlistTests), 0)
         /\ Grid(Headed(rows, k), m + 2)
         /\ Grid(Reported(rows, m, k), m + 2 + Len(mlistTests))
<1> DEFINE n == Len(mlistTests)
           first == [Append(rows, BlankRow) EXCEPT ![k + 1] = Cells(Totals)]
           second == [Append(first, BlankRow) EXCEPT ![k + 2] = Cells(Titles)]
<1>1. /\ m + 1 \in Nat /\ m + 2 \in Nat /\ k + 1 \in 1..(m + 1) /\ k + 2 \in 1..(m + 2)
      /\ k \in 0..((m + 1) - 1) /\ k \in 0..(m + 1) /\ k + 1 \in 0..((m + 2) - 1)
      /\ (k + 1) + 1 = k + 2 /\ (m + 1) + 1 = m + 2
  OBVIOUS
<1>2. IsRow(Cells(Totals)) /\ IsRow(Cells(Titles))
  BY Texts, CellsRow
<1>3. Grid(Append(rows, BlankRow), m + 1)
  BY GridAppend
<1>4. Grid(first, m + 1)
  BY <1>1, <1>2, <1>3, GridSet
<1>5. Grid(Append(first, BlankRow), m + 2)
  BY <1>1, <1>4, GridAppend
<1>6. Grid(second, m + 2)
  BY <1>1, <1>2, <1>5, GridSet
<1> HIDE DEF first, second
<1>7. InsertRow(Tab(rows, k, 0)) = Tab(Append(rows, BlankRow), k, 0)
  BY InsertRowIs
<1>8. InsertCells(Tab(Append(rows, BlankRow), k, 0), Totals) = Tab(first, k, 0)
  <2>1. IsText(Totals)
    BY Texts
  <2> DEFINE more == Append(rows, BlankRow)
             M == m + 1
  <2>2. Grid(more, M) /\ M \in Nat /\ k \in 0..(M - 1)
    BY <1>1, <1>3
  <2>3. first = [more EXCEPT ![k + 1] = Cells(Totals)]
    BY DEF first
  <2> HIDE DEF more, M
  <2>4. InsertCells(Tab(more, k, 0), Totals)
          = Tab([more EXCEPT ![k + 1] = Cells(Totals)], k, 0)
    BY <2>1, <2>2, RowWritten
  <2>5. QED
    BY <2>3, <2>4 DEF more
<1>9. NewLine(Tab(first, k, 0)) = Tab(Append(first, BlankRow), k + 1, 0)
  BY <1>1, <1>4, NewLineIs
<1>10. InsertCells(Tab(Append(first, BlankRow), k + 1, 0), Titles) = Tab(second, k + 1, 0)
  <2>1. IsText(Titles)
    BY Texts
  <2> DEFINE more == Append(first, BlankRow)
             M == m + 2
             K == k + 1
  <2>2. Grid(more, M) /\ M \in Nat /\ K \in 0..(M - 1) /\ K + 1 = k + 2
    BY <1>1, <1>5
  <2>3. second = [more EXCEPT ![k + 2] = Cells(Titles)]
    BY DEF second
  <2> HIDE DEF more, M, K
  <2>4. InsertCells(Tab(more, K, 0), Titles)
          = Tab([more EXCEPT ![K + 1] = Cells(Titles)], K, 0)
    BY <2>1, <2>2, RowWritten
  <2>5. InsertCells(Tab(more, K, 0), Titles) = Tab(second, K, 0)
    BY <2>2, <2>3, <2>4
  <2>6. QED
    BY <2>5 DEF more, K
<1>11. InsertResults(Tab(second, k + 1, 0))
         = Tab(Filled(second, m + 2, k + 1, n), (k + 1) + n, 0)
  BY <1>1, <1>6, ResultsInserted
<1>12. second = Headed(rows, k)
  BY DEF first, second, Headed
<1>13. Grid(Reported(rows, m, k), m + 2 + n)
  BY <1>1, <1>6, <1>12, FilledGrid DEF Reported
<1>14. FormatResults(Tab(rows, k, 0)) = InsertResults(Tab(second, k + 1, 0))
  BY <1>7, <1>8, <1>9, <1>10 DEF FormatResults
<1>15. QED
  BY <1>6, <1>11, <1>12, <1>13, <1>14 DEF Reported

(* adjustCols gives every cell the width of its column and keeps its text. *)
Adjusted(rows, m) ==
  [i \in 1..m |-> [j \in 1..6 |-> [rows[i][j] EXCEPT !.width = maColWidths[j]]]]

LEMMA AdjustIs ==
  ASSUME NEW m \in Nat, NEW rows, Grid(rows, m), NEW k
  PROVE  /\ AdjustCols(Tab(rows, k, 0)) = Tab(Adjusted(rows, m), k, 0)
         /\ Grid(Adjusted(rows, m), m) /\ Len(Adjusted(rows, m)) = m
         /\ \A i \in 1..m, j \in 1..6 :
              /\ Adjusted(rows, m)[i][j].width = maColWidths[j]
              /\ Adjusted(rows, m)[i][j].text = rows[i][j].text
<1>1. DOMAIN rows = 1..m /\ \A i \in 1..m : DOMAIN rows[i] = 1..6
  BY DEF Grid, IsRow
<1>2. [i \in DOMAIN rows |-> [j \in DOMAIN rows[i] |->
         [rows[i][j] EXCEPT !.width = maColWidths[j]]]] = Adjusted(rows, m)
  BY <1>1 DEF Adjusted
<1>3. AdjustCols(Tab(rows, k, 0)) = Tab(Adjusted(rows, m), k, 0)
  <2> DEFINE t == Tab(rows, k, 0)
             new == [i \in DOMAIN rows |-> [j \in DOMAIN rows[i] |->
                       [rows[i][j] EXCEPT !.width = maColWidths[j]]]]
  <2>1. AdjustCols(t) = [t EXCEPT !.mTable = new]
    BY DEF AdjustCols, Tab
  <2>2. new = Adjusted(rows, m)
    BY <1>2
  <2> HIDE DEF new
  <2>3. QED
    BY <2>1, <2>2 DEF Tab
<1>4. ASSUME NEW i \in 1..m, NEW j \in 1..6
      PROVE  /\ Adjusted(rows, m)[i][j] = [text |-> rows[i][j].text, width |-> maColWidths[j]]
  <2>1. rows[i][j] = [text |-> rows[i][j].text, width |-> rows[i][j].width]
    BY DEF Grid, IsRow, IsCell
  <2>2. \A a, b, c : [[text |-> a, width |-> b] EXCEPT !.width = c]
                       = [text |-> a, width |-> c]
    OBVIOUS
  <2>3. Adjusted(rows, m)[i][j] = [rows[i][j] EXCEPT !.width = maColWidths[j]]
    BY DEF Adjusted
  <2>4. QED
    BY <2>1, <2>2, <2>3
<1>5. Grid(Adjusted(rows, m), m)
  <2>1. \A i \in 1..m, j \in 1..6 : IsCell(Adjusted(rows, m)[i][j])
    <3>1. \A a, b : IsCell([text |-> a, width |-> b])
      BY DEF IsCell
    <3>2. QED
      BY <1>4, <3>1
  <2>2. \A i \in 1..m : Adjusted(rows, m)[i] = [j \in 1..6 |-> Adjusted(rows, m)[i][j]]
    BY DEF Adjusted
  <2>3. Adjusted(rows, m) = [i \in 1..m |-> Adjusted(rows, m)[i]]
    BY DEF Adjusted
  <2>4. QED
    BY <2>1, <2>2, <2>3 DEF Grid, IsRow
<1>6. Len(Adjusted(rows, m)) = m
  BY <1>5, GridLen
<1>7. ASSUME NEW i \in 1..m, NEW j \in 1..6
      PROVE  /\ Adjusted(rows, m)[i][j].width = maColWidths[j]
             /\ Adjusted(rows, m)[i][j].text = rows[i][j].text
  <2> DEFINE s == Adjusted(rows, m)[i][j]
             text == rows[i][j].text
             width == maColWidths[j]
  <2>1. s = [text |-> text, width |-> width]
    BY <1>4
  <2> HIDE DEF s, text, width
  <2>2. s.width = width /\ s.text = text
    BY <2>1
  <2>3. QED
    BY <2>2 DEF s, text, width
<1>8. QED
  BY <1>3, <1>5, <1>6, <1>7

BlankFrom(rows, first, last) ==
  \A i \in first..last, j \in 1..6 : rows[i][j].text = ""

(* Between reports: the cursor is at the start of a row that is there, and *)
(* the rows below it are blank, or nothing has been reported and nothing   *)
(* is there.                                                               *)
GoodTable(t, done) ==
  LET m == Rows(t)
  IN /\ t = Tab(t.mTable, t.miRowIndex, 0)
     /\ m \in Nat /\ Grid(t.mTable, m)
     /\ t.miRowIndex \in 0..m
     /\ IF done = 0 THEN m = 0 ELSE t.miRowIndex < m
     /\ \A i \in 1..m, j \in 1..6 : t.mTable[i][j].width = maColWidths[j]
     /\ BlankFrom(t.mTable, t.miRowIndex + 2, m)

TableInv == GoodTable(mResultTable, reports)

LEMMA GoodAfter ==
  ASSUME NEW size \in Nat, NEW new, Len(new) = size, Grid(new, size),
         \A i \in 1..size, j \in 1..6 : new[i][j].width = maColWidths[j],
         NEW row \in 0..(size - 1), NEW done, done # 0,
         BlankFrom(new, row + 2, size)
  PROVE  GoodTable(Tab(new, row, 0), done)
<1> DEFINE t == Tab(new, row, 0)
<1>1. t.mTable = new /\ t.miRowIndex = row /\ Rows(t) = size
  BY DEF Tab, Rows
<1>2. t = Tab(t.mTable, t.miRowIndex, 0)
  BY <1>1
<1> HIDE DEF t
<1>3. row \in 0..size /\ row < size
  OBVIOUS
<1>4. QED
  BY <1>1, <1>2, <1>3 DEF GoodTable, t

LEMMA TableStart == Init => TableInv
<1> SUFFICES ASSUME Init PROVE TableInv
  OBVIOUS
<1>1. mResultTable = Tab(<<>>, 0, 0) /\ reports = 0
  BY DEF Init, NewTable, Tab
<1>2. /\ mResultTable.mTable = <<>> /\ mResultTable.miRowIndex = 0
      /\ Rows(mResultTable) = 0
  BY <1>1 DEF Tab, Rows
<1>3. Grid(<<>>, 0)
  BY DEF Grid
<1>4. BlankFrom(<<>>, 0 + 2, 0)
  <2>1. \A i \in (0 + 2)..0 : FALSE
    OBVIOUS
  <2>2. QED
    BY <2>1, Zenon DEF BlankFrom
<1>5. QED
  BY <1>1, <1>2, <1>3, <1>4 DEF TableInv, GoodTable

(* What the end of run() makes of the table: m rows, with the cursor at    *)
(* row k, become the rows of new.                                          *)
ReportWrites(rows, m, k, size, new) ==
  /\ rows = mResultTable.mTable /\ m = Rows(mResultTable)
  /\ k = mResultTable.miRowIndex /\ size = m + 2 + Len(mlistTests)
  /\ m \in Nat /\ k \in 0..m /\ size \in Nat
  /\ Grid(rows, m) /\ Grid(Headed(rows, k), m + 2)
  /\ mResultTable' = Tab(new, k + 1 + Len(mlistTests), 0)
  /\ Len(new) = size /\ Grid(new, size)
  /\ \A i \in 1..size, j \in 1..6 :
       /\ new[i][j].width = maColWidths[j]
       /\ new[i][j].text = Reported(rows, m, k)[i][j].text

LEMMA ReportIs ==
  ASSUME Len(mlistTests) \in Nat, TableInv, Report
  PROVE  \E rows, m, k, size, new : ReportWrites(rows, m, k, size, new)
<1>1. PICK rows, m, k :
        /\ rows = mResultTable.mTable /\ m = Rows(mResultTable)
        /\ k = mResultTable.miRowIndex
  OBVIOUS
<1>2. PICK size : size = m + 2 + Len(mlistTests)
  OBVIOUS
<1>3. /\ mResultTable = Tab(rows, k, 0) /\ m \in Nat /\ Grid(rows, m) /\ k \in 0..m
      /\ size \in Nat
  BY <1>1, <1>2 DEF TableInv, GoodTable
<1>4. PICK all : all = Reported(rows, m, k)
  OBVIOUS
<1>5. PICK row : row = k + 1 + Len(mlistTests)
  OBVIOUS
<1>6. FormatResults(mResultTable) = Tab(all, row, 0) /\ Grid(all, size)
  BY <1>2, <1>3, <1>4, <1>5, FormatIs
<1>7. mResultTable' = AdjustCols(Tab(all, row, 0))
  BY <1>6 DEF Report
<1>8. PICK new : new = Adjusted(all, size)
  OBVIOUS
<1>9. /\ mResultTable' = Tab(new, row, 0)
      /\ Len(new) = size /\ Grid(new, size)
      /\ \A i \in 1..size, j \in 1..6 :
           /\ new[i][j].width = maColWidths[j]
           /\ new[i][j].text = all[i][j].text
  BY <1>3, <1>6, <1>7, <1>8, AdjustIs, SMTT(30)
<1>10. Grid(Headed(rows, k), m + 2)
  BY <1>3, FormatIs
<1>11. /\ mResultTable' = Tab(new, k + 1 + Len(mlistTests), 0)
       /\ \A i \in 1..size, j \in 1..6 :
            /\ new[i][j].width = maColWidths[j]
            /\ new[i][j].text = Reported(rows, m, k)[i][j].text
  BY <1>4, <1>5, <1>9
<1>12. ReportWrites(rows, m, k, size, new)
  BY <1>1, <1>2, <1>3, <1>9, <1>10, <1>11, Zenon DEF ReportWrites
<1>13. QED
  BY <1>12, Zenon

(* The rows once totals and titles are in their places.                    *)
LEMMA HeadedRows ==
  ASSUME NEW m \in Nat, NEW rows, Grid(rows, m), NEW k \in 0..m
  PROVE  /\ Headed(rows, k)[k + 1] = Cells(Totals)
         /\ Headed(rows, k)[k + 2] = Cells(Titles)
         /\ \A i \in 1..(m + 2) : i # k + 1 /\ i # k + 2 =>
              Headed(rows, k)[i] = IF i <= m THEN rows[i] ELSE BlankRow
<1> DEFINE first == [Append(rows, BlankRow) EXCEPT ![k + 1] = Cells(Totals)]
<1>1. /\ m + 1 \in Nat /\ k + 1 \in 1..(m + 1) /\ k + 1 # k + 2
      /\ k + 1 \in 1..((m + 1) + 1) /\ k + 2 \in 1..((m + 1) + 1)
  OBVIOUS
<1>2. IsRow(Cells(Totals)) /\ IsRow(Cells(Titles))
  BY Texts, CellsRow
<1>3. Grid(Append(rows, BlankRow), m + 1)
  BY GridAppend
<1>4. DOMAIN Append(rows, BlankRow) = 1..(m + 1)
  BY <1>3 DEF Grid
<1>5. first[k + 1] = Cells(Totals) /\ Grid(first, m + 1)
  BY <1>1, <1>2, <1>3, <1>4, GridSet
<1>6. Headed(rows, k) = [Append(first, BlankRow) EXCEPT ![k + 2] = Cells(Titles)]
  BY DEF Headed
<1> HIDE DEF first
<1>7. PICK M : M = m + 1
  OBVIOUS
<1>8. Append(first, BlankRow)
        = [j \in 1..(M + 1) |-> IF j <= M THEN first[j] ELSE BlankRow]
  BY <1>1, <1>5, <1>7, Appended, SMTT(40)
<1>9. k + 1 \in 1..(M + 1) /\ k + 2 \in 1..(M + 1) /\ k + 1 <= M /\ k + 1 # k + 2
  BY <1>1, <1>7
<1>10. Append(first, BlankRow)[k + 1] = first[k + 1]
  BY <1>8, <1>9
<1>11. Headed(rows, k)[k + 1] = Cells(Totals) /\ Headed(rows, k)[k + 2] = Cells(Titles)
  BY <1>5, <1>6, <1>8, <1>9, <1>10
<1>12. ASSUME NEW i \in 1..(m + 2), i # k + 1, i # k + 2
       PROVE  Headed(rows, k)[i] = IF i <= m THEN rows[i] ELSE BlankRow
  <2>1. i \in 1..(M + 1) /\ (i <= M => i \in 1..(m + 1))
    BY <1>7
  <2>2. Headed(rows, k)[i] = IF i <= M THEN first[i] ELSE BlankRow
    BY <1>6, <1>8, <1>12, <2>1
  <2>3. CASE i <= M
    <3>1. first[i] = Append(rows, BlankRow)[i]
      BY <1>4, <1>12, <2>1, <2>3 DEF first
    <3>2. Append(rows, BlankRow)
            = [j \in 1..(m + 1) |-> IF j <= m THEN rows[j] ELSE BlankRow]
      BY Appended
    <3>3. QED
      BY <2>1, <2>2, <2>3, <3>1, <3>2
  <2>4. CASE ~(i <= M)
    <3>1. ~(i <= m)
      BY <1>7, <2>4
    <3>2. QED
      BY <2>2, <2>4, <3>1
  <2>5. QED
    BY <2>3, <2>4
<1>13. QED
  BY <1>11, <1>12

(* The rows of a report, from above the cursor to the end of the table.    *)
LEMMA ReportedRows ==
  ASSUME Len(mlistTests) \in Nat, NEW m \in Nat, NEW rows, Grid(rows, m),
         NEW k \in 0..m, NEW i \in 1..(m + 2 + Len(mlistTests))
  PROVE  /\ i <= k => Reported(rows, m, k)[i] = rows[i]
         /\ i = k + 1 => Reported(rows, m, k)[i] = Cells(Totals)
         /\ i = k + 2 => Reported(rows, m, k)[i] = Cells(Titles)
         /\ i \in (k + 3)..(k + 2 + Len(mlistTests)) =>
              Reported(rows, m, k)[i] = Cells(Result(i - (k + 1) - 1))
         /\ i > k + 2 + Len(mlistTests) =>
              Reported(rows, m, k)[i] = IF i <= m THEN rows[i] ELSE BlankRow
<1>1. PICK n \in Nat : n = Len(mlistTests)
  OBVIOUS
<1>2. Reported(rows, m, k)[i]
        = IF i \in (k + 3)..(k + 2 + n) THEN Cells(Result(i - (k + 1) - 1))
          ELSE IF i <= m + 2 THEN Headed(rows, k)[i] ELSE BlankRow
  <2>1. (k + 1) + 2 = k + 3 /\ (k + 1) + 1 + n = k + 2 + n
    OBVIOUS
  <2>2. i \in 1..((m + 2) + n)
    BY <1>1
  <2> HIDE DEF Headed
  <2>3. QED
    BY <1>1, <2>1, <2>2 DEF Reported, Filled
<1>3. CASE i <= k
  <2>1. i \in 1..(m + 2) /\ i <= m /\ i # k + 1 /\ i # k + 2 /\ i \notin (k + 3)..(k + 2 + n)
    BY <1>3
  <2>2. Headed(rows, k)[i] = rows[i]
    BY <2>1, HeadedRows
  <2>3. Reported(rows, m, k)[i] = rows[i]
    BY <1>2, <2>1, <2>2
  <2>4. ~(i > k + 2 + n)
    BY <1>3
  <2>5. QED
    BY <1>1, <2>1, <2>3, <2>4
<1>4. CASE i = k + 1 \/ i = k + 2
  <2>1. i \in 1..(m + 2) /\ i \notin (k + 3)..(k + 2 + n) /\ ~(i <= k)
        /\ ~(i > k + 2 + n)
    BY <1>4
  <2>2. Reported(rows, m, k)[i] = Headed(rows, k)[i]
    BY <1>2, <2>1
  <2>3. Headed(rows, k)[k + 1] = Cells(Totals) /\ Headed(rows, k)[k + 2] = Cells(Titles)
    BY HeadedRows
  <2>4. QED
    BY <1>1, <2>1, <2>2, <2>3
<1>5. CASE i \in (k + 3)..(k + 2 + n)
  <2>1. ~(i <= k) /\ i # k + 1 /\ i # k + 2 /\ ~(i > k + 2 + n)
    BY <1>5
  <2>2. Reported(rows, m, k)[i] = Cells(Result(i - (k + 1) - 1))
    BY <1>2, <1>5
  <2>3. QED
    BY <1>1, <1>5, <2>1, <2>2
<1>6. CASE i > k + 2 + n
  <2>1. ~(i <= k) /\ i # k + 1 /\ i # k + 2 /\ i \notin (k + 3)..(k + 2 + n)
    BY <1>6
  <2>2. i <= m + 2 => i \in 1..(m + 2)
    OBVIOUS
  <2>3. i <= m + 2 => Headed(rows, k)[i] = IF i <= m THEN rows[i] ELSE BlankRow
    <3>1. \A j \in 1..(m + 2) : j # k + 1 /\ j # k + 2 =>
            Headed(rows, k)[j] = IF j <= m THEN rows[j] ELSE BlankRow
      BY HeadedRows, Zenon
    <3>2. QED
      BY <2>1, <2>2, <3>1, Zenon
  <2>4. ~(i <= m + 2) => ~(i <= m)
    OBVIOUS
  <2>5. Reported(rows, m, k)[i] = IF i <= m THEN rows[i] ELSE BlankRow
    BY <1>2, <2>1, <2>3, <2>4
  <2>6. QED
    BY <1>1, <2>1, <2>5
<1>7. i <= k \/ (i = k + 1 \/ i = k + 2) \/ i \in (k + 3)..(k + 2 + n) \/ i > k + 2 + n
  OBVIOUS
<1>8. QED
  BY <1>3, <1>4, <1>5, <1>6, <1>7

(* The same for each row by its number.                                    *)
LEMMA ReportedHead ==
  ASSUME Len(mlistTests) \in Nat, NEW m \in Nat, NEW rows, Grid(rows, m), NEW k \in 0..m
  PROVE  /\ k + 1 \in 1..(m + 2 + Len(mlistTests))
         /\ k + 2 \in 1..(m + 2 + Len(mlistTests))
         /\ Reported(rows, m, k)[k + 1] = Cells(Totals)
         /\ Reported(rows, m, k)[k + 2] = Cells(Titles)
<1>1. k + 1 \in 1..(m + 2 + Len(mlistTests)) /\ k + 2 \in 1..(m + 2 + Len(mlistTests))
  OBVIOUS
<1>2. PICK i, j : i = k + 1 /\ j = k + 2
  OBVIOUS
<1>3. i \in 1..(m + 2 + Len(mlistTests)) /\ j \in 1..(m + 2 + Len(mlistTests))
  BY <1>1, <1>2, Zenon
<1>4. i = k + 1 => Reported(rows, m, k)[i] = Cells(Totals)
  BY <1>3, ReportedRows, Zenon
<1>5. j = k + 2 => Reported(rows, m, k)[j] = Cells(Titles)
  BY <1>3, ReportedRows, Zenon
<1>6. QED
  BY <1>1, <1>2, <1>4, <1>5, Zenon

LEMMA ReportedResult ==
  ASSUME Len(mlistTests) \in Nat, NEW m \in Nat, NEW rows, Grid(rows, m),
         NEW k \in 0..m, NEW t \in 1..Len(mlistTests)
  PROVE  /\ k + 2 + t \in 1..(m + 2 + Len(mlistTests))
         /\ Reported(rows, m, k)[k + 2 + t] = Cells(Result(t))
<1>1. k + 2 + t \in 1..(m + 2 + Len(mlistTests))
      /\ k + 2 + t \in (k + 3)..(k + 2 + Len(mlistTests))
      /\ (k + 2 + t) - (k + 1) - 1 = t
  OBVIOUS
<1>2. PICK i : i = k + 2 + t
  OBVIOUS
<1>3. /\ i \in 1..(m + 2 + Len(mlistTests))
      /\ i \in (k + 3)..(k + 2 + Len(mlistTests)) /\ i - (k + 1) - 1 = t
  BY <1>1, <1>2, Zenon
<1>4. Reported(rows, m, k)[i] = Cells(Result(i - (k + 1) - 1))
  BY <1>3, ReportedRows, Zenon
<1>5. QED
  BY <1>1, <1>2, <1>3, <1>4, Zenon

LEMMA ReportedAbove ==
  ASSUME Len(mlistTests) \in Nat, NEW m \in Nat, NEW rows, Grid(rows, m),
         NEW k \in 0..m, NEW i \in 1..k
  PROVE  /\ i \in 1..m /\ i \in 1..(m + 2 + Len(mlistTests))
         /\ Reported(rows, m, k)[i] = rows[i]
<1>1. i \in 1..m /\ i \in 1..(m + 2 + Len(mlistTests)) /\ i <= k
  OBVIOUS
<1>2. QED
  BY <1>1, ReportedRows, Zenon

(* What follows the report's last row is blank, if it was so before.       *)
LEMMA BlankBelow ==
  ASSUME Len(mlistTests) \in Nat, NEW m \in Nat, NEW rows, Grid(rows, m),
         NEW k \in 0..m,
         BlankFrom(rows, k + 2, m)
  PROVE  BlankFrom(Reported(rows, m, k), k + Len(mlistTests) + 3, m + 2 + Len(mlistTests))
<1>1. PICK n \in Nat : n = Len(mlistTests)
  OBVIOUS
<1>2. ASSUME NEW i \in (k + n + 3)..(m + 2 + n), NEW j \in 1..6
      PROVE  Reported(rows, m, k)[i][j].text = ""
  <2>1. i \in 1..(m + 2 + n) /\ i > k + 2 + n /\ (i <= m => i \in (k + 2)..m)
    OBVIOUS
  <2>2. Reported(rows, m, k)[i] = IF i <= m THEN rows[i] ELSE BlankRow
    BY <1>1, <2>1, ReportedRows
  <2>3. BlankRow[j].text = ""
    BY DEF BlankRow, Blank
  <2>4. i <= m => rows[i][j].text = ""
    BY <2>1 DEF BlankFrom
  <2>5. QED
    BY <2>2, <2>3, <2>4
<1>3. QED
  BY <1>1, <1>2 DEF BlankFrom

(* The texts of a row that has just been written.                          *)
LEMMA CellTexts ==
  ASSUME NEW texts, IsText(texts)
  PROVE  [j \in 1..6 |-> Cells(texts)[j].text] = texts
<1>1. \A j \in 1..6 : Cells(texts)[j].text = texts[j]
  <2>1. \A a, b : [text |-> a, width |-> b].text = a
    OBVIOUS
  <2>2. \A j \in 1..6 : Cells(texts)[j] = [text |-> texts[j], width |-> 0]
    BY CellsRow
  <2>3. QED
    BY <2>1, <2>2
<1>2. QED
  BY <1>1 DEF IsText

LEMMA TableReported ==
  ASSUME HInv, TableInv, Report
  PROVE  TableInv'
<1>1. Len(mlistTests) \in Nat
  BY ListFacts DEF HInv
<1>2. PICK rows, m, k, size, new : ReportWrites(rows, m, k, size, new)
  BY <1>1, ReportIs, Zenon
<1>3. PICK row : row = k + 1 + Len(mlistTests)
  OBVIOUS
<1>4. row \in 0..(size - 1)
  <2>1. size = m + 2 + Len(mlistTests) /\ m \in Nat /\ k \in 0..m
    BY <1>2, Zenon DEF ReportWrites
  <2>2. QED
    BY <1>1, <1>3, <2>1, SMTT(30)
<1>5. PICK done : done = reports' /\ done # 0
  BY DEF Report, HInv
<1>6. /\ size \in Nat /\ Len(new) = size /\ Grid(new, size)
      /\ \A i \in 1..size, j \in 1..6 : new[i][j].width = maColWidths[j]
  BY <1>2, Zenon DEF ReportWrites
<1>7. GoodTable(Tab(new, row, 0), done)
  <2>1. /\ rows = mResultTable.mTable /\ m = Rows(mResultTable)
        /\ k = mResultTable.miRowIndex /\ size = m + 2 + Len(mlistTests)
        /\ m \in Nat /\ k \in 0..m /\ Grid(rows, m)
        /\ \A i \in 1..size, j \in 1..6 :
             new[i][j].text = Reported(rows, m, k)[i][j].text
    BY <1>2, Zenon DEF ReportWrites
  <2>2. BlankFrom(rows, k + 2, m)
    BY <2>1 DEF TableInv, GoodTable
  <2>3. BlankFrom(Reported(rows, m, k), k + Len(mlistTests) + 3, size)
    BY <1>1, <2>1, <2>2, BlankBelow
  <2>4. ASSUME NEW i \in (row + 2)..size PROVE i \in 1..size /\ i \in (k + Len(mlistTests) + 3)..size
    <3>1. k \in Nat /\ size \in Nat
      BY <1>1, <1>6, <2>1
    <3>2. row = k + 1 + Len(mlistTests)
      BY <1>3
    <3>3. QED
      BY <1>1, <3>1, <3>2
  <2>5. ASSUME NEW i \in (row + 2)..size, NEW j \in 1..6
        PROVE  new[i][j].text = ""
    <3>1. new[i][j].text = Reported(rows, m, k)[i][j].text
      BY <2>1, <2>4
    <3>2. Reported(rows, m, k)[i][j].text = ""
      BY <2>3, <2>4, Zenon DEF BlankFrom
    <3>3. QED
      BY <3>1, <3>2, Zenon
  <2>6. BlankFrom(new, row + 2, size)
    BY <2>5, Zenon DEF BlankFrom
  <2>7. QED
    BY <1>4, <1>5, <1>6, <2>6, GoodAfter
<1>8. mResultTable' = Tab(new, row, 0)
  BY <1>2, <1>3, Zenon DEF ReportWrites
<1>9. QED
  BY <1>5, <1>7, <1>8, Zenon DEF TableInv

LEMMA TableStep == HInv /\ TableInv /\ [Next]_vars => TableInv'
<1> SUFFICES ASSUME HInv, TableInv, [Next]_vars PROVE TableInv'
  OBVIOUS
<1>1. CASE Report
  BY <1>1, TableReported
<1>2. CASE ~Report
  <2>1. UNCHANGED <<mResultTable, reports>>
    BY <1>2 DEF Next, vars, Add, Run, StartTest, EndTest, Throw, Destroy
  <2>2. QED
    BY <2>1 DEF TableInv, GoodTable, Rows
<1>3. QED
  BY <1>1, <1>2

LEMMA TableInvariant == Spec => [](HInv /\ TableInv)
<1>1. QED
  BY InitHInv, TableStart, HStep, TableStep, PTL DEF Spec

(* However many tests there are and however often run() is called, no cell *)
(* is written outside the table, the cursor is back at the start of a row  *)
(* that is there, and every cell has the width of its column.              *)
THEOREM TableStaysIntact == Spec => []TableIntact
<1>1. HInv /\ TableInv => TableIntact
  <2> SUFFICES ASSUME HInv, TableInv PROVE TableIntact
    OBVIOUS
  <2>1. ~mResultTable.outside /\ mResultTable.miColIndex = 0
    BY DEF TableInv, GoodTable, Tab
  <2>2. reports > 0 => mResultTable.miRowIndex < Rows(mResultTable)
    BY DEF TableInv, GoodTable, HInv
  <2>3. QED
    BY <2>1, <2>2 DEF TableInv, GoodTable, TableIntact
<1>2. QED
  BY <1>1, TableInvariant, PTL

(* What a report leaves in the table, as texts.                            *)
ReportLeaves(k, n, size) ==
  /\ Rows(mResultTable') = size
  /\ \A i \in 1..k : RowTexts(mResultTable', i) = RowTexts(mResultTable, i)
  /\ RowTexts(mResultTable', k + 1) = Totals
  /\ RowTexts(mResultTable', k + 2) = Titles
  /\ \A i \in 1..n : RowTexts(mResultTable', k + 2 + i) = Result(i)
  /\ \A i \in (k + n + 3)..size : \A j \in 1..6 : RowTexts(mResultTable', i)[j] = ""

LEMMA ReportTexts ==
  ASSUME Len(mlistTests) \in Nat, TableInv,
         NEW rows, NEW m, NEW k, NEW size, NEW new, ReportWrites(rows, m, k, size, new)
  PROVE  ReportLeaves(k, Len(mlistTests), size)
<1>1. /\ rows = mResultTable.mTable /\ m = Rows(mResultTable)
      /\ k = mResultTable.miRowIndex /\ m \in Nat /\ k \in 0..m
      /\ size = m + 2 + Len(mlistTests) /\ Grid(rows, m)
      /\ mResultTable' = Tab(new, k + 1 + Len(mlistTests), 0) /\ Len(new) = size
      /\ \A i \in 1..size, j \in 1..6 :
           new[i][j].text = Reported(rows, m, k)[i][j].text
  BY Zenon DEF ReportWrites
<1>2. mResultTable'.mTable = new
  BY <1>1 DEF Tab
<1>3. \A i \in Int : (i - 1) + 1 = i
  OBVIOUS
<1>4. ASSUME NEW i \in 1..size
      PROVE  RowTexts(mResultTable', i) = [j \in 1..6 |-> Reported(rows, m, k)[i][j].text]
  <2>1. (i - 1) + 1 = i /\ \A j \in 1..6 : (j - 1) + 1 = j
    OBVIOUS
  <2>2. RowTexts(mResultTable', i) = [j \in 1..6 |-> new[i][j].text]
    BY <1>2, <2>1 DEF RowTexts, Get
  <2>3. QED
    BY <1>1, <2>2
<1>5. ASSUME NEW i \in 1..m
      PROVE  RowTexts(mResultTable, i) = [j \in 1..6 |-> rows[i][j].text]
  <2>1. (i - 1) + 1 = i /\ \A j \in 1..6 : (j - 1) + 1 = j
    OBVIOUS
  <2>2. rows = mResultTable.mTable
    BY <1>1
  <2>3. QED
    BY <2>1, <2>2 DEF RowTexts, Get
<1>6. Rows(mResultTable') = size
  BY <1>1, <1>2, Zenon DEF Rows
<1>7. ASSUME NEW i \in 1..k
      PROVE  RowTexts(mResultTable', i) = RowTexts(mResultTable, i)
  <2>1. i \in 1..m /\ i \in 1..size /\ Reported(rows, m, k)[i] = rows[i]
    BY <1>1, ReportedAbove, Zenon
  <2>2. QED
    BY <1>4, <1>5, <2>1, Zenon
<1>8. RowTexts(mResultTable', k + 1) = Totals /\ RowTexts(mResultTable', k + 2) = Titles
  <2>1. /\ k + 1 \in 1..size /\ k + 2 \in 1..size
        /\ Reported(rows, m, k)[k + 1] = Cells(Totals)
        /\ Reported(rows, m, k)[k + 2] = Cells(Titles)
    BY <1>1, ReportedHead, Zenon
  <2>2. QED
    BY <1>4, <2>1, Texts, CellTexts, Zenon
<1>9. ASSUME NEW i \in 1..Len(mlistTests)
      PROVE  RowTexts(mResultTable', k + 2 + i) = Result(i)
  <2>1. k + 2 + i \in 1..size /\ Reported(rows, m, k)[k + 2 + i] = Cells(Result(i))
    BY <1>1, ReportedResult, Zenon
  <2>2. QED
    BY <1>4, <2>1, Texts, CellTexts, Zenon
<1>10. ASSUME NEW i \in (k + Len(mlistTests) + 3)..size, NEW j \in 1..6
       PROVE  RowTexts(mResultTable', i)[j] = ""
  <2>1. i \in 1..size
    <3>1. k \in Nat /\ size \in Nat
      BY <1>1
    <3>2. QED
      BY <3>1
  <2>2. BlankFrom(rows, k + 2, m)
    BY <1>1, Zenon DEF TableInv, GoodTable
  <2>3. BlankFrom(Reported(rows, m, k), k + Len(mlistTests) + 3, size)
    BY <1>1, <2>2, BlankBelow, Zenon
  <2>4. Reported(rows, m, k)[i][j].text = ""
    BY <2>3, Zenon DEF BlankFrom
  <2>5. QED
    BY <1>4, <2>1, <2>4
<1>11. QED
  BY <1>6, <1>7, <1>8, <1>9, <1>10, Zenon DEF ReportLeaves

(* Every report, whichever it is, has its totals where the cursor was, the *)
(* titles and the tests' results below, everything above it as it was, and *)
(* blank rows at most behind it.                                           *)
THEOREM ReportsAreRight == Spec => ReportsRight
<1>1. ASSUME HInv, TableInv, [Next]_vars, reports' # reports
      PROVE  ReportLeaves(mResultTable.miRowIndex, Len(mlistTests),
                          Rows(mResultTable) + 2 + Len(mlistTests))
  <2>1. Report
    BY <1>1 DEF Next, vars, Add, Run, StartTest, EndTest, Throw, Destroy
  <2>2. Len(mlistTests) \in Nat
    BY <1>1, ListFacts DEF HInv
  <2>3. PICK rows, m, k, size, new : ReportWrites(rows, m, k, size, new)
    BY <1>1, <2>1, <2>2, ReportIs, Zenon
  <2>4. ReportLeaves(k, Len(mlistTests), size)
    BY <1>1, <2>2, <2>3, ReportTexts, Zenon
  <2>5. /\ k = mResultTable.miRowIndex
        /\ size = Rows(mResultTable) + 2 + Len(mlistTests)
    BY <2>3, Zenon DEF ReportWrites
  <2>6. QED
    BY <2>4, <2>5, Zenon
<1>2. HInv /\ TableInv /\ [Next]_vars =>
        [reports' # reports =>
           ReportLeaves(mResultTable.miRowIndex, Len(mlistTests),
                        Rows(mResultTable) + 2 + Len(mlistTests))]_vars
  BY <1>1
<1>3. QED
  BY <1>2, TableInvariant, PTL DEF Spec, ReportsRight, ReportLeaves
=============================================================================
