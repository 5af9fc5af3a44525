----------------------------- MODULE TestHarness -----------------------------
(***************************************************************************)
(* evil::TestHarness and evil::TestCase: tests are added, run one after    *)
(* another, and reported in a TestDataTable that is written to a file, to  *)
(* the console, or both.  A test is a function of the program: it may add  *)
(* tests while it runs, pass, fail with a message or throw, and run may be *)
(* called again.                                                           *)
(*                                                                         *)
(* The constructor initialises mbStopOnError and mbUseStdOut with          *)
(* themselves, so their values are whatever the memory held.  Times,       *)
(* numbers as text and the layout of the files are left out.               *)
(*                                                                         *)
(* A definition named X_Y is X with the slip Y; nothing uses it.           *)
(***************************************************************************)
EXTENDS TestDataTable, FiniteSets, SequencesExt

CONSTANTS
  TestCases,      \* each is added at most once
  Messages,       \* what a test may leave in its message
  MaxRuns         \* bound: calls of run

ASSUME HarnessAssumption == IsFiniteSet(TestCases) /\ MaxRuns \in Nat

VARIABLES
  mlistTests,
  mbRun, mbPass, mMessage,        \* of each test
  mResultTable, mbStopOnError, mbUseStdOut,
  mLog,           \* a file name was given
  muDotCount,
  phase,          \* "idle", inside run(): "loop", "test" or "report", or "gone"
  it,             \* the iterator of run(), as a position
  log, console,   \* which report was written last: its number
  runs, reports   \* history: calls of run, and of formatResults

tests   == <<mbRun, mbPass, mMessage>>
options == <<mbStopOnError, mbUseStdOut, mLog>>
vars == <<mlistTests, tests, mResultTable, options, muDotCount, phase, it,
          log, console, runs, reports>>

maColWidths == <<5, 29, 5, 6, 5, 29>>

NoMessage == ""

(* TestCase::TestCase *)
NewTests == /\ mbRun = [t \in TestCases |-> FALSE]
            /\ mbPass = [t \in TestCases |-> FALSE]
            /\ mMessage = [t \in TestCases |-> NoMessage]

Init == /\ mlistTests = <<>> /\ NewTests
        /\ mResultTable = NewTable(6)
        /\ mbStopOnError \in BOOLEAN /\ mbUseStdOut \in BOOLEAN
        /\ mLog \in BOOLEAN
        /\ muDotCount = 0
        /\ phase = "idle" /\ it = 0
        /\ log = 0 /\ console = 0
        /\ runs = 0 /\ reports = 0

Added == ToSet(mlistTests)

-----------------------------------------------------------------------------
(* add, by the program or by the test that runs: push_back leaves the      *)
(* iterator of run() where it is.                                          *)
Add(t) == /\ phase \in {"idle", "test"} /\ t \notin Added
          /\ mlistTests' = Append(mlistTests, t)
          /\ UNCHANGED <<tests, mResultTable, options, muDotCount, phase, it,
                         log, console, runs, reports>>

(* By the program; a test of the harness does not call it.                 *)
Run == /\ phase = "idle" /\ runs < MaxRuns
       /\ runs' = runs + 1 /\ it' = 1
       /\ phase' = IF mlistTests = <<>> THEN "report" ELSE "loop"
       /\ UNCHANGED <<mlistTests, tests, mResultTable, options, muDotCount,
                      log, console, reports>>

(* Nothing counts the dots: the line is never broken. *)
OutDot == muDotCount' = IF mbUseStdOut /\ muDotCount = 79 THEN 0 ELSE muDotCount

(* A dot, and the test's function is called. *)
StartTest == /\ phase = "loop"
             /\ OutDot
             /\ mbRun' = [mbRun EXCEPT ![mlistTests[it]] = TRUE]
             /\ phase' = "test"
             /\ UNCHANGED <<mlistTests, mbPass, mMessage, mResultTable, options,
                            it, log, console, runs, reports>>

(* What TestCase::run keeps of its function's return. *)
Store(pass, message) ==
  /\ mbPass' = [mbPass EXCEPT ![mlistTests[it]] = pass]
  /\ mMessage' = [mMessage EXCEPT ![mlistTests[it]] = message]

EndTest_SeesEndLate(pass, message) ==
  /\ phase = "test"
  /\ Store(pass, message)
  /\ it' = it + 1
  /\ phase' = IF (~pass /\ mbStopOnError) \/ it > Len(mlistTests)
              THEN "report" ELSE "loop"
  /\ UNCHANGED <<mlistTests, mbRun, mResultTable, options, muDotCount, log,
                 console, runs, reports>>

EndTest_StopsAnyway(pass, message) ==
  /\ phase = "test"
  /\ Store(pass, message)
  /\ it' = it + 1
  /\ phase' = IF ~pass \/ it = Len(mlistTests) THEN "report" ELSE "loop"
  /\ UNCHANGED <<mlistTests, mbRun, mResultTable, options, muDotCount, log,
                 console, runs, reports>>

EndTest_RepeatsFailed(pass, message) ==
  /\ phase = "test"
  /\ Store(pass, message)
  /\ it' = IF pass THEN it + 1 ELSE it
  /\ phase' = IF (~pass /\ mbStopOnError) \/ it' > Len(mlistTests)
              THEN "report" ELSE "loop"
  /\ UNCHANGED <<mlistTests, mbRun, mResultTable, options, muDotCount, log,
                 console, runs, reports>>

(* The function returns; run() stops or goes on.  The list may have grown. *)
EndTest(pass, message) ==
  /\ phase = "test"
  /\ Store(pass, message)
  /\ it' = it + 1
  /\ phase' = IF (~pass /\ mbStopOnError) \/ it = Len(mlistTests)
              THEN "report" ELSE "loop"
  /\ UNCHANGED <<mlistTests, mbRun, mResultTable, options, muDotCount, log,
                 console, runs, reports>>

(* The function throws: out of run() without a report. *)
Throw(message) ==
  /\ phase = "test"
  /\ mMessage' = [mMessage EXCEPT ![mlistTests[it]] = message]
  /\ phase' = "idle" /\ it' = 0
  /\ UNCHANGED <<mlistTests, mbRun, mbPass, mResultTable, options, muDotCount,
                 log, console, runs, reports>>

-----------------------------------------------------------------------------
Count(flag) == Cardinality({i \in DOMAIN mlistTests : flag[mlistTests[i]]})

Cells(texts) == [i \in DOMAIN texts |-> [text |-> texts[i], width |-> 0]]

(* One insertCell for each text. *)
InsertCells(table, texts) ==
  LET after[i \in 0..Len(texts)] ==
        IF i = 0 THEN table ELSE InsertCell(after[i - 1], Cells(texts)[i])
  IN after[Len(texts)]

Totals == <<"Tot:", Len(mlistTests), "Run:", Count(mbRun),
            "Pass:", Count(mbPass)>>
Titles == <<"No.", "Name", "Run", "State", "ms", "Failed On">>

(* The row of the i-th test. *)
Result(i) == LET t == mlistTests[i]
             IN <<i, t, IF mbRun[t] THEN "YES" ELSE "NO",
                  IF mbPass[t] THEN "PASS" ELSE "FAIL", "time", mMessage[t]>>

NewLine(table) == NextRow(InsertRow(table))

(* The loop over the tests. *)
InsertResults(table) ==
  LET after[i \in 0..Len(mlistTests)] ==
        IF i = 0 THEN table ELSE InsertCells(NewLine(after[i - 1]), Result(i))
  IN after[Len(mlistTests)]

FormatResults_TitlesOverTotals(table) ==
  InsertResults(InsertCells(InsertRow(InsertCells(InsertRow(table), Totals)),
                            Titles))

FormatResults(table) ==
  InsertResults(InsertCells(NewLine(InsertCells(InsertRow(table), Totals)),
                            Titles))

(* Every cell is resized to the width of its column. *)
AdjustCols(table) ==
  [table EXCEPT !.mTable =
     [i \in DOMAIN @ |-> [j \in DOMAIN @[i] |->
        [@[i][j] EXCEPT !.width = maColWidths[j]]]]]

(* The file is written anew, the console is added to. *)
Dump == /\ log' = IF mLog THEN reports + 1 ELSE log
        /\ console' = IF mbUseStdOut THEN reports + 1 ELSE console

(* The end of run(): formatResults and dump. *)
Report == /\ phase = "report"
          /\ mResultTable' = AdjustCols(FormatResults(mResultTable))
          /\ Dump
          /\ phase' = "idle" /\ it' = 0
          /\ reports' = reports + 1
          /\ UNCHANGED <<mlistTests, tests, options, muDotCount, runs>>

(* ~TestHarness deletes the tests. *)
Destroy == /\ phase = "idle"
           /\ phase' = "gone" /\ mlistTests' = <<>>
           /\ UNCHANGED <<tests, mResultTable, options, muDotCount, it, log,
                          console, runs, reports>>

-----------------------------------------------------------------------------
Next == \/ \E t \in TestCases : Add(t)
        \/ Run \/ StartTest
        \/ \E pass \in BOOLEAN, message \in Messages : EndTest(pass, message)
        \/ \E message \in Messages : Throw(message)
        \/ Report \/ Destroy

(* run() goes on by itself, and the functions of the tests return.         *)
Fairness == /\ WF_vars(StartTest)
            /\ WF_vars(\E pass \in BOOLEAN, message \in Messages : EndTest(pass, message))

Spec == Init /\ [][Next]_vars /\ Fairness

-----------------------------------------------------------------------------
(* The shape of the state. *)
TypeOK ==
  /\ mlistTests \in Seq(TestCases) /\ IsInjective(mlistTests)
  /\ mbRun \in [TestCases -> BOOLEAN]
  /\ mbPass \in [TestCases -> BOOLEAN]
  /\ mMessage \in [TestCases -> Messages \cup {NoMessage}]
  /\ {mbStopOnError, mbUseStdOut, mLog} \subseteq BOOLEAN
  /\ muDotCount \in 0..79
  /\ {log, console} \subseteq 0..reports
  /\ phase \in {"idle", "loop", "test", "report", "gone"}
  /\ phase \in {"loop", "test"} => it \in DOMAIN mlistTests

(* However often run is called, and whichever tests add tests or throw, no *)
(* cell is written outside the table, the cursor is back at the start of a *)
(* row that is there, and every row that is written out has its 79 columns. *)
TableIntact ==
  /\ ~mResultTable.outside
  /\ mResultTable.miColIndex = 0
  /\ reports > 0 => mResultTable.miRowIndex < Rows(mResultTable)
  /\ \A i \in 1..Rows(mResultTable), j \in 1..6 :
       mResultTable.mTable[i][j].width = maColWidths[j]

(* A test is reported as not run only if run() stopped at a failure before *)
(* it: tests that running tests have added are run too.                    *)
SkippedOnlyAfterFailure ==
  phase = "report" =>
    \A i \in DOMAIN mlistTests :
      ~mbRun[mlistTests[i]] =>
        mbStopOnError /\ \E j \in 1..(i - 1) : ~mbPass[mlistTests[j]]

(* The texts of the i-th row.                                              *)
RowTexts(table, i) == [j \in 1..6 |-> Get(table, i - 1, j - 1).text]

(* Every report has the totals, the titles and one row for each test, with *)
(* what that test left when it last ran, in the order in which the tests   *)
(* were added.  It begins in the row where the cursor was left: the last   *)
(* row of the report before is lost to its totals, all rows above are      *)
(* kept, and nothing but blank rows follows.                               *)
ReportsRight ==
  [][reports' # reports =>
       LET k    == mResultTable.miRowIndex
           n    == Len(mlistTests)
           size == Rows(mResultTable) + 2 + n
       IN /\ Rows(mResultTable') = size
          /\ \A i \in 1..k : RowTexts(mResultTable', i) = RowTexts(mResultTable, i)
          /\ RowTexts(mResultTable', k + 1) = Totals
          /\ RowTexts(mResultTable', k + 2) = Titles
          /\ \A i \in 1..n : RowTexts(mResultTable', k + 2 + i) = Result(i)
          /\ \A i \in (k + n + 3)..size : \A j \in 1..6 :
               RowTexts(mResultTable', i)[j] = ""]_vars

(* A call of run gets through its list, or is left by an exception, though *)
(* tests add to the list while it is walked.                               *)
LoopEnds == phase \in {"loop", "test"} ~> phase \in {"report", "idle"}
=============================================================================
