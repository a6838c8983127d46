-------------------------- MODULE PerformanceCampaign --------------------------
(***************************************************************************)
(* qualify:notebook-core-v2:performance: the check of the resource class,  *)
(* the build, the measurement of every browser under a lock that all the   *)
(* trees of the machine share (performance.global-setup.ts,                *)
(* performance.playwright.ts), and the summary of the reports              *)
(* (summarize-performance.ts).                                             *)
(***************************************************************************)
EXTENDS QualificationCampaign, ResourceClass

VARIABLES
  hardware, (* The machine.                                                *)
  classes,  (* toolchains/notebook-resource-classes.json.                  *)
  lock,     (* Who made .libre-ai-notebook-performance.lock.               *)
  measured, (* The core each campaign's browser runs, and its budgets.     *)
  read      (* The reports each campaign's summary has read.               *)

performanceVars == <<hardware, classes, lock, measured, read>>

Measured == [core : Commits \cup {None}, budgetsHold : BOOLEAN]
NotMeasured == [core |-> None, budgetsHold |-> FALSE]

\* check-resource-class.ts, and again at the start of every measurement.
Admitted(c) ==
  /\ ManifestIsValid(classes)
  /\ EnvironmentHolds(plan[c].mode, hardware)
  /\ ClassHolds(classes, plan[c].class, hardware)

InitPerformance ==
  /\ lock = None
  /\ measured = [c \in Campaigns |-> NotMeasured]
  /\ read = [c \in Campaigns |-> <<>>]

CheckClass(c) ==
  /\ pc[c] = "checking"
  /\ Goto(c, IF Admitted(c) THEN "compiling" ELSE "failed")
  /\ UNCHANGED <<plan, at, red, processes, head, moved, wasm, built, output, performanceVars>>

-----------------------------------------------------------------------------
(* performance.global-setup.ts.                                            *)

\* mkdir of the lock directory: one campaign makes it, the others fail.
TakeLock(c) ==
  /\ pc[c] = "locking"
  /\ IF lock = None
       THEN lock' = c /\ Goto(c, "counting")
       ELSE Goto(c, "failed") /\ UNCHANGED lock
  /\ UNCHANGED <<plan, at, red, processes, head, moved, wasm, built, output, hardware,
                 classes, measured, read>>

LeaveSetup(c) ==
  /\ lock' = None
  /\ Goto(c, "failed")

\* Mutant: the running browsers are not counted.
CountNothing(c) ==
  /\ pc[c] = "counting"
  /\ Goto(c, "opening")
  /\ UNCHANGED <<plan, at, red, processes, head, moved, wasm, built, output, performanceVars>>

\* A browser of the pinned cache that is already running would be measured.
CountBrowsers(c) ==
  /\ pc[c] = "counting"
  /\ IF processes = {}
       THEN Goto(c, "opening") /\ UNCHANGED lock
       ELSE LeaveSetup(c)
  /\ UNCHANGED <<plan, at, red, processes, head, moved, wasm, built, output, hardware,
                 classes, measured, read>>

\* owner.json cannot be written, or the process table cannot be read.
SetupFails(c) ==
  /\ pc[c] = "counting"
  /\ LeaveSetup(c)
  /\ UNCHANGED <<plan, at, red, processes, head, moved, wasm, built, output, hardware,
                 classes, measured, read>>

\* Mutant: it complains of the browsers before it removes the lock.
TeardownComplains(c) ==
  /\ pc[c] = "closing"
  /\ IF processes # {} \/ red[c]
       THEN Goto(c, "failed") /\ UNCHANGED <<at, lock>>
       ELSE Goto(c, "reading") /\ at' = [at EXCEPT ![c] = 1] /\ lock' = None
  /\ UNCHANGED <<plan, red, processes, head, moved, wasm, built, output, hardware, classes,
                 measured, read>>

\* The teardown waits a while for the browsers, and removes the lock before
\* it complains of those that are still there.
Teardown(c) ==
  /\ pc[c] = "closing"
  /\ lock' = None
  /\ IF processes # {} \/ red[c]
       THEN Goto(c, "failed") /\ UNCHANGED at
       ELSE Goto(c, "reading") /\ at' = [at EXCEPT ![c] = 1]
  /\ UNCHANGED <<plan, red, processes, head, moved, wasm, built, output, hardware, classes,
                 measured, read>>

\* The lock stays: its directory cannot be removed, or the teardown cannot read
\* the process table, which it does before anything else.
LeaveLock(c) ==
  /\ pc[c] \in {"counting", "closing"}
  /\ Goto(c, "abandoned")
  /\ UNCHANGED <<plan, at, red, processes, head, moved, wasm, built, output, performanceVars>>

-----------------------------------------------------------------------------
(* performance.playwright.ts, once for every browser.                      *)
Measuring == {"opening", "measuring", "probing", "reporting"}

\* The host is checked again and the page opened; what the page can do and
\* the quota it has are as the manifest asks.
Open(c) ==
  /\ pc[c] = "opening"
  /\ Admitted(c) /\ Served(c, "harness")
  /\ processes' = processes \cup {c}
  /\ Goto(c, "measuring")
  /\ UNCHANGED <<plan, at, red, head, moved, wasm, built, output, performanceVars>>

\* Every iteration of every profile in a worker of its own, which runs the
\* core that is served; times and memory are held against the budgets.
MeasureProfiles(c) ==
  /\ pc[c] = "measuring"
  /\ Served(c, "core") /\ Served(c, "harness")
  /\ \E budgetsHold \in BOOLEAN :
       measured' = [measured EXCEPT ![c] =
                      [core |-> output[Home(c)].core, budgetsHold |-> budgetsHold]]
  /\ Goto(c, "probing")
  /\ UNCHANGED <<plan, at, red, processes, head, moved, wasm, built, output, hardware,
                 classes, lock, read>>

\* The refusals are measured in the same way; no budget is set for them.
ProbeRefusals(c) ==
  /\ pc[c] = "probing"
  /\ Served(c, "core") /\ Served(c, "harness")
  /\ Goto(c, "reporting")
  /\ UNCHANGED <<plan, at, red, processes, head, moved, wasm, built, output, performanceVars>>

\* The commit and the component are those of the tree and of the manifest at
\* the end of the measurement.
ReportOf(c) ==
  [commit |-> head[Home(c)], component |-> output[Home(c)].manifest,
   class |-> SelectedId(classes, plan[c].class), mode |-> plan[c].mode,
   promotable |-> Promotable(plan[c].mode, hardware), virtual |-> Signals(hardware) # {},
   budgetsHold |-> measured[c].budgetsHold, measured |-> measured[c].core]

\* Requests, console messages and errors of the page are looked at after the
\* report is written.
WriteReport(c) ==
  /\ pc[c] = "reporting"
  /\ Served(c, "manifest")
  /\ output' = [output EXCEPT ![Home(c)].reports[at[c]] = ReportOf(c)]
  /\ measured' = [measured EXCEPT ![c] = NotMeasured]
  /\ \E clean \in BOOLEAN : Mark(c, ~clean)
  /\ NextBrowser(c, "opening", "closing")
  /\ UNCHANGED <<plan, processes, head, moved, wasm, built, hardware, classes, lock, read>>

\* A deadline, a refusal, an answer that does not match, a missing file.
TestFails(c) ==
  /\ pc[c] \in Measuring
  /\ measured' = [measured EXCEPT ![c] = NotMeasured]
  /\ Mark(c, TRUE)
  /\ NextBrowser(c, "opening", "closing")
  /\ UNCHANGED <<plan, processes, head, moved, wasm, built, output, hardware, classes,
                 lock, read>>

-----------------------------------------------------------------------------
(* summarize-performance.ts.                                               *)

\* Mutant: only the commit and the component are compared.
SameBuild(report, before) ==
  /\ report.commit = before.commit
  /\ report.component = before.component

\* The digest of the resource manifest is compared too; here every report has
\* the same, because the manifest is part of the setting.
SameEvidence(report, before) ==
  /\ report.commit = before.commit
  /\ report.component = before.component
  /\ report.class = before.class
  /\ report.mode = before.mode
  /\ report.promotable = before.promotable

\* The report is consistent with those read, and no physical evidence that
\* shows a virtual machine.
Consistent(report, reports) ==
  /\ reports # <<>> => SameEvidence(report, Last(reports))
  /\ report.mode = "physical-evidence" => ~report.virtual

ReadReport(c) ==
  LET report == output[Home(c)].reports[at[c]]
  IN  /\ pc[c] = "reading"
      /\ IF report # None /\ Consistent(report, read[c])
           THEN /\ read' = [read EXCEPT ![c] = Append(@, report)]
                /\ NextBrowser(c, "reading", "publishing")
           ELSE Goto(c, "failed") /\ UNCHANGED <<at, read>>
      /\ UNCHANGED <<plan, red, processes, head, moved, wasm, built, output, hardware,
                     classes, lock, measured>>

\* A matrix over its budgets is written too, and the script fails.
Publish(c) ==
  LET last == Last(read[c])
      verdict == Verdict(last.mode, last.promotable,
                         \A i \in DOMAIN read[c] : read[c][i].budgetsHold)
  IN  /\ pc[c] = "publishing"
      /\ IF verdict = "throws"
           THEN Goto(c, "failed") /\ UNCHANGED output
           ELSE /\ output' = [output EXCEPT ![Home(c)].summary =
                                [reports |-> read[c], verdict |-> verdict]]
                /\ Goto(c, IF verdict = "reject" THEN "failed" ELSE "passed")
      /\ UNCHANGED <<plan, at, red, processes, head, moved, wasm, built, performanceVars>>

PerformanceStep(c) ==
  \/ CheckClass(c) \/ TakeLock(c) \/ CountBrowsers(c) \/ SetupFails(c) \/ Teardown(c)
  \/ LeaveLock(c)
  \/ Open(c) \/ MeasureProfiles(c) \/ ProbeRefusals(c) \/ WriteReport(c) \/ TestFails(c)
  \/ ReadReport(c) \/ Publish(c)

-----------------------------------------------------------------------------
\* The lock names its owner; the operator removes it once that one has ended.
RemoveLock ==
  /\ lock # None /\ ~Live(lock)
  /\ lock' = None
  /\ UNCHANGED <<campaignVars, hardware, classes, measured, read>>
=============================================================================
