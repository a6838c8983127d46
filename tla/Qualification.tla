---------------------------- MODULE Qualification ----------------------------
(***************************************************************************)
(* The qualification campaigns of a machine together: performance and      *)
(* storage campaigns of several working trees, the operator who removes    *)
(* the locks that dead ones leave, and what they share: a tree's output,   *)
(* the machine's browsers, and its mounted images.                         *)
(***************************************************************************)
EXTENDS PerformanceCampaign, StorageCampaign

CONSTANT Settings \* What runs, on which machine, under which resource manifest.

ASSUME SettingsAssumption ==
  \A s \in Settings :
    /\ \A c \in Campaigns :
         /\ s.plan[c].kind \in {"performance", "storage"} /\ s.plan[c].home \in Worktrees
         /\ {s.plan[c].mode, s.plan[c].class} \subseteq STRING
    /\ s.commit \in Commits
    /\ s.classes.default \in STRING
    /\ DOMAIN s.classes.classes = 1 .. Len(s.classes.classes)

vars == <<campaignVars, performanceVars, storageVars>>

Init ==
  /\ \E s \in Settings : 
       /\ plan = s.plan /\ hardware = s.hardware /\ classes = s.classes
       /\ head = [w \in Worktrees |-> s.commit]
  /\ InitCampaign
  /\ InitPerformance
  /\ InitStorage

\* Browsers exit after the test that has them open, or are ended by hand.
BrowsersExit(c) ==
  /\ c \in processes
  /\ pc[c] \notin Measuring \cup {"filling"}
  /\ processes' = processes \ {c}
  /\ UNCHANGED <<plan, pc, at, red, head, moved, wasm, built, output, performanceVars, storageVars>>

Proceed(c) ==
  \/ Build(c) /\ UNCHANGED <<performanceVars, storageVars>>
  \/ PerformanceStep(c) /\ UNCHANGED storageVars
  \/ StorageStep(c) /\ UNCHANGED performanceVars

KillAny == \E c \in Campaigns : Kill(c) /\ UNCHANGED <<performanceVars, storageVars>>
CheckoutAny ==
  \E w \in Worktrees, k \in Commits : Checkout(w, k) /\ UNCHANGED <<performanceVars, storageVars>>
OperatorActs ==
  \/ RemoveLock /\ UNCHANGED storageVars
  \/ \E w \in Worktrees :
       (DetachByHand(w) \/ RemoveStorageLock(w)) /\ UNCHANGED performanceVars

Next ==
  \/ \E c \in Campaigns : Proceed(c) \/ BrowsersExit(c)
  \/ KillAny \/ CheckoutAny \/ OperatorActs

Spec == Init /\ [][Next]_vars

\* Every campaign that has been launched is run; none of them waits for
\* another.  Nobody has to launch, kill, check out or clean up.
FairSpec == Spec /\ \A c \in Campaigns : WF_vars(Live(c) /\ Proceed(c))

-----------------------------------------------------------------------------
PerformancePlaces ==
  {"checking", "locking", "counting", "closing", "reading", "publishing"} \cup Measuring
StoragePlaces ==
  {"acquiring", "signing", "detaching", "emptying", "rooting", "mounting", "filling",
   "unmounting", "cleaning", "releasing"}
Places == {"waiting"} \cup Building \cup PerformancePlaces \cup StoragePlaces \cup Ended

Files == Commits \cup {None}
Report ==
  [commit : Commits, component : Commits, class : STRING, mode : STRING,
   promotable : BOOLEAN, virtual : BOOLEAN, budgetsHold : BOOLEAN, measured : Commits]
Summary ==
  [reports : Seq(Report),
   verdict : {"reject", "qualification-budgets-pass", "diagnostic-budgets-pass"}]
Output ==
  [core : Files, harness : Files, manifest : Files,
   reports : [BrowserIndex -> Report \cup {None}], summary : Summary \cup {None}]

\* The shape of the state: the browser a campaign has come to is one of the
\* list, a report has all of its fields and a summary reads no more of them than the
\* list has, a lock is a campaign's, and only the list's browsers have images.
TypeOK ==
  /\ pc \in [Campaigns -> Places]
  /\ at \in [Campaigns -> BrowserIndex]
  /\ red \in [Campaigns -> BOOLEAN]
  /\ processes \subseteq Campaigns
  /\ head \in [Worktrees -> Commits]
  /\ moved \subseteq Worktrees
  /\ wasm \in [Worktrees -> Files]
  /\ built \in [Campaigns -> Files]
  /\ output \in [Worktrees -> Output]
  /\ lock \in Campaigns \cup {None}
  /\ measured \in [Campaigns -> Measured]
  /\ read \in [Campaigns -> Seq(Report)]
  /\ \A c \in Campaigns : Len(read[c]) <= Len(Browsers)
  /\ storageLock \in [Worktrees -> Campaigns \cup {None}]
  /\ roots \in [Worktrees -> SUBSET BrowserIndex]
  /\ mounted \in [Worktrees -> SUBSET BrowserIndex]

\* While a performance campaign measures, it holds the machine's lock and no
\* browser of another performance campaign runs, not even one that a killed
\* campaign has left.  That is all the lock gives: the storage and the fault
\* campaigns start browsers of the same cache without it, and a measurement
\* sums up theirs too.
MeasuredApart ==
  \A c \in Campaigns : pc[c] \in Measuring =>
    /\ lock = c
    /\ \A d \in processes \ {c} : plan[d].kind # "performance"

Summaries == {output[w].summary : w \in Worktrees} \ {None}

\* A matrix passes as a qualification only if every report in it was measured
\* as physical evidence, on a machine without a sign of virtualization,
\* within its budgets, and of a class whose bounds the machine is within.
QualifiedIsEarned ==
  \A s \in Summaries : s.verdict = "qualification-budgets-pass" =>
    /\ Signals(hardware) = {}
    /\ Len(s.reports) = Len(Browsers)
    /\ \A i \in DOMAIN s.reports :
         /\ s.reports[i].mode = "physical-evidence" /\ s.reports[i].budgetsHold
         /\ \A j \in DOMAIN classes.classes :
              classes.classes[j].id = s.reports[i].class => Fits(hardware, classes.classes[j])

\* In a tree whose commit has stayed while campaigns ran in it, the commit and
\* the component that a summary names are those of the core that was measured,
\* whatever killed or concurrent campaigns of the tree, or earlier ones of
\* another commit, have left in its output.
SummaryNamesItsBuild ==
  \A w \in Worktrees \ moved : output[w].summary # None =>
    \A i \in DOMAIN output[w].summary.reports :
      LET report == output[w].summary.reports[i]
      IN  report.commit = report.component /\ report.component = report.measured

\* A mounted image has its directory, which nothing has removed from under
\* it, and a lock that keeps other campaigns of the tree away; and the image a
\* campaign fills is its own: no other one, of its tree or of another, has
\* taken over its lock, or detached or removed what it works on.
VolumeIsGuarded ==
  /\ \A w \in Worktrees :
       mounted[w] \subseteq roots[w] /\ (mounted[w] # {} => storageLock[w] # None)
  /\ \A c \in Campaigns : pc[c] \in {"filling", "unmounting"} =>
       storageLock[Home(c)] = c /\ at[c] \in mounted[Home(c)] \cap roots[Home(c)]

\* A performance campaign gives the machine's lock back, however its tests,
\* its budgets or its browsers end, unless it is killed, or cannot remove the
\* lock or read the process table at its teardown.
LockIsReleased ==
  \A c \in Campaigns : lock = c ~> (lock # c \/ pc[c] \in {"killed", "abandoned"})
=============================================================================
