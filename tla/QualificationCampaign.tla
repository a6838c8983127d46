------------------------- MODULE QualificationCampaign -------------------------
(***************************************************************************)
(* What the qualification campaigns of tools/qualification/notebook-core-v2*)
(* share: the working trees, the build of the component into a tree's      *)
(* target/notebook-core-v2-qualification (build.ts), and the browsers of   *)
(* the pinned cache that run on the machine.  A campaign is one run of a   *)
(* `qualify:` script: each stage of it starts when the one before has      *)
(* succeeded.  The build comes before either campaign's lock, so that two  *)
(* campaigns of one tree build into the same directory at once.            *)
(***************************************************************************)
EXTENDS Integers, Sequences

CONSTANTS
  Campaigns, (* Runs of a script; the same script again is another run.    *)
  Worktrees, (* Working trees of the repository on the machine.            *)
  Commits,   (* Commits that a tree may have checked out.                  *)
  Browsers,  (* The browsers, in the order in which they are measured.     *)
  None

ASSUME CampaignAssumption ==
  /\ None \notin Campaigns \cup Commits
  /\ Browsers \in Seq(STRING) /\ Browsers # <<>>

VARIABLES
  plan,      (* What each campaign runs, where, with which environment, and*)
             (* whether its tree is left alone meanwhile.                  *)
  pc,        (* What each campaign does next.                              *)
  at,        (* The browser each campaign has come to.                     *)
  red,       (* Whether a test of the campaign has failed.                 *)
  processes, (* The campaigns whose browsers are running.                  *)
  head,      (* The commit checked out in each tree.                       *)
  moved,     (* The trees where it has changed under a running campaign.   *)
  wasm,      (* The commit cargo has compiled the core module from.        *)
  built,     (* The module each campaign's build has read and componentized.*)
  output     (* target/notebook-core-v2-qualification of each tree.        *)

campaignVars == <<plan, pc, at, red, processes, head, moved, wasm, built, output>>

BrowserIndex == DOMAIN Browsers
NoReports == [b \in BrowserIndex |-> None]
EmptyOutput ==
  [core |-> None, harness |-> None, manifest |-> None, reports |-> NoReports, summary |-> None]

Home(c) == plan[c].home

\* A campaign is "abandoned" that has failed and left the machine's lock.
Ended == {"passed", "failed", "killed", "abandoned"}
Live(c) == pc[c] \notin Ended \cup {"waiting"}
Goto(c, place) == pc' = [pc EXCEPT ![c] = place]

\* serve.ts answers 404 for a file that is not there.
Served(c, file) == output[Home(c)][file] # None

\* Mutant: the browser after the last one is measured too.
NextBrowserAlways(c, first, last) ==
  Goto(c, first) /\ at' = [at EXCEPT ![c] = @ + 1]

\* The projects run one after the other, each whatever became of the others;
\* the teardown comes after the last.
NextBrowser(c, first, last) ==
  IF at[c] < Len(Browsers)
    THEN Goto(c, first) /\ at' = [at EXCEPT ![c] = @ + 1]
    ELSE Goto(c, last) /\ UNCHANGED at

Mark(c, failed) == red' = [red EXCEPT ![c] = @ \/ failed]

-----------------------------------------------------------------------------
InitCampaign ==
  /\ pc = [c \in Campaigns |-> "waiting"]
  /\ at = [c \in Campaigns |-> 1]
  /\ red = [c \in Campaigns |-> FALSE]
  /\ processes = {}
  /\ moved = {}
  /\ wasm = [w \in Worktrees |-> None]
  /\ built = [c \in Campaigns |-> None]
  /\ output = [w \in Worktrees |-> EmptyOutput]

\* The performance campaign checks the resource class before it builds; the
\* storage campaign builds the product, which spawns the same build.
Launch(c) ==
  /\ pc[c] = "waiting"
  /\ Goto(c, IF plan[c].kind = "performance" THEN "checking" ELSE "compiling")
  /\ UNCHANGED <<plan, at, red, processes, head, moved, wasm, built, output>>

\* Mutant: a module that is there is not compiled again.
CompileIfAbsent(c) ==
  /\ pc[c] = "compiling"
  /\ wasm' = [wasm EXCEPT ![Home(c)] = IF @ = None THEN head[Home(c)] ELSE @]
  /\ Goto(c, "clearing")
  /\ UNCHANGED <<plan, at, red, processes, head, moved, built, output>>

\* cargo builds the module from what is checked out.
Compile(c) ==
  /\ pc[c] = "compiling"
  /\ wasm' = [wasm EXCEPT ![Home(c)] = head[Home(c)]]
  /\ Goto(c, "clearing")
  /\ UNCHANGED <<plan, at, red, processes, head, moved, built, output>>

\* The whole output directory goes, with the reports of earlier campaigns.
Clear(c) ==
  /\ pc[c] = "clearing"
  /\ output' = [output EXCEPT ![Home(c)] = EmptyOutput]
  /\ Goto(c, "transpiling")
  /\ UNCHANGED <<plan, at, red, processes, head, moved, wasm, built>>

\* The module is read once; the component is made from it, and the transpiled
\* module and bindings from that.
WriteCore(c) ==
  /\ pc[c] = "transpiling"
  /\ built' = [built EXCEPT ![c] = wasm[Home(c)]]
  /\ output' = [output EXCEPT ![Home(c)].core = wasm[Home(c)]]
  /\ Goto(c, "bundling")
  /\ UNCHANGED <<plan, at, red, processes, head, moved, wasm>>

\* The fault component, the trap modules, the browser bundles and the page.
WriteHarness(c) ==
  /\ pc[c] = "bundling"
  /\ output' = [output EXCEPT ![Home(c)].harness = head[Home(c)]]
  /\ Goto(c, "recording")
  /\ UNCHANGED <<plan, at, red, processes, head, moved, wasm, built>>

\* The manifest is written last, after every file has been read back, with the
\* digest of the component that was made, wherever its file is by then; the
\* storage campaign's product build goes on from there.
WriteManifest(c) ==
  /\ pc[c] = "recording"
  /\ Served(c, "core") /\ Served(c, "harness")
  /\ output' = [output EXCEPT ![Home(c)].manifest = built[c]]
  /\ Goto(c, IF plan[c].kind = "performance" THEN "locking" ELSE "acquiring")
  /\ UNCHANGED <<plan, at, red, processes, head, moved, wasm, built>>

Building == {"compiling", "clearing", "transpiling", "bundling", "recording"}

\* The Rust build environment or the Node executable is not the pinned one, a
\* command or a check of what it made fails, or a file is gone that another
\* build of the tree has removed.
BuildFails(c) ==
  /\ pc[c] \in Building
  /\ Goto(c, "failed")
  /\ UNCHANGED <<plan, at, red, processes, head, moved, wasm, built, output>>

Build(c) ==
  \/ Launch(c) \/ Compile(c) \/ Clear(c) \/ WriteCore(c) \/ WriteHarness(c)
  \/ WriteManifest(c) \/ BuildFails(c)

-----------------------------------------------------------------------------
(* Around the campaigns.                                                   *)

\* A campaign is killed: what it has written stays, its browsers run on.
Kill(c) ==
  /\ Live(c)
  /\ Goto(c, "killed")
  /\ UNCHANGED <<plan, at, red, processes, head, moved, wasm, built, output>>

\* Another commit is checked out, before the campaigns of a tree have ended;
\* under a running one only if nobody has been told to leave its tree alone,
\* and once, for nothing is said of the tree's evidence after that.
Checkout(w, commit) ==
  /\ \E c \in Campaigns : Home(c) = w /\ pc[c] \notin Ended
  /\ \A c \in Campaigns : Home(c) = w /\ Live(c) => ~plan[c].undisturbed
  /\ head[w] # commit /\ w \notin moved
  /\ head' = [head EXCEPT ![w] = commit]
  /\ moved' = IF \E c \in Campaigns : Home(c) = w /\ Live(c) THEN moved \cup {w} ELSE moved
  /\ UNCHANGED <<plan, pc, at, red, processes, wasm, built, output>>
=============================================================================
