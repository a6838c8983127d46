------------------------- MODULE QualificationProofs -------------------------
(***************************************************************************)
(* Proofs about Qualification, for any campaigns, trees, commits, browsers *)
(* and settings.                                                           *)
(*                                                                         *)
(* The inductive invariant has three parts that hardly meet.               *)
(*                                                                         *)
(*   MeasurementPart  A campaign is at a place of its own kind and holds   *)
(*     the machine's lock from its setup to its teardown, so that what     *)
(*     CountBrowsers found when it counted is still so when it measures;   *)
(*     and a lock that is held otherwise is one its owner has left behind. *)
(*   EvidencePart     What a place of the build or of the measurement      *)
(*     leaves for the next.  As long as its tree's commit stays, a         *)
(*     campaign that has compiled finds that commit in every file, so that *)
(*     a report is Named: it names what was measured.  And wherever it     *)
(*     lies, moved or not, a report is Honest: it says no more than this   *)
(*     machine may be measured for, so that a summary of any reports is of *)
(*     honest ones.                                                        *)
(*   StoragePart      A storage campaign owns its tree's lock until it     *)
(*     releases it, and no image is mounted before its own or after the    *)
(*     last.                                                               *)
(*                                                                         *)
(* Most steps belong to one part and leave the other two alone: the Moves  *)
(* lemmas say so once for all of them, and the lemma of each action is     *)
(* then about the part it belongs to.                                      *)
(***************************************************************************)
EXTENDS Qualification, TLAPS

\* What runs was chosen at the start.
SettingIsGiven ==
  \E s \in Settings : plan = s.plan /\ hardware = s.hardware /\ classes = s.classes

\* A campaign is at a place of its own kind.
KindFits ==
  \A c \in Campaigns :
    /\ pc[c] \in PerformancePlaces => plan[c].kind = "performance"
    /\ pc[c] \in StoragePlaces => plan[c].kind = "storage"

\* Where a performance campaign has the machine's lock.
LockedPlaces == {"counting", "closing"} \cup Measuring

\* From the setup to the teardown a performance campaign has the lock.
LockIsHeld ==
  \A c \in Campaigns : pc[c] \in LockedPlaces => lock = c

\* Where a campaign has ended without giving the lock back.
LeftPlaces == {"killed", "abandoned"}

\* The lock is that of a campaign that is using it, or of one that has left it.
LockIsOwned ==
  \A c \in Campaigns : lock = c => pc[c] \in LockedPlaces \cup LeftPlaces

-----------------------------------------------------------------------------
\* Where a campaign has cleared its output, and where it has compiled.
AfterClear ==
  {"transpiling", "bundling", "recording", "locking", "counting", "closing", "reading",
   "publishing"} \cup Measuring
AfterCompile == {"clearing"} \cup AfterClear

\* As long as its tree's commit stays, a campaign that has compiled finds the
\* module of that commit, one that has cleared finds no file of another one,
\* its build records what it has made, and its browser runs it.
OfHead(c) ==
  /\ pc[c] \in {"probing", "reporting"} => measured[c].core # None
  /\ Home(c) \notin moved =>
       /\ pc[c] \in AfterCompile => wasm[Home(c)] = head[Home(c)]
       /\ pc[c] \in {"bundling", "recording"} => built[c] = head[Home(c)]
       /\ pc[c] \in AfterClear =>
            {output[Home(c)].core, output[Home(c)].manifest} \subseteq {None, head[Home(c)]}
       /\ pc[c] \in {"probing", "reporting"} => measured[c].core = head[Home(c)]
BuildIsOfHead == \A c \in Campaigns : OfHead(c)

\* A browser is opened on a machine that has been admitted.
HostIsAdmitted ==
  \A c \in Campaigns : pc[c] \in {"measuring", "probing", "reporting"} => Admitted(c)

\* A report says what this machine may be measured for.
Honest(report) ==
  /\ EnvironmentHolds(report.mode, hardware)
  /\ report.promotable = Promotable(report.mode, hardware)
  /\ \A j \in DOMAIN classes.classes :
       classes.classes[j].id = report.class => Fits(hardware, classes.classes[j])

\* Reports that are all honest, of one class and one mode.
OneMatrix(reports) ==
  /\ \A i \in DOMAIN reports : Honest(reports[i])
  /\ \A i, j \in DOMAIN reports : reports[i].mode = reports[j].mode

\* A verdict passes what is within its budgets, and as a qualification only
\* physical evidence.
VerdictIsDue(summary) ==
  summary.verdict = "qualification-budgets-pass" =>
    /\ Len(summary.reports) = Len(Browsers)
    /\ Promotable("physical-evidence", hardware)
    /\ \A i \in DOMAIN summary.reports :
         summary.reports[i].mode = "physical-evidence" /\ summary.reports[i].budgetsHold

\* What the output directory of a tree may hold.
HonestOutput(files) ==
  /\ \A b \in BrowserIndex : files.reports[b] # None => Honest(files.reports[b])
  /\ files.summary # None =>
       OneMatrix(files.summary.reports) /\ VerdictIsDue(files.summary)
ReportsAreHonest ==
  /\ \A w \in Worktrees : HonestOutput(output[w])
  /\ \A c \in Campaigns : OneMatrix(read[c])

\* A report names what was measured.
Named(report) == report.commit = report.component /\ report.component = report.measured

\* In a tree whose commit has stayed every report does.
NamedOutput(files) ==
  /\ \A b \in BrowserIndex : files.reports[b] # None => Named(files.reports[b])
  /\ files.summary # None =>
       \A i \in DOMAIN files.summary.reports : Named(files.summary.reports[i])
ReportsAreNamed ==
  /\ \A w \in Worktrees \ moved : NamedOutput(output[w])
  /\ \A c \in Campaigns : Home(c) \notin moved =>
       \A i \in DOMAIN read[c] : Named(read[c][i])

\* How many reports a summary has read.
ReadSoFar ==
  \A c \in Campaigns :
    /\ pc[c] \notin {"reading", "publishing"} \cup Ended => read[c] = <<>>
    /\ pc[c] = "reading" => Len(read[c]) = at[c] - 1
    /\ pc[c] = "publishing" => Len(read[c]) = Len(Browsers)

-----------------------------------------------------------------------------
\* Where a storage campaign has its tree's lock, and where no image may show.
OwningPlaces == StoragePlaces \ {"acquiring"}
EmptyPlaces == {"signing", "detaching", "emptying", "releasing"}

\* A storage campaign has the lock of its tree until it releases it; no image
\* of the tree is mounted before its own and after the last.
StorageSteps ==
  \A c \in Campaigns :
    /\ pc[c] \in OwningPlaces => storageLock[Home(c)] = c
    /\ pc[c] \in EmptyPlaces => mounted[Home(c)] = {}
    /\ pc[c] = "mounting" => at[c] \in roots[Home(c)] \ mounted[Home(c)]

\* The inductive invariant.
MeasurementPart == KindFits /\ LockIsHeld /\ LockIsOwned /\ MeasuredApart
EvidencePart ==
  BuildIsOfHead /\ HostIsAdmitted /\ ReportsAreHonest /\ ReportsAreNamed /\ ReadSoFar
StoragePart == StorageSteps /\ VolumeIsGuarded

IInv == SettingIsGiven /\ TypeOK /\ MeasurementPart /\ EvidencePart /\ StoragePart

-----------------------------------------------------------------------------
(* What a step that has nothing to do with a part leaves of it.            *)

\* A campaign goes from one place to another, and no other campaign moves.
Moves(c, place) ==
  /\ place \in Places /\ Goto(c, place)
  /\ at' \in [Campaigns -> BrowserIndex]
  /\ \A d \in Campaigns \ {c} : at'[d] = at[d]

\* What every setting gives a campaign.
LEMMA SettingFacts ==
  ASSUME SettingIsGiven, NEW c \in Campaigns
  PROVE  /\ Home(c) \in Worktrees
         /\ plan[c].kind \in {"performance", "storage"}
         /\ plan[c].mode \in STRING /\ SelectedId(classes, plan[c].class) \in STRING
         /\ DOMAIN classes.classes = 1 .. Len(classes.classes)
BY SettingsAssumption DEF SettingIsGiven, Home, SelectedId

\* There is a browser to measure.
LEMMA BrowserFacts == Len(Browsers) \in Nat \ {0} /\ BrowserIndex = 1 .. Len(Browsers)
BY CampaignAssumption DEF BrowserIndex

\* One campaign at a time is at a place that needs the machine's lock.
LEMMA OnlyHolder ==
  ASSUME TypeOK, LockIsHeld, NEW c \in Campaigns, pc[c] \in LockedPlaces
  PROVE  \A d \in Campaigns \ {c} : pc[d] \notin LockedPlaces
BY DEF LockIsHeld

\* The measurement is untouched by a campaign that comes to no such place,
\* and if it leaves one it may give the lock back.
LEMMA MeasurementMoves ==
  ASSUME TypeOK, MeasurementPart, NEW c \in Campaigns, NEW place, Moves(c, place),
         place \in PerformancePlaces => plan[c].kind = "performance",
         place \in StoragePlaces => plan[c].kind = "storage",
         place \notin LockedPlaces, UNCHANGED <<plan, processes>>,
         \/ lock' = lock /\ (pc[c] \in LockedPlaces \cup LeftPlaces => place \in LeftPlaces)
         \/ lock' = None /\ pc[c] \in LockedPlaces
  PROVE  MeasurementPart'
<1> USE DEF MeasurementPart
<1>1. \A d \in Campaigns : pc'[d] = IF d = c THEN place ELSE pc[d]
  BY DEF TypeOK, Moves, Goto
<1>2. KindFits'
  BY <1>1 DEF KindFits
<1>3. LockIsHeld'
  BY <1>1, OnlyHolder DEF LockIsHeld
<1>4. LockIsOwned'
  BY <1>1, CampaignAssumption DEF LockIsOwned
<1>5. MeasuredApart'
  BY <1>1, OnlyHolder DEF MeasuredApart, LockedPlaces
<1>6. QED
  BY <1>2, <1>3, <1>4, <1>5

\* It goes on while the holder of the lock goes on, with its own browser.
LEMMA MeasurementGoesOn ==
  ASSUME TypeOK, MeasurementPart, NEW c \in Campaigns, NEW place, Moves(c, place),
         pc[c] \in Measuring, place \in LockedPlaces,
         processes' \subseteq processes \cup {c}, UNCHANGED <<plan, lock>>
  PROVE  MeasurementPart'
<1> USE DEF MeasurementPart
<1>1. \A d \in Campaigns : pc'[d] = IF d = c THEN place ELSE pc[d]
  BY DEF TypeOK, Moves, Goto
<1>2. KindFits'
  BY <1>1 DEF KindFits, LockedPlaces, PerformancePlaces, StoragePlaces, Measuring
<1>3. LockIsHeld'
  BY <1>1 DEF LockIsHeld, LockedPlaces
<1>4. LockIsOwned'
  BY <1>1, CampaignAssumption DEF LockIsOwned
<1>5. MeasuredApart'
  BY <1>1, OnlyHolder DEF MeasuredApart, LockedPlaces
<1>6. QED
  BY <1>2, <1>3, <1>4, <1>5

\* The storage is untouched by a campaign that comes to no place of it.
LEMMA StorageUntouched ==
  ASSUME SettingIsGiven, TypeOK, StoragePart, NEW c \in Campaigns, NEW place,
         Moves(c, place), place \notin OwningPlaces, UNCHANGED <<plan, storageVars>>
  PROVE  StoragePart'
<1>1. \A d \in Campaigns : pc'[d] = IF d = c THEN place ELSE pc[d]
  BY DEF TypeOK, Moves, Goto
<1>2. QED
  BY <1>1
     DEF StoragePart, StorageSteps, VolumeIsGuarded, Moves, Home, storageVars, OwningPlaces,
              EmptyPlaces, StoragePlaces

\* No other campaign of the tree is at a place of the storage.
Sole(c) == \A d \in Campaigns \ {c} : Home(d) = Home(c) => pc[d] \notin OwningPlaces

\* One campaign of a tree at a time owns its lock.
LEMMA OwnerIsSole ==
  ASSUME StoragePart, NEW c \in Campaigns, pc[c] \in OwningPlaces
  PROVE  Sole(c)
BY DEF StoragePart, StorageSteps, Sole

\* The storage of the tree is in the hands of one campaign, and that of the
\* other trees stays.
LEMMA StorageMoves ==
  ASSUME SettingIsGiven, TypeOK, StoragePart, NEW c \in Campaigns, NEW place, Moves(c, place),
         Sole(c), UNCHANGED plan,
         \A w \in Worktrees \ {Home(c)} :
           storageLock'[w] = storageLock[w] /\ roots'[w] = roots[w] /\ mounted'[w] = mounted[w],
         mounted'[Home(c)] \subseteq roots'[Home(c)],
         mounted'[Home(c)] # {} => storageLock'[Home(c)] # None,
         place \in OwningPlaces => storageLock'[Home(c)] = c,
         place \in EmptyPlaces => mounted'[Home(c)] = {},
         place = "mounting" => at'[c] \in roots'[Home(c)] \ mounted'[Home(c)],
         place \in {"filling", "unmounting"} => at'[c] \in mounted'[Home(c)] \cap roots'[Home(c)]
  PROVE  StoragePart'
<1>1. \A d \in Campaigns : pc'[d] = IF d = c THEN place ELSE pc[d]
  BY DEF TypeOK, Moves, Goto
<1>2. \A d \in Campaigns : Home(d)' = Home(d) /\ Home(d) \in Worktrees
  BY SettingFacts DEF Home
<1>3. EmptyPlaces \cup {"mounting", "filling", "unmounting"} \subseteq OwningPlaces
  BY DEF EmptyPlaces, OwningPlaces, StoragePlaces
<1>4. StorageSteps'
  <2> SUFFICES ASSUME NEW d \in Campaigns
               PROVE  /\ pc'[d] \in OwningPlaces => storageLock'[Home(d)] = d
                      /\ pc'[d] \in EmptyPlaces => mounted'[Home(d)] = {}
                      /\ pc'[d] = "mounting" => at'[d] \in roots'[Home(d)] \ mounted'[Home(d)]
    BY <1>2 DEF StorageSteps
  <2>1. CASE d = c
    BY <1>1, <2>1
  <2>2. CASE d # c /\ Home(d) = Home(c)
    BY <1>1, <1>3, <2>2 DEF Sole
  <2>3. CASE Home(d) # Home(c)
    BY <1>1, <1>2, <2>3 DEF StoragePart, StorageSteps, Moves
  <2>4. QED
    BY <2>1, <2>2, <2>3
<1>5. VolumeIsGuarded'
  <2>1. \A w \in Worktrees :
          mounted'[w] \subseteq roots'[w] /\ (mounted'[w] # {} => storageLock'[w] # None)
    <3> SUFFICES ASSUME NEW w \in Worktrees
                 PROVE  /\ mounted'[w] \subseteq roots'[w]
                        /\ mounted'[w] # {} => storageLock'[w] # None
      OBVIOUS
    <3>1. CASE w = Home(c)
      BY <3>1
    <3>2. CASE w # Home(c)
      BY <3>2 DEF StoragePart, VolumeIsGuarded
    <3>3. QED
      BY <3>1, <3>2
  <2>2. ASSUME NEW d \in Campaigns, pc'[d] \in {"filling", "unmounting"}
        PROVE  storageLock'[Home(d)] = d /\ at'[d] \in mounted'[Home(d)] \cap roots'[Home(d)]
    <3>1. CASE d = c
      BY <1>1, <1>3, <2>2, <3>1
    <3>2. CASE d # c /\ Home(d) = Home(c)
      BY <1>1, <1>3, <2>2, <3>2 DEF Sole
    <3>3. CASE Home(d) # Home(c)
      BY <1>1, <1>2, <2>2, <3>3 DEF StoragePart, VolumeIsGuarded, Moves
    <3>4. QED
      BY <3>1, <3>2, <3>3
  <2>3. QED
    BY <1>2, <2>1, <2>2 DEF VolumeIsGuarded
<1>6. QED
  BY <1>4, <1>5 DEF StoragePart

\* The class a host is admitted for is the only one of its name, and fits.
LEMMA AdmittedFits ==
  ASSUME SettingIsGiven, NEW c \in Campaigns, Admitted(c), NEW j \in DOMAIN classes.classes,
         classes.classes[j].id = SelectedId(classes, plan[c].class)
  PROVE  Fits(hardware, classes.classes[j])
<1> DEFINE list == classes.classes
           id == SelectedId(classes, plan[c].class)
           found == {i \in 1 .. Len(list) : list[i].id = id}
<1>1. DOMAIN list = 1 .. Len(list)
  BY SettingFacts
<1>2. \A i \in DOMAIN list : list[i].id = id => i = j
  BY DEF Admitted, ManifestIsValid, IdsAreUnique, IsInjective
<1>3. found = {j}
  BY <1>1, <1>2
<1>4. Min(found) = j
  <2>1. j \in Int
    BY <1>1
  <2>2. QED
    BY <1>3, <2>1 DEF Min
<1>5. SelectInSeq(list, LAMBDA class : class.id = id) = j
  BY <1>3, <1>4 DEF SelectInSeq
<1>6. ClassOf(classes, id) = list[j]
  BY <1>5 DEF ClassOf
<1>7. QED
  BY <1>6 DEF Admitted, ClassHolds

\* As long as the machine and its manifest stay, what is honest stays so.
LEMMA HonestStays ==
  ASSUME UNCHANGED <<hardware, classes>>
  PROVE  /\ \A report : Honest(report)' <=> Honest(report)
         /\ \A reports : OneMatrix(reports)' <=> OneMatrix(reports)
         /\ \A files : HonestOutput(files)' <=> HonestOutput(files)
BY DEF HonestOutput, OneMatrix, Honest, VerdictIsDue

\* The reports depend on the output, what was read and the setting alone.
LEMMA ReportsUntouched ==
  ASSUME ReportsAreHonest, ReportsAreNamed, moved \subseteq moved',
         UNCHANGED <<plan, output, read, hardware, classes>>
  PROVE  ReportsAreHonest' /\ ReportsAreNamed'
<1>1. ReportsAreHonest'
  BY DEF ReportsAreHonest, HonestOutput, OneMatrix, Honest, VerdictIsDue
<1>2. ReportsAreNamed'
  BY DEF ReportsAreNamed, Home
<1>3. QED
  BY <1>1, <1>2

\* A summary that is written changes nothing else in the output.
LEMMA SummaryWritten ==
  ASSUME TypeOK, NEW home \in Worktrees, NEW summary \in Summary,
         output' = [output EXCEPT ![home].summary = summary]
  PROVE  /\ output' \in [Worktrees -> Output]
         /\ \A w \in Worktrees :
              /\ output'[w].core = output[w].core /\ output'[w].manifest = output[w].manifest
              /\ output'[w].reports = output[w].reports
              /\ \/ output'[w].summary = output[w].summary
                 \/ w = home /\ output'[w].summary = summary
<1> DEFINE new == [output[home] EXCEPT !.summary = summary]
<1>1. output \in [Worktrees -> Output]
  BY DEF TypeOK
<1>2. /\ new \in Output /\ new.core = output[home].core /\ new.manifest = output[home].manifest
      /\ new.reports = output[home].reports /\ new.summary = summary
  BY <1>1 DEF Output
<1>3. output' = [output EXCEPT ![home] = new]
  OBVIOUS
<1> HIDE DEF new
<1>4. output' \in [Worktrees -> Output]
  BY <1>1, <1>2, <1>3
<1>5. ASSUME NEW w \in Worktrees PROVE output'[w] = IF w = home THEN new ELSE output[w]
  BY <1>1, <1>3
<1>6. QED
  BY <1>2, <1>4, <1>5

\* The evidence stays as it is while a campaign moves on that writes no file
\* and reads no report.
LEMMA EvidenceMoves ==
  ASSUME TypeOK, EvidencePart, NEW c \in Campaigns, NEW place, Moves(c, place),
         UNCHANGED <<plan, head, moved, wasm, built, output, hardware, classes, read>>,
         \A d \in Campaigns \ {c} : measured'[d] = measured[d],
         place # "clearing" /\ (place \in AfterClear => pc[c] \in AfterClear),
         place \in {"measuring", "probing", "reporting"} => Admitted(c),
         place \in {"probing", "reporting"} =>
           /\ measured'[c].core # None
           /\ Home(c) \notin moved => measured'[c].core = head[Home(c)],
         place \notin {"bundling", "recording"},
         place # "publishing" /\ (place = "reading" => at'[c] = 1),
         place \notin Ended => pc[c] \notin {"reading", "publishing"} \cup Ended
  PROVE  EvidencePart'
<1> USE DEF EvidencePart
<1>1. \A d \in Campaigns : pc'[d] = IF d = c THEN place ELSE pc[d]
  BY DEF TypeOK, Moves, Goto
<1>2. BuildIsOfHead'
  <2> SUFFICES ASSUME NEW d \in Campaigns PROVE OfHead(d)'
    BY DEF BuildIsOfHead
  <2>1. OfHead(d) /\ Home(d)' = Home(d)
    BY DEF BuildIsOfHead, Home
  <2>2. pc'[d] \in AfterClear => pc[d] \in AfterClear
    BY <1>1
  <2>3. pc'[d] \in AfterCompile => pc[d] \in AfterCompile
    BY <1>1 DEF AfterCompile
  <2>4. CASE d = c
    BY <1>1, <2>1, <2>2, <2>3, <2>4 DEF OfHead
  <2>5. CASE d # c
    BY <1>1, <2>1, <2>2, <2>3, <2>5 DEF OfHead
  <2>6. QED
    BY <2>4, <2>5
<1>3. HostIsAdmitted'
  BY <1>1 DEF HostIsAdmitted, Admitted
<1>4. ReportsAreHonest' /\ ReportsAreNamed'
  BY ReportsUntouched
<1>5. ReadSoFar'
  <2>1. place = "reading" => read[c] = <<>>
    BY DEF ReadSoFar, Ended
  <2>2. place \notin {"reading", "publishing"} \cup Ended => read[c] = <<>>
    BY DEF ReadSoFar
  <2>3. Len(<<>>) = 0
    OBVIOUS
  <2>4. QED
    BY <1>1, <2>1, <2>2, <2>3 DEF ReadSoFar, Moves
<1>6. QED
  BY <1>2, <1>3, <1>4, <1>5

\* What runs stays what was chosen.
LEMMA SettingStays ==
  ASSUME SettingIsGiven, UNCHANGED <<plan, hardware, classes>>
  PROVE  SettingIsGiven'
BY DEF SettingIsGiven

\* A campaign that moves goes to a place, and the others stay at theirs.
LEMMA MovedPlaces ==
  ASSUME TypeOK, NEW c \in Campaigns, NEW place, Moves(c, place)
  PROVE  /\ pc' \in [Campaigns -> Places] /\ pc'[c] = place
         /\ \A d \in Campaigns \ {c} : pc'[d] = pc[d]
BY DEF TypeOK, Moves, Goto

\* Where a campaign may go.
LEMMA PlacesListed ==
  \A place : \/ place \in {"waiting", "checking", "locking", "counting", "closing", "reading",
                           "publishing", "opening", "measuring", "probing", "reporting"}
             \/ place \in {"compiling", "clearing", "transpiling", "bundling", "recording"}
             \/ place \in {"acquiring", "signing", "detaching", "emptying", "rooting", "mounting",
                           "filling", "unmounting", "cleaning", "releasing"}
             \/ place \in {"passed", "failed", "killed", "abandoned"}
             => place \in Places
BY DEF Places, PerformancePlaces, Measuring, Building, StoragePlaces, Ended

-----------------------------------------------------------------------------
(* The start.                                                              *)

LEMMA InitIInv == Init => IInv
<1> SUFFICES ASSUME Init PROVE IInv
  OBVIOUS
<1> USE DEF Init, InitCampaign, InitPerformance, InitStorage
<1>1. SettingIsGiven
  BY DEF SettingIsGiven
<1>2. TypeOK
  <2>1. EmptyOutput \in Output
    BY DEF EmptyOutput, Output, Files, NoReports
  <2>2. NotMeasured \in Measured
    BY DEF NotMeasured, Measured
  <2>3. Len(<<>>) <= Len(Browsers) /\ <<>> \in Seq(Report) /\ 1 \in BrowserIndex
    BY BrowserFacts
  <2>4. QED
    BY <2>1, <2>2, <2>3, SettingsAssumption DEF TypeOK, Files, Places
<1>3. MeasurementPart /\ StoragePart
  BY CampaignAssumption
     DEF MeasurementPart, KindFits, LockIsHeld, LockIsOwned, LockedPlaces, MeasuredApart,
         PerformancePlaces, Measuring,
         StoragePlaces, StoragePart, StorageSteps, OwningPlaces,
         EmptyPlaces, VolumeIsGuarded
<1>4. EvidencePart
  <2>1. BuildIsOfHead /\ HostIsAdmitted
    BY DEF BuildIsOfHead, OfHead, HostIsAdmitted, AfterCompile, AfterClear, Measuring
  <2>2. ReportsAreHonest /\ ReadSoFar
    BY DEF ReportsAreHonest, HonestOutput, OneMatrix, ReadSoFar, EmptyOutput, NoReports
  <2>3. ReportsAreNamed
    BY DEF ReportsAreNamed, NamedOutput, EmptyOutput, NoReports
  <2>4. QED
    BY <2>1, <2>2, <2>3 DEF EvidencePart
<1>5. QED
  BY <1>1, <1>2, <1>3, <1>4 DEF IInv

-----------------------------------------------------------------------------
(* The build.                                                              *)

(* From here on each lemma is about the step it is named after.            *)

LEMMA LaunchKeeps ==
  ASSUME IInv, NEW c \in Campaigns, Launch(c), UNCHANGED <<performanceVars, storageVars>>
  PROVE  IInv'
<1> USE DEF IInv, Launch, performanceVars, storageVars
<1> DEFINE place == IF plan[c].kind = "performance" THEN "checking" ELSE "compiling"
<1>1. Moves(c, place)
  BY PlacesListed DEF Moves, TypeOK
<1>2. TypeOK'
  BY <1>1, MovedPlaces DEF TypeOK
<1>3. MeasurementPart'
  BY <1>1, MeasurementMoves
     DEF LockedPlaces, LeftPlaces, PerformancePlaces, StoragePlaces, Measuring
<1>4. EvidencePart'
  BY <1>1, EvidenceMoves DEF AfterCompile, AfterClear, Measuring, Ended
<1>5. StoragePart'
  BY <1>1, StorageUntouched DEF OwningPlaces, StoragePlaces
<1>6. QED
  BY <1>2, <1>3, <1>4, <1>5, SettingStays

LEMMA CompileKeeps ==
  ASSUME IInv, NEW c \in Campaigns, Compile(c), UNCHANGED <<performanceVars, storageVars>>
  PROVE  IInv'
<1> USE DEF IInv, Compile, performanceVars, storageVars
<1>1. Moves(c, "clearing")
  BY PlacesListed DEF Moves, TypeOK
<1>2. TypeOK'
  BY <1>1, MovedPlaces, SettingFacts DEF TypeOK, Files
<1>3. MeasurementPart'
  BY <1>1, MeasurementMoves
     DEF LockedPlaces, LeftPlaces, PerformancePlaces, StoragePlaces, Measuring
<1>4. EvidencePart'
  <2> USE MovedPlaces DEF EvidencePart
  <2>1. BuildIsOfHead'
    <3> SUFFICES ASSUME NEW d \in Campaigns PROVE OfHead(d)'
      BY DEF BuildIsOfHead
    <3>1. OfHead(d) /\ Home(d)' = Home(d) /\ Home(d) \in Worktrees
      BY SettingFacts DEF BuildIsOfHead, Home
    <3>2. /\ pc'[d] \in AfterCompile => d = c \/ pc[d] \in AfterCompile
          /\ pc'[d] \in AfterClear => pc[d] \in AfterClear
          /\ pc'[d] \in {"probing", "reporting"} => pc[d] \in {"probing", "reporting"}
          /\ pc'[d] \in {"bundling", "recording"} => pc[d] \in {"bundling", "recording"}
      BY <1>1 DEF AfterCompile, AfterClear, Measuring
    <3>3. /\ wasm'[Home(c)] = head[Home(c)]
          /\ \A w \in Worktrees \ {Home(c)} : wasm'[w] = wasm[w]
      BY SettingFacts DEF TypeOK
    <3>4. QED
      BY <3>1, <3>2, <3>3 DEF OfHead
  <2>2. HostIsAdmitted' /\ ReadSoFar'
    BY <1>1 DEF HostIsAdmitted, Admitted, ReadSoFar, TypeOK, Ended
  <2>3. QED
    BY <2>1, <2>2, ReportsUntouched
<1>5. StoragePart'
  BY <1>1, StorageUntouched DEF OwningPlaces, StoragePlaces
<1>6. QED
  BY <1>2, <1>3, <1>4, <1>5, SettingStays

\* The output of the tree is a new one, with no core, no report and no summary.
LEMMA ClearKeeps ==
  ASSUME IInv, NEW c \in Campaigns, Clear(c), UNCHANGED <<performanceVars, storageVars>>
  PROVE  IInv'
<1> USE DEF IInv, Clear, performanceVars, storageVars
<1>1. Moves(c, "transpiling")
  BY PlacesListed DEF Moves, TypeOK
<1>2. TypeOK'
  <2>1. EmptyOutput \in Output
    BY DEF EmptyOutput, Output, Files, NoReports
  <2>2. QED
    BY <1>1, <2>1, MovedPlaces DEF TypeOK
<1>3. MeasurementPart'
  BY <1>1, MeasurementMoves
     DEF LockedPlaces, LeftPlaces, PerformancePlaces, StoragePlaces, Measuring
<1>4. EvidencePart'
  <2> USE MovedPlaces DEF EvidencePart
  <2>1. BuildIsOfHead'
    <3> SUFFICES ASSUME NEW d \in Campaigns PROVE OfHead(d)'
      BY DEF BuildIsOfHead
    <3>1. OfHead(d) /\ Home(d)' = Home(d) /\ Home(d) \in Worktrees
      BY SettingFacts DEF BuildIsOfHead, Home
    <3>2. /\ pc'[d] \in AfterCompile => pc[d] \in AfterCompile
          /\ pc'[d] \in AfterClear => d = c \/ pc[d] \in AfterClear
          /\ pc'[d] \in {"probing", "reporting"} => pc[d] \in {"probing", "reporting"}
          /\ pc'[d] \in {"bundling", "recording"} => pc[d] \in {"bundling", "recording"}
      BY <1>1 DEF AfterCompile, AfterClear, Measuring
    <3>3. /\ output'[Home(c)] = EmptyOutput
          /\ \A w \in Worktrees \ {Home(c)} : output'[w] = output[w]
      BY SettingFacts DEF TypeOK
    <3>4. QED
      BY <3>1, <3>2, <3>3 DEF OfHead, EmptyOutput
  <2>2. HostIsAdmitted' /\ ReadSoFar'
    BY <1>1 DEF HostIsAdmitted, Admitted, ReadSoFar, TypeOK, Ended
  <2>3. ReportsAreHonest'
    <3>1. HonestOutput(EmptyOutput)
      BY DEF HonestOutput, EmptyOutput, NoReports
    <3>2. \A w \in Worktrees : output'[w] \in {output[w], EmptyOutput}
      BY DEF TypeOK
    <3>3. \A w \in Worktrees : HonestOutput(output'[w])
      BY <3>1, <3>2 DEF ReportsAreHonest
    <3>4. QED
      BY <3>3, HonestStays DEF ReportsAreHonest
  <2>4. ReportsAreNamed'
    <3>1. \A w \in Worktrees : output'[w] \in {output[w], EmptyOutput}
      BY DEF TypeOK
    <3>2. NamedOutput(EmptyOutput)
      BY DEF NamedOutput, EmptyOutput, NoReports
    <3>3. QED
      BY <3>1, <3>2 DEF ReportsAreNamed, Home
  <2>5. QED
    BY <2>1, <2>2, <2>3, <2>4
<1>5. StoragePart'
  BY <1>1, StorageUntouched DEF OwningPlaces, StoragePlaces
<1>6. QED
  BY <1>2, <1>3, <1>4, <1>5, SettingStays

\* A file of the tree's output is written: the module that was compiled, or the
\* record of the one that was made into a component.
FileWritten(c) ==
  /\ output' \in [Worktrees -> Output]
  /\ \A w \in Worktrees \ {Home(c)} : output'[w] = output[w]
  /\ LET old == output[Home(c)]
         new == output'[Home(c)]
     IN  /\ new.reports = old.reports /\ new.summary = old.summary
         /\ new.core \in {old.core, wasm[Home(c)]}
         /\ \/ new.manifest = old.manifest
            \/ pc[c] = "recording" /\ new.manifest = built[c]
  /\ \/ built'[c] = wasm[Home(c)]
     \/ pc[c] # "transpiling" /\ built'[c] = built[c]
  /\ \A d \in Campaigns \ {c} : built'[d] = built[d]
  /\ UNCHANGED <<plan, head, moved, wasm, hardware, classes, measured, read>>

\* What WriteCore, WriteHarness and WriteManifest have in common.
LEMMA FileWrittenKeeps ==
  ASSUME SettingIsGiven, TypeOK, EvidencePart, NEW c \in Campaigns, NEW place, Moves(c, place),
         FileWritten(c),
         pc[c] \in {"transpiling", "bundling", "recording"},
         place \in {"bundling", "recording", "locking", "acquiring"}
  PROVE  EvidencePart'
<1>1. /\ \A w \in Worktrees :
           /\ output'[w].reports = output[w].reports /\ output'[w].summary = output[w].summary
           /\ output'[w].core \in {output[w].core, wasm[w]}
           /\ \/ output'[w].manifest = output[w].manifest
              \/ w = Home(c) /\ pc[c] = "recording" /\ output'[w].manifest = built[c]
      /\ \A d \in Campaigns : Home(d) \in Worktrees /\ Home(d)' = Home(d)
      /\ \/ built'[c] = wasm[Home(c)]
         \/ pc[c] # "transpiling" /\ built'[c] = built[c]
      /\ \A d \in Campaigns \ {c} : built'[d] = built[d]
      /\ UNCHANGED <<plan, head, moved, wasm, hardware, classes, measured, read>>
  BY SettingFacts DEF FileWritten, Home
<1>2. \A d \in Campaigns : pc'[d] = IF d = c THEN place ELSE pc[d]
  BY MovedPlaces
<1>3. BuildIsOfHead'
  <2> SUFFICES ASSUME NEW d \in Campaigns PROVE OfHead(d)'
    BY DEF BuildIsOfHead
  <2>1. pc'[d] \in AfterClear => pc[d] \in AfterClear
    BY <1>2 DEF AfterClear
  <2>2. pc'[d] \in AfterCompile => pc[d] \in AfterCompile
    BY <1>2 DEF AfterClear, AfterCompile
  <2>3. pc'[d] \in {"probing", "reporting"} => pc[d] = pc'[d]
    BY <1>2
  <2>4. AfterClear \subseteq AfterCompile
    BY DEF AfterCompile
  <2>5. OfHead(d) /\ OfHead(c)
    BY DEF EvidencePart, BuildIsOfHead
  <2>6. /\ measured[d].core = measured'[d].core
        /\ pc'[d] \in {"bundling", "recording"} /\ d # c => pc[d] \in {"bundling", "recording"}
        /\ pc[c] \in AfterClear /\ pc[c] \in AfterCompile
    BY <1>1, <1>2, <2>4 DEF AfterClear
  <2>7. ASSUME Home(d) \notin moved
        PROVE  /\ pc'[d] \in AfterCompile => wasm[Home(d)] = head[Home(d)]
               /\ pc'[d] \in {"bundling", "recording"} => built'[d] = head[Home(d)]
               /\ pc'[d] \in AfterClear =>
                    {output'[Home(d)].core, output'[Home(d)].manifest}
                      \subseteq {None, head[Home(d)]}
               /\ pc'[d] \in {"probing", "reporting"} => measured[d].core = head[Home(d)]
    <3>1. /\ pc[d] \in AfterCompile => wasm[Home(d)] = head[Home(d)]
          /\ pc[d] \in {"bundling", "recording"} => built[d] = head[Home(d)]
          /\ pc[d] \in AfterClear =>
               {output[Home(d)].core, output[Home(d)].manifest} \subseteq {None, head[Home(d)]}
      BY <2>5, <2>7 DEF OfHead
    <3>2. Home(c) \notin moved =>
            /\ wasm[Home(c)] = head[Home(c)]
            /\ pc[c] \in {"bundling", "recording"} => built[c] = head[Home(c)]
      BY <2>5, <2>6 DEF OfHead
    <3>3. pc'[d] \in {"bundling", "recording"} => built'[d] = head[Home(d)]
      BY <1>1, <2>6, <2>7, <3>1, <3>2
    <3>4. pc'[d] \in AfterClear =>
            {output'[Home(d)].core, output'[Home(d)].manifest} \subseteq {None, head[Home(d)]}
      BY <1>1, <2>1, <2>4, <2>7, <3>1, <3>2
    <3>5. QED
      BY <2>2, <2>3, <2>5, <2>7, <3>1, <3>3, <3>4 DEF OfHead
  <2>8. QED
    BY <1>1, <2>3, <2>5, <2>6, <2>7 DEF OfHead
<1>4. HostIsAdmitted'
  BY <1>1, <1>2 DEF EvidencePart, HostIsAdmitted, Admitted
<1>5. ReadSoFar'
  BY <1>1, <1>2 DEF EvidencePart, ReadSoFar, Moves, Ended
<1>6. ReportsAreHonest'
  <2>1. \A w \in Worktrees : HonestOutput(output'[w])
    BY <1>1 DEF EvidencePart, ReportsAreHonest, HonestOutput
  <2>2. QED
    BY <1>1, <2>1, HonestStays DEF EvidencePart, ReportsAreHonest
<1>7. ReportsAreNamed'
  BY <1>1 DEF EvidencePart, ReportsAreNamed, NamedOutput
<1>8. QED
  BY <1>3, <1>4, <1>5, <1>6, <1>7 DEF EvidencePart

\* Writing one file of the tree with the module of its commit, or one that no
\* place of a campaign is about.
LEMMA FileIsWritten ==
  ASSUME TypeOK, NEW c \in Campaigns, Home(c) \in Worktrees, NEW new \in Output,
         output' = [output EXCEPT ![Home(c)] = new],
         new.reports = output[Home(c)].reports, new.summary = output[Home(c)].summary,
         new.core \in {output[Home(c)].core, wasm[Home(c)]},
         \/ new.manifest = output[Home(c)].manifest
         \/ pc[c] = "recording" /\ new.manifest = built[c],
         \/ built'[c] = wasm[Home(c)]
         \/ pc[c] # "transpiling" /\ built'[c] = built[c],
         \A d \in Campaigns \ {c} : built'[d] = built[d],
         UNCHANGED <<plan, head, moved, wasm, hardware, classes, measured, read>>
  PROVE  FileWritten(c)
<1>1. output \in [Worktrees -> Output]
  BY DEF TypeOK
<1>2. output' \in [Worktrees -> Output] /\ output'[Home(c)] = new
  BY <1>1
<1>3. \A w \in Worktrees \ {Home(c)} : output'[w] = output[w]
  BY <1>1
<1>4. QED
  BY <1>2, <1>3 DEF FileWritten

LEMMA WriteCoreKeeps ==
  ASSUME IInv, NEW c \in Campaigns, WriteCore(c), UNCHANGED <<performanceVars, storageVars>>
  PROVE  IInv'
<1> USE DEF IInv, WriteCore, performanceVars, storageVars
<1>1. Moves(c, "bundling")
  BY PlacesListed DEF Moves, TypeOK
<1>2. FileWritten(c)
  <2> DEFINE old == output[Home(c)]
             new == [old EXCEPT !.core = wasm[Home(c)]]
  <2>1. Home(c) \in Worktrees /\ old \in Output /\ wasm[Home(c)] \in Files
    BY SettingFacts DEF TypeOK, Files
  <2>2. /\ new \in Output /\ new.reports = old.reports /\ new.summary = old.summary
        /\ new.core = wasm[Home(c)] /\ new.manifest = old.manifest
    BY <2>1 DEF Output
  <2>3. output' = [output EXCEPT ![Home(c)] = new]
    OBVIOUS
  <2>4. built'[c] = wasm[Home(c)] /\ \A d \in Campaigns \ {c} : built'[d] = built[d]
    BY DEF TypeOK
  <2> HIDE DEF new
  <2>5. QED
    BY <2>1, <2>2, <2>3, <2>4, FileIsWritten
<1>3. TypeOK'
  <2>1. built' \in [Campaigns -> Files]
    BY SettingFacts DEF TypeOK
  <2>2. QED
    BY <1>1, <1>2, <2>1, MovedPlaces DEF TypeOK, FileWritten
<1>4. MeasurementPart'
  BY <1>1, SettingFacts, MeasurementMoves
     DEF LockedPlaces, LeftPlaces, PerformancePlaces, StoragePlaces, Measuring
<1>5. EvidencePart'
  BY <1>1, <1>2, FileWrittenKeeps
<1>6. StoragePart'
  BY <1>1, StorageUntouched DEF OwningPlaces, StoragePlaces
<1>7. QED
  BY <1>3, <1>4, <1>5, <1>6, SettingStays

LEMMA WriteHarnessKeeps ==
  ASSUME IInv, NEW c \in Campaigns, WriteHarness(c), UNCHANGED <<performanceVars, storageVars>>
  PROVE  IInv'
<1> USE DEF IInv, WriteHarness, performanceVars, storageVars
<1>1. Moves(c, "recording")
  BY PlacesListed DEF Moves, TypeOK
<1>2. FileWritten(c)
  <2> DEFINE old == output[Home(c)]
             new == [old EXCEPT !.harness = head[Home(c)]]
  <2>1. Home(c) \in Worktrees /\ old \in Output /\ head[Home(c)] \in Files
    BY SettingFacts DEF TypeOK, Files
  <2>2. /\ new \in Output /\ new.reports = old.reports /\ new.summary = old.summary
        /\ new.core = old.core /\ new.manifest = old.manifest
    BY <2>1 DEF Output
  <2>3. output' = [output EXCEPT ![Home(c)] = new]
    OBVIOUS
  <2> HIDE DEF new
  <2>4. QED
    BY <2>1, <2>2, <2>3, FileIsWritten
<1>3. TypeOK'
  BY <1>1, <1>2, MovedPlaces DEF TypeOK, FileWritten
<1>4. MeasurementPart'
  BY <1>1, SettingFacts, MeasurementMoves
     DEF LockedPlaces, LeftPlaces, PerformancePlaces, StoragePlaces, Measuring
<1>5. EvidencePart'
  BY <1>1, <1>2, FileWrittenKeeps
<1>6. StoragePart'
  BY <1>1, StorageUntouched DEF OwningPlaces, StoragePlaces
<1>7. QED
  BY <1>3, <1>4, <1>5, <1>6, SettingStays

LEMMA WriteManifestKeeps ==
  ASSUME IInv, NEW c \in Campaigns, WriteManifest(c), UNCHANGED <<performanceVars, storageVars>>
  PROVE  IInv'
<1> USE DEF IInv, WriteManifest, performanceVars, storageVars
<1> DEFINE place == IF plan[c].kind = "performance" THEN "locking" ELSE "acquiring"
<1>1. Moves(c, place)
  BY PlacesListed DEF Moves, TypeOK
<1>2. FileWritten(c)
  <2> DEFINE old == output[Home(c)]
             new == [old EXCEPT !.manifest = built[c]]
  <2>1. Home(c) \in Worktrees /\ old \in Output /\ built[c] \in Files
    BY SettingFacts DEF TypeOK, Files
  <2>2. /\ new \in Output /\ new.reports = old.reports /\ new.summary = old.summary
        /\ new.core = old.core /\ new.manifest = built[c]
    BY <2>1 DEF Output
  <2>3. output' = [output EXCEPT ![Home(c)] = new]
    OBVIOUS
  <2> HIDE DEF new
  <2>4. QED
    BY <2>1, <2>2, <2>3, FileIsWritten
<1>3. TypeOK'
  BY <1>1, <1>2, MovedPlaces DEF TypeOK, FileWritten
<1>4. MeasurementPart'
  BY <1>1, SettingFacts, MeasurementMoves
     DEF LockedPlaces, LeftPlaces, PerformancePlaces, StoragePlaces, Measuring
<1>5. EvidencePart'
  BY <1>1, <1>2, FileWrittenKeeps
<1>6. StoragePart'
  BY <1>1, StorageUntouched DEF OwningPlaces, StoragePlaces
<1>7. QED
  BY <1>3, <1>4, <1>5, <1>6, SettingStays

LEMMA BuildFailsKeeps ==
  ASSUME IInv, NEW c \in Campaigns, BuildFails(c), UNCHANGED <<performanceVars, storageVars>>
  PROVE  IInv'
<1> USE DEF IInv, BuildFails, performanceVars, storageVars
<1>1. Moves(c, "failed")
  BY PlacesListed DEF Moves, TypeOK
<1>2. TypeOK'
  BY <1>1, MovedPlaces DEF TypeOK
<1>3. MeasurementPart'
  BY <1>1, MeasurementMoves DEF LockedPlaces, LeftPlaces, PerformancePlaces, StoragePlaces,
                                  Measuring, Building
<1>4. EvidencePart'
  BY <1>1, EvidenceMoves DEF AfterCompile, AfterClear, Measuring, Ended
<1>5. StoragePart'
  BY <1>1, StorageUntouched DEF OwningPlaces, StoragePlaces
<1>6. QED
  BY <1>2, <1>3, <1>4, <1>5, SettingStays

-----------------------------------------------------------------------------
(* The performance campaign.                                               *)

LEMMA CheckClassKeeps ==
  ASSUME IInv, NEW c \in Campaigns, CheckClass(c), UNCHANGED storageVars
  PROVE  IInv'
<1> USE DEF IInv, CheckClass, performanceVars, storageVars
<1> DEFINE place == IF Admitted(c) THEN "compiling" ELSE "failed"
<1>1. Moves(c, place)
  BY PlacesListed DEF Moves, TypeOK
<1>2. TypeOK'
  BY <1>1, MovedPlaces DEF TypeOK
<1>3. MeasurementPart'
  BY <1>1, MeasurementMoves
     DEF LockedPlaces, LeftPlaces, PerformancePlaces, StoragePlaces, Measuring
<1>4. EvidencePart'
  BY <1>1, EvidenceMoves DEF AfterClear, Measuring, Ended
<1>5. StoragePart'
  BY <1>1, StorageUntouched DEF OwningPlaces, StoragePlaces
<1>6. QED
  BY <1>2, <1>3, <1>4, <1>5, SettingStays

\* If nobody has the lock, nobody is at a place that needs it.
LEMMA TakeLockKeeps ==
  ASSUME IInv, NEW c \in Campaigns, TakeLock(c), UNCHANGED storageVars
  PROVE  IInv'
<1> USE DEF IInv, TakeLock, storageVars
<1> DEFINE place == IF lock = None THEN "counting" ELSE "failed"
<1>1. Moves(c, place)
  BY PlacesListed DEF Moves, TypeOK
<1>2. TypeOK'
  BY <1>1, MovedPlaces DEF TypeOK
<1>3. MeasurementPart'
  <2>1. CASE lock = None
    <3> USE DEF MeasurementPart
    <3>1. lock' = c /\ \A d \in Campaigns : pc[d] \notin LockedPlaces
      BY <2>1, CampaignAssumption DEF LockIsHeld
    <3>2. \A d \in Campaigns : pc'[d] = IF d = c THEN "counting" ELSE pc[d]
      BY <1>1, <2>1, MovedPlaces
    <3>3. KindFits'
      BY <3>2 DEF KindFits, PerformancePlaces, StoragePlaces, Measuring
    <3>4. LockIsHeld' /\ LockIsOwned' /\ MeasuredApart'
      BY <3>1, <3>2 DEF LockIsHeld, LockIsOwned, MeasuredApart, LockedPlaces, Measuring
    <3>5. QED
      BY <3>3, <3>4
  <2>2. CASE lock # None
    BY <1>1, <2>2, MeasurementMoves
       DEF LockedPlaces, LeftPlaces, PerformancePlaces, StoragePlaces, Measuring
  <2>3. QED
    BY <2>1, <2>2
<1>4. EvidencePart'
  BY <1>1, EvidenceMoves DEF AfterClear, Measuring, Ended
<1>5. StoragePart'
  BY <1>1, StorageUntouched DEF OwningPlaces, StoragePlaces
<1>6. QED
  BY <1>2, <1>3, <1>4, <1>5, SettingStays

\* A measurement begins when no browser runs.
LEMMA CountBrowsersKeeps ==
  ASSUME IInv, NEW c \in Campaigns, CountBrowsers(c), UNCHANGED storageVars
  PROVE  IInv'
<1> USE DEF IInv, CountBrowsers, LeaveSetup, storageVars
<1> DEFINE place == IF processes = {} THEN "opening" ELSE "failed"
<1>1. Moves(c, place)
  BY PlacesListed DEF Moves, TypeOK
<1>2. TypeOK'
  BY <1>1, MovedPlaces DEF TypeOK
<1>3. MeasurementPart'
  <2>1. CASE processes = {}
    <3> USE DEF MeasurementPart
    <3>1. \A d \in Campaigns : pc'[d] = IF d = c THEN "opening" ELSE pc[d]
      BY <1>1, <2>1, MovedPlaces
    <3>2. KindFits'
      BY <3>1 DEF KindFits, PerformancePlaces, StoragePlaces, Measuring
    <3>3. LockIsHeld'
      BY <2>1, <3>1 DEF LockIsHeld, LockedPlaces, Measuring
    <3>4. MeasuredApart'
      BY <2>1, <3>1, <3>3 DEF MeasuredApart, LockIsHeld, LockedPlaces
    <3>5. LockIsOwned'
      BY <2>1, <3>1 DEF LockIsOwned, LockedPlaces, Measuring
    <3>6. QED
      BY <3>2, <3>3, <3>4, <3>5
  <2>2. CASE processes # {}
    BY <1>1, <2>2, MeasurementMoves
       DEF LockedPlaces, LeftPlaces, PerformancePlaces, StoragePlaces, Measuring
  <2>3. QED
    BY <2>1, <2>2
<1>4. EvidencePart'
  BY <1>1, EvidenceMoves DEF AfterClear, Measuring, Ended
<1>5. StoragePart'
  BY <1>1, StorageUntouched DEF OwningPlaces, StoragePlaces
<1>6. QED
  BY <1>2, <1>3, <1>4, <1>5, SettingStays

LEMMA SetupFailsKeeps ==
  ASSUME IInv, NEW c \in Campaigns, SetupFails(c), UNCHANGED storageVars
  PROVE  IInv'
<1> USE DEF IInv, SetupFails, LeaveSetup, storageVars
<1>1. Moves(c, "failed")
  BY PlacesListed DEF Moves, TypeOK
<1>2. TypeOK'
  BY <1>1, MovedPlaces DEF TypeOK
<1>3. MeasurementPart'
  BY <1>1, MeasurementMoves
     DEF LockedPlaces, LeftPlaces, PerformancePlaces, StoragePlaces, Measuring
<1>4. EvidencePart'
  BY <1>1, EvidenceMoves DEF AfterClear, Measuring, Ended
<1>5. StoragePart'
  BY <1>1, StorageUntouched DEF OwningPlaces, StoragePlaces
<1>6. QED
  BY <1>2, <1>3, <1>4, <1>5, SettingStays

\* A lock that stays is that of the campaign that has left it.
LEMMA LeaveLockKeeps ==
  ASSUME IInv, NEW c \in Campaigns, LeaveLock(c), UNCHANGED storageVars
  PROVE  IInv'
<1> USE DEF IInv, LeaveLock, performanceVars, storageVars
<1>1. Moves(c, "abandoned")
  BY PlacesListed DEF Moves, TypeOK
<1>2. TypeOK'
  BY <1>1, MovedPlaces DEF TypeOK
<1>3. MeasurementPart'
  BY <1>1, MeasurementMoves
     DEF LockedPlaces, LeftPlaces, PerformancePlaces, StoragePlaces, Measuring
<1>4. EvidencePart'
  BY <1>1, EvidenceMoves DEF AfterClear, Measuring, Ended
<1>5. StoragePart'
  BY <1>1, StorageUntouched DEF OwningPlaces, StoragePlaces
<1>6. QED
  BY <1>2, <1>3, <1>4, <1>5, SettingStays

LEMMA TeardownKeeps ==
  ASSUME IInv, NEW c \in Campaigns, Teardown(c), UNCHANGED storageVars
  PROVE  IInv'
<1> USE DEF IInv, Teardown, storageVars
<1> DEFINE place == IF processes # {} \/ red[c] THEN "failed" ELSE "reading"
<1>1. Moves(c, place) /\ (place = "reading" => at'[c] = 1)
  <2>1. 1 \in BrowserIndex
    BY BrowserFacts
  <2>2. CASE processes # {} \/ red[c]
    BY <2>2, PlacesListed DEF Moves, TypeOK
  <2>3. CASE ~(processes # {} \/ red[c])
    BY <2>1, <2>3, PlacesListed DEF Moves, TypeOK
  <2>4. QED
    BY <2>2, <2>3
<1>2. TypeOK'
  BY <1>1, MovedPlaces DEF TypeOK, Moves
<1>3. plan[c].kind = "performance"
  BY DEF MeasurementPart, KindFits, PerformancePlaces
<1>4. MeasurementPart'
  BY <1>1, <1>3, MeasurementMoves DEF LockedPlaces, LeftPlaces, StoragePlaces, Measuring
<1>5. EvidencePart'
  BY <1>1, EvidenceMoves DEF AfterClear, Measuring, Ended
<1>6. StoragePart'
  BY <1>1, StorageUntouched DEF OwningPlaces, StoragePlaces
<1>7. QED
  BY <1>2, <1>4, <1>5, <1>6, SettingStays

LEMMA OpenKeeps ==
  ASSUME IInv, NEW c \in Campaigns, Open(c), UNCHANGED storageVars
  PROVE  IInv'
<1> USE DEF IInv, Open, performanceVars, storageVars
<1>1. Moves(c, "measuring")
  BY PlacesListed DEF Moves, TypeOK
<1>2. TypeOK'
  BY <1>1, MovedPlaces DEF TypeOK
<1>3. MeasurementPart'
  BY <1>1, MeasurementGoesOn DEF LockedPlaces, Measuring
<1>4. EvidencePart'
  BY <1>1, EvidenceMoves DEF AfterClear, Measuring, Ended
<1>5. StoragePart'
  BY <1>1, StorageUntouched DEF OwningPlaces, StoragePlaces
<1>6. QED
  BY <1>2, <1>3, <1>4, <1>5, SettingStays

\* The core that is served is that of the tree's commit.
LEMMA MeasureProfilesKeeps ==
  ASSUME IInv, NEW c \in Campaigns, MeasureProfiles(c), UNCHANGED storageVars
  PROVE  IInv'
<1> USE DEF IInv, MeasureProfiles, storageVars
<1>1. Moves(c, "probing")
  BY PlacesListed DEF Moves, TypeOK
<1>2. /\ Home(c) \notin moved => output[Home(c)].core = head[Home(c)]
      /\ output[Home(c)].core # None /\ Admitted(c)
  BY DEF EvidencePart, BuildIsOfHead, OfHead, HostIsAdmitted, Served, AfterClear, Measuring
<1>3. measured' \in [Campaigns -> Measured] /\ measured'[c].core = output[Home(c)].core
      /\ \A d \in Campaigns \ {c} : measured'[d] = measured[d]
  <2>1. output[Home(c)].core \in Files
    BY SettingFacts DEF TypeOK, Output
  <2>2. QED
    BY <2>1, SettingFacts DEF TypeOK, Measured, Files
<1>4. TypeOK'
  BY <1>1, <1>3, MovedPlaces DEF TypeOK
<1>5. MeasurementPart'
  BY <1>1, MeasurementGoesOn DEF LockedPlaces, Measuring
<1>6. EvidencePart'
  BY <1>1, <1>2, <1>3, EvidenceMoves DEF AfterClear, Measuring, Ended
<1>7. StoragePart'
  BY <1>1, StorageUntouched DEF OwningPlaces, StoragePlaces
<1>8. QED
  BY <1>4, <1>5, <1>6, <1>7, SettingStays

LEMMA ProbeRefusalsKeeps ==
  ASSUME IInv, NEW c \in Campaigns, ProbeRefusals(c), UNCHANGED storageVars
  PROVE  IInv'
<1> USE DEF IInv, ProbeRefusals, performanceVars, storageVars
<1>1. Moves(c, "reporting")
  BY PlacesListed DEF Moves, TypeOK
<1>2. TypeOK'
  BY <1>1, MovedPlaces DEF TypeOK
<1>3. MeasurementPart'
  BY <1>1, MeasurementGoesOn DEF LockedPlaces, Measuring
<1>4. /\ measured[c].core # None /\ Admitted(c)
      /\ Home(c) \notin moved => measured[c].core = head[Home(c)]
  BY DEF EvidencePart, BuildIsOfHead, OfHead, HostIsAdmitted
<1>5. EvidencePart'
  BY <1>1, <1>4, EvidenceMoves DEF AfterClear, Measuring, Ended
<1>6. StoragePart'
  BY <1>1, StorageUntouched DEF OwningPlaces, StoragePlaces
<1>7. QED
  BY <1>2, <1>3, <1>5, <1>6, SettingStays

\* The next browser is one of the list, or there is none.
LEMMA NextBrowserMoves ==
  ASSUME TypeOK, NEW c \in Campaigns, NEW first \in Places, NEW last \in Places,
         NextBrowser(c, first, last)
  PROVE  \/ Moves(c, first) /\ at'[c] = at[c] + 1
         \/ Moves(c, last) /\ at[c] = Len(Browsers)
<1>1. at[c] \in 1 .. Len(Browsers) /\ at \in [Campaigns -> BrowserIndex]
  BY BrowserFacts DEF TypeOK
<1>2. CASE at[c] < Len(Browsers)
  <2>1. at[c] + 1 \in BrowserIndex
    BY <1>1, <1>2, BrowserFacts
  <2>2. Moves(c, first) /\ at'[c] = at[c] + 1
    BY <1>1, <1>2, <2>1 DEF NextBrowser, Moves
  <2>3. QED
    BY <2>2
<1>3. CASE ~(at[c] < Len(Browsers))
  <2>1. Moves(c, last) /\ at[c] = Len(Browsers)
    BY <1>1, <1>3, BrowserFacts DEF NextBrowser, Moves
  <2>2. QED
    BY <2>1
<1>4. QED
  BY <1>2, <1>3

LEMMA TestFailsKeeps ==
  ASSUME IInv, NEW c \in Campaigns, TestFails(c), UNCHANGED storageVars
  PROVE  IInv'
<1> USE DEF IInv, TestFails, storageVars
<1>1. PICK place \in {"opening", "closing"} : Moves(c, place)
  BY NextBrowserMoves, PlacesListed
<1>2. TypeOK'
  BY <1>1, MovedPlaces DEF TypeOK, Moves, Mark, Measured, NotMeasured
<1>3. MeasurementPart'
  BY <1>1, MeasurementGoesOn DEF LockedPlaces, Measuring
<1>4. \A d \in Campaigns \ {c} : measured'[d] = measured[d]
  BY DEF TypeOK
<1>5. EvidencePart'
  BY <1>1, <1>4, EvidenceMoves DEF AfterClear, Measuring, Ended
<1>6. StoragePart'
  BY <1>1, StorageUntouched DEF OwningPlaces, StoragePlaces
<1>7. QED
  BY <1>2, <1>3, <1>5, <1>6, SettingStays

LEMMA WriteReportKeeps ==
  ASSUME IInv, NEW c \in Campaigns, WriteReport(c), UNCHANGED storageVars
  PROVE  IInv'
<1> USE DEF IInv
<1>1. PICK place \in {"opening", "closing"} : Moves(c, place)
  BY NextBrowserMoves, PlacesListed DEF WriteReport
<1>2. /\ pc[c] = "reporting" /\ Home(c) \in Worktrees /\ at[c] \in BrowserIndex
      /\ UNCHANGED <<plan, processes, head, moved, wasm, built, hardware, classes, lock,
                     read, storageVars>>
      /\ measured' = [measured EXCEPT ![c] = NotMeasured]
      /\ output' = [output EXCEPT ![Home(c)].reports[at[c]] = ReportOf(c)]
      /\ red' \in [Campaigns -> BOOLEAN]
  BY SettingFacts DEF WriteReport, TypeOK, Mark
<1>3. /\ measured' \in [Campaigns -> Measured]
      /\ \A d \in Campaigns \ {c} : measured'[d] = measured[d]
  BY <1>2 DEF TypeOK, Measured, NotMeasured
<1>4. /\ {head[Home(c)], output[Home(c)].manifest, measured[c].core} \subseteq Commits
      /\ Home(c) \notin moved =>
           output[Home(c)].manifest = head[Home(c)] /\ measured[c].core = head[Home(c)]
      /\ Admitted(c)
  <2>1. output[Home(c)].manifest \in Files \ {None}
    BY <1>2 DEF WriteReport, Served, TypeOK, Output
  <2>2. measured[c].core \in Files \ {None} /\ head[Home(c)] \in Commits
    BY <1>2 DEF EvidencePart, BuildIsOfHead, OfHead, TypeOK, Measured, Files
  <2>3. Home(c) \notin moved => output[Home(c)].manifest \in {None, head[Home(c)]}
    BY <1>2 DEF EvidencePart, BuildIsOfHead, OfHead, AfterClear, Measuring
  <2>4. QED
    BY <1>2, <2>1, <2>2, <2>3 DEF Files, EvidencePart, BuildIsOfHead, OfHead, HostIsAdmitted
<1>5. /\ ReportOf(c) \in Report /\ Honest(ReportOf(c))
      /\ Home(c) \notin moved => Named(ReportOf(c))
  <2>1. measured[c].budgetsHold \in BOOLEAN
    BY DEF TypeOK, Measured
  <2>2. Promotable(plan[c].mode, hardware) \in BOOLEAN
    BY DEF Promotable
  <2>3. ReportOf(c) \in Report
    BY <1>4, <2>1, <2>2, SettingFacts DEF ReportOf, Report
  <2>4. Honest(ReportOf(c))
    BY <1>4, AdmittedFits DEF ReportOf, Honest, Admitted
  <2>5. Home(c) \notin moved => Named(ReportOf(c))
    BY <1>4 DEF ReportOf, Named
  <2>6. QED
    BY <2>3, <2>4, <2>5
<1>6. /\ output' \in [Worktrees -> Output]
      /\ \A w \in Worktrees :
           /\ output'[w].core = output[w].core /\ output'[w].manifest = output[w].manifest
           /\ output'[w].summary = output[w].summary
           /\ \A b \in BrowserIndex :
                \/ output'[w].reports[b] = output[w].reports[b]
                \/ w = Home(c) /\ output'[w].reports[b] = ReportOf(c)
  <2>1. /\ output[Home(c)] \in Output
        /\ output[Home(c)].reports \in [BrowserIndex -> Report \cup {None}]
    BY <1>2 DEF TypeOK, Output
  <2>2. [output[Home(c)].reports EXCEPT ![at[c]] = ReportOf(c)] \in
          [BrowserIndex -> Report \cup {None}]
    BY <1>2, <1>5, <2>1
  <2>3. [output[Home(c)] EXCEPT !.reports[at[c]] = ReportOf(c)] \in Output
    BY <2>1, <2>2 DEF Output
  <2>4. output' \in [Worktrees -> Output]
    BY <1>2, <2>3 DEF TypeOK
  <2>5. QED
    BY <1>2, <2>1, <2>4 DEF TypeOK, Output
<1>7. TypeOK'
  BY <1>1, <1>2, <1>3, <1>6, MovedPlaces DEF TypeOK, Moves, storageVars
<1>8. MeasurementPart'
  BY <1>1, <1>2, MeasurementGoesOn DEF LockedPlaces, Measuring
<1>9. EvidencePart'
  <2> USE DEF EvidencePart
  <2>1. \A d \in Campaigns : pc'[d] = IF d = c THEN place ELSE pc[d]
    BY <1>1, MovedPlaces
  <2>2. BuildIsOfHead'
    <3> SUFFICES ASSUME NEW d \in Campaigns PROVE OfHead(d)'
      BY DEF BuildIsOfHead
    <3>1. OfHead(d) /\ Home(d)' = Home(d) /\ Home(d) \in Worktrees
      BY <1>2, SettingFacts DEF BuildIsOfHead, Home
    <3>2. pc'[d] \in AfterClear => pc[d] \in AfterClear
      BY <1>2, <2>1 DEF AfterClear, Measuring
    <3>3. pc'[d] \in AfterCompile => pc[d] \in AfterCompile
      BY <1>2, <2>1 DEF AfterCompile, AfterClear, Measuring
    <3>4. pc'[d] \in {"probing", "reporting"} => d # c /\ pc[d] \in {"probing", "reporting"}
      BY <2>1
    <3>5. pc'[d] \in {"bundling", "recording"} => pc[d] \in {"bundling", "recording"}
      BY <2>1
    <3>6. d # c => measured'[d] = measured[d]
      BY <1>3
    <3>7. output'[Home(d)].core = output[Home(d)].core
          /\ output'[Home(d)].manifest = output[Home(d)].manifest
      BY <1>6, <3>1
    <3>8. QED
      BY <1>2, <3>1, <3>2, <3>3, <3>4, <3>5, <3>6, <3>7 DEF OfHead
  <2>3. HostIsAdmitted'
    BY <1>2, <2>1 DEF HostIsAdmitted, Admitted
  <2>4. ReadSoFar'
    BY <1>1, <1>2, <2>1 DEF ReadSoFar, Moves, Ended
  <2>5. ReportsAreHonest'
    <3>1. \A w \in Worktrees : HonestOutput(output'[w])
      BY <1>5, <1>6 DEF ReportsAreHonest, HonestOutput
    <3>2. QED
      BY <1>2, <3>1, HonestStays DEF ReportsAreHonest
  <2>6. ReportsAreNamed'
    BY <1>2, <1>5, <1>6 DEF ReportsAreNamed, NamedOutput, Home
  <2>7. QED
    BY <2>2, <2>3, <2>4, <2>5, <2>6
<1>10. StoragePart'
  BY <1>1, <1>2, StorageUntouched DEF OwningPlaces, StoragePlaces
<1>11. QED
  BY <1>2, <1>7, <1>8, <1>9, <1>10, SettingStays

\* The report that is read has the mode of those read before.
LEMMA ReadReportKeeps ==
  ASSUME IInv, NEW c \in Campaigns, ReadReport(c), UNCHANGED storageVars
  PROVE  IInv'
<1> USE DEF IInv
<1> DEFINE report == output[Home(c)].reports[at[c]]
           accepted == report # None /\ Consistent(report, read[c])
<1>1. /\ pc[c] = "reading" /\ Home(c) \in Worktrees /\ at[c] \in 1 .. Len(Browsers)
      /\ UNCHANGED <<plan, red, processes, head, moved, wasm, built, output, hardware, classes,
                     lock, measured, storageVars>>
      /\ read[c] \in Seq(Report) /\ Len(read[c]) = at[c] - 1
  BY SettingFacts, BrowserFacts DEF ReadReport, TypeOK, EvidencePart, ReadSoFar
<1>2. plan[c].kind = "performance"
  BY <1>1 DEF MeasurementPart, KindFits, PerformancePlaces
<1>3. CASE ~accepted
  <2>1. Moves(c, "failed") /\ UNCHANGED read
    BY <1>3, PlacesListed DEF ReadReport, Moves, TypeOK
  <2>2. TypeOK'
    BY <1>1, <2>1, MovedPlaces DEF TypeOK, Moves, storageVars
  <2>3. MeasurementPart'
    BY <1>1, <2>1, MeasurementMoves
       DEF LockedPlaces, LeftPlaces, PerformancePlaces, StoragePlaces, Measuring
  <2>4. EvidencePart'
    BY <1>1, <2>1, EvidenceMoves DEF AfterClear, Measuring, Ended
  <2>5. StoragePart'
    BY <1>1, <2>1, StorageUntouched DEF OwningPlaces, StoragePlaces
  <2>6. QED
    BY <1>1, <2>2, <2>3, <2>4, <2>5, SettingStays
<1>4. CASE accepted
  <2>1. PICK place \in {"reading", "publishing"} :
          /\ Moves(c, place)
          /\ place = "reading" => at'[c] = at[c] + 1
          /\ place = "publishing" => at[c] = Len(Browsers)
    <3>1. NextBrowser(c, "reading", "publishing")
      BY <1>4 DEF ReadReport
    <3>2. QED
      BY <3>1, NextBrowserMoves, PlacesListed
  <2>2. report \in Report /\ Honest(report) /\ (Home(c) \notin moved => Named(report))
    <3>1. report \in Report \cup {None}
      BY <1>1, BrowserFacts DEF TypeOK, Output
    <3>2. QED
      BY <1>1, <1>4, <3>1, BrowserFacts DEF EvidencePart, ReportsAreHonest, HonestOutput,
                                             ReportsAreNamed, NamedOutput
  <2>3. /\ read' = [read EXCEPT ![c] = Append(read[c], report)]
        /\ Append(read[c], report) \in Seq(Report) /\ Len(Append(read[c], report)) = at[c]
    BY <1>1, <1>4, <2>2 DEF ReadReport
  <2>4. read' \in [Campaigns -> Seq(Report)] /\ Len(read'[c]) = at[c]
        /\ \A d \in Campaigns \ {c} : read'[d] = read[d]
    BY <2>3 DEF TypeOK
  <2>5. \A d \in Campaigns : pc'[d] = IF d = c THEN place ELSE pc[d]
    BY <2>1, MovedPlaces
  <2>6. TypeOK'
    <3>1. \A d \in Campaigns : Len(read'[d]) <= Len(Browsers)
      <4>1. \A d \in Campaigns : Len(read[d]) <= Len(Browsers)
        BY DEF TypeOK
      <4>2. QED
        BY <1>1, <2>4, <4>1, BrowserFacts
    <3>2. QED
      BY <1>1, <2>1, <2>4, <3>1, MovedPlaces DEF TypeOK, Moves, storageVars
  <2>7. MeasurementPart'
    BY <1>1, <1>2, <2>1, MeasurementMoves
       DEF LockedPlaces, LeftPlaces, PerformancePlaces, StoragePlaces, Measuring
  <2>8. OneMatrix(Append(read[c], report))
    <3>1. OneMatrix(read[c])
      BY DEF EvidencePart, ReportsAreHonest
    <3>2. CASE read[c] = <<>>
      BY <1>1, <2>2, <3>2 DEF OneMatrix
    <3>3. CASE read[c] # <<>>
      <4>1. Len(read[c]) \in DOMAIN read[c] /\ report.mode = read[c][Len(read[c])].mode
        BY <1>1, <1>4, <3>3 DEF Consistent, SameEvidence, Last
      <4>2. \A i \in 1 .. Len(read[c]) + 1 :
              Append(read[c], report)[i] = IF i = Len(read[c]) + 1 THEN report ELSE read[c][i]
        BY <1>1, <2>2
      <4>3. DOMAIN Append(read[c], report) = 1 .. Len(read[c]) + 1
            /\ DOMAIN read[c] = 1 .. Len(read[c])
        BY <1>1, <2>2
      <4>4. \A i \in DOMAIN Append(read[c], report) : Append(read[c], report)[i].mode = report.mode
        BY <3>1, <4>1, <4>2, <4>3 DEF OneMatrix
      <4>5. QED
        BY <2>2, <3>1, <4>2, <4>3, <4>4 DEF OneMatrix
    <3>4. QED
      BY <3>2, <3>3
  <2>9. EvidencePart'
    <3> USE DEF EvidencePart
    <3>1. BuildIsOfHead'
      BY <1>1, <2>5 DEF BuildIsOfHead, OfHead, Home, AfterClear, AfterCompile
    <3>2. HostIsAdmitted'
      BY <1>1, <2>5 DEF HostIsAdmitted, Admitted
    <3>3. ReadSoFar'
      <4>1. /\ pc'[c] = "reading" => Len(read'[c]) = at'[c] - 1
            /\ pc'[c] = "publishing" => Len(read'[c]) = Len(Browsers)
        BY <1>1, <2>1, <2>4, <2>5
      <4>2. pc'[c] \in {"reading", "publishing"}
        BY <2>5
      <4>3. \A d \in Campaigns \ {c} : pc'[d] = pc[d] /\ at'[d] = at[d] /\ read'[d] = read[d]
        BY <2>1, <2>4, <2>5 DEF Moves
      <4>4. QED
        BY <4>1, <4>2, <4>3 DEF ReadSoFar
    <3>4. \A d \in Campaigns : OneMatrix(read'[d])
      BY <2>3, <2>4, <2>8 DEF ReportsAreHonest, TypeOK
    <3>5. ReportsAreHonest'
      BY <1>1, <3>4, HonestStays DEF ReportsAreHonest
    <3>6. ReportsAreNamed'
      <4>1. Home(c) \notin moved =>
              \A i \in DOMAIN Append(read[c], report) : Named(Append(read[c], report)[i])
        BY <1>1, <2>2 DEF ReportsAreNamed
      <4>2. read'[c] = Append(read[c], report) /\ \A d \in Campaigns \ {c} : read'[d] = read[d]
        BY <2>3, <2>4 DEF TypeOK
      <4>3. QED
        BY <1>1, <4>1, <4>2 DEF ReportsAreNamed, Home
    <3>7. QED
      BY <3>1, <3>2, <3>3, <3>5, <3>6
  <2>10. StoragePart'
    BY <1>1, <2>1, StorageUntouched DEF OwningPlaces, StoragePlaces
  <2>11. QED
    BY <1>1, <2>6, <2>7, <2>9, <2>10, SettingStays
<1>5. QED
  BY <1>3, <1>4

\* Only physical evidence within its budgets passes as a qualification.
LEMMA VerdictMeans ==
  ASSUME NEW mode, NEW promotable \in BOOLEAN, NEW budgetsHold \in BOOLEAN,
         Verdict(mode, promotable, budgetsHold) = "qualification-budgets-pass"
  PROVE  mode = "physical-evidence" /\ promotable /\ budgetsHold
BY DEF Verdict

\* The summary is of honest reports, and its verdict is due to their modes and
\* their budgets.
LEMMA PublishKeeps ==
  ASSUME IInv, NEW c \in Campaigns, Publish(c), UNCHANGED storageVars
  PROVE  IInv'
<1> USE DEF IInv
<1> DEFINE last == Last(read[c])
           budgetsHold == \A i \in DOMAIN read[c] : read[c][i].budgetsHold
           verdict == Verdict(last.mode, last.promotable, budgetsHold)
           summary == [reports |-> read[c], verdict |-> verdict]
<1>1. /\ pc[c] = "publishing" /\ Home(c) \in Worktrees
      /\ UNCHANGED <<plan, at, red, processes, head, moved, wasm, built, performanceVars,
                     storageVars>>
      /\ read[c] \in Seq(Report) /\ Len(read[c]) = Len(Browsers) /\ OneMatrix(read[c])
  BY SettingFacts DEF Publish, TypeOK, EvidencePart, ReadSoFar, ReportsAreHonest
<1>2. PICK place \in {"failed", "passed"} : Moves(c, place)
  BY <1>1, PlacesListed DEF Publish, Moves, TypeOK
<1>3. MeasurementPart'
  BY <1>1, <1>2, MeasurementMoves
     DEF LockedPlaces, LeftPlaces, PerformancePlaces, StoragePlaces, Measuring,
                                      performanceVars
<1>4. StoragePart'
  BY <1>1, <1>2, StorageUntouched DEF OwningPlaces, StoragePlaces
<1>5. CASE verdict = "throws"
  <2>1. UNCHANGED output
    BY <1>5 DEF Publish
  <2>2. TypeOK'
    BY <1>1, <1>2, <2>1, MovedPlaces DEF TypeOK, Moves, storageVars, performanceVars
  <2>3. EvidencePart'
    BY <1>1, <1>2, <2>1, EvidenceMoves DEF AfterClear, Measuring, Ended, performanceVars
  <2>4. QED
    BY <1>1, <1>3, <1>4, <2>2, <2>3, SettingStays DEF performanceVars
<1>6. CASE verdict # "throws"
  <2>1. output' = [output EXCEPT ![Home(c)].summary = summary]
    BY <1>6 DEF Publish
  <2>2. verdict \in {"reject", "qualification-budgets-pass", "diagnostic-budgets-pass"}
    BY <1>6 DEF Verdict
  <2>3. summary \in Summary
    BY <1>1, <2>2 DEF Summary
  <2>4. /\ output' \in [Worktrees -> Output]
        /\ \A w \in Worktrees :
             /\ output'[w].core = output[w].core /\ output'[w].manifest = output[w].manifest
             /\ output'[w].reports = output[w].reports
             /\ \/ output'[w].summary = output[w].summary
                \/ w = Home(c) /\ output'[w].summary = summary
    <3> HIDE DEF summary
    <3>1. QED
      BY <1>1, <2>1, <2>3, SummaryWritten
  <2>5. TypeOK'
    BY <1>1, <1>2, <2>4, MovedPlaces DEF TypeOK, Moves, storageVars, performanceVars
  <2>6. VerdictIsDue(summary)
    <3> SUFFICES ASSUME verdict = "qualification-budgets-pass" PROVE VerdictIsDue(summary)
      BY DEF VerdictIsDue
    <3>1. last.mode = "physical-evidence" /\ last.promotable /\ budgetsHold
      <4>1. last \in Report
        BY <1>1, BrowserFacts DEF Last
      <4>2. last.promotable \in BOOLEAN /\ budgetsHold \in BOOLEAN
        BY <4>1 DEF Report
      <4>3. QED
        BY <4>2, VerdictMeans
    <3>2. Len(read[c]) \in DOMAIN read[c] /\ last = read[c][Len(read[c])]
      BY <1>1, BrowserFacts DEF Last
    <3>3. \A i \in DOMAIN read[c] : read[c][i].mode = "physical-evidence"
      BY <1>1, <3>1, <3>2 DEF OneMatrix
    <3>4. Promotable("physical-evidence", hardware)
      BY <1>1, <3>1, <3>2 DEF OneMatrix, Honest
    <3>5. QED
      BY <1>1, <3>1, <3>3, <3>4 DEF VerdictIsDue
  <2>7. EvidencePart'
    <3> USE DEF EvidencePart, performanceVars
    <3>1. \A d \in Campaigns : pc'[d] = IF d = c THEN place ELSE pc[d]
      BY <1>2, MovedPlaces
    <3>2. BuildIsOfHead'
      <4> SUFFICES ASSUME NEW d \in Campaigns PROVE OfHead(d)'
        BY DEF BuildIsOfHead
      <4>1. OfHead(d) /\ Home(d)' = Home(d) /\ Home(d) \in Worktrees
        BY <1>1, SettingFacts DEF BuildIsOfHead, Home
      <4>2. /\ pc'[d] \in AfterCompile => pc[d] \in AfterCompile
            /\ pc'[d] \in AfterClear => pc[d] \in AfterClear
        BY <3>1 DEF AfterCompile, AfterClear, Measuring
      <4>3. pc'[d] \in {"probing", "reporting"} => pc[d] \in {"probing", "reporting"}
        BY <3>1
      <4>4. pc'[d] \in {"bundling", "recording"} => pc[d] \in {"bundling", "recording"}
        BY <3>1
      <4>5. output'[Home(d)].core = output[Home(d)].core
            /\ output'[Home(d)].manifest = output[Home(d)].manifest
        BY <2>4, <4>1
      <4>6. QED
        BY <1>1, <4>1, <4>2, <4>3, <4>4, <4>5 DEF OfHead
    <3>3. HostIsAdmitted' /\ ReadSoFar'
      BY <1>1, <3>1 DEF HostIsAdmitted, Admitted, ReadSoFar, Ended
    <3>4. \A w \in Worktrees : HonestOutput(output'[w])
      <4> SUFFICES ASSUME NEW w \in Worktrees PROVE HonestOutput(output'[w])
        OBVIOUS
      <4>1. HonestOutput(output[w])
        BY DEF ReportsAreHonest
      <4>2. CASE output'[w].summary = output[w].summary
        BY <2>4, <4>1, <4>2 DEF HonestOutput
      <4>3. CASE output'[w].summary = summary
        <5>1. summary.reports = read[c]
          OBVIOUS
        <5>2. QED
          BY <1>1, <2>4, <2>6, <4>1, <4>3, <5>1 DEF HonestOutput
      <4>4. QED
        BY <2>4, <4>2, <4>3
    <3>5. ReportsAreHonest'
      BY <1>1, <3>4, HonestStays DEF ReportsAreHonest
    <3>6. ReportsAreNamed'
      <4>1. summary.reports = read[c]
        OBVIOUS
      <4>2. \A w \in Worktrees \ moved : NamedOutput(output'[w])
        BY <1>1, <2>4, <4>1 DEF ReportsAreNamed, NamedOutput
      <4>3. QED
        BY <1>1, <4>2 DEF ReportsAreNamed, Home
    <3>7. QED
      BY <3>2, <3>3, <3>5, <3>6
  <2>8. QED
    BY <1>1, <1>3, <1>4, <2>5, <2>7, SettingStays DEF performanceVars
<1>7. QED
  BY <1>5, <1>6

-----------------------------------------------------------------------------
(* The storage campaign.                                                   *)

\* A detach leaves some of the tree's images, and all of the others'.
LEMMA DetachLeaves ==
  ASSUME SettingIsGiven, TypeOK, NEW c \in Campaigns, Detach(c) \/ UNCHANGED mounted
  PROVE  /\ mounted' \in [Worktrees -> SUBSET BrowserIndex]
         /\ mounted'[Home(c)] \subseteq mounted[Home(c)]
         /\ \A w \in Worktrees \ {Home(c)} : mounted'[w] = mounted[w]
<1>1. CASE Detach(c)
  BY <1>1, SettingFacts DEF TypeOK, Detach
<1>2. CASE UNCHANGED mounted
  BY <1>2 DEF TypeOK
<1>3. QED
  BY <1>1, <1>2

\* One browser of one tree is added or taken.
LEMMA AddedAndTaken ==
  ASSUME SettingIsGiven, TypeOK, NEW c \in Campaigns,
         NEW things \in [Worktrees -> SUBSET BrowserIndex]
  PROVE  /\ {Added(things, c), Taken(things, c)} \subseteq [Worktrees -> SUBSET BrowserIndex]
         /\ Added(things, c)[Home(c)] = things[Home(c)] \cup {at[c]}
         /\ Taken(things, c)[Home(c)] = things[Home(c)] \ {at[c]}
         /\ \A w \in Worktrees \ {Home(c)} :
              Added(things, c)[w] = things[w] /\ Taken(things, c)[w] = things[w]
<1>1. Home(c) \in Worktrees /\ at[c] \in BrowserIndex
  BY SettingFacts DEF TypeOK
<1>2. QED
  BY <1>1 DEF Added, Taken

\* A lock that nobody has guards nothing: no image of the tree is mounted.
LEMMA AcquireLockKeeps ==
  ASSUME IInv, NEW c \in Campaigns, AcquireLock(c), UNCHANGED performanceVars
  PROVE  IInv'
<1> USE DEF IInv, AcquireLock, performanceVars
<1> DEFINE place == IF storageLock[Home(c)] = None THEN "signing" ELSE "failed"
<1>1. Moves(c, place)
  BY PlacesListed DEF Moves, TypeOK
<1>2. /\ Home(c) \in Worktrees
      /\ storageLock' \in [Worktrees -> Campaigns \cup {None}]
      /\ storageLock'[Home(c)] = IF storageLock[Home(c)] = None THEN c ELSE storageLock[Home(c)]
      /\ roots' \in [Worktrees -> SUBSET BrowserIndex]
      /\ roots'[Home(c)] = roots[Home(c)]
      /\ mounted' \in [Worktrees -> SUBSET BrowserIndex]
      /\ mounted'[Home(c)] = mounted[Home(c)]
      /\ \A w \in Worktrees \ {Home(c)} :
           storageLock'[w] = storageLock[w] /\ roots'[w] = roots[w] /\ mounted'[w] = mounted[w]
  BY SettingFacts DEF TypeOK
<1>3. TypeOK'
  BY <1>1, <1>2, MovedPlaces DEF TypeOK, Moves
<1>4. MeasurementPart'
  BY <1>1, SettingFacts, MeasurementMoves
     DEF LockedPlaces, LeftPlaces, PerformancePlaces, StoragePlaces,
                                              Measuring, KindFits, MeasurementPart
<1>5. EvidencePart'
  BY <1>1, EvidenceMoves DEF AfterClear, Measuring, Ended
<1>6. StoragePart'
  <2>1. CASE storageLock[Home(c)] = None
    <3>1. mounted[Home(c)] = {} /\ Sole(c)
      BY <1>2, <2>1, CampaignAssumption DEF StoragePart, VolumeIsGuarded, StorageSteps, Sole
    <3>2. QED
      BY <1>1, <1>2, <2>1, <3>1, StorageMoves, CampaignAssumption
  <2>2. CASE storageLock[Home(c)] # None
    BY <1>1, <2>2, StorageUntouched DEF OwningPlaces, StoragePlaces, storageVars
  <2>3. QED
    BY <2>1, <2>2
<1>7. QED
  BY <1>3, <1>4, <1>5, <1>6, SettingStays

LEMMA SignLockKeeps ==
  ASSUME IInv, NEW c \in Campaigns, SignLock(c), UNCHANGED performanceVars
  PROVE  IInv'
<1> USE DEF IInv, SignLock, performanceVars
<1>1. PICK place \in {"detaching", "failed"} :
        /\ Moves(c, place)
        /\ storageLock' =
             [storageLock EXCEPT ![Home(c)] = IF place = "failed" THEN None ELSE @]
  BY PlacesListed, SettingFacts DEF Moves, TypeOK
<1>2. /\ Home(c) \in Worktrees
      /\ storageLock' \in [Worktrees -> Campaigns \cup {None}]
      /\ storageLock'[Home(c)] = IF place = "failed" THEN None ELSE storageLock[Home(c)]
      /\ roots' \in [Worktrees -> SUBSET BrowserIndex]
      /\ roots'[Home(c)] = roots[Home(c)]
      /\ mounted' \in [Worktrees -> SUBSET BrowserIndex]
      /\ mounted'[Home(c)] = mounted[Home(c)]
      /\ \A w \in Worktrees \ {Home(c)} :
           storageLock'[w] = storageLock[w] /\ roots'[w] = roots[w] /\ mounted'[w] = mounted[w]
  BY <1>1, SettingFacts DEF TypeOK
<1>3. TypeOK'
  BY <1>1, <1>2, MovedPlaces DEF TypeOK, Moves
<1>4. MeasurementPart'
  BY <1>1, SettingFacts, MeasurementMoves
     DEF LockedPlaces, LeftPlaces, PerformancePlaces, StoragePlaces,
                                              Measuring, KindFits, MeasurementPart
<1>5. EvidencePart'
  BY <1>1, EvidenceMoves DEF AfterClear, Measuring, Ended
<1>6. StoragePart'
  <2>1. Sole(c) /\ storageLock[Home(c)] = c
    BY OwnerIsSole DEF StoragePart, StorageSteps, OwningPlaces, StoragePlaces
  <2>2. mounted[Home(c)] = {}
    BY DEF StoragePart, StorageSteps, EmptyPlaces
  <2>3. CASE place = "failed"
    BY <1>1, <1>2, <2>1, <2>2, <2>3, StorageMoves DEF EmptyPlaces, OwningPlaces, StoragePlaces
  <2>4. CASE place = "detaching"
    BY <1>1, <1>2, <2>1, <2>2, <2>4, StorageMoves
  <2>5. QED
    BY <2>3, <2>4
<1>7. QED
  BY <1>3, <1>4, <1>5, <1>6, SettingStays

LEMMA DetachVolumesKeeps ==
  ASSUME IInv, NEW c \in Campaigns, DetachVolumes(c), UNCHANGED performanceVars
  PROVE  IInv'
<1> USE DEF IInv, DetachVolumes, performanceVars
<1>1. Moves(c, "emptying")
  BY PlacesListed DEF Moves, TypeOK
<1>2. /\ Home(c) \in Worktrees
      /\ storageLock' \in [Worktrees -> Campaigns \cup {None}]
      /\ storageLock'[Home(c)] = storageLock[Home(c)]
      /\ roots' \in [Worktrees -> SUBSET BrowserIndex]
      /\ roots'[Home(c)] = roots[Home(c)]
      /\ mounted' \in [Worktrees -> SUBSET BrowserIndex]
      /\ mounted'[Home(c)] = {}
      /\ \A w \in Worktrees \ {Home(c)} :
           storageLock'[w] = storageLock[w] /\ roots'[w] = roots[w] /\ mounted'[w] = mounted[w]
  BY SettingFacts, DetachLeaves DEF TypeOK, VolumeIsMounted
<1>3. TypeOK'
  BY <1>1, <1>2, MovedPlaces DEF TypeOK, Moves
<1>4. MeasurementPart'
  BY <1>1, SettingFacts, MeasurementMoves
     DEF LockedPlaces, LeftPlaces, PerformancePlaces, StoragePlaces,
                                              Measuring, KindFits, MeasurementPart
<1>5. EvidencePart'
  BY <1>1, EvidenceMoves DEF AfterClear, Measuring, Ended
<1>6. StoragePart'
  <2>1. Sole(c) /\ storageLock[Home(c)] = c
    BY OwnerIsSole DEF StoragePart, StorageSteps, OwningPlaces, StoragePlaces
  <2>2. QED
    BY <1>1, <1>2, <2>1, CampaignAssumption, StorageMoves DEF EmptyPlaces
<1>7. QED
  BY <1>3, <1>4, <1>5, <1>6, SettingStays

\* If an image is still mounted the lock stays, and another's image is another
\* tree's.
LEMMA PrepareFailsKeeps ==
  ASSUME IInv, NEW c \in Campaigns, PrepareFails(c), UNCHANGED performanceVars
  PROVE  IInv'
<1> USE DEF IInv, PrepareFails, performanceVars
<1>1. Moves(c, "failed")
  BY PlacesListed DEF Moves, TypeOK
<1>2. /\ Home(c) \in Worktrees
      /\ storageLock' \in [Worktrees -> Campaigns \cup {None}]
      /\ storageLock'[Home(c)] \in {None, storageLock[Home(c)]}
      /\ roots' \in [Worktrees -> SUBSET BrowserIndex]
      /\ roots'[Home(c)] = roots[Home(c)]
      /\ mounted' \in [Worktrees -> SUBSET BrowserIndex]
      /\ mounted'[Home(c)] \subseteq mounted[Home(c)]
      /\ \A w \in Worktrees \ {Home(c)} :
           storageLock'[w] = storageLock[w] /\ roots'[w] = roots[w] /\ mounted'[w] = mounted[w]
      /\ mounted'[Home(c)] # {} => storageLock'[Home(c)] = storageLock[Home(c)]
  BY SettingFacts, DetachLeaves DEF TypeOK, VolumeIsMounted
<1>3. TypeOK'
  BY <1>1, <1>2, MovedPlaces DEF TypeOK, Moves
<1>4. MeasurementPart'
  BY <1>1, SettingFacts, MeasurementMoves
     DEF LockedPlaces, LeftPlaces, PerformancePlaces, StoragePlaces,
                                              Measuring, KindFits, MeasurementPart
<1>5. EvidencePart'
  BY <1>1, EvidenceMoves DEF AfterClear, Measuring, Ended
<1>6. StoragePart'
  <2>1. Sole(c) /\ storageLock[Home(c)] = c
    BY OwnerIsSole DEF StoragePart, StorageSteps, OwningPlaces, StoragePlaces
  <2>2. mounted[Home(c)] \subseteq roots[Home(c)] /\ c # None
    BY SettingFacts, CampaignAssumption DEF StoragePart, VolumeIsGuarded
  <2>3. QED
    BY <1>1, <1>2, <2>1, <2>2, StorageMoves DEF EmptyPlaces, OwningPlaces, StoragePlaces
<1>7. QED
  BY <1>3, <1>4, <1>5, <1>6, SettingStays

\* Nothing is mounted below the directories that go.
LEMMA EmptyRuntimeKeeps ==
  ASSUME IInv, NEW c \in Campaigns, EmptyRuntime(c), UNCHANGED performanceVars
  PROVE  IInv'
<1> USE DEF IInv, EmptyRuntime, performanceVars
<1>1. Moves(c, "rooting")
  BY PlacesListed DEF Moves, TypeOK
<1>2. /\ Home(c) \in Worktrees
      /\ storageLock' \in [Worktrees -> Campaigns \cup {None}]
      /\ storageLock'[Home(c)] = storageLock[Home(c)]
      /\ roots' \in [Worktrees -> SUBSET BrowserIndex]
      /\ roots'[Home(c)] = {}
      /\ mounted' \in [Worktrees -> SUBSET BrowserIndex]
      /\ mounted'[Home(c)] = mounted[Home(c)]
      /\ \A w \in Worktrees \ {Home(c)} :
           storageLock'[w] = storageLock[w] /\ roots'[w] = roots[w] /\ mounted'[w] = mounted[w]
  BY SettingFacts DEF TypeOK
<1>3. TypeOK'
  BY <1>1, <1>2, MovedPlaces DEF TypeOK, Moves
<1>4. MeasurementPart'
  BY <1>1, SettingFacts, MeasurementMoves
     DEF LockedPlaces, LeftPlaces, PerformancePlaces, StoragePlaces,
                                              Measuring, KindFits, MeasurementPart
<1>5. EvidencePart'
  BY <1>1, EvidenceMoves DEF AfterClear, Measuring, Ended
<1>6. StoragePart'
  <2>1. Sole(c) /\ storageLock[Home(c)] = c
    BY OwnerIsSole DEF StoragePart, StorageSteps, OwningPlaces, StoragePlaces
  <2>2. mounted[Home(c)] = {}
    BY DEF StoragePart, StorageSteps, EmptyPlaces
  <2>3. QED
    BY <1>1, <1>2, <2>1, <2>2, StorageMoves DEF EmptyPlaces
<1>7. QED
  BY <1>3, <1>4, <1>5, <1>6, SettingStays

LEMMA MakeRootKeeps ==
  ASSUME IInv, NEW c \in Campaigns, MakeRoot(c), UNCHANGED performanceVars
  PROVE  IInv'
<1> USE DEF IInv, MakeRoot, performanceVars
<1>1. Moves(c, "mounting")
  BY PlacesListed DEF Moves, TypeOK
<1>2. /\ Home(c) \in Worktrees
      /\ storageLock' \in [Worktrees -> Campaigns \cup {None}]
      /\ storageLock'[Home(c)] = storageLock[Home(c)]
      /\ roots' \in [Worktrees -> SUBSET BrowserIndex]
      /\ roots'[Home(c)] = roots[Home(c)] \cup {at[c]}
      /\ mounted' \in [Worktrees -> SUBSET BrowserIndex]
      /\ mounted'[Home(c)] = mounted[Home(c)]
      /\ \A w \in Worktrees \ {Home(c)} :
           storageLock'[w] = storageLock[w] /\ roots'[w] = roots[w] /\ mounted'[w] = mounted[w]
  <2>1. /\ storageLock \in [Worktrees -> Campaigns \cup {None}]
        /\ {roots, mounted} \subseteq [Worktrees -> SUBSET BrowserIndex]
    BY DEF TypeOK
  <2>2. Home(c) \in Worktrees
    BY SettingFacts
  <2>3. QED
    BY <2>1, <2>2, AddedAndTaken
<1>3. TypeOK'
  BY <1>1, <1>2, MovedPlaces DEF TypeOK, Moves
<1>4. MeasurementPart'
  BY <1>1, SettingFacts, MeasurementMoves
     DEF LockedPlaces, LeftPlaces, PerformancePlaces, StoragePlaces,
                                              Measuring, KindFits, MeasurementPart
<1>5. EvidencePart'
  BY <1>1, EvidenceMoves DEF AfterClear, Measuring, Ended
<1>6. StoragePart'
  <2>1. Sole(c) /\ storageLock[Home(c)] = c
    BY OwnerIsSole DEF StoragePart, StorageSteps, OwningPlaces, StoragePlaces
  <2>2. mounted[Home(c)] \subseteq roots[Home(c)] /\ c # None
    BY SettingFacts, CampaignAssumption DEF StoragePart, VolumeIsGuarded
  <2>3. QED
    BY <1>1, <1>2, <2>1, <2>2, StorageMoves DEF EmptyPlaces, Moves
<1>7. QED
  BY <1>3, <1>4, <1>5, <1>6, SettingStays

LEMMA RootFailsKeeps ==
  ASSUME IInv, NEW c \in Campaigns, RootFails(c), UNCHANGED performanceVars
  PROVE  IInv'
<1> USE DEF IInv, RootFails, performanceVars
<1>1. PICK place \in {"rooting", "cleaning"} : Moves(c, place)
  BY NextBrowserMoves, PlacesListed
<1>2. /\ Home(c) \in Worktrees
      /\ storageLock' \in [Worktrees -> Campaigns \cup {None}]
      /\ storageLock'[Home(c)] = storageLock[Home(c)]
      /\ roots' \in [Worktrees -> SUBSET BrowserIndex]
      /\ roots'[Home(c)] = roots[Home(c)]
      /\ mounted' \in [Worktrees -> SUBSET BrowserIndex]
      /\ mounted'[Home(c)] = mounted[Home(c)]
      /\ \A w \in Worktrees \ {Home(c)} :
           storageLock'[w] = storageLock[w] /\ roots'[w] = roots[w] /\ mounted'[w] = mounted[w]
  BY SettingFacts DEF TypeOK, storageVars
<1>3. TypeOK'
  BY <1>1, <1>2, MovedPlaces DEF TypeOK, Moves, Mark
<1>4. MeasurementPart'
  BY <1>1, SettingFacts, MeasurementMoves
     DEF LockedPlaces, LeftPlaces, PerformancePlaces, StoragePlaces,
                                              Measuring, KindFits, MeasurementPart
<1>5. EvidencePart'
  BY <1>1, EvidenceMoves DEF AfterClear, Measuring, Ended
<1>6. StoragePart'
  <2>1. Sole(c) /\ storageLock[Home(c)] = c
    BY OwnerIsSole DEF StoragePart, StorageSteps, OwningPlaces, StoragePlaces
  <2>2. mounted[Home(c)] \subseteq roots[Home(c)] /\ c # None
    BY SettingFacts, CampaignAssumption DEF StoragePart, VolumeIsGuarded
  <2>3. QED
    BY <1>1, <1>2, <2>1, <2>2, StorageMoves DEF EmptyPlaces
<1>7. QED
  BY <1>3, <1>4, <1>5, <1>6, SettingStays

\* The browser that it opens is of no performance campaign.
LEMMA MountKeeps ==
  ASSUME IInv, NEW c \in Campaigns, Mount(c), UNCHANGED performanceVars
  PROVE  IInv'
<1> USE DEF IInv, Mount, performanceVars
<1>1. Moves(c, "filling")
  BY PlacesListed DEF Moves, TypeOK
<1>2. /\ Home(c) \in Worktrees
      /\ storageLock' \in [Worktrees -> Campaigns \cup {None}]
      /\ storageLock'[Home(c)] = storageLock[Home(c)]
      /\ roots' \in [Worktrees -> SUBSET BrowserIndex]
      /\ roots'[Home(c)] = roots[Home(c)]
      /\ mounted' \in [Worktrees -> SUBSET BrowserIndex]
      /\ mounted'[Home(c)] = mounted[Home(c)] \cup {at[c]}
      /\ \A w \in Worktrees \ {Home(c)} :
           storageLock'[w] = storageLock[w] /\ roots'[w] = roots[w] /\ mounted'[w] = mounted[w]
  <2>1. /\ storageLock \in [Worktrees -> Campaigns \cup {None}]
        /\ {roots, mounted} \subseteq [Worktrees -> SUBSET BrowserIndex]
    BY DEF TypeOK
  <2>2. Home(c) \in Worktrees
    BY SettingFacts
  <2>3. QED
    BY <2>1, <2>2, AddedAndTaken
<1>3. TypeOK'
  BY <1>1, <1>2, MovedPlaces DEF TypeOK, Moves
<1>4. MeasurementPart'
  <2> USE DEF MeasurementPart
  <2>1. \A d \in Campaigns : pc'[d] = IF d = c THEN "filling" ELSE pc[d]
    BY <1>1, MovedPlaces
  <2>2. plan[c].kind = "storage"
    BY DEF KindFits, StoragePlaces
  <2>3. KindFits'
    BY <2>1, <2>2 DEF KindFits, PerformancePlaces, Measuring
  <2>4. LockIsHeld' /\ LockIsOwned' /\ MeasuredApart'
    BY <2>1, <2>2 DEF LockIsHeld, LockIsOwned, LockedPlaces, LeftPlaces, MeasuredApart, Measuring
  <2>5. QED
    BY <2>3, <2>4
<1>5. EvidencePart'
  BY <1>1, EvidenceMoves DEF AfterClear, Measuring, Ended
<1>6. StoragePart'
  <2>1. Sole(c) /\ storageLock[Home(c)] = c
    BY OwnerIsSole DEF StoragePart, StorageSteps, OwningPlaces, StoragePlaces
  <2>2. mounted[Home(c)] \subseteq roots[Home(c)] /\ c # None
    BY SettingFacts, CampaignAssumption DEF StoragePart, VolumeIsGuarded
  <2>3. at[c] \in roots[Home(c)] /\ at'[c] = at[c]
    BY DEF StoragePart, StorageSteps
  <2>4. QED
    BY <1>1, <1>2, <2>1, <2>2, <2>3, StorageMoves DEF EmptyPlaces
<1>7. QED
  BY <1>3, <1>4, <1>5, <1>6, SettingStays

LEMMA MountFailsKeeps ==
  ASSUME IInv, NEW c \in Campaigns, MountFails(c), UNCHANGED performanceVars
  PROVE  IInv'
<1> USE DEF IInv, MountFails, performanceVars
<1>1. PICK place \in {"rooting", "cleaning"} : Moves(c, place)
  BY NextBrowserMoves, PlacesListed
<1>2. /\ Home(c) \in Worktrees
      /\ storageLock' \in [Worktrees -> Campaigns \cup {None}]
      /\ storageLock'[Home(c)] = storageLock[Home(c)]
      /\ roots' \in [Worktrees -> SUBSET BrowserIndex]
      /\ mounted' \in [Worktrees -> SUBSET BrowserIndex]
      /\ \A w \in Worktrees \ {Home(c)} :
           storageLock'[w] = storageLock[w] /\ roots'[w] = roots[w] /\ mounted'[w] = mounted[w]
      /\ \/ /\ roots'[Home(c)] = roots[Home(c)] \ {at[c]}
            /\ mounted'[Home(c)] = mounted[Home(c)]
         \/ roots'[Home(c)] = roots[Home(c)] /\ mounted'[Home(c)] = mounted[Home(c)] \cup {at[c]}
  <2>1. /\ storageLock \in [Worktrees -> Campaigns \cup {None}]
        /\ {roots, mounted} \subseteq [Worktrees -> SUBSET BrowserIndex]
    BY DEF TypeOK
  <2>2. Home(c) \in Worktrees
    BY SettingFacts
  <2>3. QED
    BY <2>1, <2>2, AddedAndTaken
<1>3. TypeOK'
  BY <1>1, <1>2, MovedPlaces DEF TypeOK, Moves, Mark
<1>4. MeasurementPart'
  BY <1>1, SettingFacts, MeasurementMoves
     DEF LockedPlaces, LeftPlaces, PerformancePlaces, StoragePlaces,
                                              Measuring, KindFits, MeasurementPart
<1>5. EvidencePart'
  BY <1>1, EvidenceMoves DEF AfterClear, Measuring, Ended
<1>6. StoragePart'
  <2>1. Sole(c) /\ storageLock[Home(c)] = c
    BY OwnerIsSole DEF StoragePart, StorageSteps, OwningPlaces, StoragePlaces
  <2>2. mounted[Home(c)] \subseteq roots[Home(c)] /\ c # None
    BY SettingFacts, CampaignAssumption DEF StoragePart, VolumeIsGuarded
  <2>3. at[c] \in roots[Home(c)] \ mounted[Home(c)]
    BY DEF StoragePart, StorageSteps
  <2>4. mounted'[Home(c)] \subseteq roots'[Home(c)]
    BY <1>2, <2>2, <2>3
  <2>5. QED
    BY <1>1, <1>2, <2>1, <2>2, <2>4, StorageMoves DEF EmptyPlaces
<1>7. QED
  BY <1>3, <1>4, <1>5, <1>6, SettingStays

LEMMA FillKeeps ==
  ASSUME IInv, NEW c \in Campaigns, Fill(c), UNCHANGED performanceVars
  PROVE  IInv'
<1> USE DEF IInv, Fill, performanceVars
<1>1. Moves(c, "unmounting")
  BY PlacesListed DEF Moves, TypeOK
<1>2. /\ Home(c) \in Worktrees
      /\ storageLock' \in [Worktrees -> Campaigns \cup {None}]
      /\ storageLock'[Home(c)] = storageLock[Home(c)]
      /\ roots' \in [Worktrees -> SUBSET BrowserIndex]
      /\ roots'[Home(c)] = roots[Home(c)]
      /\ mounted' \in [Worktrees -> SUBSET BrowserIndex]
      /\ mounted'[Home(c)] = mounted[Home(c)]
      /\ \A w \in Worktrees \ {Home(c)} :
           storageLock'[w] = storageLock[w] /\ roots'[w] = roots[w] /\ mounted'[w] = mounted[w]
  BY SettingFacts DEF TypeOK, storageVars
<1>3. TypeOK'
  BY <1>1, <1>2, MovedPlaces DEF TypeOK, Moves, Mark
<1>4. MeasurementPart'
  BY <1>1, SettingFacts, MeasurementMoves
     DEF LockedPlaces, LeftPlaces, PerformancePlaces, StoragePlaces,
                                              Measuring, KindFits, MeasurementPart
<1>5. EvidencePart'
  BY <1>1, EvidenceMoves DEF AfterClear, Measuring, Ended
<1>6. StoragePart'
  <2>1. Sole(c) /\ storageLock[Home(c)] = c
    BY OwnerIsSole DEF StoragePart, StorageSteps, OwningPlaces, StoragePlaces
  <2>2. mounted[Home(c)] \subseteq roots[Home(c)] /\ c # None
    BY SettingFacts, CampaignAssumption DEF StoragePart, VolumeIsGuarded
  <2>3. at[c] \in mounted[Home(c)] \cap roots[Home(c)] /\ at'[c] = at[c]
    BY DEF StoragePart, VolumeIsGuarded
  <2>4. QED
    BY <1>1, <1>2, <2>1, <2>2, <2>3, StorageMoves DEF EmptyPlaces
<1>7. QED
  BY <1>3, <1>4, <1>5, <1>6, SettingStays

LEMMA UnmountKeeps ==
  ASSUME IInv, NEW c \in Campaigns, Unmount(c), UNCHANGED performanceVars
  PROVE  IInv'
<1> USE DEF IInv, Unmount, performanceVars
<1>1. PICK place \in {"rooting", "cleaning"} : Moves(c, place)
  BY NextBrowserMoves, PlacesListed
<1>2. /\ Home(c) \in Worktrees
      /\ storageLock' \in [Worktrees -> Campaigns \cup {None}]
      /\ storageLock'[Home(c)] = storageLock[Home(c)]
      /\ roots' \in [Worktrees -> SUBSET BrowserIndex]
      /\ mounted' \in [Worktrees -> SUBSET BrowserIndex]
      /\ \A w \in Worktrees \ {Home(c)} :
           storageLock'[w] = storageLock[w] /\ roots'[w] = roots[w] /\ mounted'[w] = mounted[w]
      /\ \/ /\ roots'[Home(c)] = roots[Home(c)] \ {at[c]}
            /\ mounted'[Home(c)] = mounted[Home(c)] \ {at[c]}
         \/ roots'[Home(c)] = roots[Home(c)] /\ mounted'[Home(c)] = mounted[Home(c)]
  <2> USE SettingFacts, AddedAndTaken DEF TypeOK
  <2>1. CASE roots' = Taken(roots, c) /\ mounted' = Taken(mounted, c)
    BY <2>1
  <2>2. CASE UNCHANGED <<roots, mounted>>
    BY <2>2
  <2>3. QED
    BY <2>1, <2>2
<1>3. TypeOK'
  BY <1>1, <1>2, MovedPlaces DEF TypeOK, Moves, Mark
<1>4. MeasurementPart'
  BY <1>1, SettingFacts, MeasurementMoves
     DEF LockedPlaces, LeftPlaces, PerformancePlaces, StoragePlaces,
                                              Measuring, KindFits, MeasurementPart
<1>5. EvidencePart'
  BY <1>1, EvidenceMoves DEF AfterClear, Measuring, Ended
<1>6. StoragePart'
  <2>1. Sole(c) /\ storageLock[Home(c)] = c
    BY OwnerIsSole DEF StoragePart, StorageSteps, OwningPlaces, StoragePlaces
  <2>2. mounted[Home(c)] \subseteq roots[Home(c)] /\ c # None
    BY SettingFacts, CampaignAssumption DEF StoragePart, VolumeIsGuarded
  <2>3. mounted'[Home(c)] \subseteq roots'[Home(c)]
    BY <1>2, <2>2
  <2>4. QED
    BY <1>1, <1>2, <2>1, <2>2, <2>3, StorageMoves DEF EmptyPlaces
<1>7. QED
  BY <1>3, <1>4, <1>5, <1>6, SettingStays

LEMMA CleanUpKeeps ==
  ASSUME IInv, NEW c \in Campaigns, CleanUp(c), UNCHANGED performanceVars
  PROVE  IInv'
<1> USE DEF IInv, CleanUp, performanceVars
<1>1. Moves(c, "releasing")
  BY PlacesListed DEF Moves, TypeOK
<1>2. /\ Home(c) \in Worktrees
      /\ storageLock' \in [Worktrees -> Campaigns \cup {None}]
      /\ storageLock'[Home(c)] = storageLock[Home(c)]
      /\ roots' \in [Worktrees -> SUBSET BrowserIndex]
      /\ roots'[Home(c)] = roots[Home(c)]
      /\ mounted' \in [Worktrees -> SUBSET BrowserIndex]
      /\ mounted'[Home(c)] = {}
      /\ \A w \in Worktrees \ {Home(c)} :
           storageLock'[w] = storageLock[w] /\ roots'[w] = roots[w] /\ mounted'[w] = mounted[w]
  BY SettingFacts, DetachLeaves DEF TypeOK, VolumeIsMounted
<1>3. TypeOK'
  BY <1>1, <1>2, MovedPlaces DEF TypeOK, Moves
<1>4. MeasurementPart'
  BY <1>1, SettingFacts, MeasurementMoves
     DEF LockedPlaces, LeftPlaces, PerformancePlaces, StoragePlaces,
                                              Measuring, KindFits, MeasurementPart
<1>5. EvidencePart'
  BY <1>1, EvidenceMoves DEF AfterClear, Measuring, Ended
<1>6. StoragePart'
  <2>1. Sole(c) /\ storageLock[Home(c)] = c
    BY OwnerIsSole DEF StoragePart, StorageSteps, OwningPlaces, StoragePlaces
  <2>2. QED
    BY <1>1, <1>2, <2>1, CampaignAssumption, StorageMoves DEF EmptyPlaces
<1>7. QED
  BY <1>3, <1>4, <1>5, <1>6, SettingStays

LEMMA CleanUpFailsKeeps ==
  ASSUME IInv, NEW c \in Campaigns, CleanUpFails(c), UNCHANGED performanceVars
  PROVE  IInv'
<1> USE DEF IInv, CleanUpFails, performanceVars
<1>1. Moves(c, "failed")
  BY PlacesListed DEF Moves, TypeOK
<1>2. /\ Home(c) \in Worktrees
      /\ storageLock' \in [Worktrees -> Campaigns \cup {None}]
      /\ storageLock'[Home(c)] = storageLock[Home(c)]
      /\ roots' \in [Worktrees -> SUBSET BrowserIndex]
      /\ roots'[Home(c)] = roots[Home(c)]
      /\ mounted' \in [Worktrees -> SUBSET BrowserIndex]
      /\ mounted'[Home(c)] \subseteq mounted[Home(c)]
      /\ \A w \in Worktrees \ {Home(c)} :
           storageLock'[w] = storageLock[w] /\ roots'[w] = roots[w] /\ mounted'[w] = mounted[w]
  BY SettingFacts, DetachLeaves DEF TypeOK
<1>3. TypeOK'
  BY <1>1, <1>2, MovedPlaces DEF TypeOK, Moves
<1>4. MeasurementPart'
  BY <1>1, SettingFacts, MeasurementMoves
     DEF LockedPlaces, LeftPlaces, PerformancePlaces, StoragePlaces,
                                              Measuring, KindFits, MeasurementPart
<1>5. EvidencePart'
  BY <1>1, EvidenceMoves DEF AfterClear, Measuring, Ended
<1>6. StoragePart'
  <2>1. Sole(c) /\ storageLock[Home(c)] = c
    BY OwnerIsSole DEF StoragePart, StorageSteps, OwningPlaces, StoragePlaces
  <2>2. mounted[Home(c)] \subseteq roots[Home(c)] /\ c # None
    BY SettingFacts, CampaignAssumption DEF StoragePart, VolumeIsGuarded
  <2>3. QED
    BY <1>1, <1>2, <2>1, <2>2, StorageMoves DEF EmptyPlaces, OwningPlaces, StoragePlaces
<1>7. QED
  BY <1>3, <1>4, <1>5, <1>6, SettingStays

LEMMA ReleaseKeeps ==
  ASSUME IInv, NEW c \in Campaigns, Release(c), UNCHANGED performanceVars
  PROVE  IInv'
<1> USE DEF IInv, Release, performanceVars
<1> DEFINE place == IF red[c] THEN "failed" ELSE "passed"
<1>1. Moves(c, place)
  BY PlacesListed DEF Moves, TypeOK
<1>2. /\ Home(c) \in Worktrees
      /\ storageLock' \in [Worktrees -> Campaigns \cup {None}]
      /\ storageLock'[Home(c)] = None
      /\ roots' \in [Worktrees -> SUBSET BrowserIndex]
      /\ roots'[Home(c)] = {}
      /\ mounted' \in [Worktrees -> SUBSET BrowserIndex]
      /\ mounted'[Home(c)] = mounted[Home(c)]
      /\ \A w \in Worktrees \ {Home(c)} :
           storageLock'[w] = storageLock[w] /\ roots'[w] = roots[w] /\ mounted'[w] = mounted[w]
  BY SettingFacts DEF TypeOK
<1>3. TypeOK'
  BY <1>1, <1>2, MovedPlaces DEF TypeOK, Moves
<1>4. MeasurementPart'
  BY <1>1, SettingFacts, MeasurementMoves
     DEF LockedPlaces, LeftPlaces, PerformancePlaces, StoragePlaces,
                                              Measuring, KindFits, MeasurementPart
<1>5. EvidencePart'
  BY <1>1, EvidenceMoves DEF AfterClear, Measuring, Ended
<1>6. StoragePart'
  <2>1. Sole(c) /\ storageLock[Home(c)] = c
    BY OwnerIsSole DEF StoragePart, StorageSteps, OwningPlaces, StoragePlaces
  <2>2. mounted[Home(c)] = {}
    BY DEF StoragePart, StorageSteps, EmptyPlaces
  <2>3. QED
    BY <1>1, <1>2, <2>1, <2>2, StorageMoves DEF EmptyPlaces, OwningPlaces, StoragePlaces
<1>7. QED
  BY <1>3, <1>4, <1>5, <1>6, SettingStays

-----------------------------------------------------------------------------
(* Around the campaigns.                                                   *)

LEMMA KillKeeps ==
  ASSUME IInv, NEW c \in Campaigns, Kill(c), UNCHANGED <<performanceVars, storageVars>>
  PROVE  IInv'
<1> USE DEF IInv, Kill, performanceVars, storageVars
<1>1. Moves(c, "killed")
  BY PlacesListed DEF Moves, TypeOK
<1>2. TypeOK'
  BY <1>1, MovedPlaces DEF TypeOK
<1>3. MeasurementPart'
  BY <1>1, MeasurementMoves
     DEF LockedPlaces, LeftPlaces, PerformancePlaces, StoragePlaces, Measuring
<1>4. EvidencePart'
  BY <1>1, EvidenceMoves DEF AfterClear, Measuring, Ended
<1>5. StoragePart'
  BY <1>1, StorageUntouched DEF OwningPlaces, StoragePlaces
<1>6. QED
  BY <1>2, <1>3, <1>4, <1>5, SettingStays

\* A tree that gets another commit has no campaign running, or counts as moved.
LEMMA CheckoutKeeps ==
  ASSUME IInv, NEW w \in Worktrees, NEW commit \in Commits, Checkout(w, commit),
         UNCHANGED <<performanceVars, storageVars>>
  PROVE  IInv'
<1> USE DEF IInv, Checkout, performanceVars, storageVars
<1>1. TypeOK'
  BY DEF TypeOK
<1>2. MeasurementPart'
  BY DEF MeasurementPart, KindFits, LockIsHeld, LockIsOwned, MeasuredApart
<1>3. EvidencePart'
  <2> USE DEF EvidencePart
  <2>1. BuildIsOfHead'
    <3> SUFFICES ASSUME NEW d \in Campaigns PROVE OfHead(d)'
      BY DEF BuildIsOfHead
    <3>1. OfHead(d) /\ Home(d)' = Home(d) /\ Home(d) \in Worktrees
      BY SettingFacts DEF BuildIsOfHead, Home
    <3>2. CASE Home(d) = w /\ w \in moved'
      BY <3>1, <3>2 DEF OfHead
    <3>3. CASE Home(d) = w /\ w \notin moved'
      <4>1. pc[d] \in Ended \cup {"waiting"}
        BY <3>3 DEF Live
      <4>2. pc'[d] \notin AfterCompile \cup AfterClear \cup
                            {"bundling", "recording", "probing", "reporting"}
        BY <4>1 DEF AfterCompile, AfterClear, Measuring, Ended
      <4>3. QED
        BY <4>2 DEF OfHead
    <3>4. CASE Home(d) # w
      <4>1. head'[Home(d)] = head[Home(d)] /\ (Home(d) \in moved' <=> Home(d) \in moved)
        BY <3>1, <3>4 DEF TypeOK
      <4>2. QED
        BY <3>1, <4>1 DEF OfHead
    <3>5. QED
      BY <3>2, <3>3, <3>4
  <2>2. HostIsAdmitted' /\ ReadSoFar'
    BY DEF HostIsAdmitted, Admitted, ReadSoFar
  <2>3. QED
    BY <2>1, <2>2, ReportsUntouched
<1>4. StoragePart'
  BY DEF StoragePart, StorageSteps, VolumeIsGuarded, Home
<1>5. QED
  BY <1>1, <1>2, <1>3, <1>4, SettingStays

\* The evidence does not depend on which browsers run, or on the locks.
LEMMA EvidenceUntouched ==
  ASSUME EvidencePart,
         UNCHANGED <<plan, pc, at, head, moved, wasm, built, output, hardware, classes,
                     measured, read>>
  PROVE  EvidencePart'
<1> USE DEF EvidencePart
<1>1. BuildIsOfHead' /\ HostIsAdmitted' /\ ReadSoFar'
  BY DEF BuildIsOfHead, OfHead, Home, HostIsAdmitted, Admitted, ReadSoFar
<1>2. QED
  BY <1>1, ReportsUntouched

LEMMA BrowsersExitKeeps ==
  ASSUME IInv, NEW c \in Campaigns, BrowsersExit(c)
  PROVE  IInv'
<1> USE DEF IInv, BrowsersExit, performanceVars, storageVars
<1>1. TypeOK'
  BY DEF TypeOK
<1>2. MeasurementPart'
  BY DEF MeasurementPart, KindFits, LockIsHeld, LockIsOwned, MeasuredApart
<1>3. EvidencePart'
  BY EvidenceUntouched
<1>4. StoragePart'
  BY DEF StoragePart, StorageSteps, VolumeIsGuarded, Home
<1>5. QED
  BY <1>1, <1>2, <1>3, <1>4, SettingStays

\* A lock is taken away only from a campaign that has ended.
LEMMA RemoveLockKeeps ==
  ASSUME IInv, RemoveLock, UNCHANGED storageVars
  PROVE  IInv'
<1> USE DEF IInv, RemoveLock, campaignVars, storageVars
<1>1. TypeOK'
  BY DEF TypeOK
<1>2. MeasurementPart'
  <2>1. \A c \in Campaigns : pc[c] \notin LockedPlaces
    BY DEF MeasurementPart, LockIsHeld, Live, Ended, LockedPlaces, Measuring
  <2>2. QED
    BY <2>1, CampaignAssumption
       DEF MeasurementPart, KindFits, LockIsHeld, LockIsOwned, MeasuredApart,
       LockedPlaces
<1>3. EvidencePart'
  BY EvidenceUntouched
<1>4. StoragePart'
  BY DEF StoragePart, StorageSteps, VolumeIsGuarded, Home
<1>5. QED
  BY <1>1, <1>2, <1>3, <1>4, SettingStays

\* In a tree whose lock is a dead campaign's nobody works on an image.
LEMMA NobodyWorks ==
  ASSUME StoragePart, NEW w \in Worktrees, OwnerHasEnded(w)
  PROVE  \A c \in Campaigns : Home(c) = w => pc[c] \notin OwningPlaces
BY DEF StoragePart, StorageSteps, OwnerHasEnded, Live, Ended, OwningPlaces, StoragePlaces

LEMMA DetachByHandKeeps ==
  ASSUME IInv, NEW w \in Worktrees, DetachByHand(w), UNCHANGED performanceVars
  PROVE  IInv'
<1> USE DEF IInv, DetachByHand, campaignVars, performanceVars
<1>1. /\ mounted' \in [Worktrees -> SUBSET BrowserIndex] /\ mounted'[w] = {}
      /\ \A v \in Worktrees \ {w} : mounted'[v] = mounted[v]
  BY DEF TypeOK
<1>2. TypeOK'
  BY <1>1 DEF TypeOK
<1>3. MeasurementPart'
  BY DEF MeasurementPart, KindFits, LockIsHeld, LockIsOwned, MeasuredApart
<1>4. EvidencePart'
  BY EvidenceUntouched
<1>5. StoragePart'
  <2>1. StorageSteps'
    BY <1>1, NobodyWorks, SettingFacts DEF StoragePart, StorageSteps, Home, OwningPlaces,
       EmptyPlaces, StoragePlaces
  <2>2. VolumeIsGuarded'
    BY <1>1, NobodyWorks, SettingFacts DEF StoragePart, VolumeIsGuarded, Home, OwningPlaces,
       StoragePlaces
  <2>3. QED
    BY <2>1, <2>2 DEF StoragePart
<1>6. QED
  BY <1>2, <1>3, <1>4, <1>5, SettingStays

LEMMA RemoveStorageLockKeeps ==
  ASSUME IInv, NEW w \in Worktrees, RemoveStorageLock(w), UNCHANGED performanceVars
  PROVE  IInv'
<1> USE DEF IInv, RemoveStorageLock, campaignVars, performanceVars
<1>1. /\ storageLock' \in [Worktrees -> Campaigns \cup {None}] /\ mounted[w] = {}
      /\ \A v \in Worktrees \ {w} : storageLock'[v] = storageLock[v]
  BY DEF TypeOK
<1>2. TypeOK'
  BY <1>1 DEF TypeOK
<1>3. MeasurementPart'
  BY DEF MeasurementPart, KindFits, LockIsHeld, LockIsOwned, MeasuredApart
<1>4. EvidencePart'
  BY EvidenceUntouched
<1>5. StoragePart'
  <2>1. StorageSteps'
    BY <1>1, NobodyWorks, SettingFacts DEF StoragePart, StorageSteps, Home
  <2>2. VolumeIsGuarded'
    BY <1>1, NobodyWorks, SettingFacts DEF StoragePart, VolumeIsGuarded, Home, OwningPlaces,
       StoragePlaces
  <2>3. QED
    BY <2>1, <2>2 DEF StoragePart
<1>6. QED
  BY <1>2, <1>3, <1>4, <1>5, SettingStays

-----------------------------------------------------------------------------
(* The invariant, and what follows from it.                                *)

LEMMA BuildKeeps ==
  ASSUME IInv, NEW c \in Campaigns, Build(c), UNCHANGED <<performanceVars, storageVars>>
  PROVE  IInv'
BY LaunchKeeps, CompileKeeps, ClearKeeps, WriteCoreKeeps, WriteHarnessKeeps, WriteManifestKeeps,
   BuildFailsKeeps DEF Build

LEMMA PerformanceKeeps ==
  ASSUME IInv, NEW c \in Campaigns, PerformanceStep(c), UNCHANGED storageVars
  PROVE  IInv'
BY CheckClassKeeps, TakeLockKeeps, CountBrowsersKeeps, SetupFailsKeeps, LeaveLockKeeps,
   TeardownKeeps, OpenKeeps,
   MeasureProfilesKeeps, ProbeRefusalsKeeps, WriteReportKeeps, TestFailsKeeps, ReadReportKeeps,
   PublishKeeps DEF PerformanceStep

LEMMA StorageKeeps ==
  ASSUME IInv, NEW c \in Campaigns, StorageStep(c), UNCHANGED performanceVars
  PROVE  IInv'
BY AcquireLockKeeps, SignLockKeeps, DetachVolumesKeeps, PrepareFailsKeeps, EmptyRuntimeKeeps,
   MakeRootKeeps, RootFailsKeeps, MountKeeps, MountFailsKeeps, FillKeeps, UnmountKeeps,
   CleanUpKeeps, CleanUpFailsKeeps, ReleaseKeeps DEF StorageStep

LEMMA StutterKeeps == IInv /\ UNCHANGED vars => IInv'
<1> SUFFICES ASSUME IInv, UNCHANGED vars PROVE IInv'
  OBVIOUS
<1> USE DEF IInv, vars, campaignVars, performanceVars, storageVars
<1>1. TypeOK'
  BY DEF TypeOK
<1>2. MeasurementPart'
  BY DEF MeasurementPart, KindFits, LockIsHeld, LockIsOwned, MeasuredApart
<1>3. EvidencePart'
  BY EvidenceUntouched
<1>4. StoragePart'
  BY DEF StoragePart, StorageSteps, VolumeIsGuarded, Home
<1>5. QED
  BY <1>1, <1>2, <1>3, <1>4, SettingStays

\* Every step keeps the inductive invariant.
LEMMA NextKeeps == IInv /\ [Next]_vars => IInv'
<1> SUFFICES ASSUME IInv, [Next]_vars PROVE IInv'
  OBVIOUS
<1>1. ASSUME NEW c \in Campaigns, Proceed(c) PROVE IInv'
  BY <1>1, BuildKeeps, PerformanceKeeps, StorageKeeps DEF Proceed
<1>2. ASSUME NEW c \in Campaigns, BrowsersExit(c) PROVE IInv'
  BY <1>2, BrowsersExitKeeps
<1>3. CASE KillAny
  BY <1>3, KillKeeps DEF KillAny
<1>4. CASE CheckoutAny
  BY <1>4, CheckoutKeeps DEF CheckoutAny
<1>5. CASE OperatorActs
  BY <1>5, RemoveLockKeeps, DetachByHandKeeps, RemoveStorageLockKeeps DEF OperatorActs
<1>6. CASE UNCHANGED vars
  BY <1>6, StutterKeeps
<1>7. QED
  BY <1>1, <1>2, <1>3, <1>4, <1>5, <1>6 DEF Next

\* Which every behaviour therefore satisfies.
LEMMA Invariance == Spec => []IInv
BY InitIInv, NextKeeps, PTL DEF Spec

\* Every variable keeps its type.
THEOREM TypeCorrect == Spec => []TypeOK
<1>1. IInv => TypeOK
  BY DEF IInv
<1>2. QED
  BY <1>1, Invariance, PTL

\* No two performance campaigns measure at once, and no browser of one runs while
\* another measures: provided that a lock is removed by hand only when its owner
\* has ended, and whatever storage campaigns run beside.
THEOREM MeasurementsAreApart == Spec => []MeasuredApart
<1>1. IInv => MeasuredApart
  BY DEF IInv, MeasurementPart
<1>2. QED
  BY <1>1, Invariance, PTL

\* A lock that is left is that of a campaign that was killed, or could not read
\* the process table or remove the lock: the safety half of LockIsReleased.
LeftLocksAreExplained ==
  \A c \in Campaigns : lock = c /\ pc[c] \in Ended => pc[c] \in {"killed", "abandoned"}

\* So no campaign that ends by itself, and can do both, keeps the others out.
THEOREM LocksAreGivenBack == Spec => []LeftLocksAreExplained
<1>1. IInv => LeftLocksAreExplained
  BY DEF IInv, MeasurementPart, LockIsOwned, LockedPlaces, LeftPlaces, Measuring, Ended,
         LeftLocksAreExplained
<1>2. QED
  BY <1>1, Invariance, PTL

\* A matrix that passes as a qualification was measured on a physical machine,
\* within its class and its budgets, for every list of browsers and manifest.
THEOREM QualificationsAreEarned == Spec => []QualifiedIsEarned
<1>1. IInv => QualifiedIsEarned
  <2> SUFFICES ASSUME IInv, NEW w \in Worktrees, output[w].summary # None,
                      output[w].summary.verdict = "qualification-budgets-pass"
               PROVE  LET s == output[w].summary
                      IN  /\ Signals(hardware) = {}
                          /\ Len(s.reports) = Len(Browsers)
                          /\ \A i \in DOMAIN s.reports :
                               /\ s.reports[i].mode = "physical-evidence"
                               /\ s.reports[i].budgetsHold
                               /\ \A j \in DOMAIN classes.classes :
                                    classes.classes[j].id = s.reports[i].class =>
                                      Fits(hardware, classes.classes[j])
    BY DEF QualifiedIsEarned, Summaries
  <2>1. OneMatrix(output[w].summary.reports) /\ VerdictIsDue(output[w].summary)
    BY DEF IInv, EvidencePart, ReportsAreHonest, HonestOutput
  <2>2. QED
    BY <2>1 DEF OneMatrix, VerdictIsDue, Honest, Promotable
<1>2. QED
  BY <1>1, Invariance, PTL

\* In a tree whose commit has stayed while campaigns ran in it, the commit and the
\* component that a summary names are those of the core that was measured, however
\* many campaigns build in the tree, are killed there or come after another commit.
THEOREM SummariesNameTheirBuild == Spec => []SummaryNamesItsBuild
<1>1. IInv => SummaryNamesItsBuild
  BY DEF IInv, EvidencePart, ReportsAreNamed, NamedOutput, Named, SummaryNamesItsBuild
<1>2. QED
  BY <1>1, Invariance, PTL

\* The checks of performanceEvidenceVerdict are a second line: the reports that a
\* summary has come to publish are of a mode it knows, and promotable as it says.
VerdictIsGiven ==
  \A c \in Campaigns : pc[c] = "publishing" =>
    \A budgetsHold \in BOOLEAN :
      Verdict(Last(read[c]).mode, Last(read[c]).promotable, budgetsHold) # "throws"

\* So no summary ends in an error for which its reports are to blame.
THEOREM VerdictsAreGiven == Spec => []VerdictIsGiven
<1>1. IInv => VerdictIsGiven
  <2> SUFFICES ASSUME IInv, NEW c \in Campaigns, pc[c] = "publishing",
                      NEW budgetsHold \in BOOLEAN
               PROVE  Verdict(Last(read[c]).mode, Last(read[c]).promotable, budgetsHold) # "throws"
    BY DEF VerdictIsGiven
  <2>1. OneMatrix(read[c]) /\ read[c] \in Seq(Report) /\ Len(read[c]) = Len(Browsers)
    BY DEF IInv, TypeOK, EvidencePart, ReportsAreHonest, ReadSoFar
  <2>2. Len(read[c]) \in DOMAIN read[c] /\ Last(read[c]) = read[c][Len(read[c])]
    BY <2>1, BrowserFacts DEF Last
  <2>3. Honest(Last(read[c]))
    BY <2>1, <2>2 DEF OneMatrix
  <2>4. QED
    BY <2>3 DEF Honest, EnvironmentHolds, Promotable, Verdict
<1>2. QED
  BY <1>1, Invariance, PTL

\* An image is mounted above its directory and under a lock, and the one that a
\* campaign fills under its own.
THEOREM VolumesAreGuarded == Spec => []VolumeIsGuarded
<1>1. IInv => VolumeIsGuarded
  BY DEF IInv, StoragePart
<1>2. QED
  BY <1>1, Invariance, PTL

\* cleanupStorageRuntime reads whose lock it is before it touches an image; a
\* teardown always finds its own there.
OwnLockAtTeardown ==
  \A c \in Campaigns : pc[c] = "cleaning" => storageLock[Home(c)] = c

\* So the clean-up of a campaign that was not killed is never refused as another's.
THEOREM TeardownFindsItsLock == Spec => []OwnLockAtTeardown
<1>1. IInv => OwnLockAtTeardown
  BY DEF IInv, StoragePart, StorageSteps, OwningPlaces, StoragePlaces, OwnLockAtTeardown
<1>2. QED
  BY <1>1, Invariance, PTL
====
