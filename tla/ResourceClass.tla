----------------------------- MODULE ResourceClass -----------------------------
(***************************************************************************)
(* tools/qualification/notebook-core-v2/resource-class.ts: which resource  *)
(* manifests are accepted, which class a host may be measured for, whether *)
(* a host may give physical evidence, and what a matrix of reports is      *)
(* worth.  Pure definitions; the qualification campaigns use them.         *)
(***************************************************************************)
EXTENDS Integers, Sequences, SequencesExt

CONSTANT Unbounded \* null: a class without an upper bound.

Modes == {"physical-evidence", "vm-diagnostic"}

EvidenceStatuses == {"community-evidence-requested", "pending-real-hardware-qualification",
                     "qualified-reference-5190972", "qualified-reference-96934a8"}
Purposes == {"community-observation", "minimum-product-candidate",
             "mainstream-product-target", "qualification-reference"}

FaultPolicy ==
  [required |-> <<"abrupt-process-termination-recovery", "process-crash-recovery",
                  "no-partial-artifact", "same-profile-recovery",
                  "fresh-worker-after-recovery">>,
   optional |-> <<"browser-process-oom">>,
   hostExhaustionForbidden |-> TRUE]

-----------------------------------------------------------------------------
(* parseResourceClassManifest.                                             *)
RangeHolds(least, bound) == least >= 1 /\ (bound # Unbounded => bound > least)

ClassIsValid(class) ==
  /\ RangeHolds(class.memory, class.memoryBound)
  /\ RangeHolds(class.cpu, class.cpuBound)
  /\ class.evidenceStatus \in EvidenceStatuses
  /\ class.purpose \in Purposes

Ids(manifest) == {manifest.classes[i].id : i \in DOMAIN manifest.classes}

\* classes.find: the first class with the id.
ClassOf(manifest, id) ==
  manifest.classes[SelectInSeq(manifest.classes, LAMBDA class : class.id = id)]

IdsAreUnique(manifest) == IsInjective([i \in DOMAIN manifest.classes |-> manifest.classes[i].id])

\* The two classes that the manifest refers to are there, the second one with
\* the purpose that the reference stands for.
ReferencesResolve(manifest) ==
  /\ {manifest.default, manifest.minimum} \subseteq Ids(manifest)
  /\ ClassOf(manifest, manifest.minimum).purpose = "minimum-product-candidate"

ManifestIsValid(manifest) ==
  /\ manifest.faultPolicy = FaultPolicy
  /\ manifest.classes # <<>>
  /\ \A i \in DOMAIN manifest.classes : ClassIsValid(manifest.classes[i])
  /\ IdsAreUnique(manifest)
  /\ ReferencesResolve(manifest)
  /\ manifest.capabilities # <<>> /\ IsInjective(manifest.capabilities)
  /\ manifest.quota >= 1

-----------------------------------------------------------------------------
(* selectEvidenceEnvironment.                                              *)
Signals(hardware) ==
     {s \in {"kern.hv_vmm_present"} : hardware.hypervisorPresent}
  \cup {s \in {"hw.model"} : hardware.modelIsVirtual}
  \cup {s \in {"processor"} : hardware.processorIsVirtual}

EnvironmentHolds(mode, hardware) ==
  /\ mode \in Modes
  /\ mode = "physical-evidence" => Signals(hardware) = {}

Promotable(mode, hardware) == mode = "physical-evidence" /\ Signals(hardware) = {}

-----------------------------------------------------------------------------
(* selectResourceClass.                                                    *)
Within(amount, least, bound) == amount >= least /\ (bound # Unbounded => amount < bound)

Fits(hardware, class) ==
  /\ hardware.platform = class.platform
  /\ Within(hardware.memory, class.memory, class.memoryBound)
  /\ Within(hardware.cpu, class.cpu, class.cpuBound)

SelectedId(manifest, requested) == IF requested = "" THEN manifest.default ELSE requested

ClassHolds(manifest, requested, hardware) ==
  LET id == SelectedId(manifest, requested)
  IN  id \in Ids(manifest) /\ Fits(hardware, ClassOf(manifest, id))

-----------------------------------------------------------------------------
(* performanceEvidenceVerdict.                                             *)
Verdict(mode, promotable, budgetsHold) ==
  IF mode \notin Modes \/ promotable # (mode = "physical-evidence") THEN "throws"
  ELSE IF ~budgetsHold THEN "reject"
  ELSE IF mode = "physical-evidence" THEN "qualification-budgets-pass"
  ELSE "diagnostic-budgets-pass"
=============================================================================
