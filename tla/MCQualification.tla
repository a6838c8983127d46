--------------------------- MODULE MCQualification ---------------------------
(* Two campaigns in one tree or in two: two performance campaigns of        *)
(* different evidence modes, two storage campaigns, or one of each.         *)
EXTENDS Qualification

CONSTANTS c1, c2, tree, other

MCBrowsers == <<"chromium", "webkit">>

Performance(w, mode, class) ==
  [kind |-> "performance", home |-> w, mode |-> mode, class |-> class, undisturbed |-> TRUE]
Storage(w) ==
  [kind |-> "storage", home |-> w, mode |-> "", class |-> "", undisturbed |-> TRUE]

Machine(memory, virtual) ==
  [platform |-> "darwin-arm64", memory |-> memory, cpu |-> 12,
   hypervisorPresent |-> virtual, modelIsVirtual |-> FALSE, processorIsVirtual |-> virtual]
Workstation == Machine(32, FALSE)
Guest == Machine(16, TRUE)

Class(id, memory, bound, purpose) ==
  [id |-> id, platform |-> "darwin-arm64", memory |-> memory, memoryBound |-> bound, cpu |-> 8,
   cpuBound |-> Unbounded, evidenceStatus |-> "community-evidence-requested", purpose |-> purpose]
Reference == Class("reference", 32, Unbounded, "minimum-product-candidate")
Mainstream == Class("mainstream", 16, 32, "community-observation")
Manifest(list) ==
  [faultPolicy |-> FaultPolicy, classes |-> list, default |-> "reference",
   minimum |-> "reference", capabilities |-> <<"indexeddb">>, quota |-> 1]
Valid == Manifest(<<Reference, Mainstream>>)
Ambiguous == Manifest(<<Reference, Class("reference", 8, 12, "community-observation")>>)

Setting(first, second, hardware_, classes_) ==
  [plan |-> c1 :> first @@ c2 :> second, hardware |-> hardware_, classes |-> classes_,
   commit |-> 1]

Physical(w) == Performance(w, "physical-evidence", "")
Disturbed(campaign) == [campaign EXCEPT !.undisturbed = FALSE]

\* Two evidence modes in one tree; two trees; a virtual machine that asks for
\* the class of its memory; a manifest that is refused; storage campaigns in
\* one tree, in two, and beside a performance campaign; and a tree that is not
\* left alone, while another campaign of it comes no further than its checks.
MCSettings ==
  {Setting(Physical(tree), Performance(tree, "vm-diagnostic", ""), Workstation, Valid),
   Setting(Physical(tree), Physical(other), Workstation, Valid),
   Setting(Performance(tree, "physical-evidence", "mainstream"),
           Performance(tree, "vm-diagnostic", "mainstream"), Guest, Valid),
   Setting(Physical(tree), Physical(other), Workstation, Ambiguous),
   Setting(Storage(tree), Storage(tree), Workstation, Valid),
   Setting(Storage(tree), Storage(other), Workstation, Valid),
   Setting(Physical(tree), Storage(tree), Workstation, Valid),
   Setting(Disturbed(Physical(tree)), Performance(tree, "vm-diagnostic", "mainstream"),
           Workstation, Valid)}
=============================================================================
