---------------------------- MODULE NotebookProofs ----------------------------
(***************************************************************************)
(* Proofs about the notebook: first its blocks, for any ids, contents and  *)
(* writers, then its backup, for any pages, backups and restores.          *)
(*                                                                         *)
(* The indexes of NotebookBlocks are patched by each command from the      *)
(* links it changes; that they stay the inverse of each other needs,       *)
(* besides the properties themselves, only that a drawn id is new          *)
(* (DrawnIds): a new block has no backlinks yet.  ContentWasRead needs     *)
(* ViewsArePast, since what a writer holds and what the block has become   *)
(* are compared by number alone.                                           *)
(*                                                                         *)
(* Three facts about running operations make the invariants of             *)
(* NotebookBackup inductive: an operation runs in a ready page on an       *)
(* identifier of its own kind; a backup has passed the steps before the    *)
(* one it waits for; and the restore a page is about to stage is drawn,    *)
(* staged by nobody, and drawn by that page alone, so that no staging a    *)
(* recovery cleared comes back.                                            *)
(***************************************************************************)
EXTENDS NotebookBlocks, NotebookBackup, SequenceTheorems, TLAPS

\* What the state is after a step that leaves one block, b, with new links.
Relinked(b, links) ==
  /\ linkIndex' = [linkIndex EXCEPT ![b] = links]
  /\ \A a, c \in Ids : a \in backlinksIndex'[c] <=>
       IF a = b THEN c \in links ELSE a \in backlinksIndex[c]
  /\ backlinksIndex' \in [Ids -> SUBSET Ids]

LEMMA InitIInv == Init => IInv
<1> SUFFICES ASSUME Init PROVE IInv
  OBVIOUS
<1>1. NoBlock \in Block /\ NoView \in View
  BY NotebookAssumption DEF NoBlock, Block, NoView, View
<1>2. Live = {}
  BY DEF Init, Live, NoBlock
<1>3. TypeOK
  BY <1>1, <1>2 DEF Init, TypeOK, NoLinks
<1>4. DrawnIds /\ HistoryShape /\ ViewsArePast
  BY <1>2, NotebookAssumption DEF Init, DrawnIds, HistoryShape, ViewsArePast, NoView
<1>5. IndexesMirrorLinks /\ NoDanglingLink
  BY <1>2 DEF Init, IndexesMirrorLinks, NoDanglingLink, NoLinks
<1>6. QED
  BY <1>3, <1>4, <1>5 DEF IInv

\* An empty workspace satisfies everything.
LEMMA EmptyIInv ==
  ASSUME IInv, workspace' \in BOOLEAN, blocks' = [b \in Ids |-> NoBlock],
         linkIndex' = NoLinks, backlinksIndex' = NoLinks, UNCHANGED <<used, view>>
  PROVE  IInv'
<1>1. Live' = {}
  BY DEF Live, NoBlock
<1>2. blocks' \in [Ids -> Block]
  BY NotebookAssumption DEF NoBlock, Block
<1>3. QED
  BY <1>1, <1>2
     DEF IInv, TypeOK, DrawnIds, HistoryShape, ViewsArePast, IndexesMirrorLinks,
         NoDanglingLink, NoLinks, View

LEMMA ReadIInv ==
  ASSUME IInv, NEW w \in Writers, NEW b \in Ids, Read(w, b)
  PROVE  IInv'
<1> USE DEF IInv
<1>1. /\ view'[w].id = b /\ view'[w].block = blocks[b] /\ b \in Live
      /\ \A v \in Writers \ {w} : view'[v] = view[v]
      /\ view' \in [Writers -> View]
      /\ UNCHANGED <<workspace, blocks, linkIndex, backlinksIndex, used>>
  BY DEF Read, TypeOK, View
<1>2. Live' = Live
  BY <1>1 DEF Live
<1>3. TypeOK' /\ HistoryShape' /\ IndexesMirrorLinks' /\ NoDanglingLink'
  BY <1>1, <1>2 DEF TypeOK, HistoryShape, IndexesMirrorLinks, NoDanglingLink
<1>4. DrawnIds'
  BY <1>1, <1>2 DEF DrawnIds
<1>5. blocks[b].revision \in Nat
  BY DEF TypeOK, Block
<1>6. ViewsArePast'
  BY <1>1, <1>2, <1>5 DEF ViewsArePast
<1>7. QED
  BY <1>3, <1>4, <1>6

\* A new block: its id was never drawn, so no link and no writer names it.
LEMMA CreateBlockIInv ==
  ASSUME IInv, NEW b \in Ids, NEW content \in Contents, NEW targets \in SUBSET Ids,
         CreateBlock(b, content, targets)
  PROVE  IInv'
<1> USE DEF IInv
<1>1. /\ blocks'[b] = [revision |-> 1, content |-> content, history |-> <<content>>,
                       linkedBlockIds |-> targets]
      /\ \A a \in Ids \ {b} : blocks'[a] = blocks[a]
      /\ workspace /\ workspace' /\ view' = view /\ used' = used \cup {b}
  BY DEF CreateBlock, TypeOK
<1>2. b \notin Live /\ b \notin used /\ targets \subseteq Live /\ b \notin targets
  BY DEF CreateBlock, DrawnIds
<1>3. Live' = Live \cup {b}
  BY <1>1 DEF Live
<1>4. Relinked(b, targets)
  <2>1. \A a, c \in Ids : a \in backlinksIndex'[c] <=>
          a \in backlinksIndex[c] \/ (a = b /\ c \in targets)
    BY DEF CreateBlock, AddBacklinks
  <2>2. \A c \in Ids : b \notin backlinksIndex[c]
    BY <1>2 DEF IndexesMirrorLinks
  <2>3. backlinksIndex' \in [Ids -> SUBSET Ids]
    BY DEF CreateBlock, AddBacklinks, TypeOK
  <2>4. QED
    BY <2>1, <2>2, <2>3 DEF Relinked, CreateBlock
<1>5. TypeOK'
  <2>1. [revision |-> 1, content |-> content, history |-> <<content>>,
         linkedBlockIds |-> targets] \in Block
    BY DEF Block
  <2>2. blocks' \in [Ids -> Block]
    BY <2>1 DEF CreateBlock, TypeOK
  <2>3. QED
    BY <1>1, <1>4, <2>2 DEF TypeOK, CreateBlock, Relinked
<1>6. DrawnIds'
  BY <1>1, <1>3 DEF DrawnIds
<1>7. HistoryShape'
  <2>1. Len(blocks'[b].history) = blocks'[b].revision
        /\ blocks'[b].history[blocks'[b].revision] = blocks'[b].content
    BY <1>1
  <2>2. ASSUME NEW a \in Live
        PROVE  Len(blocks'[a].history) = blocks'[a].revision
               /\ blocks'[a].history[blocks'[a].revision] = blocks'[a].content
    BY <1>1, <1>2 DEF HistoryShape, Live
  <2>3. QED
    BY <1>3, <2>1, <2>2 DEF HistoryShape
<1>8. ViewsArePast'
  BY <1>1, <1>2, <1>3, NotebookAssumption DEF ViewsArePast, DrawnIds, Live
<1>9. NoDanglingLink'
  <2>1. blocks'[b].linkedBlockIds \subseteq Live' \ {b}
    BY <1>1, <1>2, <1>3
  <2>2. ASSUME NEW a \in Live PROVE blocks'[a].linkedBlockIds \subseteq Live' \ {a}
    BY <1>1, <1>2, <1>3 DEF NoDanglingLink, Live
  <2>3. QED
    BY <1>3, <2>1, <2>2 DEF NoDanglingLink
<1>10. IndexesMirrorLinks'
  BY <1>1, <1>2, <1>3, <1>4 DEF IndexesMirrorLinks, Relinked, TypeOK, Live
<1>11. QED
  BY <1>5, <1>6, <1>7, <1>8, <1>9, <1>10

\* Common part of an edit and of a link: block b gets new links and no
\* earlier revision; everything else about blocks stands.
LEMMA RelinkIInv ==
  ASSUME IInv, NEW w \in Writers, NEW b \in Live, NEW links \in SUBSET Ids,
         Relinked(b, links), links \subseteq Live \ {b},
         blocks' \in [Ids -> Block], blocks'[b].linkedBlockIds = links,
         \A a \in Ids \ {b} : blocks'[a] = blocks[a],
         \/ /\ blocks'[b].revision = blocks[b].revision
            /\ blocks'[b].history = blocks[b].history /\ blocks'[b].content = blocks[b].content
         \/ /\ blocks'[b].revision = blocks[b].revision + 1
            /\ blocks'[b].history = Append(blocks[b].history, blocks'[b].content),
         workspace, view' = [view EXCEPT ![w] = NoView], UNCHANGED <<workspace, used>>
  PROVE  IInv'
<1> USE DEF IInv
<1>1. b \in Ids /\ blocks[b] \in Block /\ blocks'[b] \in Block
  BY DEF Live, TypeOK
<1>2. blocks[b].revision \in Nat /\ blocks[b].revision > 0 /\ blocks'[b].revision > 0
  BY <1>1 DEF Block, Live
<1>3. Live' = Live
  BY <1>1, <1>2 DEF Live
<1>4. view' \in [Writers -> View] /\ view'[w].id = NoId
      /\ \A v \in Writers \ {w} : view'[v] = view[v]
  BY NotebookAssumption DEF TypeOK, View, NoView, NoBlock, Block
<1>5. TypeOK'
  BY <1>1, <1>4 DEF TypeOK, Relinked
<1>6. DrawnIds'
  BY <1>3, <1>4 DEF DrawnIds
<1>7. HistoryShape'
  <2>1. Len(blocks'[b].history) = blocks'[b].revision
        /\ blocks'[b].history[blocks'[b].revision] = blocks'[b].content
    <3>1. blocks[b].history \in Seq(Contents) /\ Len(blocks[b].history) = blocks[b].revision
          /\ blocks[b].history[blocks[b].revision] = blocks[b].content
      BY <1>1 DEF HistoryShape, Block
    <3>2. blocks'[b].content \in Contents
      BY <1>1 DEF Block
    <3>3. QED
      BY <1>2, <3>1, <3>2
  <2>2. ASSUME NEW a \in Live \ {b}
        PROVE  Len(blocks'[a].history) = blocks'[a].revision
               /\ blocks'[a].history[blocks'[a].revision] = blocks'[a].content
    BY DEF HistoryShape, Live
  <2>3. QED
    BY <1>3, <2>1, <2>2 DEF HistoryShape
<1>8. ViewsArePast'
  <2> SUFFICES ASSUME NEW v \in Writers, view'[v].id \in Live
               PROVE  /\ view'[v].block.revision <= blocks'[view'[v].id].revision
                      /\ view'[v].block.revision = blocks'[view'[v].id].revision
                           => view'[v].block.history = blocks'[view'[v].id].history
    BY <1>3 DEF ViewsArePast
  <2>1. v # w /\ view'[v] = view[v]
    BY <1>4, NotebookAssumption DEF Live
  <2>2. view[v].block.revision \in Nat
    BY DEF TypeOK, View, Block
  <2>3. CASE view[v].id = b
    BY <1>2, <2>1, <2>2, <2>3 DEF ViewsArePast
  <2>4. CASE view[v].id # b
    BY <2>1, <2>4 DEF ViewsArePast, Live
  <2>5. QED
    BY <2>3, <2>4
<1>9. NoDanglingLink'
  <2>1. ASSUME NEW a \in Live \ {b} PROVE blocks'[a].linkedBlockIds \subseteq Live \ {a}
    BY DEF NoDanglingLink, Live
  <2>2. QED
    BY <1>3, <2>1 DEF NoDanglingLink
<1>10. IndexesMirrorLinks'
  BY <1>1, <1>3, SMTT(20) DEF IndexesMirrorLinks, Relinked, TypeOK
<1>11. QED
  BY <1>5, <1>6, <1>7, <1>8, <1>9, <1>10

LEMMA EditBlockIInv ==
  ASSUME IInv, NEW w \in Writers, NEW content \in Contents, NEW targets \in SUBSET Ids,
         NEW b \in Ids, b = view[w].id, EditBlock(w, content, targets)
  PROVE  IInv'
<1> USE DEF IInv
<1>1. b \in Live /\ workspace /\ targets \subseteq Live \ {b}
  BY DEF EditBlock, Current
<1>2. blocks[b] \in Block
  BY DEF TypeOK
<1>3. [revision |-> blocks[b].revision + 1, content |-> content,
       history |-> Append(blocks[b].history, content), linkedBlockIds |-> targets] \in Block
  BY <1>2 DEF Block
<1>4. /\ blocks' \in [Ids -> Block] /\ blocks'[b].linkedBlockIds = targets
      /\ blocks'[b].revision = blocks[b].revision + 1
      /\ blocks'[b].history = Append(blocks[b].history, blocks'[b].content)
      /\ \A a \in Ids \ {b} : blocks'[a] = blocks[a]
  BY <1>3 DEF EditBlock, TypeOK
<1>5. Relinked(b, targets)
  <2>1. \A a, c \in Ids : a \in backlinksIndex'[c] <=>
          \/ a = b /\ c \in targets
          \/ a \in backlinksIndex[c] /\ ~(a = b /\ c \in blocks[b].linkedBlockIds)
    BY DEF EditBlock, AddBacklinks, DropBacklinks
  <2>2. \A c \in Ids : b \in backlinksIndex[c] <=> c \in blocks[b].linkedBlockIds
    BY <1>1 DEF IndexesMirrorLinks
  <2>3. backlinksIndex' \in [Ids -> SUBSET Ids]
    BY DEF EditBlock, AddBacklinks, DropBacklinks, TypeOK
  <2>4. QED
    BY <2>1, <2>2, <2>3, SMTT(20) DEF Relinked, EditBlock
<1>6. view' = [view EXCEPT ![w] = NoView] /\ UNCHANGED <<workspace, used>>
  BY DEF EditBlock
<1>7. QED
  BY <1>1, <1>4, <1>5, <1>6, RelinkIInv

LEMMA LinkBlocksIInv ==
  ASSUME IInv, NEW w \in Writers, NEW target \in Ids,
         NEW b \in Ids, b = view[w].id, LinkBlocks(w, target)
  PROVE  IInv'
<1> USE DEF IInv
<1> DEFINE links == blocks[b].linkedBlockIds \cup {target}
<1>1. b \in Live /\ workspace /\ links \subseteq Live \ {b} /\ links \in SUBSET Ids
  BY DEF LinkBlocks, Current, NoDanglingLink, TypeOK, Block, Live
<1>2. blocks[b] \in Block
  BY DEF TypeOK
<1>3. [blocks[b] EXCEPT !.linkedBlockIds = links] \in Block
  BY <1>1, <1>2 DEF Block
<1>4. /\ blocks' \in [Ids -> Block] /\ blocks'[b].linkedBlockIds = links
      /\ blocks'[b].revision = blocks[b].revision
      /\ blocks'[b].history = blocks[b].history /\ blocks'[b].content = blocks[b].content
      /\ \A a \in Ids \ {b} : blocks'[a] = blocks[a]
  BY <1>2, <1>3 DEF LinkBlocks, TypeOK, Block
<1>5. Relinked(b, links)
  <2>1. \A a, c \in Ids : a \in backlinksIndex'[c] <=>
          a \in backlinksIndex[c] \/ (a = b /\ c = target)
    BY DEF LinkBlocks, AddBacklinks
  <2>2. \A c \in Ids : b \in backlinksIndex[c] <=> c \in blocks[b].linkedBlockIds
    BY <1>1 DEF IndexesMirrorLinks
  <2>3. backlinksIndex' \in [Ids -> SUBSET Ids]
    BY DEF LinkBlocks, AddBacklinks, TypeOK
  <2>4. QED
    BY <2>1, <2>2, <2>3 DEF Relinked, LinkBlocks
<1>6. view' = [view EXCEPT ![w] = NoView] /\ UNCHANGED <<workspace, used>>
  BY DEF LinkBlocks
<1> HIDE DEF links
<1>7. QED
  BY <1>1, <1>4, <1>5, <1>6, RelinkIInv

\* The backlinks of the block are empty, so no block links to it.
LEMMA DeleteBlockIInv ==
  ASSUME IInv, NEW w \in Writers, NEW b \in Ids, b = view[w].id, DeleteBlock(w)
  PROVE  IInv'
<1> USE DEF IInv
<1>1. b \in Live /\ workspace /\ backlinksIndex[b] = {}
  BY DEF DeleteBlock, Current
<1>2. /\ blocks'[b] = NoBlock /\ \A a \in Ids \ {b} : blocks'[a] = blocks[a]
      /\ blocks' \in [Ids -> Block] /\ workspace' /\ used' = used
  BY <1>1, NotebookAssumption DEF DeleteBlock, TypeOK, NoBlock, Block
<1>3. Live' = Live \ {b}
  BY <1>2 DEF Live, NoBlock
<1>4. \A a \in Live : b \notin blocks[a].linkedBlockIds
  BY <1>1 DEF IndexesMirrorLinks, Live
<1>5. view' \in [Writers -> View] /\ view'[w].id = NoId
      /\ \A v \in Writers \ {w} : view'[v] = view[v]
  BY NotebookAssumption DEF DeleteBlock, TypeOK, View, NoView, NoBlock, Block
<1>6. Relinked(b, {})
  <2>1. \A a, c \in Ids : a \in backlinksIndex'[c] <=>
          /\ a \in backlinksIndex[c] /\ c # b
          /\ ~(a = b /\ c \in blocks[b].linkedBlockIds)
    BY DEF DeleteBlock, DropBacklinks, TypeOK
  <2>2. \A c \in Ids : b \in backlinksIndex[c] <=> c \in blocks[b].linkedBlockIds
    BY <1>1 DEF IndexesMirrorLinks
  <2>3. backlinksIndex' \in [Ids -> SUBSET Ids]
    BY DEF DeleteBlock, DropBacklinks, TypeOK
  <2>4. \A a, c \in Ids : a \in backlinksIndex'[c] <=>
          IF a = b THEN c \in {} ELSE a \in backlinksIndex[c]
    BY <1>1, <2>1, <2>2
  <2>5. linkIndex' = [linkIndex EXCEPT ![b] = {}]
    BY DEF DeleteBlock
  <2>6. QED
    BY <2>3, <2>4, <2>5 DEF Relinked
<1>7. TypeOK'
  BY <1>2, <1>5, <1>6 DEF TypeOK, Relinked
<1>8. DrawnIds'
  BY <1>2, <1>3, <1>5 DEF DrawnIds
<1>9. HistoryShape'
  BY <1>2, <1>3 DEF HistoryShape, Live
<1>10. ViewsArePast'
  BY <1>2, <1>3, <1>5, NotebookAssumption DEF ViewsArePast, Live
<1>11. NoDanglingLink'
  BY <1>2, <1>3, <1>4 DEF NoDanglingLink, Live
<1>12. IndexesMirrorLinks'
  BY <1>1, <1>2, <1>3, <1>6 DEF IndexesMirrorLinks, Relinked, TypeOK
<1>13. QED
  BY <1>7, <1>8, <1>9, <1>10, <1>11, <1>12

LEMMA StepIInv == IInv /\ [Next]_vars => IInv'
<1> SUFFICES ASSUME IInv, [Next]_vars PROVE IInv'
  OBVIOUS
<1>1. CASE CreateWorkspace
  BY <1>1, EmptyIInv DEF CreateWorkspace
<1>2. CASE DeleteWorkspace
  BY <1>2, EmptyIInv DEF DeleteWorkspace
<1>3. ASSUME NEW b \in Ids, NEW content \in Contents, NEW targets \in SUBSET Ids,
             CreateBlock(b, content, targets)
      PROVE  IInv'
  BY <1>3, CreateBlockIInv
<1>4. ASSUME NEW w \in Writers, NEW b \in Ids, Read(w, b) PROVE IInv'
  BY <1>4, ReadIInv
<1>5. ASSUME NEW w \in Writers, NEW content \in Contents, NEW targets \in SUBSET Ids,
             EditBlock(w, content, targets)
      PROVE  IInv'
  BY <1>5, EditBlockIInv DEF EditBlock, Current, Live
<1>6. ASSUME NEW w \in Writers, NEW target \in Ids, LinkBlocks(w, target) PROVE IInv'
  BY <1>6, LinkBlocksIInv DEF LinkBlocks, Current, Live
<1>7. ASSUME NEW w \in Writers, DeleteBlock(w) PROVE IInv'
  BY <1>7, DeleteBlockIInv DEF DeleteBlock, Current, Live
<1>8. CASE UNCHANGED vars
  BY <1>8
     DEF vars, IInv, TypeOK, DrawnIds, HistoryShape, ViewsArePast, IndexesMirrorLinks,
         NoDanglingLink, Live
<1>9. QED
  BY <1>1, <1>2, <1>3, <1>4, <1>5, <1>6, <1>7, <1>8 DEF Next

\* The inductive invariant holds throughout.
THEOREM InductiveInvariant == Spec => []IInv
<1>1. Init => IInv
  BY InitIInv
<1>2. IInv /\ [Next]_vars => IInv'
  BY StepIInv
<1>3. QED
  BY <1>1, <1>2, PTL DEF Spec

\* Every variable keeps its type.
THEOREM TypeCorrect == Spec => []TypeOK
<1>1. IInv => TypeOK
  BY DEF IInv
<1>2. QED
  BY <1>1, InductiveInvariant, PTL

\* The two indexes mirror the links of the blocks.
THEOREM IndexesMirror == Spec => []IndexesMirrorLinks
<1>1. IInv => IndexesMirrorLinks
  BY DEF IInv
<1>2. QED
  BY <1>1, InductiveInvariant, PTL

\* Links lead to other blocks of the workspace.
THEOREM LinksLead == Spec => []NoDanglingLink
<1>1. IInv => NoDanglingLink
  BY DEF IInv
<1>2. QED
  BY <1>1, InductiveInvariant, PTL
-----------------------------------------------------------------------------
(* Action properties: what one step can do to a block.                     *)

Untouched(b) ==
  /\ blocks'[b].history = blocks[b].history
  /\ blocks'[b].revision = blocks[b].revision
  /\ blocks'[b].content = blocks[b].content

Revised(b) ==
  /\ blocks'[b].history = Append(blocks[b].history, blocks'[b].content)
  /\ blocks'[b].revision = blocks[b].revision + 1
  /\ blocks'[b].content \in Contents

\* Only a writer whose reading is current takes block b out of its reading.
ByReader(b) ==
  \E w \in Writers : view[w].id = b /\ Current(w) /\ view'[w] = NoView

\* A block that survives a step is left alone or revised; one that goes with
\* its workspace still there was deleted by a reader.
LEMMA BlockStep ==
  ASSUME IInv, [Next]_vars, NEW b \in Live, workspace'
  PROVE  Untouched(b) \/ (Revised(b) /\ ByReader(b)) \/ (b \notin Live' /\ ByReader(b))
<1>1. b \in Ids /\ blocks[b] \in Block /\ blocks \in [Ids -> Block] /\ workspace
      /\ view \in [Writers -> View] /\ b \in used
  BY DEF IInv, TypeOK, Live, DrawnIds
<1>2. CASE UNCHANGED blocks
  BY <1>2 DEF Untouched
<1>3. ASSUME NEW a \in Ids, NEW content \in Contents, NEW targets \in SUBSET Ids,
             CreateBlock(a, content, targets)
      PROVE  Untouched(b)
  BY <1>1, <1>3 DEF CreateBlock, Untouched
<1>4. ASSUME NEW w \in Writers, NEW content \in Contents, NEW targets \in SUBSET Ids,
             EditBlock(w, content, targets)
      PROVE  Untouched(b) \/ (Revised(b) /\ ByReader(b))
  <2>1. CASE view[w].id = b
    <3>1. Revised(b)
      BY <1>1, <1>4, <2>1 DEF EditBlock, Revised
    <3>2. ByReader(b)
      BY <1>1, <1>4, <2>1 DEF EditBlock, ByReader
    <3>3. QED
      BY <3>1, <3>2
  <2>2. CASE view[w].id # b
    BY <1>1, <1>4, <2>2 DEF EditBlock, Untouched
  <2>3. QED
    BY <2>1, <2>2
<1>5. ASSUME NEW w \in Writers, NEW target \in Ids, LinkBlocks(w, target) PROVE Untouched(b)
  BY <1>1, <1>5 DEF LinkBlocks, Untouched, Block
<1>6. ASSUME NEW w \in Writers, DeleteBlock(w)
      PROVE  Untouched(b) \/ (b \notin Live' /\ ByReader(b))
  <2>1. CASE view[w].id = b
    <3>1. blocks'[b] = NoBlock
      BY <1>1, <1>6, <2>1 DEF DeleteBlock
    <3>2. ByReader(b)
      BY <1>1, <1>6, <2>1 DEF DeleteBlock, ByReader
    <3>3. QED
      BY <3>1, <3>2 DEF Live, NoBlock
  <2>2. CASE view[w].id # b
    BY <1>1, <1>6, <2>2 DEF DeleteBlock, Untouched
  <2>3. QED
    BY <2>1, <2>2
<1>7. QED
  BY <1>1, <1>2, <1>3, <1>4, <1>5, <1>6
     DEF Next, vars, Read, CreateWorkspace, DeleteWorkspace

\* A reading at the revision of the block is a reading of its content.
LEMMA ReaderReadContent ==
  ASSUME IInv, NEW w \in Writers, Current(w)
  PROVE  view[w].block.history = blocks[view[w].id].history /\ view[w] # NoView
BY NotebookAssumption DEF IInv, ViewsArePast, Current, Live, NoView

\* What a writer replaces or deletes it has read.
THEOREM NoBlindChange == Spec => ContentWasRead
<1>1. IInv /\ [Next]_vars
        => [\A b \in Live :
              (workspace' /\ blocks'[b].history # blocks[b].history)
                => \E w \in Writers : /\ view'[w] # view[w]
                                      /\ view[w].id = b
                                      /\ view[w].block.history = blocks[b].history]_vars
  <2> SUFFICES ASSUME IInv, [Next]_vars, NEW b \in Live, workspace',
                      blocks'[b].history # blocks[b].history
               PROVE  \E w \in Writers : /\ view'[w] # view[w]
                                         /\ view[w].id = b
                                         /\ view[w].block.history = blocks[b].history
    OBVIOUS
  <2>1. ByReader(b)
    BY BlockStep DEF Untouched
  <2>2. QED
    BY <2>1, ReaderReadContent DEF ByReader
<1>2. QED
  BY <1>1, InductiveInvariant, PTL DEF Spec, ContentWasRead

\* The revisions of a block are kept, in order and without a gap.
THEOREM HistoryKept == Spec => RevisionsRetained
<1>1. IInv /\ IInv' /\ [Next]_vars
        => [\A b \in Live \cap Live' :
              /\ SubSeq(blocks'[b].history, 1, blocks[b].revision) = blocks[b].history
              /\ Len(blocks'[b].history) = blocks'[b].revision
              /\ blocks'[b].history[blocks'[b].revision] = blocks'[b].content]_vars
  <2> SUFFICES ASSUME IInv, IInv', [Next]_vars, NEW b \in Live \cap Live'
               PROVE  /\ SubSeq(blocks'[b].history, 1, blocks[b].revision) = blocks[b].history
                      /\ Len(blocks'[b].history) = blocks'[b].revision
                      /\ blocks'[b].history[blocks'[b].revision] = blocks'[b].content
    OBVIOUS
  <2>1. /\ Len(blocks'[b].history) = blocks'[b].revision
        /\ blocks'[b].history[blocks'[b].revision] = blocks'[b].content
    BY DEF IInv, HistoryShape
  <2>2. /\ blocks[b].history \in Seq(Contents) /\ Len(blocks[b].history) = blocks[b].revision
    BY DEF IInv, HistoryShape, TypeOK, Live, Block
  <2>3. workspace'
    BY DEF IInv, TypeOK, Live
  <2>4. Untouched(b) \/ Revised(b)
    BY <2>3, BlockStep
  <2>5. CASE Untouched(b)
    BY <2>1, <2>2, <2>5 DEF Untouched
  <2>6. CASE Revised(b)
    BY <2>1, <2>2, <2>6 DEF Revised
  <2>7. QED
    BY <2>4, <2>5, <2>6
<1>2. QED
  BY <1>1, InductiveInvariant, PTL DEF Spec, RevisionsRetained

-----------------------------------------------------------------------------
(* The backup of the notebook.                                             *)

BackupStages == {"sealing", "recording", "downloading", "publishing"}
StagedStages == {"opening", "consuming", "committing", "discarding"}
RestoreStages == {"staging"} \cup StagedStages

\* An operation runs in a ready page, on an identifier of its own kind.
RunningFits ==
  \A t \in Tabs :
    /\ stage[t] # "idle" => page[t] = "ready"
    /\ stage[t] \in BackupStages => current[t] \in Backups
    /\ stage[t] \in RestoreStages => current[t] \in Restores

\* A backup waits for a step only after the steps before it.
BackupSteps ==
  \A t \in Tabs :
    /\ stage[t] \in {"downloading", "publishing"} => current[t] \in recorded
    /\ stage[t] = "publishing" => current[t] \in files

\* A restore not yet staged is one page's own; after that it has been staged.
StagingSteps ==
  \A t \in Tabs :
    /\ stage[t] = "staging" =>
         /\ staging[current[t]] = "drawn"
         /\ \A u \in Tabs : stage[u] = "staging" /\ current[u] = current[t] => u = t
    /\ stage[t] \in StagedStages => staging[current[t]] \in {"pending", "removed"}

\* The inductive invariant of the backup.
BackupIInv ==
  /\ BackupTypeOK
  /\ RunningFits
  /\ BackupSteps
  /\ StagingSteps
  /\ PublishedCodeHasItsBackup
  /\ ReadyPageIsClean
  /\ PlaintextConfined

LEMMA BackupInitIInv == BackupInit => BackupIInv
<1> SUFFICES ASSUME BackupInit PROVE BackupIInv
  OBVIOUS
<1>1. BackupTypeOK /\ PublishedCodeHasItsBackup /\ ReadyPageIsClean /\ PlaintextConfined
  BY DEF BackupInit, BackupTypeOK, PublishedCodeHasItsBackup, ReadyPageIsClean,
         PlaintextConfined
<1>2. RunningFits /\ BackupSteps /\ StagingSteps
  BY DEF BackupInit, RunningFits, BackupSteps, StagingSteps, BackupStages, RestoreStages,
         StagedStages
<1>3. QED
  BY <1>1, <1>2 DEF BackupIInv

LEMMA LoadIInv ==
  ASSUME BackupIInv, NEW t \in Tabs, Load(t)
  PROVE  BackupIInv'
<1> USE DEF BackupIInv, Load, operation, store
<1>1. BackupTypeOK'
  BY DEF BackupTypeOK
<1>2. RunningFits'
  BY DEF BackupTypeOK, RunningFits, BackupStages, StagedStages, RestoreStages
<1>3. ReadyPageIsClean'
  BY DEF BackupTypeOK, ReadyPageIsClean
<1>4. PlaintextConfined'
  BY DEF BackupTypeOK, PlaintextConfined, At
<1>5. BackupSteps' /\ StagingSteps' /\ PublishedCodeHasItsBackup'
  BY DEF BackupSteps, StagingSteps, PublishedCodeHasItsBackup
<1>6. QED
  BY <1>1, <1>2, <1>3, <1>4, <1>5

LEMMA RecoverRestoresIInv ==
  ASSUME BackupIInv, NEW t \in Tabs, RecoverRestores(t)
  PROVE  BackupIInv'
<1> USE DEF BackupIInv, RecoverRestores, Staged, operation
<1>1. BackupTypeOK'
  BY DEF BackupTypeOK
<1>2. RunningFits'
  BY DEF BackupTypeOK, RunningFits, BackupStages, StagedStages, RestoreStages
<1>3. StagingSteps'
  BY DEF BackupTypeOK, RunningFits, StagingSteps, BackupStages, StagedStages,
         RestoreStages
<1>4. ReadyPageIsClean'
  BY DEF BackupTypeOK, ReadyPageIsClean
<1>5. PlaintextConfined'
  BY DEF BackupTypeOK, PlaintextConfined, At
<1>6. BackupSteps' /\ PublishedCodeHasItsBackup'
  BY DEF BackupSteps, PublishedCodeHasItsBackup
<1>7. QED
  BY <1>1, <1>2, <1>3, <1>4, <1>5, <1>6

LEMMA RecoveryFailsIInv ==
  ASSUME BackupIInv, NEW t \in Tabs, RecoveryFails(t)
  PROVE  BackupIInv'
<1> USE DEF BackupIInv, RecoveryFails, operation, store
<1>1. BackupTypeOK'
  BY DEF BackupTypeOK
<1>2. RunningFits'
  BY DEF BackupTypeOK, RunningFits, BackupStages, StagedStages, RestoreStages
<1>3. ReadyPageIsClean'
  BY DEF BackupTypeOK, ReadyPageIsClean
<1>4. PlaintextConfined'
  BY DEF BackupTypeOK, PlaintextConfined, At
<1>5. BackupSteps' /\ StagingSteps' /\ PublishedCodeHasItsBackup'
  BY DEF BackupSteps, StagingSteps, PublishedCodeHasItsBackup
<1>6. QED
  BY <1>1, <1>2, <1>3, <1>4, <1>5

LEMMA CloseIInv ==
  ASSUME BackupIInv, NEW t \in Tabs, Close(t)
  PROVE  BackupIInv'
<1> USE DEF BackupIInv, Close, Wait, WorkerIs, Finish, store
<1>1. BackupTypeOK'
  BY DEF BackupTypeOK
<1>2. RunningFits'
  BY DEF BackupTypeOK, RunningFits, BackupStages, StagedStages, RestoreStages
<1>3. BackupSteps'
  BY DEF BackupTypeOK, BackupSteps
<1>4. StagingSteps'
  BY DEF BackupTypeOK, StagingSteps, StagedStages
<1>5. PublishedCodeHasItsBackup'
  BY DEF BackupTypeOK, PublishedCodeHasItsBackup
<1>6. ReadyPageIsClean'
  BY DEF BackupTypeOK, ReadyPageIsClean
<1>7. PlaintextConfined'
  BY DEF BackupTypeOK, PlaintextConfined, At
<1>8. QED
  BY <1>1, <1>2, <1>3, <1>4, <1>5, <1>6, <1>7

LEMMA StartBackupIInv ==
  ASSUME BackupIInv, NEW t \in Tabs, NEW b \in Backups, StartBackup(t, b)
  PROVE  BackupIInv'
<1> USE DEF BackupIInv, StartBackup, Free, At, Wait, WorkerIs, store
<1>1. BackupTypeOK'
  BY DEF BackupTypeOK
<1>2. RunningFits'
  BY DEF BackupTypeOK, RunningFits, BackupStages, StagedStages, RestoreStages
<1>3. BackupSteps'
  BY DEF BackupTypeOK, BackupSteps
<1>4. StagingSteps'
  BY DEF BackupTypeOK, StagingSteps, StagedStages
<1>5. PublishedCodeHasItsBackup'
  BY DEF BackupTypeOK, PublishedCodeHasItsBackup
<1>6. PlaintextConfined'
  BY DEF BackupTypeOK, PlaintextConfined
<1>7. ReadyPageIsClean'
  BY DEF ReadyPageIsClean
<1>8. QED
  BY <1>1, <1>2, <1>3, <1>4, <1>5, <1>6, <1>7

LEMMA BackupNotStartedIInv ==
  ASSUME BackupIInv, NEW t \in Tabs, BackupNotStarted(t)
  PROVE  BackupIInv'
<1> USE DEF BackupIInv, BackupNotStarted, Free, At, operation, store
<1>1. BackupTypeOK'
  BY DEF BackupTypeOK
<1>2. PublishedCodeHasItsBackup'
  BY DEF BackupTypeOK, PublishedCodeHasItsBackup
<1>3. RunningFits' /\ BackupSteps' /\ StagingSteps' /\ ReadyPageIsClean' /\ PlaintextConfined'
  BY DEF RunningFits, BackupSteps, StagingSteps, ReadyPageIsClean,
         PlaintextConfined
<1>4. QED
  BY <1>1, <1>2, <1>3

LEMMA RecordBackupIInv ==
  ASSUME BackupIInv, NEW t \in Tabs, RecordBackup(t)
  PROVE  BackupIInv'
<1> USE DEF BackupIInv, RecordBackup, At, Wait, WorkerIs, Finish, Refuse
<1>1. BackupTypeOK'
  BY DEF BackupTypeOK, RunningFits, BackupStages, StagedStages, RestoreStages
<1>2. RunningFits'
  BY DEF BackupTypeOK, RunningFits, BackupStages, StagedStages, RestoreStages
<1>3. BackupSteps'
  BY DEF BackupTypeOK, BackupSteps
<1>4. StagingSteps'
  BY DEF BackupTypeOK, StagingSteps, StagedStages
<1>5. PublishedCodeHasItsBackup'
  BY DEF BackupTypeOK, PublishedCodeHasItsBackup
<1>6. PlaintextConfined'
  BY DEF BackupTypeOK, PlaintextConfined
<1>7. ReadyPageIsClean'
  BY DEF ReadyPageIsClean
<1>8. QED
  BY <1>1, <1>2, <1>3, <1>4, <1>5, <1>6, <1>7

LEMMA DownloadIInv ==
  ASSUME BackupIInv, NEW t \in Tabs, Download(t)
  PROVE  BackupIInv'
<1> USE DEF BackupIInv, Download, At, Wait, WorkerIs, Finish, Refuse, store
<1>1. BackupTypeOK'
  BY DEF BackupTypeOK, RunningFits, BackupStages, StagedStages, RestoreStages
<1>2. RunningFits'
  BY DEF BackupTypeOK, RunningFits, BackupStages, StagedStages, RestoreStages
<1>3. BackupSteps'
  BY DEF BackupTypeOK, BackupSteps
<1>4. StagingSteps'
  BY DEF BackupTypeOK, StagingSteps, StagedStages
<1>5. PublishedCodeHasItsBackup'
  BY DEF BackupTypeOK, PublishedCodeHasItsBackup
<1>6. PlaintextConfined'
  BY DEF BackupTypeOK, PlaintextConfined
<1>7. ReadyPageIsClean'
  BY DEF ReadyPageIsClean
<1>8. QED
  BY <1>1, <1>2, <1>3, <1>4, <1>5, <1>6, <1>7

LEMMA PublishRecoveryCodeIInv ==
  ASSUME BackupIInv, NEW t \in Tabs, PublishRecoveryCode(t)
  PROVE  BackupIInv'
<1> USE DEF BackupIInv, PublishRecoveryCode, At, Wait, WorkerIs, Finish, store
<1>1. BackupTypeOK'
  BY DEF BackupTypeOK, RunningFits, BackupStages, StagedStages, RestoreStages
<1>2. RunningFits'
  BY DEF BackupTypeOK, RunningFits, BackupStages, StagedStages, RestoreStages
<1>3. BackupSteps'
  BY DEF BackupTypeOK, BackupSteps
<1>4. StagingSteps'
  BY DEF BackupTypeOK, StagingSteps, StagedStages
<1>5. PublishedCodeHasItsBackup'
  BY DEF BackupTypeOK, BackupSteps, PublishedCodeHasItsBackup
<1>6. PlaintextConfined'
  BY DEF BackupTypeOK, PlaintextConfined
<1>7. ReadyPageIsClean'
  BY DEF ReadyPageIsClean
<1>8. QED
  BY <1>1, <1>2, <1>3, <1>4, <1>5, <1>6, <1>7

LEMMA StartRestoreIInv ==
  ASSUME BackupIInv, NEW t \in Tabs, NEW o \in Restores, StartRestore(t, o)
  PROVE  BackupIInv'
<1> USE DEF BackupIInv, StartRestore, Free, At, Wait
<1>1. BackupTypeOK'
  BY DEF BackupTypeOK
<1>2. RunningFits'
  BY DEF BackupTypeOK, RunningFits, BackupStages, StagedStages, RestoreStages
<1>3. BackupSteps'
  BY DEF BackupTypeOK, BackupSteps
<1>4. StagingSteps'
  BY DEF BackupTypeOK, StagingSteps, StagedStages
<1>5. ReadyPageIsClean'
  BY DEF BackupTypeOK, ReadyPageIsClean
<1>6. PlaintextConfined'
  BY DEF BackupTypeOK, PlaintextConfined
<1>7. PublishedCodeHasItsBackup'
  BY DEF PublishedCodeHasItsBackup
<1>8. QED
  BY <1>1, <1>2, <1>3, <1>4, <1>5, <1>6, <1>7

LEMMA StageRestoreIInv ==
  ASSUME BackupIInv, NEW t \in Tabs, StageRestore(t)
  PROVE  BackupIInv'
<1> USE DEF BackupIInv, StageRestore, At, Wait, WorkerIs, Finish, Refuse
<1>1. BackupTypeOK'
  BY DEF BackupTypeOK
<1>2. RunningFits'
  BY DEF BackupTypeOK, RunningFits, BackupStages, StagedStages, RestoreStages
<1>3. BackupSteps'
  BY DEF BackupTypeOK, BackupSteps
<1>4. StagingSteps'
  BY DEF BackupTypeOK, RunningFits, StagingSteps, BackupStages, StagedStages,
         RestoreStages
<1>5. ReadyPageIsClean'
  BY DEF BackupTypeOK, RunningFits, StagingSteps, ReadyPageIsClean, BackupStages,
         StagedStages, RestoreStages
<1>6. PlaintextConfined'
  BY DEF BackupTypeOK, RunningFits, PlaintextConfined, BackupStages, StagedStages,
         RestoreStages
<1>7. PublishedCodeHasItsBackup'
  BY DEF PublishedCodeHasItsBackup
<1>8. QED
  BY <1>1, <1>2, <1>3, <1>4, <1>5, <1>6, <1>7

LEMMA ConsumeIInv ==
  ASSUME BackupIInv, NEW t \in Tabs, Consume(t)
  PROVE  BackupIInv'
<1> USE DEF BackupIInv, Consume, At, Wait, WorkerIs, Finish, Refuse, store
<1>1. BackupTypeOK'
  BY DEF BackupTypeOK
<1>2. RunningFits'
  BY DEF BackupTypeOK, RunningFits, BackupStages, StagedStages, RestoreStages
<1>3. BackupSteps'
  BY DEF BackupTypeOK, BackupSteps
<1>4. StagingSteps'
  BY DEF BackupTypeOK, StagingSteps, StagedStages
<1>5. PlaintextConfined'
  BY DEF BackupTypeOK, PlaintextConfined
<1>6. PublishedCodeHasItsBackup' /\ ReadyPageIsClean'
  BY DEF PublishedCodeHasItsBackup, ReadyPageIsClean
<1>7. QED
  BY <1>1, <1>2, <1>3, <1>4, <1>5, <1>6

LEMMA CommitRestoreIInv ==
  ASSUME BackupIInv, NEW t \in Tabs, CommitRestore(t)
  PROVE  BackupIInv'
<1> USE DEF BackupIInv, CommitRestore, At, Wait, WorkerIs, Finish, Refuse, Unstage
<1>1. BackupTypeOK'
  BY DEF BackupTypeOK, RunningFits, BackupStages, StagedStages, RestoreStages
<1>2. RunningFits'
  BY DEF BackupTypeOK, RunningFits, BackupStages, StagedStages, RestoreStages
<1>3. BackupSteps'
  BY DEF BackupTypeOK, BackupSteps
<1>4. StagingSteps'
  BY DEF BackupTypeOK, RunningFits, StagingSteps, BackupStages, StagedStages,
         RestoreStages
<1>5. ReadyPageIsClean'
  BY DEF BackupTypeOK, ReadyPageIsClean
<1>6. PlaintextConfined'
  BY DEF BackupTypeOK, PlaintextConfined
<1>7. PublishedCodeHasItsBackup'
  BY DEF PublishedCodeHasItsBackup
<1>8. QED
  BY <1>1, <1>2, <1>3, <1>4, <1>5, <1>6, <1>7

LEMMA DiscardRestoreIInv ==
  ASSUME BackupIInv, NEW t \in Tabs, DiscardRestore(t)
  PROVE  BackupIInv'
<1> USE DEF BackupIInv, DiscardRestore, At, Wait, WorkerIs, Finish, Unstage
<1>1. BackupTypeOK'
  BY DEF BackupTypeOK
<1>2. RunningFits'
  BY DEF BackupTypeOK, RunningFits, BackupStages, StagedStages, RestoreStages
<1>3. BackupSteps'
  BY DEF BackupTypeOK, BackupSteps
<1>4. StagingSteps'
  BY DEF BackupTypeOK, RunningFits, StagingSteps, BackupStages, StagedStages,
         RestoreStages
<1>5. ReadyPageIsClean'
  BY DEF BackupTypeOK, ReadyPageIsClean
<1>6. PlaintextConfined'
  BY DEF BackupTypeOK, PlaintextConfined
<1>7. PublishedCodeHasItsBackup'
  BY DEF PublishedCodeHasItsBackup
<1>8. QED
  BY <1>1, <1>2, <1>3, <1>4, <1>5, <1>6, <1>7

LEMMA WorkerAnswersIInv ==
  ASSUME BackupIInv, NEW t \in Tabs, WorkerAnswers(t)
  PROVE  BackupIInv'
<1> USE DEF BackupIInv, WorkerAnswers, At, WorkerIs, store
<1>1. BackupTypeOK'
  BY DEF BackupTypeOK
<1>2. PlaintextConfined'
  BY DEF BackupTypeOK, PlaintextConfined
<1>3. /\ RunningFits' /\ BackupSteps' /\ StagingSteps'
      /\ PublishedCodeHasItsBackup' /\ ReadyPageIsClean'
  BY DEF RunningFits, BackupSteps, StagingSteps, PublishedCodeHasItsBackup,
         ReadyPageIsClean
<1>4. QED
  BY <1>1, <1>2, <1>3

LEMMA AnswerArrivesIInv ==
  ASSUME BackupIInv, NEW t \in Tabs, AnswerArrives(t)
  PROVE  BackupIInv'
<1> USE DEF BackupIInv, AnswerArrives, At, Wait, WorkerIs, store
<1>1. BackupTypeOK'
  BY DEF BackupTypeOK
<1>2. RunningFits'
  BY DEF BackupTypeOK, RunningFits, PlaintextConfined, BackupStages, StagedStages,
         RestoreStages
<1>3. BackupSteps'
  BY DEF BackupTypeOK, BackupSteps
<1>4. StagingSteps'
  BY DEF BackupTypeOK, StagingSteps, PlaintextConfined, StagedStages
<1>5. PlaintextConfined'
  BY DEF BackupTypeOK, PlaintextConfined
<1>6. PublishedCodeHasItsBackup' /\ ReadyPageIsClean'
  BY DEF PublishedCodeHasItsBackup, ReadyPageIsClean
<1>7. QED
  BY <1>1, <1>2, <1>3, <1>4, <1>5, <1>6

LEMMA WorkerFailsIInv ==
  ASSUME BackupIInv, NEW t \in Tabs, WorkerFails(t)
  PROVE  BackupIInv'
<1> USE DEF BackupIInv, WorkerFails, Wait, WorkerIs, Finish, Refuse, store
<1>1. BackupTypeOK'
  BY DEF BackupTypeOK
<1>2. RunningFits'
  BY DEF BackupTypeOK, RunningFits, BackupStages, StagedStages, RestoreStages
<1>3. BackupSteps'
  BY DEF BackupTypeOK, BackupSteps
<1>4. StagingSteps'
  BY DEF BackupTypeOK, StagingSteps, StagedStages
<1>5. PlaintextConfined'
  BY DEF BackupTypeOK, PlaintextConfined, At
<1>6. PublishedCodeHasItsBackup' /\ ReadyPageIsClean'
  BY DEF PublishedCodeHasItsBackup, ReadyPageIsClean
<1>7. QED
  BY <1>1, <1>2, <1>3, <1>4, <1>5, <1>6

LEMMA BackupStutterIInv ==
  ASSUME BackupIInv, UNCHANGED backupVars
  PROVE  BackupIInv'
BY DEF BackupIInv, BackupTypeOK, RunningFits, BackupSteps, StagingSteps, PublishedCodeHasItsBackup,
       ReadyPageIsClean, PlaintextConfined, At, backupVars, operation, store

LEMMA BackupNextIInv == BackupIInv /\ [BackupNext]_backupVars => BackupIInv'
<1> SUFFICES ASSUME BackupIInv, BackupNext PROVE BackupIInv'
  BY BackupStutterIInv
<1>1. PICK t \in Tabs :
        \/ Load(t)
        \/ RecoverRestores(t)
        \/ RecoveryFails(t)
        \/ Close(t)
        \/ \E b \in Backups : StartBackup(t, b)
        \/ BackupNotStarted(t)
        \/ \E o \in Restores : StartRestore(t, o)
        \/ WorkerAnswers(t)
        \/ Settle(t)
  BY DEF BackupNext
<1>2. CASE Load(t)
  BY <1>2, LoadIInv
<1>3. CASE RecoverRestores(t)
  BY <1>3, RecoverRestoresIInv
<1>4. CASE RecoveryFails(t)
  BY <1>4, RecoveryFailsIInv
<1>5. CASE Close(t)
  BY <1>5, CloseIInv
<1>6. CASE \E b \in Backups : StartBackup(t, b)
  BY <1>6, StartBackupIInv
<1>7. CASE BackupNotStarted(t)
  BY <1>7, BackupNotStartedIInv
<1>8. CASE RecordBackup(t)
  BY <1>8, RecordBackupIInv
<1>9. CASE Download(t)
  BY <1>9, DownloadIInv
<1>10. CASE PublishRecoveryCode(t)
  BY <1>10, PublishRecoveryCodeIInv
<1>11. CASE \E o \in Restores : StartRestore(t, o)
  BY <1>11, StartRestoreIInv
<1>12. CASE StageRestore(t)
  BY <1>12, StageRestoreIInv
<1>13. CASE Consume(t)
  BY <1>13, ConsumeIInv
<1>14. CASE CommitRestore(t)
  BY <1>14, CommitRestoreIInv
<1>15. CASE DiscardRestore(t)
  BY <1>15, DiscardRestoreIInv
<1>16. CASE WorkerAnswers(t)
  BY <1>16, WorkerAnswersIInv
<1>17. CASE AnswerArrives(t)
  BY <1>17, AnswerArrivesIInv
<1>18. CASE WorkerFails(t)
  BY <1>18, WorkerFailsIInv
<1>19. QED
  BY <1>1, <1>2, <1>3, <1>4, <1>5, <1>6, <1>7, <1>8, <1>9, <1>10, <1>11,
     <1>12, <1>13, <1>14, <1>15, <1>16, <1>17, <1>18 DEF Settle

LEMMA BackupSpecIInv == BackupSpec => []BackupIInv
BY BackupInitIInv, BackupNextIInv, PTL DEF BackupSpec

\* Every variable keeps its type; in particular the store and the downloads only
\* ever hold envelopes of backups, and receipts name restores.
THEOREM BackupTypes == BackupSpec => []BackupTypeOK
<1>1. BackupIInv => BackupTypeOK
  BY DEF BackupIInv
<1>2. QED
  BY <1>1, BackupSpecIInv, PTL

\* A page never shows the recovery code of a backup that was not both stored and
\* downloaded, whichever step failed and whatever other pages do.
THEOREM CodesHaveBackups == BackupSpec => []PublishedCodeHasItsBackup
<1>1. BackupIInv => PublishedCodeHasItsBackup
  BY DEF BackupIInv
<1>2. QED
  BY <1>1, BackupSpecIInv, PTL

\* Staging that a page's startup recovery removed never comes back while that
\* page accepts operations.
THEOREM RecoveryCleans == BackupSpec => []ReadyPageIsClean
<1>1. BackupIInv => ReadyPageIsClean
  BY DEF BackupIInv
<1>2. QED
  BY <1>1, BackupSpecIInv, PTL

\* Plaintext and workers do not outlive the step they serve, on any path.
THEOREM PlaintextStaysConfined == BackupSpec => []PlaintextConfined
<1>1. BackupIInv => PlaintextConfined
  BY DEF BackupIInv
<1>2. QED
  BY <1>1, BackupSpecIInv, PTL

LEMMA ReceiptStep ==
  ASSUME BackupIInv, [BackupNext]_backupVars, receipt' # receipt
  PROVE  staging[receipt'] = "pending" /\ staging'[receipt'] = "removed"
<1>1. PICK t \in Tabs : CommitRestore(t)
  BY DEF BackupNext, backupVars, store, Settle, Load, RecoverRestores, RecoveryFails,
         Close, StartBackup,
         BackupNotStarted, StartRestore, WorkerAnswers, RecordBackup, Download,
         PublishRecoveryCode, StageRestore, Consume, DiscardRestore, AnswerArrives,
         WorkerFails
<1>2. /\ staging[current[t]] = "pending"
      /\ Unstage(current[t])
      /\ receipt' = current[t]
      /\ stage[t] = "committing"
  BY <1>1 DEF CommitRestore, At
<1>3. current[t] \in Restores
  BY <1>2 DEF BackupIInv, RunningFits, RestoreStages, StagedStages
<1>4. QED
  BY <1>2, <1>3 DEF Unstage, BackupIInv, BackupTypeOK

\* A receipt is only written over staging of its own restore, which goes with it:
\* a restore whose staging another page removed never gets one.
THEOREM ReceiptsReplaceStaging == BackupSpec => ReceiptReplacesStaging
<1>1. BackupIInv /\ [BackupNext]_backupVars =>
        [receipt' # receipt => /\ staging[receipt'] = "pending"
                               /\ staging'[receipt'] = "removed"]_backupVars
  BY ReceiptStep
<1>2. QED
  BY <1>1, BackupSpecIInv, PTL DEF BackupSpec, ReceiptReplacesStaging
================================================================================
