---------------------------- MODULE NotebookBlocks ----------------------------
(***************************************************************************)
(* The block domain of the notebook: decideBlockCommand and getBlock of    *)
(* apps/notebook/src/domain/block.ts.                                      *)
(*                                                                         *)
(* A writer reads a block and later submits a command with the revision it *)
(* read, as two tabs or two editors of one workspace would; the decision   *)
(* itself is one synchronous step.  A refused command changes nothing: its *)
(* refusals are the negations of the guards below, in the code's order.    *)
(* Lists of links and of backlinks are sets: no operation depends on their *)
(* order, and a repeated entry is kept or dropped with its first copy.     *)
(***************************************************************************)
EXTENDS Integers, Sequences

CONSTANTS
  Ids,          (* Block ids the generator can draw; none is drawn twice.  *)
  Contents,     (* Contents of blocks.                                     *)
  Blank,        (* The content that trims to nothing.                      *)
  Writers,      (* Callers that submit commands.                           *)
  NoId,         (* "No block", for a writer that has read none.            *)
  MaxRevision   (* Bound of the revisions of a block.                      *)

ASSUME NotebookAssumption ==
  /\ Blank \in Contents
  /\ NoId \notin Ids
  /\ MaxRevision \in Nat

VARIABLES
  workspace,       (* Whether the state is not null.                       *)
  blocks,          (* NotebookState.blocks; NoBlock where the map has none. *)
  linkIndex,       (* NotebookState.linkIndex.                             *)
  backlinksIndex,  (* NotebookState.backlinksIndex.                        *)
  used,            (* The ids drawn so far.                                *)
  view             (* The block each writer has read.                      *)

vars == <<workspace, blocks, linkIndex, backlinksIndex, used, view>>

Block == [revision : Nat, content : Contents, history : Seq(Contents),
          linkedBlockIds : SUBSET Ids]
NoBlock == [revision |-> 0, content |-> Blank, history |-> <<>>, linkedBlockIds |-> {}]

View == [id : Ids \cup {NoId}, block : Block]
NoView == [id |-> NoId, block |-> NoBlock]

Live == {b \in Ids : blocks[b].revision > 0}

NoLinks == [b \in Ids |-> {}]

AddBacklinks(index, source, targets) ==
  [b \in Ids |-> IF b \in targets THEN index[b] \cup {source} ELSE index[b]]

DropBacklinks(index, source, targets) ==
  [b \in Ids |-> IF b \in targets THEN index[b] \ {source} ELSE index[b]]

\* Mutant: the expected revision is not compared.
CurrentAtAnyRevision(w) == workspace /\ view[w].id \in Live

\* The command of writer w names the block it read, at the revision it read.
Current(w) ==
  /\ workspace
  /\ view[w].id \in Live
  /\ blocks[view[w].id].revision = view[w].block.revision

-----------------------------------------------------------------------------
Init ==
  /\ workspace = FALSE
  /\ blocks = [b \in Ids |-> NoBlock]
  /\ linkIndex = NoLinks
  /\ backlinksIndex = NoLinks
  /\ used = {}
  /\ view = [w \in Writers |-> NoView]

CreateWorkspace ==
  /\ ~workspace
  /\ workspace' = TRUE
  /\ blocks' = [b \in Ids |-> NoBlock]
  /\ linkIndex' = NoLinks
  /\ backlinksIndex' = NoLinks
  /\ UNCHANGED <<used, view>>

\* getBlock, by a writer that means to change the block.
Read(w, b) ==
  /\ workspace /\ b \in Live
  /\ view' = [view EXCEPT ![w] = [id |-> b, block |-> blocks[b]]]
  /\ UNCHANGED <<workspace, blocks, linkIndex, backlinksIndex, used>>

CreateBlock(b, content, targets) ==
  /\ workspace
  /\ content # Blank
  /\ b \notin used
  /\ targets \subseteq Live
  /\ blocks' = [blocks EXCEPT ![b] = [revision |-> 1, content |-> content,
                                      history |-> <<content>>, linkedBlockIds |-> targets]]
  /\ linkIndex' = [linkIndex EXCEPT ![b] = targets]
  /\ backlinksIndex' = AddBacklinks(backlinksIndex, b, targets)
  /\ used' = used \cup {b}
  /\ UNCHANGED <<workspace, view>>

\* Mutant: the backlinks of the links an edit removes stay.
EditBlockKeepsBacklinks(w, content, targets) ==
  LET b == view[w].id
      block == blocks[b]
  IN  /\ Current(w) /\ block.revision < MaxRevision
      /\ content # Blank
      /\ targets \subseteq Live \ {b}
      /\ blocks' = [blocks EXCEPT ![b] =
           [revision |-> block.revision + 1, content |-> content,
            history |-> Append(block.history, content), linkedBlockIds |-> targets]]
      /\ linkIndex' = [linkIndex EXCEPT ![b] = targets]
      /\ backlinksIndex' = AddBacklinks(backlinksIndex, b, targets)
      /\ view' = [view EXCEPT ![w] = NoView]
      /\ UNCHANGED <<workspace, used>>

EditBlock(w, content, targets) ==
  LET b == view[w].id
      block == blocks[b]
  IN  /\ Current(w) /\ block.revision < MaxRevision
      /\ content # Blank
      /\ targets \subseteq Live \ {b}
      /\ blocks' = [blocks EXCEPT ![b] =
           [revision |-> block.revision + 1, content |-> content,
            history |-> Append(block.history, content), linkedBlockIds |-> targets]]
      /\ linkIndex' = [linkIndex EXCEPT ![b] = targets]
      /\ backlinksIndex' =
           AddBacklinks(DropBacklinks(backlinksIndex, b, block.linkedBlockIds), b, targets)
      /\ view' = [view EXCEPT ![w] = NoView]
      /\ UNCHANGED <<workspace, used>>

\* A link to a block already linked is accepted and changes nothing; a new
\* one leaves the revision as it is.
LinkBlocks(w, target) ==
  LET b == view[w].id
      links == blocks[b].linkedBlockIds \cup {target}
  IN  /\ Current(w)
      /\ target \in Live \ {b}
      /\ blocks' = [blocks EXCEPT ![b].linkedBlockIds = links]
      /\ linkIndex' = [linkIndex EXCEPT ![b] = links]
      /\ backlinksIndex' = AddBacklinks(backlinksIndex, b, {target})
      /\ view' = [view EXCEPT ![w] = NoView]
      /\ UNCHANGED <<workspace, used>>

\* Mutant: blocks that link here do not matter.
DeleteBlockAlways(w) ==
  LET b == view[w].id
  IN  /\ Current(w)
      /\ blocks' = [blocks EXCEPT ![b] = NoBlock]
      /\ linkIndex' = [linkIndex EXCEPT ![b] = {}]
      /\ backlinksIndex' = DropBacklinks([backlinksIndex EXCEPT ![b] = {}],
                                         b, blocks[b].linkedBlockIds)
      /\ view' = [view EXCEPT ![w] = NoView]
      /\ UNCHANGED <<workspace, used>>

\* Refused while the backlinks index lists a block that links here.
DeleteBlock(w) ==
  LET b == view[w].id
  IN  /\ Current(w)
      /\ backlinksIndex[b] = {}
      /\ blocks' = [blocks EXCEPT ![b] = NoBlock]
      /\ linkIndex' = [linkIndex EXCEPT ![b] = {}]
      /\ backlinksIndex' = DropBacklinks([backlinksIndex EXCEPT ![b] = {}],
                                         b, blocks[b].linkedBlockIds)
      /\ view' = [view EXCEPT ![w] = NoView]
      /\ UNCHANGED <<workspace, used>>

\* The state becomes null; writers keep what they have read.
DeleteWorkspace ==
  /\ workspace
  /\ workspace' = FALSE
  /\ blocks' = [b \in Ids |-> NoBlock]
  /\ linkIndex' = NoLinks
  /\ backlinksIndex' = NoLinks
  /\ UNCHANGED <<used, view>>

Next ==
  \/ CreateWorkspace
  \/ DeleteWorkspace
  \/ \E b \in Ids, content \in Contents, targets \in SUBSET Ids : CreateBlock(b, content, targets)
  \/ \E w \in Writers :
       \/ \E b \in Ids : Read(w, b)
       \/ \E content \in Contents, targets \in SUBSET Ids : EditBlock(w, content, targets)
       \/ \E target \in Ids : LinkBlocks(w, target)
       \/ DeleteBlock(w)

Spec == Init /\ [][Next]_vars

-----------------------------------------------------------------------------
(* Properties.                                                             *)

\* Every variable has its type, and there is no block without a workspace.
TypeOK ==
  /\ workspace \in BOOLEAN
  /\ blocks \in [Ids -> Block]
  /\ linkIndex \in [Ids -> SUBSET Ids]
  /\ backlinksIndex \in [Ids -> SUBSET Ids]
  /\ used \in SUBSET Ids
  /\ view \in [Writers -> View]
  /\ workspace \/ Live = {}

\* The two indexes, patched by each command on its own, stay what a rebuild
\* from the blocks would give: linkIndex lists each block's links, and
\* backlinksIndex is their inverse, with no entry left of a deleted block.
IndexesMirrorLinks ==
  \A a, b \in Ids :
    /\ b \in linkIndex[a] <=> a \in Live /\ b \in blocks[a].linkedBlockIds
    /\ a \in backlinksIndex[b] <=> a \in Live /\ b \in blocks[a].linkedBlockIds

\* No link dangles and no block links to itself: a block is deleted only when
\* nothing links to it, though DeleteBlock asks the backlinks index alone.
NoDanglingLink ==
  \A b \in Live : blocks[b].linkedBlockIds \subseteq Live \ {b}

\* "Immutable revisions are retained for recovery/undo" (block.ts:5): the
\* revisions of a block are numbered 1, 2, ... without a gap, the current one
\* is the last, and whatever happens to a block its earlier ones stay.
RevisionsRetained ==
  [][\A b \in Live \cap Live' :
       /\ SubSeq(blocks'[b].history, 1, blocks[b].revision) = blocks[b].history
       /\ Len(blocks'[b].history) = blocks'[b].revision
       /\ blocks'[b].history[blocks'[b].revision] = blocks'[b].content]_vars

\* Optimistic concurrency: a content is replaced, or its block deleted, only
\* by a writer that had read that very content, however its reading and the
\* commands of others interleave, a workspace deleted and created again among
\* them.
ContentWasRead ==
  [][\A b \in Live :
       (workspace' /\ blocks'[b].history # blocks[b].history)
         => \E w \in Writers : /\ view'[w] # view[w]
                               /\ view[w].id = b
                               /\ view[w].block.history = blocks[b].history]_vars

\* block.ts:9-10, "Commands are submitted with expected revision; the domain
\* rejects stale revisions": a link goes only with a writer that had read it.
\* LinkBlocks leaves the revision number as it is, so an edit decided before
\* the link was made passes the check and drops it.
LinkWasRead ==
  [][\A b \in Live \cap Live' : \A target \in Ids :
       (target \in blocks[b].linkedBlockIds \ blocks'[b].linkedBlockIds)
         => \E w \in Writers : /\ view'[w] # view[w]
                               /\ view[w].id = b
                               /\ target \in view[w].block.linkedBlockIds]_vars
-----------------------------------------------------------------------------
(* The inductive invariant behind the properties.                          *)

\* Live blocks and the blocks writers have read bear ids drawn before.
DrawnIds ==
  /\ Live \subseteq used
  /\ \A w \in Writers : view[w].id \in used \cup {NoId}

\* A block's history has one entry per revision, the current content last.
HistoryShape ==
  \A b \in Live : LET block == blocks[b] IN
    Len(block.history) = block.revision /\ block.history[block.revision] = block.content

\* What a writer has read is the past of the block: no later revision, and the
\* same history at the same revision.
ViewsArePast ==
  \A w \in Writers : view[w].id \in Live =>
    LET read == view[w].block
        block == blocks[view[w].id]
    IN  /\ read.revision <= block.revision
        /\ read.revision = block.revision => read.history = block.history

IInv == /\ TypeOK /\ DrawnIds /\ HistoryShape /\ ViewsArePast
        /\ IndexesMirrorLinks /\ NoDanglingLink
=============================================================================
