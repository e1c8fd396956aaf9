--------------------------- MODULE PersistentTree ---------------------------
(***************************************************************************)
(* The revision layer of src/bst.c, the persistent AVL tree every other    *)
(* part of libvomid keeps its state in: insert, erase and change; commit,  *)
(* revert and update; and the four rings and lists of nodes behind them    *)
(* (tree->inserted, tree->erased, tree->free, tree->save).                 *)
(*                                                                         *)
(* Where a node hangs in the tree is left to module AvlTree.  Here the     *)
(* tree is the set of linked nodes, each with the key it was linked under; *)
(* a ring is a set too, since which of its nodes is taken first matters    *)
(* to no property.  Revisions are numbered in the order they are created,  *)
(* from 1: revs[i] is a bst_rev_t, 0 a NULL bst_rev_t pointer.             *)
(*                                                                         *)
(* bst_update walks from revision to revision; its loops, and those of     *)
(* path_down and level that it calls, are modelled round by round          *)
(* (BeginUpdate ... EndUpdate).  Nothing else runs meanwhile: the library  *)
(* has one thread.                                                         *)
(***************************************************************************)
EXTENDS Integers, Sequences, FiniteSets

CONSTANTS
    Node,       \* the node cells malloc may hand out
    Data,       \* the csize bytes of a node that commit and revert keep
    NULL,       \* "no data", "no backup", "not linked"
    MaxRevs     \* bound: revisions a behaviour creates

ASSUME NullAssumption == NULL \notin Node /\ NULL \notin Data
ASSUME MaxRevsAssumption == MaxRevs \in Nat

VARIABLES
    data,           \* node->data; NULL while nothing was written to it
    filed,          \* the key a linked node was linked under, else NULL
    inTree,         \* the nodes with in_tree set
    inserted,       \* the nodes with inserted set
    saved,          \* the nodes with saved set
    insertedList,   \* tree->inserted
    erasedList,     \* tree->erased
    freeList,       \* tree->free
    backup,         \* tree->save: the cell whose parent pointer is this node
    orphans,        \* rings of cells that tree->free and tree->save lost
    fresh,          \* the cells that malloc has not handed out
    revs,           \* the revisions
    tip,            \* tree->tip
    at,             \* the revision the tree holds during bst_update
    down,           \* path_down()'s path: what is still before the update
    call,           \* the loop an update is in, and its local variables
    wasInTree       \* the nodes with was_in_tree set

vars == <<data, filed, inTree, inserted, saved, insertedList, erasedList,
          freeList, backup, orphans, fresh, revs, tip, at, down, call, wasInTree>>

-----------------------------------------------------------------------------
(* The rings.                                                              *)

SaveRing == {backup[n] : n \in Node} \ {NULL}

NoBackup == [n \in Node |-> NULL]

(* alloc_node takes from the free ring first.                              *)
Allocatable == IF freeList # {} THEN freeList ELSE fresh

(* dlist_erase(&tree->free, e) for every e of E.  It takes a cell out of   *)
(* whatever ring the cell is in; when that ring has no other cell it sets  *)
(* tree->free to NULL, which is wrong for a ring that is not tree->free.   *)
LosesFreeList(E) == \E ring \in orphans : ring \subseteq E

\* Mutant: unfree_erased copies the data but leaves the cell in the ring.
FreeListWithoutErase(E) == freeList

FreeListWithout(E) == IF LosesFreeList(E) THEN {} ELSE freeList \ E

OrphansWithout(E) ==
    ({ring \ E : ring \in orphans}
        \cup (IF LosesFreeList(E) THEN {freeList \ E} ELSE {})) \ {{}}

Lost == UNION orphans

(* A ring nothing points to any more.                                      *)
Orphaned(ring) == orphans \cup ({ring} \ {{}})

-----------------------------------------------------------------------------
(* Revisions.                                                              *)

(* A data array of a revision: what it holds for each node of the node     *)
(* array beside it.  A pointer that is still NULL is NoData.               *)
NoData == [n \in Node |-> NULL]

DataOf(S, d) == [n \in Node |-> IF n \in S THEN d[n] ELSE NULL]

Rev == [parent          : Nat,
        inserted        : SUBSET Node,
        erased          : SUBSET Node,
        changed         : SUBSET Node,
        uninsertedData  : [Node -> Data \cup {NULL}],
        erasedData      : [Node -> Data \cup {NULL}],
        changedData     : [Node -> Data \cup {NULL}]]

(* create_rev, followed by free_erased's copy of the erased nodes' data d. *)
NewRev(parent, ins, era, chg, d, old) ==
    [parent         |-> parent,
     inserted       |-> ins,
     erased         |-> era,
     changed        |-> chg,
     uninsertedData |-> NoData,
     erasedData     |-> DataOf(era, d),
     changedData    |-> DataOf(chg, old)]

-----------------------------------------------------------------------------
(* The loops of an update in their order: those of level, called for both  *)
(* ends; the three climbs of path_down and its filling of the path; and    *)
(* the two loops of bst_update, which toggle.                              *)
Loops == {"none", "level_from", "level_to", "climb_from", "climb_i",
          "climb_both", "fill", "toggle"}

(* rev is the pointer that level moves, target the revision updated to.    *)
Calls == [loop : Loops, target : Nat, rev : Nat, from : Nat, to : Nat, i : Nat,
          from_level : Nat, to_level : Nat, i_level : Nat]

NoCall == [loop |-> "none", target |-> 0, rev |-> 0, from |-> 0, to |-> 0, i |-> 0,
           from_level |-> 0, to_level |-> 0, i_level |-> 0]

Idle == call = NoCall

Init ==
    /\ data = NoData
    /\ filed = [n \in Node |-> NULL]
    /\ inTree = {}
    /\ inserted = {}
    /\ saved = {}
    /\ insertedList = {}
    /\ erasedList = {}
    /\ freeList = {}
    /\ backup = NoBackup
    /\ orphans = {}
    /\ fresh = Node
    /\ revs = <<>>
    /\ tip = 0
    /\ at = 0
    /\ down = <<>>
    /\ call = NoCall
    /\ wasInTree = {}

(* bst_insert: slist_push unless the node is in the list already, from     *)
(* before it was erased and given back.                                    *)
Insert(d) ==
    /\ Idle
    /\ \E n \in Allocatable :
         /\ data' = [data EXCEPT ![n] = d]
         /\ filed' = [filed EXCEPT ![n] = d]
         /\ inTree' = inTree \cup {n}
         /\ freeList' = freeList \ {n}
         /\ fresh' = fresh \ {n}
         /\ \/ /\ tip # 0
               /\ n \notin inserted
               /\ insertedList' = insertedList \cup {n}
               /\ inserted' = inserted \cup {n}
            \/ /\ tip = 0 \/ n \in inserted
               /\ UNCHANGED <<insertedList, inserted>>
    /\ UNCHANGED <<saved, erasedList, backup, orphans, revs, tip, at, down,
                   call, wasInTree>>

(* erased_node for every node of E: freed when nothing was committed yet,  *)
(* given to the free ring when the current revision does not know it.      *)
FreedCells(E) == IF tip = 0 THEN E ELSE {}
GivenBack(E) == IF tip = 0 THEN {} ELSE E \cap inserted
\* Mutant: erased_node does not ask whether the node is a new one.
KeptErasedAlways(E) == IF tip = 0 THEN {} ELSE E

KeptErased(E) == IF tip = 0 THEN {} ELSE E \ inserted

Discard(E) ==
    /\ Idle
    /\ inTree' = inTree \ E
    /\ filed' = [n \in Node |-> IF n \in E THEN NULL ELSE filed[n]]
    /\ data' = [n \in Node |-> IF n \in FreedCells(E) THEN NULL ELSE data[n]]
    /\ fresh' = fresh \cup FreedCells(E)
    /\ freeList' = freeList \cup GivenBack(E)
    /\ erasedList' = erasedList \cup KeptErased(E)
    /\ UNCHANGED <<inserted, saved, insertedList, backup, orphans, revs, tip,
                   at, down, call, wasInTree>>

(* bst_erase; bst_erase_range is a sequence of these.                      *)
Erase(n) == n \in inTree /\ Discard({n})

(* bst_clear, by erase_subtree.                                            *)
Clear == inTree # {} /\ Discard(inTree)

(* bst_change with data: the first change of a node the current revision   *)
(* knows keeps a copy of its data in a cell of the save ring.              *)
NeedsBackup(n) == n \notin inserted /\ n \notin saved /\ tip # 0

ChangeSaving(n, d) ==
    /\ Idle
    /\ n \in inTree
    /\ NeedsBackup(n)
    /\ \E b \in Allocatable :
         /\ data' = [data EXCEPT ![b] = data[n], ![n] = d]
         /\ backup' = [backup EXCEPT ![n] = b]
         /\ freeList' = freeList \ {b}
         /\ fresh' = fresh \ {b}
    /\ saved' = saved \cup {n}
    /\ filed' = [filed EXCEPT ![n] = d]
    /\ UNCHANGED <<inTree, inserted, wasInTree, insertedList, erasedList,
                   orphans, revs, tip, at, down, call>>

ChangeInPlace(n, d) ==
    /\ Idle
    /\ n \in inTree
    /\ ~NeedsBackup(n)
    /\ data' = [data EXCEPT ![n] = d]
    /\ filed' = [filed EXCEPT ![n] = d]
    /\ UNCHANGED <<inTree, inserted, saved, wasInTree, insertedList,
                   erasedList, freeList, backup, orphans, fresh, revs, tip,
                   at, down, call>>

(* bst_change with NULL: unlink the node and link it under the key it has. *)
Refile(n) ==
    /\ Idle
    /\ n \in inTree
    /\ filed' = [filed EXCEPT ![n] = data[n]]
    /\ UNCHANGED <<data, inTree, inserted, saved, wasInTree, insertedList,
                   erasedList, freeList, backup, orphans, fresh, revs, tip,
                   at, down, call>>

-----------------------------------------------------------------------------
(* The first bst_commit: the root revision, which records nothing.         *)
FirstCommit ==
    /\ Idle
    /\ tip = 0
    /\ MaxRevs > 0
    /\ revs' = <<NewRev(0, {}, {}, {}, data, data)>>
    /\ tip' = 1
    /\ at' = 1
    /\ UNCHANGED <<data, filed, inTree, inserted, saved, wasInTree,
                   insertedList, erasedList, freeList, backup, orphans, fresh,
                   down, call>>

(* What a commit finds in the three lists: ie_pack counts the nodes whose  *)
(* in_tree fits the list, and drops the saved flag of nodes in the tree.   *)
InsertedNow == insertedList \cap inTree
ErasedNow == erasedList \ inTree
StillSaved == saved \ InsertedNow
ChangedNow == {n \in StillSaved : backup[n] # NULL /\ n \in inTree}
\* Mutant: a node that was changed and then erased is not restored.
RestoredNone == {}

RestoredNow == {n \in StillSaved : backup[n] # NULL /\ n \notin inTree}

(* The data from before the change, for the nodes of R.                    *)
DataRestored(R) ==
    [n \in Node |-> IF n \in R THEN data[backup[n]] ELSE data[n]]

Backups == {n \in Node : backup[n] # NULL}

(* The save ring is moved to the free ring by the loop that fills          *)
(* changed[]; when that has no element the ring is left behind.            *)
KeepsSaveRing == ChangedNow # {}

NextCommit ==
    /\ Idle
    /\ tip # 0
    /\ data' = DataRestored(RestoredNow)
    /\ saved' = StillSaved \ (ChangedNow \cup RestoredNow)
    /\ inserted' = inserted \ (insertedList \cup erasedList)
    /\ insertedList' = {}
    /\ erasedList' = {}
    /\ backup' = NoBackup
    /\ orphans' = IF KeepsSaveRing THEN orphans ELSE Orphaned(SaveRing)
    /\ freeList' = freeList \cup ErasedNow
                     \cup (IF KeepsSaveRing THEN SaveRing ELSE {})
    /\ \/ /\ InsertedNow \cup ErasedNow \cup ChangedNow = {}
          /\ UNCHANGED <<revs, tip, at>>
       \/ /\ InsertedNow \cup ErasedNow \cup ChangedNow # {}
          /\ Len(revs) < MaxRevs
          /\ revs' = Append(revs, NewRev(tip, InsertedNow, ErasedNow,
                                         ChangedNow, data',
                                         DataRestored(ChangedNow)))
          /\ tip' = Len(revs) + 1
          /\ at' = Len(revs) + 1
    /\ UNCHANGED <<filed, inTree, wasInTree, fresh, down, call>>

-----------------------------------------------------------------------------
(* bst_revert.  A changed node gets its data back where it hangs; only the *)
(* nodes of the two lists are unlinked and linked.                         *)
RevertTree ==
    /\ data' = DataRestored(Backups)
    /\ saved' = saved \ Backups
    /\ backup' = NoBackup
    /\ inTree' = (inTree \ InsertedNow) \cup erasedList
    /\ filed' = [n \in Node |-> IF n \in erasedList THEN data'[n]
                                ELSE IF n \in InsertedNow THEN NULL
                                ELSE filed[n]]
    /\ freeList' = freeList \cup SaveRing \cup InsertedNow
    /\ insertedList' = {}
    /\ erasedList' = {}
    /\ UNCHANGED <<orphans, fresh, revs, tip, at>>

(* The list bst_revert returns.                                            *)
\* Mutant: bst_revert returns new nodes that were erased again, too.
RevertResultAll == insertedList \cup erasedList

RevertResult == InsertedNow \cup erasedList

Revert ==
    /\ Idle
    /\ RevertTree
    /\ inserted' = inserted \ insertedList
    /\ UNCHANGED <<down, call, wasInTree>>

(* bst_update(tree, r): the revert, whose result starts the list of        *)
(* affected nodes, and the call path_down(tree->tip, r), which calls level *)
(* first.                                                                  *)
BeginUpdate(r) ==
    /\ Idle
    /\ tip # 0
    /\ RevertTree
    /\ inserted' = (inserted \ insertedList) \cup RevertResult
    /\ wasInTree' = (wasInTree \ RevertResult) \cup (RevertResult \ inTree')
    /\ call' = [NoCall EXCEPT !.loop = "level_from", !.target = r, !.rev = tip,
                              !.from = tip, !.to = r]
    /\ UNCHANGED down

(* A loop of level or path_down that moves the pointers at P to their      *)
(* parents: one round if it goes on, which a pointer that is NULL does not *)
(* survive, or its end.                                                    *)
ClimbLoop(loop, more, P, round, after) ==
    /\ call.loop = loop
    /\ \/ more /\ 0 \notin P /\ call' = round
       \/ ~more /\ call' = after
    /\ UNCHANGED <<data, filed, inTree, inserted, saved, wasInTree, insertedList,
                   erasedList, freeList, backup, orphans, fresh, revs, tip, at,
                   down>>

(* level(): how often it goes to the parent before the root.               *)
BelowRoot(r) == revs[r].parent # 0

LevelOfFrom ==
    ClimbLoop("level_from", BelowRoot(call.rev), {},
              [call EXCEPT !.rev = revs[@].parent, !.from_level = @ + 1],
              [call EXCEPT !.rev = call.to, !.loop = "level_to"])

LevelOfTo ==
    ClimbLoop("level_to", BelowRoot(call.rev), {},
              [call EXCEPT !.rev = revs[@].parent, !.to_level = @ + 1],
              [call EXCEPT !.loop = "climb_from"])

(* path_down(): the deeper end climbs to the level of the other one ...    *)
\* Mutant: from climbs once too often.
FromIsNotHigher == call.from_level >= call.to_level

FromIsDeeper == call.from_level > call.to_level

ClimbFrom ==
    ClimbLoop("climb_from", FromIsDeeper, {call.from},
              [call EXCEPT !.from = revs[@].parent, !.from_level = @ - 1],
              [call EXCEPT !.i = call.to, !.i_level = call.to_level,
                           !.loop = "climb_i"])

\* Mutant: only from climbs, never i.
IIsNeverDeeper == FALSE

IIsDeeper == call.i_level > call.from_level

ClimbI ==
    ClimbLoop("climb_i", IIsDeeper, {call.i},
              [call EXCEPT !.i = revs[@].parent, !.i_level = @ - 1],
              [call EXCEPT !.loop = "climb_both"])

(* ... and both climb until they meet.                                     *)
ClimbBoth ==
    ClimbLoop("climb_both", call.from # call.i, {call.from, call.i},
              [call EXCEPT !.from = revs[@].parent, !.i = revs[@].parent,
                           !.from_level = @ - 1],
              [call EXCEPT !.loop = "fill"])

(* The path, from its end to where they met: its length is the difference  *)
(* of the levels.                                                          *)
PathLength == call.to_level - call.from_level + 1

FillPath ==
    /\ call.loop = "fill"
    /\ \/ /\ Len(down) < PathLength
          /\ call.to # 0
          /\ down' = <<call.to>> \o down
          /\ call' = [call EXCEPT !.to = revs[@].parent]
       \/ /\ Len(down) >= PathLength
          /\ call' = [call EXCEPT !.loop = "toggle"]
          /\ UNCHANGED down
    /\ UNCHANGED <<data, filed, inTree, inserted, saved, wasInTree, insertedList,
                   erasedList, freeList, backup, orphans, fresh, revs, tip, at>>

(* toggle(): undo what the record says was inserted, redo what it says was *)
(* erased, exchange the data of the changed nodes, and turn the record     *)
(* round.  Data of nodes that leave the tree is copied only the first time.*)
UnfreedData(rev) ==
    [n \in Node |-> IF n \in rev.erased THEN rev.erasedData[n] ELSE data[n]]

ToggledData(rev) ==
    [n \in Node |-> IF n \in rev.changed THEN rev.changedData[n]
                    ELSE UnfreedData(rev)[n]]

\* Every node the record names is linked anew, under the data it has then.
\* Mutant: toggle exchanges the data of a changed node where it hangs.
ToggledKeysInPlace(rev) ==
    [n \in Node |-> IF n \in rev.inserted THEN NULL
                    ELSE IF n \in rev.erased THEN ToggledData(rev)[n]
                    ELSE filed[n]]

ToggledKeys(rev) ==
    [n \in Node |-> IF n \in rev.inserted THEN NULL
                    ELSE IF n \in rev.erased \cup rev.changed
                         THEN ToggledData(rev)[n]
                    ELSE filed[n]]

\* Mutant: the data of the nodes taken out is never copied.
FreedDataDropped(rev, d) == rev.uninsertedData

FreedData(rev, d) ==
    IF rev.inserted # {} /\ rev.uninsertedData = NoData
    THEN DataOf(rev.inserted, d)
    ELSE rev.uninsertedData

\* Mutant: the two node arrays are exchanged, their data arrays are not.
ReversedArraysOnly(rev) ==
    [rev EXCEPT !.inserted = rev.erased,
                !.erased = rev.inserted,
                !.uninsertedData = NoData,
                !.erasedData = DataOf(rev.inserted, ToggledData(rev)),
                !.changedData = DataOf(rev.changed, UnfreedData(rev))]

Reversed(rev) ==
    [parent         |-> rev.parent,
     inserted       |-> rev.erased,
     erased         |-> rev.inserted,
     changed        |-> rev.changed,
     uninsertedData |-> rev.erasedData,
     erasedData     |-> FreedData(rev, ToggledData(rev)),
     changedData    |-> DataOf(rev.changed, UnfreedData(rev))]

(* ADD: a node enters the list of affected nodes once, and was_in_tree is  *)
(* set only then.                                                          *)
\* Mutant: ADD without the test of the inserted flag.
AffectedAgain(rev) == rev.erased \cup rev.inserted

Affected(rev) == (rev.erased \cup rev.inserted) \ inserted

Toggle(r) ==
    LET rev == revs[r] IN
    /\ data' = ToggledData(rev)
    /\ inTree' = (inTree \cup rev.erased) \ rev.inserted
    /\ filed' = ToggledKeys(rev)
    /\ inserted' = inserted \cup Affected(rev)
    /\ wasInTree' = (wasInTree \ Affected(rev))
                      \cup (Affected(rev) \cap rev.inserted)
    /\ freeList' = FreeListWithout(rev.erased) \cup rev.inserted
    /\ orphans' = OrphansWithout(rev.erased)
    /\ revs' = [revs EXCEPT ![r] = Reversed(rev)]
    /\ UNCHANGED <<saved, insertedList, erasedList, backup, fresh, tip>>

(* The first loop of bst_update, up to where the path begins.              *)
Toggling == call.loop = "toggle"

ToggleUp ==
    /\ Toggling
    /\ at # Head(down)
    /\ at # 0
    /\ Toggle(at)
    /\ at' = revs[at].parent
    /\ UNCHANGED <<down, call>>

(* The second loop, down to the target; there is nothing behind the path.  *)
ToggleDown ==
    /\ Toggling
    /\ at = Head(down)
    /\ at # call.target
    /\ Len(down) > 1
    /\ Toggle(down[2])
    /\ at' = down[2]
    /\ down' = Tail(down)
    /\ UNCHANGED call

(* The list bst_update returns: the affected nodes that moved.             *)
UpdateResult ==
    {n \in inserted : (n \in wasInTree) # (n \in inTree)}

EndUpdate ==
    /\ Toggling
    /\ at = Head(down)
    /\ at = call.target
    /\ inserted' = {}
    /\ wasInTree' = {}
    /\ tip' = call.target
    /\ down' = <<>>
    /\ call' = NoCall
    /\ UNCHANGED <<data, filed, inTree, saved, insertedList, erasedList,
                   freeList, backup, orphans, fresh, revs, at>>

(* bst_fini and, on the same memory, bst_init.  bst_fini clears and        *)
(* commits, which empties the lists but leaves the save ring behind; then  *)
(* it frees the revisions and the free ring, not the rings that were lost. *)
Fini ==
    /\ Idle
    /\ tip # 0
    /\ orphans' = Orphaned(SaveRing)
    /\ fresh' = Node \ Lost'
    /\ data' = [n \in Node |-> IF n \in fresh' THEN NULL ELSE data[n]]
    /\ filed' = [n \in Node |-> NULL]
    /\ inTree' = {}
    /\ inserted' = {}
    /\ saved' = {}
    /\ insertedList' = {}
    /\ erasedList' = {}
    /\ freeList' = {}
    /\ backup' = NoBackup
    /\ revs' = <<>>
    /\ tip' = 0
    /\ at' = 0
    /\ UNCHANGED <<down, call, wasInTree>>

-----------------------------------------------------------------------------
PathStep == \/ LevelOfFrom \/ LevelOfTo
            \/ ClimbFrom \/ ClimbI \/ ClimbBoth \/ FillPath

UpdateStep == PathStep \/ ToggleUp \/ ToggleDown \/ EndUpdate

Next ==
    \/ \E d \in Data : Insert(d)
    \/ \E n \in Node : Erase(n)
    \/ Clear
    \/ \E n \in Node, d \in Data : ChangeSaving(n, d)
    \/ \E n \in Node, d \in Data : ChangeInPlace(n, d)
    \/ \E n \in Node : Refile(n)
    \/ FirstCommit
    \/ NextCommit
    \/ Revert
    \/ \E r \in DOMAIN revs : BeginUpdate(r)
    \/ UpdateStep
    \/ Fini

(* bst_update is a call like any other: once begun, its loops run to the   *)
(* end.  Nothing obliges a caller to call anything.                        *)
Spec == Init /\ [][Next]_vars /\ WF_vars(UpdateStep)

-----------------------------------------------------------------------------
(* The path of an update holds revisions only, path_down does not climb    *)
(* above the root (to has left the path when it does), and no level gets   *)
(* below 0.                                                                *)
CallOK ==
    /\ down \in Seq(1 .. Len(revs))
    /\ call \in Calls
    /\ call.loop = "none" => Idle
    /\ call.to \in 0 .. Len(revs)
    /\ ~Idle => {call.target, call.rev, call.from} \subseteq 1 .. Len(revs)
    /\ call.loop \in {"climb_i", "climb_both", "fill"} => call.i \in 1 .. Len(revs)

(* Every variable stays in its range; a record of a revision is a Rev; the *)
(* pointers of an update are revisions wherever it follows them.           *)
TypeOK ==
    /\ data \in [Node -> Data \cup {NULL}]
    /\ filed \in [Node -> Data \cup {NULL}]
    /\ inTree \subseteq Node
    /\ inserted \subseteq Node
    /\ saved \subseteq Node
    /\ insertedList \subseteq Node
    /\ erasedList \subseteq Node
    /\ freeList \subseteq Node
    /\ backup \in [Node -> Node \cup {NULL}]
    /\ orphans \subseteq SUBSET Node
    /\ fresh \subseteq Node
    /\ revs \in Seq(Rev)
    /\ tip \in 0 .. Len(revs)
    /\ at \in 0 .. Len(revs)
    /\ CallOK
    /\ wasInTree \subseteq Node

(* The assert()s of src/bst.c hold wherever they may be evaluated next:    *)
(* no commit, revert or update finds a node linked that it is about to     *)
(* link, unlinked that it is about to unlink, flagged or backed up against *)
(* what its list says.                                                     *)
RevertAsserts ==
    /\ SaveRing \cap inTree = {}                    \* assert(!i->in_tree)
    /\ insertedList \subseteq inserted              \* assert(i->inserted)
    /\ erasedList \cap inserted = {}                \* assert(!i->inserted)
    /\ erasedList \cap inTree = {}                  \* insert_node

ToggleAsserts(r) ==
    /\ revs[r].erased \cap inTree = {}              \* insert_node
    /\ revs[r].inserted \cup revs[r].changed \subseteq inTree  \* erase_node

NextToggled(r) ==
    \/ Toggling /\ at # Head(down) /\ r = at
    \/ Toggling /\ at = Head(down) /\ at # call.target /\ Len(down) > 1 /\ r = down[2]

AssertionsHold ==
    /\ Idle => RevertAsserts
    /\ \A r \in DOMAIN revs : NextToggled(r) => ToggleAsserts(r)

(* A cell has one owner.  It is linked in the tree, or waits in the list   *)
(* of erased nodes, or in the free ring, or holds a backup, or is in a     *)
(* ring that was lost, or was never handed out; never two of these, since  *)
(* child[] and parent serve the tree and the rings alike.                  *)
OneOwner ==
    /\ \A c \in Node :
         /\ c \in inTree \cup erasedList \cup freeList \cup SaveRing
                    \cup Lost \cup fresh
         /\ c \in inTree => c \notin erasedList \cup freeList \cup SaveRing
                                       \cup Lost \cup fresh
         /\ c \in erasedList => c \notin freeList \cup SaveRing \cup Lost
                                           \cup fresh
         /\ c \in freeList => c \notin SaveRing \cup Lost \cup fresh
         /\ c \in SaveRing => c \notin Lost \cup fresh
         /\ c \in Lost => c \notin fresh
    /\ \A m, n \in Backups : backup[m] = backup[n] => m = n

(* toggle() takes the nodes it brings back out of the ring they are in:    *)
(* dlist_erase is only ever called on a cell that is in a ring, with the   *)
(* data of the node kept by the record.                                    *)
UnfreesRingCells ==
    \A r \in DOMAIN revs : NextToggled(r) =>
        /\ revs[r].erased \subseteq freeList \cup Lost
        /\ \A n \in revs[r].erased : revs[r].erasedData[n] \in Data

(* bst.c:38, "later updating back and forth will be free": once a record   *)
(* holds the data of both the nodes it brings back and those it takes out, *)
(* no toggle allocates for it again or loses what it holds.                *)
Caches(rev) == {rev.uninsertedData, rev.erasedData} \ {NoData}

LaterUpdatesAreFree ==
    [][\A r \in DOMAIN revs \cap DOMAIN revs' :
          Caches(revs[r]) \subseteq Caches(revs'[r])]_revs

(* Callers that commit, or have changed nothing, before they revert or     *)
(* update: what bst_revert gives back its old data is not in the tree.     *)
DiscardsWork == Revert \/ \E r \in DOMAIN revs : BeginUpdate(r)
Tidy == DiscardsWork => saved \cap inTree = {}

(* The tree is in the order of its nodes' data: no two nodes hang the      *)
(* other way round than their data say, which every search relies on.      *)
KeysInOrder ==
    \A m, n \in inTree : filed[m] < filed[n] => data[m] <= data[n]

(* Every update comes to its end, whatever the shape of the revision tree: *)
(* the loops of level, path_down and bst_update all end, none follows a    *)
(* NULL parent, and the toggling does not leave the path.                  *)
UpdateTerminates == ~Idle ~> Idle
=============================================================================
