----------------------------- MODULE TreeHistory ----------------------------
(***************************************************************************)
(* PersistentTree with two history variables, and the abstract             *)
(* VersionedStore it implements: snap remembers the content of the tree at *)
(* every commit, which the code does not (it keeps differences only), and  *)
(* before the content an update started from.                              *)
(***************************************************************************)
EXTENDS PersistentTree

VARIABLES
    snap,       \* snap[r]: what the tree held when revision r was created
    before      \* what the tree held when the current update began

histVars == <<snap, before>>
varsH == <<data, filed, inTree, inserted, saved, insertedList, erasedList,
           freeList, backup, orphans, fresh, revs, tip, at, down, call,
           wasInTree, snap, before>>

(* The nodes in the tree with their data: what a user of the tree sees.    *)
Content == [n \in Node |-> IF n \in inTree THEN data[n] ELSE NULL]
Nothing == [n \in Node |-> NULL]

InitH == Init /\ snap = <<>> /\ before = Nothing

FirstCommitH == FirstCommit /\ snap' = <<Content>> /\ UNCHANGED before

NextCommitH ==
    /\ NextCommit
    /\ snap' = IF revs' = revs THEN snap ELSE Append(snap, Content)
    /\ UNCHANGED before

BeginUpdateH(r) == BeginUpdate(r) /\ before' = Content /\ UNCHANGED snap

EndUpdateH == EndUpdate /\ before' = Nothing /\ UNCHANGED snap

FiniH == Fini /\ snap' = <<>> /\ UNCHANGED before

NextH ==
    \/ \E d \in Data : Insert(d) /\ UNCHANGED histVars
    \/ \E n \in Node : Erase(n) /\ UNCHANGED histVars
    \/ Clear /\ UNCHANGED histVars
    \/ \E n \in Node, d \in Data : ChangeSaving(n, d) /\ UNCHANGED histVars
    \/ \E n \in Node, d \in Data : ChangeInPlace(n, d) /\ UNCHANGED histVars
    \/ \E n \in Node : Refile(n) /\ UNCHANGED histVars
    \/ FirstCommitH
    \/ NextCommitH
    \/ Revert /\ UNCHANGED histVars
    \/ \E r \in DOMAIN revs : BeginUpdateH(r)
    \/ (PathStep \/ ToggleUp \/ ToggleDown) /\ UNCHANGED histVars
    \/ EndUpdateH
    \/ FiniH

SafeSpecH == InitH /\ [][NextH]_varsH

(* The same with callers that are tidy.                                    *)
TidySpecH == InitH /\ [][NextH /\ Tidy]_varsH

-----------------------------------------------------------------------------
(* An update is one step of the store, its last: until then the store is   *)
(* still where the update found it.                                        *)
Store == INSTANCE VersionedStore
             WITH Item <- Node,
                  work <- IF Idle THEN Content ELSE before,
                  cur <- tip,
                  snap <- snap

(* The tree implements the store: insert, erase, change and clear do what  *)
(* they say, commit never alters an earlier revision, revert and update    *)
(* bring back exactly the nodes and the data that were committed - same    *)
(* cells, whatever happened in between - and a cell the current revision   *)
(* knows is not handed out before the next commit.                         *)
ImplementsStore == Store!Spec

-----------------------------------------------------------------------------
(* bst_update() returns the nodes whose in_tree changed, all of them and   *)
(* no other: channels and tracks attach and detach notes by that list, and *)
(* the notes they miss would stay where the other revision put them.       *)
Moved(old, new) == {n \in Node : (old[n] = NULL) # (new[n] = NULL)}

UpdateReportsMoves == [][EndUpdate => UpdateResult = Moved(before, Content)]_varsH

(* The same for bst_revert(), called by itself.                            *)
RevertReportsMoves ==
    [][Revert => RevertResult = Moved(Content, Content')]_varsH

-----------------------------------------------------------------------------
(* Why all of this holds: the inductive invariant.                         *)

Contents == [Node -> Data \cup {NULL}]

(* The revisions of R reached from r over the parent pointers, r included: *)
(* the least set with r that holds the parent of each of its members.  Its *)
(* size tells how far r is from the root.                                  *)
ParentClosed(R, S) == \A i \in S : R[i].parent # 0 => R[i].parent \in S

Lineage(R, r) ==
    {s \in DOMAIN R :
        \A S \in SUBSET DOMAIN R : r \in S /\ ParentClosed(R, S) => s \in S}

Depth(R, r) == Cardinality(Lineage(R, r)) - 1

(* Toggling rec takes the tree from content "here" to content "there".     *)
LeadsBack(rec, here, there) ==
    /\ rec.inserted = {n \in Node : here[n] # NULL /\ there[n] = NULL}
    /\ rec.erased = {n \in Node : here[n] = NULL /\ there[n] # NULL}
    /\ \A n \in rec.changed : here[n] # NULL /\ there[n] # NULL
    /\ \A n \in Node : here[n] # NULL /\ there[n] # NULL /\ here[n] # there[n]
                          => n \in rec.changed
    /\ \A n \in rec.erased : rec.erasedData[n] = there[n]
    /\ \A n \in rec.changed : rec.changedData[n] = there[n]
    /\ \/ rec.uninsertedData = NoData
       \/ \A n \in rec.inserted : rec.uninsertedData[n] = here[n]

TypesH ==
    /\ TypeOK
    /\ snap \in Seq(Contents)
    /\ before \in Contents
    /\ Len(snap) = Len(revs)

(* Revisions form a tree: 1 is its root, a parent is older than its child. *)
ParentsOlder(R) ==
    /\ \A r \in DOMAIN R : r # 1 => R[r].parent \in 1 .. (r - 1)
    /\ 1 \in DOMAIN R => R[1].parent = 0

RevTree ==
    /\ ParentsOlder(revs)
    /\ tip = 0 <=> revs = <<>>
    /\ at = 0 <=> revs = <<>>

(* Every record lies the way that fits the revision the tree is at: towards *)
(* the parent on the way from there to the root, away from it elsewhere.   *)
Records ==
    \A r \in DOMAIN revs : r # 1 =>
        IF r \in Lineage(revs, at)
        THEN LeadsBack(revs[r], snap[r], snap[revs[r].parent])
        ELSE LeadsBack(revs[r], snap[revs[r].parent], snap[r])

(* Cells a revision knows were handed out; linked cells hold data.         *)
CellsKnown ==
    /\ \A r \in DOMAIN snap : \A n \in Node : snap[r][n] # NULL => n \notin fresh
    /\ \A n \in inTree : data[n] # NULL

(* Between two calls the lists tell the working set from revision tip.     *)
NoWork ==
    /\ insertedList = {}
    /\ erasedList = {}
    /\ saved = {}
    /\ backup = NoBackup

Working ==
    /\ at = tip
    /\ down = <<>>
    /\ inserted = insertedList
    /\ wasInTree = {}
    /\ tip = 0 => NoWork /\ freeList = {}
    /\ tip # 0 =>
         /\ \A n \in insertedList : snap[tip][n] = NULL
         /\ \A n \in inTree : snap[tip][n] = NULL => n \in insertedList
         /\ erasedList = {n \in Node : snap[tip][n] # NULL /\ n \notin inTree}
         /\ saved = Backups
         /\ \A n \in saved : snap[tip][n] # NULL
         /\ \A n \in Node : snap[tip][n] # NULL =>
                snap[tip][n] = IF n \in saved THEN data[backup[n]] ELSE data[n]

(* While path_down runs: what level has counted and what is left to count, *)
(* how deep from and i are, and that the path leads down to the target.    *)
Counting ==
    LET c == call IN
    /\ c.loop = "level_from" =>
          /\ c.from = tip /\ c.to_level = 0
          /\ c.from_level + Depth(revs, c.rev) = Depth(revs, tip)
    /\ c.loop = "level_to" =>
          /\ c.from = tip /\ c.from_level = Depth(revs, tip)
          /\ c.to_level + Depth(revs, c.rev) = Depth(revs, c.target)

Climbing ==
    LET c == call IN
    /\ c.loop \in {"climb_from", "climb_i", "climb_both", "fill"} =>
          /\ c.from \in Lineage(revs, tip) /\ c.from_level = Depth(revs, c.from)
          /\ c.to_level = Depth(revs, c.target)
    /\ c.loop \in {"climb_i", "climb_both"} => c.i \in Lineage(revs, c.target)
    /\ c.loop = "climb_i" => c.i_level = Depth(revs, c.i) /\ c.i_level >= c.from_level
    /\ c.loop = "climb_both" => Depth(revs, c.i) = c.from_level

Filling ==
    LET c == call IN
    c.loop = "fill" =>
        IF Len(down) < PathLength
        THEN /\ c.to # 0 /\ c.from \in Lineage(revs, c.to)
             /\ Depth(revs, c.to) = c.to_level - Len(down)
             /\ c.to = IF down = <<>> THEN c.target ELSE revs[down[1]].parent
        ELSE down # <<>> /\ down[1] = c.from

(* The path leads from revision to revision down to the target, and where  *)
(* it begins both lineages meet.                                           *)
OnPath ==
    /\ ~Toggling => at = tip
    /\ call.loop \notin {"fill", "toggle"} => down = <<>> /\ call.to = call.target
    /\ \A i \in 1 .. (Len(down) - 1) : revs[down[i + 1]].parent = down[i]
    /\ down # <<>> => down[Len(down)] = call.target
    /\ Toggling => down # <<>> /\ down[1] \in Lineage(revs, at)
    /\ Counting
    /\ Climbing
    /\ Filling

(* During an update the tree holds revision at exactly.                    *)
Walking ==
    /\ tip # 0
    /\ NoWork
    /\ Content = snap[at]
    /\ OnPath
    /\ \A n \in Node :
          IF n \in inserted THEN n \in wasInTree <=> before[n] # NULL
                            ELSE n \in inTree <=> before[n] # NULL

IInv ==
    /\ TypesH
    /\ RevTree
    /\ Records
    /\ OneOwner
    /\ CellsKnown
    /\ Idle => Working
    /\ ~Idle => Walking

-----------------------------------------------------------------------------
(* Why an update ends, without the fairness that it goes on.               *)

(* Whatever loop an update is in, its next round can be taken: no pointer  *)
(* it follows is NULL, and while it toggles it meets the path on the way up *)
(* and the target on the way down.                                         *)
NeverStuck ==
    ~Idle =>
        \/ call.loop \in {"level_from", "level_to"} /\ call.rev \in DOMAIN revs
        \/ call.loop = "climb_from" /\ call.from \in DOMAIN revs
        \/ call.loop = "climb_i" /\ call.i \in DOMAIN revs
        \/ call.loop = "climb_both" /\ {call.from, call.i} \subseteq DOMAIN revs
        \/ call.loop = "fill" /\ (Len(down) < PathLength => call.to \in DOMAIN revs)
        \/ /\ Toggling
           /\ down # <<>>
           /\ at # Head(down) => at # 0
           /\ at = Head(down) /\ at # call.target => Len(down) > 1

Stage(loop) ==
    CASE loop = "level_from" -> 1
      [] loop = "level_to"   -> 2
      [] loop = "climb_from" -> 3
      [] loop = "climb_i"    -> 4
      [] loop = "climb_both" -> 5
      [] loop = "fill"       -> 6
      [] loop = "toggle"     -> 7
      [] OTHER               -> 0

(* A bound of the rounds that the loop has before it.                      *)
RoundsLeft ==
    CASE call.loop \in {"level_from", "level_to"} -> Depth(revs, call.rev)
      [] call.loop \in {"climb_from", "climb_both"} -> call.from_level
      [] call.loop = "climb_i" -> call.i_level
      [] call.loop = "fill" -> IF Len(down) < PathLength THEN PathLength - Len(down)
                                                        ELSE 0
      [] OTHER -> Depth(revs, at) - Depth(revs, down[1]) + Len(down)

(* Each step of an update goes on to a later loop, or leaves fewer rounds  *)
(* of the loop it is in.                                                   *)
Advances ==
    \/ Stage(call.loop) < Stage(call'.loop)
    \/ call'.loop = call.loop /\ RoundsLeft' \in Nat /\ RoundsLeft' < RoundsLeft

UpdateAdvances == [][PathStep \/ ToggleUp \/ ToggleDown => Advances]_varsH
=============================================================================
