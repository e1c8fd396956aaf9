# libvomid in TLA+

libvomid is the library behind a music editor: it keeps a song - tracks of
notes, controllers that change over time, a history of revisions - plays it on
a MIDI device, and reads and writes it as a standard MIDI file. It is written
in C, has one thread, and keeps everything it knows in one data structure: a
persistent AVL tree (`src/src/bst.c`).

This directory holds TLA+ modules that model the library, TLC configurations
that check them on small instances, and TLAPS proofs of what both layers of the tree, the maps,
the player, the file it writes and an edited song promise for every instance. Paths below are relative to the repository.

## The system

| Part | Source | State it keeps | Operations | Talks to |
|---|---|---|---|---|
| Persistent tree | `src/bst.c` | linked nodes; the lists `inserted`, `erased`; the rings `free`, `save`; a tree of `bst_rev_t` differences; `tip` | insert, erase, erase_range, clear, change, commit, revert, update, find, bounds, fini | called by all below; calls back `cmp` and `upd` |
| Control map | `src/map.c` | a tree of (time, value) | get, set, set_range, set_node, add, copy, eq, vset | tree |
| Note | `src/note.c` | times, velocities, pitch, its channel | insert, erase, copy, set_channel, set_pitch, isolate, set_cctrl | its track's and its channel's tree, maps of the channel |
| Channel | `src/channel.c` | notes by interval, a map per controller | range, update, commit | tree, maps |
| Track | `src/track.c` | notes by interval, temporary channels, `channel_usage` | insert, range, flatten, commit, update, set notesystem | notes, channels |
| File | `src/file.c` | tracks, 16 channels, file controllers, measure index | init, fini, flatten, commit, update, length, measures | tracks, channels, maps |
| Player | `src/play.c` | heap of events, controller values and changes kept back, notes and owner of each channel | play | reads file; calls back for events, delays and notes |
| Import | `src/import.c` | pending note-ons and note-offs while reading | import | inserts notes, sets maps |
| Export | `src/export.c` | a buffer and a time since its last event for each track | export | runs the player |
| MIDI encoding | `src/midi.c` | none (tables) | read and write messages | player, import, export |
| Note systems | `src/notesystem.c` | tables of pitches | pitch and level conversion, Scala files | notes, tracks |
| Devices | `src/hal*.c` | the current platform and device | set device, send, sleep | player |
| Pool, stack | `src/pool.c`, `src/stack.c` | chunks | alloc, push | file, player |
| SHA-1 | `src/3rdparty` | - | - | export, import |

### What is hard here, and what makes each part correct

Nothing runs concurrently. The difficulty is *history*: long sequences of
legal calls, each of which relies on flags and lists that earlier calls left
behind, and state that is kept in two places that have to agree.

* **Tree.** Nodes are never freed but handed round between the tree, an
  inserted list, an erased list, a free ring, a save ring, and the arrays of
  revisions that still name them; one pointer field serves all. A revision is
  a *difference* that is turned round every time an update passes it. Correct:
  going to a revision brings back exactly what was committed, in the same
  cells; the list of moved nodes that update and revert return is exact
  (tracks and channels keep their notes attached by that list); a cell has one
  owner; no assertion fails; loops end; the order, balance and
  subtree values of the AVL shape hold through rotations and node exchanges.
* **Maps.** A step function kept as a sorted list of changes: every operation
  has to get the two ends of its range right. Correct: a range operation
  changes its range and nothing else; equality is equality of functions.
* **Notes, tracks, channels.** A note is in its track's tree and in its
  channel's, which has the same key read through a pointer; changing a note
  changes the other tree's keys in place. A note sounds either in a channel of
  its own (temporary, number -1) or in one of the file's; `track_flatten` moves
  notes so that what sounds on one channel agrees on its controllers. Correct:
  both trees hold the same notes in order; `channel_usage` counts; flattening
  leaves no two notes on a channel that disagree; a revision of the file puts
  all of this back.
* **Player and export.** Events of equal time have an order; controllers are
  kept back until a note needs them; a channel belongs to the track that sounds
  on it. Correct: what sounds is what the song has, under the controllers the
  song has; the file that is written, read back, is the same.
* **Import.** A note-off may come in another track than its note-on, before it
  in the file's order; an offed note may be shortened again. Correct: each
  note ends at its right note-off, whatever the order of tracks.
* **Measures.** A change of the time signature cuts a measure short, and a
  range may begin anywhere. Correct: the measures of a range are those of the
  file.
* **Variable-length numbers, note systems, devices, pool.** Small
  sequential parts with boundaries: division by a part size that may be zero,
  a shift of a signed number, a loop that ends only for some tunings, the order
  in which platforms are closed.

`PROJECT.json` lists each hazard at its line with the properties that cover it,
or what is missing.

## Modules

| Module | What it is |
|---|---|
| `VersionedStore` | abstract: a working set of items with data and a history of versions |
| `PersistentTree` | the revision layer of `bst.c`: cells, lists, rings, records, one action per call, `bst_update` step by step |
| `TreeHistory` | `PersistentTree` with history variables; the refinement of `VersionedStore`; the inductive invariant |
| `TreeHistoryProofs` | the proofs about revisions |
| `OrderedList` | abstract: a list ordered by a comparison, equals in order of arrival |
| `AvlTree` | the shape layer of `bst.c`: links, balances, rotations, `upd`, lookups |
| `AvlShapeProofs` | the proofs about what rotations, a new leaf, a node unlinked and the exchange of two nodes do to a tree |
| `AvlProofs` | the proofs about the calls: the inductive invariant, the properties, the refinement of `OrderedList` |
| `ControlMap` | `map.c` |
| `ControlMapProofs` | the proofs about maps |
| `Measures` | `regen_measure_index` and `file_measures` of `file.c`, over a map of `ControlMap` |
| `Player` | `play.c` and the chunks of `export.c` |
| `PlayerProofs` | the proofs about the player |
| `NumberFacts` | lemmas on least and greatest numbers, which the proofs rest on |
| `FoldFacts` | the induction over a fold and over a loop, for `map_add`, `track_clear`, flattening, the player's chunks and every loop of `AvlTree` |
| `Import` | `import.c`: the event handlers, the pairing of note-ons with note-offs, the loop over tracks; its channels' trees are `AvlTree`'s with `channel.c`'s `upd`, its controllers `ControlMap`'s |
| `RoundTrip` | `Player` and `Import` composed: the chunks that were written are handed to the handlers that read |
| `Song` | `note.c`, the editing and flattening of `track.c`, and the revisions of a file: `file_flatten`, `file_commit`, `file_update` with `track_update` and `channel_update`; uses `ControlMap`'s operators for the wheels of channels |
| `SongProofs` | the proofs about songs |
| `MC...` | instances for TLC |

### The two layers of the tree

`bst.c` mixes two concerns that do not touch each other's state: which nodes
are in the tree and what revisions say about them, and how the tree is linked.
`PersistentTree` takes the first, with the tree as a set `inTree` of nodes;
`AvlTree` takes the second, with no revision committed. What connects them is
`filed`: the key a node was linked under. `AvlTree` shows that the tree is in
order of the keys nodes were linked under; `PersistentTree`'s `KeysInOrder`
asks whether that is still the data a node has.

`PersistentTree` variables and code:

| Variable | Code |
|---|---|
| `data`, `inTree`, `inserted`, `saved`, `wasInTree` | the fields of `bst_node_t` |
| `insertedList`, `erasedList`, `freeList` | `tree->inserted`, `tree->erased`, `tree->free` |
| `backup` | `tree->save`, by the node each backup cell belongs to |
| `orphans` | cells that no list reaches any more (see below) |
| `fresh` | what malloc may still hand out |
| `revs`, `tip` | the `bst_rev_t`s and `tree->tip` |
| `call` | the loop that an update is in, its target, and the local variables of `level` and `path_down`: `rev`, `from`, `to`, `i` and the three level counts |
| `down` | the array `path_down` fills, from its end, as far as it is filled and still before the update |
| `at` | the local variable `i` of `bst_update`'s first loop, and the revision its second one has come to |

Every public call is an action, and it is whole: `NextCommit` does all that
`bst_commit` does, including its early return when nothing changed.
`bst_update` is `BeginUpdate` (which does the revert it starts with), a step
for each round of its loops, and `EndUpdate`, because these loops are what can
go wrong: `LevelOfFrom` and `LevelOfTo` are the two calls of `level`;
`ClimbFrom`, `ClimbI` and `ClimbBoth` the three climbs of `path_down`, by the
level counts; `FillPath` fills the path, whose length is the difference of
two of these counts; `ToggleUp` and `ToggleDown` are the loops of `bst_update`
itself. A pointer that climbs above the root becomes 0, and where the code would go
through it then (`ClimbLoop`'s `P`), the model has no step. Its `UpdateStep`s have weak fairness: a call, once
begun, runs to its end in the one thread there is. Nothing obliges a caller to
call, so no other action is fair.

`AvlTree`: one action per mutating call (`Insert`, `Erase`, `EraseRange`,
`Clear`, `Change`), with the rotations, the climb after an erasure and the
recomputation of `max_off` as functions from tree to tree; lookups are
operators, and the properties quantify over all their arguments. A loop of the
code is `Repeat`, its body repeated as often as there are nodes and idle once it is
done: that no loop needs more rounds is part of what the proofs show.

`ControlMap`: a map is the function from its changes' times to their values;
each call is an action. Left out: `map_vget` (see *Not modelled*), and
`map_copy` within one map to a later time, whose loop walks the tree it inserts
into and may not end.

`Song`: one record `song` holds the notes (with the channel each points to), each
channel's tree as the ordered list of its notes, `channel_usage`, the number of
temporary channels of each track, and a map of the pitch wheel for each
channel. A call is an operator from song to song, built from the calls it makes
(`track_insert` from `track_temp_channel`, `insert_note`, `note_reset_pitch`
...), so that properties can ask what a call *would* do: `FlattenIsSilent`
compares the song with `Flattened(song)`, in every state. `bst_find` of
`note_set_channel` takes the first of the notes that compare equal (`Found`):
that it is the right one is `TreesAgree`. Of the controllers only the pitch
wheel is there, the one that editing a note changes. Channels hold three notes
at most, so that `channel_range` is exact (finding 2 says what happens with
more). Songs start empty or as import makes them, with no two equal notes on a
channel and no change of the wheel inside a note; `Shift`, `Span` and `Bend`
bound times and values.

A revision of a `Song` is the notes, the channels' lists and the wheels as they
were committed, with the revision it was made from: that each tree comes back as
it was is proved of `PersistentTree`, so `Song` starts from there. What the
trees do not hold - the channel a note points to, and `channel_usage` - is
worked out by `channel_update` from the nodes that entered or left a channel's
tree. `Entering` and `Leaving` are those nodes (a note moved away and back has
got a new node, which is why a note has `since`), `Pointers` is the loop over
them, in the order in which `bst_update` lists them (`LeavesLast`), channel by
channel. `bst_update` of a channel inserts nodes by comparing notes whose data
`track_update` has changed back already, so a node may go to any of several
places, depending on the shape of the tree; `Places` has them all. `FileUpdate`
goes to revisions that are next to the current one, or drops what was not
committed.

`Measures` is operators only: a map of `ControlMap` is taken as the time
signatures of a file, value `v` meaning `Numer[v]`/`Denom[v]`. `MeasuresTile`
compares what `file_measures` gives for a range with the part of the whole
file's measures that lies in it.

`Import`: `Read...` is one event of the loop of `import_track`, `TrackBegins`
and `TrackEnds` are what comes before and after the loop, `Replay` is one round
of the loop over the stack that `off` left. A track may end at any event: that is
what the code makes of a chunk that does not parse. `log` is what was read; the
properties work out from it what the notes must be (`EndedBy`: the ends of a
key that lie in a note, in whichever track) and compare. Which of several notes
`channel_range` meets first depends on the shape of the tree, so `Import` has the
real tree. If two notes compare equal, `bst_find` may take out the other one's
node, and the channel is left with a node whose note is gone (`dangling`): from
there on the code reads freed memory, and nothing is asked of such a file.
`NotesArePaired` says exactly which end a note has, for keys that two tracks do not
hold at one time; `NotesAreRead` says less, of all files. `ControllersAreRead`
speaks of a controller that one track sets: `map_set` drops a change
to the value that holds already, so when a later track sets another value before
it, the dropped change is missed.

`RoundTrip` has no state of its own: `FileRead` folds the handlers of `Import`
over the chunks of a `Player` that has ended. Each chunk's deltas start anew,
and the first chunk, without notes, is not a track.

`Player`: `Process` is one round of the loop of `file_play_`; `Wait` and `Stop`
are the answers of `dtime_clb`; `End` is the loop's end. An event for which an
assertion of `write_noteon` fails is not processed, and `NeverAborts` says that
none comes up. The heap is a set of events of which
any least one may be on top - the code's binary heap gives one of them - so the
results hold for any tie-break. File controllers have different priorities
among each other in the code (their indices, all greater than a note's); in the
model they are equal, which allows more. `heard`/`sounding` are the device,
`chunk`/`dtime` are the export's buffers: both are fed by the same messages.
The loop's thread is the caller's and the callback returns, so `Next` is weakly
fair. `SameCtrl` is the one place of undefined behaviour: the message's length
is not set, so the model lets the loop write a message of no known content or
none.

## Runs

| Run | Instance | Shows |
|---|---|---|
| `TreeVersions` | 3 cells, 2 keys, 3 revisions; with all three cells in use, 2 revisions | refinement, the inductive invariant, exactness of the returned lists, caching of data; ownership of cells, assertions, rings. Three cells are the least with one in the tree, one holding a backup and one in the free ring; three revisions give a fork and a line; two keys tell old data from new. The bound on both together (`CellsOrRevisions`) is lifted by the proofs |
| `TreePaths` | two shapes of behaviour: "deep", one cell with one key and 5 revisions, which make a tree of any shape; "wide", 3 cells, 3 keys, 2 revisions, at most 2 nodes in the tree, tidy callers, who change one node at a time once there are two revisions | an update ends, from any revision of a tree to any other (five revisions are the least with two branches of more than one revision, so that every loop of `path_down` is left at once, after one round, and after several); order of data |
| `TreeOrderRevert` | the wide one with any caller | **violated**, finding 1 |
| `AvlTree` | 8 nodes, with equal data, changes and range erasures; eight are the least where a rotation with an even child happens below the root | the tree implements the list; balance, stepping, searching, subtree values, range lookups |
| `AvlChannel` | 8 nodes, `channel.c`'s `upd` | **violated**, finding 2 |
| `Maps` | 2 maps, times 0-3, values 0-2, up to 5 changes in both together | set_range and add on every map, copy (also within a map) and eq on every pair of maps the calls make: the least with a range that has two changes inside it and a time after it; as time signatures the values are 1/4, 1/8 and 3/8 of two ticks, one and three, so that a change may cut a measure after its first or second tick, and two changes lie in one measure. Five changes are those of a copied range, its first and the two inside it, and the two that the copy takes out of its target |
| `Player` | 2 tracks, 2 channels, 2 controllers, songs from 8 notes and 5 x 2 courses of controllers, two starting times | everything about flattened songs, and that they come back from a file |
| `PlayerUnflat` | other songs | **violated**, finding 3 |
| `Import` | 1 channel, 1 key, up to 3 tracks of two ticks, up to 7 events, the ends of tracks included (4 when there are pitches or controllers, or a track ends early) | pairing, pitches, controllers. Three tracks let a note-off come before, in and after the track of its note-on; what several channels or keys do does not meet |
| `Song` | 3 notes, 2 tracks (one may use both of the file's 2 channels, one the second only), 3 pitches of which two share a key, notes at three places that meet, overlap and nest; 2 revisions; every sequence of up to 4 calls from an imported song and a chord of one track, both committed, and of up to 3 from the empty song | trees, counts, exclusive temporary channels, playable channels, flattening that is not heard, edits that stay local, updates that restore |
| `SongUndo` | 2 notes, any update | **violated**, finding 4 |
| `SongOrder` | a chord of 4 notes and keys on one channel, any update | **violated**, finding 5 |

The wheels of `Song` keep what notes that have gone left there, so that its songs
are too many to visit; `CallsSpec` counts calls instead. Four calls suffice for
two insertions, a flattening and an edit of what was flattened; the songs that
get four calls in `Song` have two notes on the file's channels to begin with. `Song` takes
the updates that leave every note its channel (`KeepsChannels` says which)
and every channel its order (`KeepsOrder`); `SongUndo` and `SongOrder` take
all. A channel gets out of order only with four keys at one time, more than
`Song` has.

"Tidy" callers (`Tidy`, in `PersistentTree`) revert or update only when no
node that they changed is in the tree: what an editor does that commits after
every command. Deadlock is checked in the tree and map runs; the player's loop
really stops, an import ends, and the calls of `Song` are counted, so their runs
do not check it.

The pool of notes in `MCPlayer` has notes that meet end to start on one pitch in
one and in two tracks, overlap on one channel, overlap on two, and compare
equal; a song is any part of the pool that `track_flatten` allows (`Flat`).
Courses of controllers change while a note sounds, between notes, before the
start, at the start, at the moment where one note ends and another begins, and
back to the default.

### What is not as the documentation or the code's own assertions say

1. `TreeOrderRevert`: `bst_revert`, which `bst_update` starts with, copies a
   changed node's old data back without filing the node anew, so that the tree
   is no longer in order.
2. `AvlChannel`: the `upd` of `channel.c` takes the children's off times, where
   `track.c`'s takes their subtrees'.
3. `PlayerUnflat`: an imported file may have two tracks that sound on one
   channel at a time; playing or exporting it fails an assertion. So does a note
   that `file_flatten` could not move, since `file_play_` ignores its result.
4. `SongUndo`: `channel_update` unsets the channel of each note whose node left
   its tree, channel by channel; a note that the update takes back to a channel
   with a lower number has got it before, and is left without. The next call that
   moves the note fails the first assertion of `note_set_channel`.
5. `SongOrder`: a channel's tree has its notes' keys through pointers, and
   `file_update` changes the notes (`track_update`) before it updates the
   channels. While `toggle` files the nodes that come back, those that are to
   leave still hang where their old key put them. If one of them is on the way down,
   the new node ends up on its wrong side: commit four notes of one time with keys
   58, 62, 64 and 66, erase the third, give the last the key 60, commit, update
   back, and the channel has 58, 64, 62, 66, in which `bst_find` finds neither of the
   middle two; the next call that moves one of them hands NULL to `bst_erase`.

More that the model and the properties state rather than hide:

* A commit whose changed nodes were all erased sets `tree->save` to NULL
  without moving its cells to `tree->free` (`src/src/bst.c:611-629`):
  the cells are in no list any more (variable `orphans`); `bst_fini`, which
  clears and commits, always does this. Taking the last cell out of such a ring
  by `dlist_erase(&tree->free, ...)` empties `tree->free`. `OneOwner` and
  the refinement hold all the same: cells are lost, none is owned twice.

* A controller event that changes nothing leaves the length of its message
  unset, and `process_event` reads it (`SameCtrl` of `Player`): whether a message
  of no known content goes out is up to what the stack holds.
* What import makes of a file with two tracks that set one controller
  (`ControllersAreRead`) holds for the files that export writes, too: a channel
  belongs to the track that sounds on it, so that the changes of one controller
  may be in several chunks. `SongComesBack` has the controllers of which one
  track wrote all changes.
* `doc/midi.md` says of two notes of one key, end to start on two tracks, that
  the first one's note-off is placed on the second one's track; `write_noteoff`
  writes it to the note's own track (`NoteOff` of `Player`), and `SongComesBack`
  shows that import needs no more. It also says that of several note-offs at one
  time the velocity of the last counts: that is so for those replayed from
  the stack only; in its own track a note ends with the first (`Off`), which is why
  `NotesArePaired` accepts the velocity of any.
* A chunk that is missing is freed a second time (`src/src/import.c:478`): `TrackMissing` ends in "undefined".
* `AddReachesNextChange`: `map_add` adds up to the next *change*, which may
  be after the end it was given. `note_set_pitch` uses it on the wheel, so that a
  later note on the same temporary channel is detuned with the note that was
  edited: `EditsAreLocal` makes that exception.
* `CopyCopies`: `map_copy` reads the value at its target's end first and writes
  it back before it copies: if it equals the first copied value no
  change is written at the end, and the last copied value leaks past it. Copying
  a range onto itself, which `move()` of `track.c` does after
  `note_set_channel` has copied, erases the changes inside it.
  `FlattenIsSilent` holds for songs whose wheel does not change inside a note.
* `EqTellsPlainMaps`: `map_eq` is right for maps that do not return to the value
  they start from; `Plain` says it exactly.

## Proofs

Each theorem holds for every value of the constants that meets the module's
named assumptions, and for the hypothesis its table names.

### The tree's revisions

`TreeHistoryProofs` proves `SafeSpecH => []IInv` and derives the
rest, for every set of cells, every set of data and every bound on revisions
(`NullAssumption`: NULL is not a cell or a datum; `MaxRevsAssumption`: the
bound is a number. Nothing else is assumed, but that data are numbers in
`TidyOrder`, where they are compared.)

| Theorem | Property |
|---|---|
| `Invariant` | `IInv` |
| `TypeCorrect` | `TypeOK` |
| `Ownership` | `OneOwner` |
| `Assertions` | `AssertionsHold` |
| `Unfreeing` | `UnfreesRingCells` |
| `LaterUpdates` | `LaterUpdatesAreFree` |
| `UpdateReports`, `RevertReports` | `UpdateReportsMoves`, `RevertReportsMoves` |
| `Refinement` | `ImplementsStore` |
| `TidyOrder` | `KeysInOrder`, for tidy callers |
| `NeverStopped` | an update has a step to take wherever it is (`NeverStuck`) |
| `UpdatesAdvance` | each step of an update leaves less of it to do (`UpdateAdvances`) |

None of these is inductive alone. That update brings back what was committed
needs that each record, as it lies now, leads from one snapshot to the other
(`Records`): towards the parent on the way from the current revision to the
root, away from it elsewhere. That needs revisions to be a tree with parents
older than children (`RevTree`), which also makes `Lineage`, a recursive
function, well founded. That a record made by `bst_commit` leads back needs
that the lists and backups tell the working set from the tip (`Working`), and
that a cell the records name was not handed out for something else
(`CellsKnown`, `OneOwner`). During an update the content is the
snapshot of the revision the walk is at, the path is connected, and the flags
remember what was in the tree before (`Walking`). For `path_down` (`OnPath`)
the level counts are told by `Depth`, a revision's distance from the root: while
`level` counts (`Counting`) what it has counted and what is before it make up
the depth; while the pointers climb (`Climbing`) their counts are their depths,
so that pointers with equal counts that both reach the root meet there if not
before, and none passes it; then the path is filled (`Filling`) with a
line of parents from the target, as long as the depths say, which therefore begins
where they met. The proof has one lemma for
each action (`InsertInv`, ... `FiniInv`), and under each a step for each
conjunct the action can disturb; `ToggleLeads` is the heart: toggling a record
that leads from here to there makes the content there and the record lead back.

`NeverStopped` and `UpdatesAdvance` are what of `UpdateTerminates` can be proved here,
for revision trees of any size: an update never stops half way, at a NULL parent
or off its path, and each of its steps goes on to a later loop (`Stage`)
or leaves fewer rounds of its own (`RoundsLeft`: the level count that falls, the
part of the path to fill, the records to toggle). That it ends then follows
from weak fairness by a well-founded order, which stays with TLC (`TreePaths`).

`Refinement` maps the store's working set to the tree's content between calls
and to the content before the call during an update; `BeginUpdate`, the walk
and so on are stutters and `EndUpdate` is the checkout.

`TidyOrder` is about `filed`, the data a node was linked under: it equals
the node's data (`FiledByData`) as long as nothing but `bst_change` and `toggle`,
which take a node out first, writes data. `bst_revert` writes it in place, but
for nodes with a backup only, and a tidy caller has none of those in the
tree. Finding 1 shows that the hypothesis is needed.

### The tree's shape

`AvlShapeProofs` and `AvlProofs` work for every finite set of nodes (`HeadAssumption`: the head is no
node, NULL is neither) and every choice of the note times a node may be given (`HoldsAssumption`: they
are records of numbers).

| Theorem | Property |
|---|---|
| `TreeStandsFirm` | (the inductive invariant, `TreeInv`) |
| `BalancesAreExact` | `Balanced` |
| `StepsAreInOrder` | `StepsInOrder` |
| `SearchesFindFirst` | `SearchesFind` |
| `MaxOffIsKept` | `KeepsMaxOff`, with `track.c`'s `upd` |
| `RangesAreFound` | `RangeFindsAll`, with `track.c`'s `upd` |
| `TreeIsAList` | `ImplementsList` |

The last two but one assume `Channel = FALSE`, that is `upd` of `track.c`: of the `upd` of `channel.c` both
properties are false (finding 2). The others hold of either.

The properties are worked out by walking the tree, and no walk says by itself how the
next call leaves the links. The invariant speaks of a *view* of the tree instead
(`Shape`): each linked cell has a place `pos` in the tree's order, the head the
last, and its subtree takes a stretch of places, `lo` to `hi`, around its own. A child on side 0 takes the
stretch up to its parent's place and one on side 1 the stretch behind it; a link
of `child` answers to `parent` and `idx`. Then there is no need of paths or
of induction over a tree: that a node lies in a subtree is an inequality (`Has`), a
rotation moves two stretches and no place, a new leaf or a node unlinked shifts
places by one, the exchange of two nodes exchanges theirs (`LeafPos`, `GapPos`, `OtherOf`).

* With heights `high` given to the nodes, each balance is the difference of two of them
  (`Level`). In the middle of a call one slot of the tree is off by one
  (`Leveled`): the climb after an insertion or an erasure moves that slot upwards (`Higher`,
  `Lower`), and `Righted` is what a rotation does to a node that leans by two. The
  double rotation has three cases of balances, and an erasure meets the even child
  that an insertion never does.
* The value kept for a node is what `upd` would tell now (`Fresh`); during a
  call those on the way up from one node need not be (`Kept`), and `UpdateToTop` mends them.
* `Orderly` adds that data rise with the places, that the linked cells are those with
  `in_tree` set, and that `tree_size` counts them.

`TreeInv` says that some view is orderly. `StepIs` says what each call makes of it: a node
more at one place (`Filing`), a run of places less (`Cutting`), one node moved (`Refiling`), or
nothing. The invariant and the steps of the refinement both follow from that, where the list of the
abstract module is the nodes in order of place (`ListsAs`). The properties follow from the invariant
by one loop each: `BoundLoop` for searches - the places left of the node at hand hold less, those
right of it do not (`Sought`) -, `HighLoop` for heights, `OrderLoop` for the list,
and for a range lookup a count down the tree of which stretches it passes over:
those whose kept value shows that nothing in them sounds late enough.

### Maps

`ControlMapProofs` works for every set of times that begins at 0 and has no gap
(`TimeAssumption`), every set of integer values and every default among them.

| Theorem | Property |
|---|---|
| `MapsTyped` | (each map goes from times of callers to values of callers) |
| `SetRangeExact` | `SetRangeIsExact` |
| `CopiesAsStated` | `CopyCopies` |
| `EqRightOnPlainMaps` | `EqTellsPlainMaps` |
| `AddReaches` | `AddReachesNextChange` |

`MapsTyped` is the inductive invariant: the four properties speak of maps that
calls make, and are facts about operators once a map is known to be a function
from a set of numbers. The facts rest on what `Get` is: a time's value is that of
the last change not after it (`HoldsAt`), so that a change that is left
out because it changes nothing (`Set`), those taken out of a range (`Emptied`) and those
put into one (`WithCopied`) are seen by which change holds then. `map_copy` is followed line by line
(`CopyEmptied`, `CopyBegun`, `CopyEnded`, `WithCopied`), with the range's last value at its end
(`EndsKnown`) and its changes (`TargetIs`) as the facts handed on. `map_add` may add past the values
of callers; its guard in `MapAdd` is a bound. Its loop is a fold over the times it sets, and
`AddGood` says what holds after the first of them: the times from the start on up to the next
change have risen, and the changes still to come are untouched (`AddsOneMore` is one round).

A fold is a recursive function, and what it computes takes an induction over the set it goes
through. The library's induction theorems cannot be instantiated here, so `FoldFacts` takes the
step, the order and what is to hold as constants, is instantiated for each loop, and gets
its induction from the least counterexample (`LeastNat`): its lemma `FoldGood` is
cited where the theorems about the program need it. A loop that repeats its body a number of
times is the same with numbers of rounds in place of sets (`LoopGood`).

### The player

`PlayerProofs` works for every number of channels, tracks, pitches and
controllers that is finite (`SizesAssumption`), and any set `Songs` of flat songs (`FlatOnly`):
what meets on one channel is of one track and has different pitches. That is what
`can_move` sees to for each note `track_flatten` moves; findings 3 and the run
`PlayerUnflat` are about other songs. `Player`'s songs, eight notes in all ways, are examples.

| Theorem | Property |
|---|---|
| `PlayInvariant` | (the inductive invariant) |
| `FlatNeverAborts` | `NeverAborts` |
| `FlatSoundsRight` | `SoundsRight` |
| `FlatHearsControllers` | `HearsControllers` |
| `FlatHeapBound` | `HeapBound` |
| `FileInvariant` | (the inductive invariant of the written file, `FileInv`) |
| `FlatFileKeepsControllers` | `FileKeepsControllers` |

None is inductive: the counters and owners that `write_noteon` asserts are
right because of what is still in the heap. `PlayInv` says that

* the heap has only what it should (`HeapKnown`): a track's next note, the ends of
  notes that have begun, and for each controller one change;
* a track's next note is the first of those that have not begun, what has begun
  has not ended before now, and what has done neither has ended (`NotesInOrder`). This is
  where the order of events counts: an end goes before a beginning of the same
  time (`EndsBeforeBegins`), or the next note would find its channel taken;
* each channel counts, owns and sounds what its begun notes say (`ChannelsKnown`).
  Two of them overlap, so that on a flat song they have one track and no
  pitch in common (`VoicesDiffer`, `ComingDiffers`): the assertions hold;
* a controller's value, sent or kept back, is that of the last change its
  event has passed, unless the event is still before the start, and nothing is kept
  back while the channel sounds (`ControllersKnown`).

`Process` has a lemma for each kind of event and each part (`OnKeepsOrder`,
`OffKeepsChannels`, `CtrlKeepsControllers`, ...), `Wait` and `Stop` likewise; that
time never passes an event is `WaitsForNext`. The bound on the heap counts: one
note for each track, one end for each pitch of a channel, one change for each
controller.

What the written file says of a controller needs more (`FileInv`), since the
file has only deltas, in several chunks, and says nothing of which chunk's change
came last at a time:

* the deltas of a chunk and the time since its last event add up to now (`ChunksTimed`); the sum
  is a fold along the chunk, and `FoldFacts` gives what one more event does to it;
* an event is late at the start only, where of several old changes of one controller only the
  last is left in the heap (`NoneLate`). Otherwise two values would be written for one time;
* the last change that a reader of all chunks has seen has the value that was
  sent, and no other change was seen at its time; in the past of a note that sounds, the changes seen have the
  song's values at every time (`ReadsKnown`). What makes a change the only one at its time
  is that a controller is written only for a channel that goes on sounding, with all its
  events up to now behind it (`SoundsOn`): a controller's event of one time goes before the
  notes of that time, and is kept back while the channel is silent.

### Songs

`SongProofs` works for every number of notes, tracks, channels and pitches, every `chanmask` and every
bound (`SongAssumption`, which also asks that `NULL` is no channel or note), and any set `Songs` of songs to start from
that are `Sound`, where a theorem needs it `Steady` too, and for those about updates `Whole`. The
empty song is all of these (`EmptyIsSound`, `EmptyIsSteady`, `SongsAreWhole`), what committing makes
of a whole one is whole again (`SongsAreWhole`), and what insertion makes of a sound one where there is room
is sound (`InsertedIs`).

| Theorem | Of | Property |
|---|---|---|
| `StaysSound` | `EditSpec` | (the inductive invariant) |
| `TreesStayRight` | `EditSpec` | `TreesAgree` |
| `UsageStaysRight` | `EditSpec` | `UsageCounts` |
| `TempsStayExclusive` | `EditSpec` | `TempsAreExclusive` |
| `ChannelsStayPlayable` | `EditSpec` | `ChannelsPlay` |
| `EditsKeepChannels` | `EditSpec` | `NotesHaveChannels`, `NotesAreFound` |
| `StaysSteady` | `EditSpec` | (the inductive invariant of what is heard) |
| `TypesStayRight` | `EditSpec` | `TypeOK` |
| `FlattenStaysSilent` | `EditSpec` | `FlattenIsSilent` |
| `EditsStayLocal` | `EditSpec` | `EditsAreLocal` |
| `StaysWhole` | `Spec` | (the inductive invariant with updates) |
| `SongsStayRight` | `Spec` | `TypeOK`, `TreesAgree`, `UsageCounts`, `TempsAreExclusive`, `ChannelsPlay`, `FlattenIsSilent`, while `Going` |
| `SongsStayLocal` | `Spec` | `EditsAreLocal` |
| `UpdatesRestore` | `Spec` | `UpdateRestores` |

`EditSpec` has every call but `file_update`. Findings 4 and 5 show that an update can leave a note without
a channel, or where `bst_find` does not find it, so that with updates, in `Spec`, the invariants above do not hold of every state
that can be reached. What is proved of `Spec` is that these two are the only ways in which it goes wrong: `Going` says that every note
has a channel and that every channel is in order (`NotesHaveChannels` and `NotesAreFound`), and while it
does the song is `Whole`. The two theorems on steps need no `Going`: the next call is made only where the code's
assertions hold, which is where the song is `Going`.

The properties hold one another up. `bst_find` finds a note because no other note in its
channel compares equal (`FoundIs`), which is so because notes of one key do not sound on one channel
together; that they do not is what `can_move` looks up in the channel's tree
(`InRangeIs`), and what makes a temporary channel safe is that `track_temp_channel` looked
up the same. So `Sound` says all of it at once: the notes are
records of positive length (`Known`), each tree is the ordered list of the notes that point to it (`Trees`), the usage
counts them (`Counts`), the temporary channels that are used were made (`Temps`), and no two notes
are where they may not be together (`Apart`). Between taking a note out and putting it
back it holds of the others (`Core`); `Settled` is the putting back, for every call that does it.

* `note_set_pitch` changes a key in place: the trees stay in order because in a temporary
  channel times alone decide (`SoonerByTime`).
* The temporary channels are enough (`EnoughTemps`): one more is needed only if each that there is has
  another note sounding, and the notes are finite.
* Flattening is five loops inside each other, each an instance of `FoldFacts`, with `Sound` and what stays of
  each note (`Kept`) handed on. That the channels tried have a last one at all is a fact about the
  order of `chan_cmp` (`LastExists`), since usages are numbers.

What is heard needs a second invariant. The copies of the wheel from channel to channel are exact
only in the absence of the exceptions `CopyCopies` states, and `map_eq` only on plain maps. `Steady`
says when neither can matter: no channel's wheel changes *inside* a note of that channel, and a temporary
channel has notes of its own track only. The value at a note's beginning, its `Tone`, is then all that
is heard of it besides the key (`ToneHolds`, `SameHeard`). The proof joins the maps' with the songs':

* `SongProofs` instantiates `ControlMapProofs` with times that are the numbers from 0 and a default of 0
  (`MapFacts`), so that each of the wheels' maps is one its lemmas are about (`WheelsAreMaps`). What a call does to a wheel without a change in
  the range it copies or sets is simple (`LevelCopy`, `SetRangeLevel` of `ControlMapProofs`), and is seen of a note that does not
  overlap that range only if the range ends on it (`ToneKept`).
* A note that moves takes its tone along (`ToneGiven`) and leaves the others' as they were if those
  that sound meanwhile where it goes have its tone (`SetChannelSteady`): in a temporary channel there are none
  (`TempAgrees`), in a channel of the file `can_move` has asked `map_eq` (`CanMoveAgrees`). The copy of the
  range onto itself that `move()` makes then erases nothing (`CopiedOnItself`).
* `note_reset_pitch` looks for a temporary channel for a note that has one, and finds the same
  (`FreeTempAgain`), so that an insertion is heard of no other note.
* `map_add` may detune notes that begin with or after its range; those before it and those that end by
  then are safe, since two notes of a temporary channel do not overlap (`PitchSetSteady`, `CopiedSteady`).
* When flattening succeeds it has emptied each temporary channel it went through, and nothing returns to one
  (`Vacated`, `VacatedStays`).

Steady maps also have numbers for values, which `TypeOK` asks for: the value of each change is that
of the map at its time (`WheelValues`), and `SetRangeIs` and `AddIs` of `ControlMapProofs` say what that becomes.

The hypothesis excludes songs with a bend inside a note, for which flattening meets
the exceptions of `CopyCopies`. The songs that the runs start from are steady.

An update computes the song out of the one there is and a revision. `Whole` is `Sound`, `Steady` and `Logged`,
which says of the revisions what the song needs when it becomes one of them: the notes
of each are on channels of the file, apart and level, and its lists hold
its notes, each once (`Right`), and a cell has one track in all of them (`OneTrack`). Three loops of `file_update` are proved apart:

* **Pointers** (`PointersAre`). The loop goes over the channels by their number, erases and sets `note->chan`, and the last one to do so
  counts. A note gets its channel of the revision back or is left without one, and gets it back if
  `KeepsNote`: it was in no later channel, and the channel it goes to does not erase it after it has inserted it. `KeepsThem` derives this from `KeepsChannels`,
  the hypothesis of `UpdateRestores`.
* **Lists** (`ListsAfterAre`). Whatever the order of the erasures and whatever places the insertions choose, a list ends up with
  the notes of the revision, each once (`WithoutIs`, `FilingGood`). That it is in *order* does
  not follow (finding 5).
* **Usage** (`UsageIs`). It is counted up for what enters and down for what leaves; what remains is the number
  of the revision's notes because a cell has one track in both.

`RestoredIsWhole` joins them: if each note has a channel, it has the revision's, and if the lists are in order too the song is whole.

### Model-checked only

* Liveness, which the provers cannot do: `UpdateTerminates` (but see `NeverStopped` and
  `UpdatesAdvance`), `PlayEnds`.
* `MeasuresTile`: the measures are sequences joined out of sequences that folds make, picked
  by `SelectSeq`, over which the provers have no induction.
* `NotesArePaired`, `NotesAreRead`: `import.c` looks its notes up with `channel_range`, which
  is right as long as the tree is so small that finding 2 does not show. There is nothing to be
  proved of every number of notes.
* `ControllersAreRead`, whose changes a track's end puts into the map in the order of
  `SetToSortSeq`, for which the provers have no definition, and `SongComesBack`, which is
  `Player` and all of `Import` together.
* Of `Song`: that an update to a revision that `KeepsChannels` and `KeepsOrder` leaves the song `Going`
  (the run of `MCSong`), which takes a second invariant on the serial numbers of the notes.

## Not modelled, and why

* Failure of malloc: `bst.c` does not look for it, nor does anything else.
* Hardware drivers, SHA-1, Scala files, byte layout of messages and headers:
  input and output, or tables, or other people's code.
* `map_vget`: passes a null key to `bst_upper_bound`; nothing calls it.
* Bytes: variable-length numbers, running status, the messages themselves. An
  event of `Import` is what its bytes parse to.
* Note systems, so that a pitch in `Song` and a key in `Import` are given with
  their MIDI pitch and wheel; `pitch_info` succeeds.
* Tracks that come and go: `Song` has a fixed set, so that `file_update` to a
  revision with fewer tracks is not there.
* A measure index that is out of date, and divisions smaller than a time
  signature's denominator (`SignatureAssumption`), by which `measures` divides.
* The hardware layer (`hal.c`), the pool and the stack's blocks.

## Plan

1. `Song` with tracks that come and go, and doubled notes and changes of a
   controller inside a note, as import may bring them; `track_set_ctrl`.
2. Proofs: updates that keep channels and order, which would take the theorems on editing to `Spec`; `Measures`, with its
   measures as functions of their index instead of sequences joined together.
3. `NoteSystems`, `Devices`, variable-length numbers at their widths.
