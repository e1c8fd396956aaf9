-------------------------------- MODULE Song --------------------------------
(***************************************************************************)
(* Notes, tracks and channels: src/note.c, src/track.c, src/channel.c, and *)
(* file_flatten, file_commit and file_update of src/file.c.                *)
(*                                                                         *)
(* A note is in two trees, its track's and its channel's.  What is edited  *)
(* is moved to a temporary channel of its track, where nothing overlaps    *)
(* it; flattening moves notes to the channels of the file, so that notes   *)
(* that sound on one channel at a time agree on its controllers.           *)
(*                                                                         *)
(* A channel's tree is the sequence of its notes, in order; which notes    *)
(* equal notes the code finds is thus part of the model.  A track's tree   *)
(* is the set of notes that have the track.  channel_range is exact here,  *)
(* as it is for the at most three notes of a channel (module AvlTree says  *)
(* what upd() of channel.c does with more).                                *)
(*                                                                         *)
(* A revision of the file is a revision of each tree; that a tree comes    *)
(* back as it was committed is module PersistentTree's.  What is kept for  *)
(* a note outside the trees, its channel and channel_usage, file_update    *)
(* works out from the nodes that the channels' trees report, and it files  *)
(* those by notes that were given other pitches meanwhile.                 *)
(*                                                                         *)
(* Of the controllers there is the pitch wheel, the one that editing a     *)
(* note changes; the others are copied and compared as it is.  A pitch     *)
(* stands for what pitch_info makes of it; it succeeds.                    *)
(***************************************************************************)
EXTENDS Integers, SequencesExt

CONSTANTS
    Note,       \* the nodes of the tracks' trees
    NULL,       \* "not in the track's tree"
    Tracks,     \* file->tracks
    Number,     \* the numbers of the file's channels
    Mask,       \* Mask[tr]: track tr's chanmask
    Midi,       \* Midi[p], Wheel[p]: what pitch_info says of pitch p
    Wheel,
    Span,       \* bound: the times of notes
    Shift,      \* bound: how far copies are moved
    Bend,       \* bound: the values of the wheel
    Revs,       \* bound: how many revisions are made
    Songs       \* the songs to start from: empty ones, imported ones

Track == 1 .. Tracks
Pitch == DOMAIN Midi
Time == Nat

(* The file's channels, and a track's temporary channels from its first on.*)
FileChannel == {<<0, c>> : c \in Number}
TempChannel == Track \X (1 .. Cardinality(Note))
Channel == FileChannel \cup TempChannel

Notes ==
    [track : Track, on : Time, off : Time, pitch : Pitch, ch : Channel, since : Nat]

(* Notes that an update has left without a channel.                        *)
Unset ==
    [track : Track, on : Time, off : Time, pitch : Pitch, ch : {NULL}, since : Nat]

ASSUME SongAssumption ==
    /\ Tracks \in Nat /\ Revs \in Nat /\ Number \subseteq Nat /\ IsFiniteSet(Number)
    /\ Shift \subseteq Int
    /\ IsFiniteSet(Note) /\ NULL \notin Notes \cup Unset \cup Channel
    /\ Mask \in [Track -> SUBSET Number]
    /\ Midi \in [Pitch -> Nat] /\ Wheel \in [Pitch -> Int]
    /\ \A s \in Span : s[1] \in Time /\ s[2] \in Time /\ s[1] < s[2]

VARIABLE song
    \* notes[n]: its track, times, pitch and channel, and, to know the node
    \*   it has in the channel's tree, how many revisions there were when
    \*   it got it
    \* chan[ch]: the notes in channel ch's tree
    \* usage[tr][ch]: channel_usage
    \* temps[tr]: how many temporary channels track tr has
    \* wheel[ch]: the map of the channel's pitch wheel
    \* revs: the revisions, each with the one it was made from, or 0
    \* tip: the one that was committed or updated to last, or 0

Default == [ch \in Channel |-> 0]

Maps == INSTANCE ControlMap
            WITH maps <- song.wheel, Map <- Channel, Time <- Nat, Value <- Int, MaxChanges <- 0

Empty ==
    [notes |-> [n \in Note |-> NULL],
     chan  |-> [ch \in Channel |-> <<>>],
     usage |-> [tr \in Track |-> [ch \in FileChannel |-> 0]],
     temps |-> [tr \in Track |-> 0],
     wheel |-> [ch \in Channel |-> <<>>],
     revs  |-> <<>>,
     tip   |-> 0]

Used(s) == {n \in Note : s.notes[n] # NULL}

-----------------------------------------------------------------------------
(* A channel's tree.                                                       *)

\* Mutant: the keys are not compared.
BeforeByTimes(s, m, n) ==
    LET a == s.notes[m]
        b == s.notes[n]
    IN  a.on < b.on \/ (a.on = b.on /\ a.off < b.off)

(* note_cmp                                                                *)
Before(s, m, n) ==
    LET a == s.notes[m]
        b == s.notes[n]
    IN  \/ a.on < b.on
        \/ a.on = b.on /\ a.off < b.off
        \/ a.on = b.on /\ a.off = b.off /\ Midi[a.pitch] < Midi[b.pitch]

Filed(s, ch, n) ==
    LET notAfter == {i \in DOMAIN s.chan[ch] : ~Before(s, n, s.chan[ch][i])}
    IN  [s EXCEPT !.chan[ch] = InsertAt(@, Cardinality(notAfter) + 1, n)]

(* bst_find takes the first of the notes that compare equal.               *)
Found(s, ch, n) ==
    Min({i \in DOMAIN s.chan[ch] : /\ ~Before(s, n, s.chan[ch][i])
                                   /\ ~Before(s, s.chan[ch][i], n)})

Unfiled(s, ch, n) == [s EXCEPT !.chan[ch] = RemoveAt(@, Found(s, ch, n))]

(* channel_range                                                           *)
InRange(s, ch, beg, end) ==
    {n \in Range(s.chan[ch]) : beg < s.notes[n].off /\ s.notes[n].on < end}

-----------------------------------------------------------------------------
(* Moving a note between channels.                                         *)
\* Mutant: channel_usage is never counted up.
CountedDown(s, tr, ch, d) ==
    IF ch \in FileChannel /\ d < 0 THEN [s EXCEPT !.usage[tr][ch] = @ + d] ELSE s

\* Mutant: channel_usage is never counted down.
CountedUp(s, tr, ch, d) ==
    IF ch \in FileChannel /\ d > 0 THEN [s EXCEPT !.usage[tr][ch] = @ + d] ELSE s

Counted(s, tr, ch, d) ==
    IF ch \in FileChannel THEN [s EXCEPT !.usage[tr][ch] = @ + d] ELSE s

Detached(s, n) ==
    Counted(Unfiled(s, s.notes[n].ch, n), s.notes[n].track, s.notes[n].ch, -1)

WheelCopied(s, from, to, beg, end) ==
    [s EXCEPT !.wheel = Maps!Copy(@, from, beg, end, to, beg)]

(* note_set_channel, to a channel                                          *)
SetChannel(s, n, ch) ==
    LET r == s.notes[n]
        moved == Counted(Filed(Detached(s, n), ch, n), r.track, ch, 1)
    IN  IF ch = r.ch THEN s
        ELSE [WheelCopied(moved, r.ch, ch, r.on, r.off) 
                EXCEPT !.notes[n].ch = ch, !.notes[n].since = Len(s.revs)]

\* Mutant: only the start of the range is looked at.
FreeTempAtStart(s, tr, beg, end, ignored) ==
    LET free == {k \in 1 .. s.temps[tr] : InRange(s, <<tr, k>>, beg, beg + 1) \subseteq ignored}
    IN  IF free = {} THEN s.temps[tr] + 1 ELSE Max(free)

(* track_temp_channel: the newest one that is free, else one more.         *)
FreeTemp(s, tr, beg, end, ignored) ==
    LET free == {k \in 1 .. s.temps[tr] : InRange(s, <<tr, k>>, beg, end) \subseteq ignored}
    IN  IF free = {} THEN s.temps[tr] + 1 ELSE Max(free)

WithTemp(s, tr, k) == [s EXCEPT !.temps[tr] = Max({@, k})]

(* isolate_note                                                            *)
Isolated(s, n) ==
    LET r == s.notes[n]
        k == FreeTemp(s, r.track, r.on, r.off, {n})
    IN  SetChannel(WithTemp(s, r.track, k), n, <<r.track, k>>)

-----------------------------------------------------------------------------
(* Editing.                                                                *)

(* insert_note                                                             *)
Inserted(s, n, r) ==
    Counted(Filed([s EXCEPT !.notes[n] = r], r.ch, n), r.track, r.ch, 1)

\* Mutant: the wheel is not set back at the end of the note.
PitchResetFrom(s, n, p) ==
    LET i == Isolated(s, n)
        r == i.notes[n]
        changed == [Unfiled(i, r.ch, n) EXCEPT !.notes[n].pitch = p]
    IN  [Filed(changed, r.ch, n) EXCEPT !.wheel[r.ch] = Maps!Set(@, 0, r.on, Wheel[p])]

(* note_reset_pitch: the note is filed anew in its channel.                *)
PitchReset(s, n, p) ==
    LET i == Isolated(s, n)
        r == i.notes[n]
        changed == [Unfiled(i, r.ch, n) EXCEPT !.notes[n].pitch = p]
    IN  [Filed(changed, r.ch, n) EXCEPT
            !.wheel[r.ch] = Maps!SetRange(@, 0, r.on, r.off, Wheel[p])]

(* note_set_pitch: the note stays where it is in its channel.  A note's    *)
(* midipitch is that of its pitch, so base_pitch is the wheel.             *)
PitchSet(s, n, p) ==
    LET i == Isolated(s, n)
        r == i.notes[n]
    IN  [i EXCEPT !.notes[n].pitch = p,
                  !.wheel[r.ch] = Maps!Add(@, 0, r.on, r.off, Wheel[p] - Wheel[r.pitch])]

(* track_insert                                                            *)
TrackInserted(s, n, tr, beg, end, p) ==
    LET k == FreeTemp(s, tr, beg, end, {})
        r == [track |-> tr, on |-> beg, off |-> end, pitch |-> p, ch |-> <<tr, k>>,
              since |-> Len(s.revs)]
    IN  PitchReset(Inserted(WithTemp(s, tr, k), n, r), n, p)

(* copy_note                                                               *)
Copied(s, n, d, tr, dt, p) ==
    LET r == s.notes[n]
        i == TrackInserted(s, d, tr, r.on + dt, r.off + dt, r.pitch)
        w == [i EXCEPT !.wheel =
                  Maps!Copy(@, r.ch, r.on, r.off, i.notes[d].ch, r.on + dt)]
    IN  PitchSet(w, d, p)

(* erase_note                                                              *)
Erased(s, n) == [Detached(s, n) EXCEPT !.notes[n] = NULL]

-----------------------------------------------------------------------------
(* Flattening.                                                             *)
\* Mutant: the controllers are not compared.
CompatibleKeys(s, m, n) ==
    /\ s.notes[m].track = s.notes[n].track
    /\ Midi[s.notes[m].pitch] # Midi[s.notes[n].pitch]

(* compatible: m on a channel of the file, n on a temporary one            *)
Compatible(s, m, n) ==
    LET a == s.notes[m]
        b == s.notes[n]
    IN  /\ a.track = b.track
        /\ Midi[a.pitch] # Midi[b.pitch]
        /\ Maps!Eq(s.wheel[a.ch], 0, s.wheel[b.ch], 0, Max({a.on, b.on}), Min({a.off, b.off}))

\* Mutant: compatible() is not asked.
CanMoveAnywhere(s, n, ch) == TRUE

CanMove(s, n, ch) ==
    \A m \in InRange(s, ch, s.notes[n].on, s.notes[n].off) : Compatible(s, m, n)

(* move: note_set_channel has made the channel the note's own when its     *)
(* controllers are copied once more, from the channel onto itself.         *)
MovedTo(s, n, ch) ==
    WheelCopied(SetChannel(s, n, ch), ch, ch, s.notes[n].on, s.notes[n].off)

(* channel_join                                                            *)
Joined(s, ch, temp) ==
    FoldLeft(LAMBDA t, n : IF CanMove(t, n, ch) THEN MovedTo(t, n, ch) ELSE t,
             s, s.chan[temp])

(* chan_cmp, and the order in which the sort leaves equal channels: c      *)
(* comes before d.                                                         *)
Others(s, tr, c) == SumFunction([o \in Track \ {tr} |-> s.usage[o][<<0, c>>]])

ChannelBefore(s, tr, c, d) ==
    LET o == Others(s, tr, c) - Others(s, tr, d)
        u == s.usage[tr][<<0, d>>] - s.usage[tr][<<0, c>>]
    IN  o < 0 \/ (o = 0 /\ (u < 0 \/ (u = 0 /\ c < d)))

LastTried(s, tr, C) == CHOOSE c \in C : \A d \in C \ {c} : ChannelBefore(s, tr, d, c)

(* note_ok: no other note of the track has its pitch meanwhile.            *)
NoteOk(s, n) ==
    LET a == s.notes[n] IN
    \A m \in Used(s) \ {n} :
        LET b == s.notes[m] IN
        ~(b.track = a.track /\ b.pitch = a.pitch /\ a.on < b.off /\ b.on < a.off)

(* One temporary channel, of which a flattening that failed before, f.ok,  *)
(* is not to touch any more.  The channels are tried in the order of the   *)
(* song when the track's flattening began.                                 *)
TempFlattened(f, tr, temp, sorted) ==
    LET s == f.song
        joined == MapThenFoldSet(LAMBDA c, t : Joined(t, <<0, c>>, temp), s, LAMBDA c : c,
                                 LAMBDA C : LastTried(sorted, tr, C), Mask[tr])
    IN  IF ~f.ok THEN f
        ELSE IF \E n \in Range(s.chan[temp]) : ~NoteOk(s, n)
             THEN [song |-> s, ok |-> FALSE]
        ELSE [song |-> joined, ok |-> joined.chan[temp] = <<>>]

(* track_flatten, the newest temporary channel first                       *)
TrackFlattened(f, tr) ==
    FoldRight(LAMBDA k, g : TempFlattened(g, tr, <<tr, k>>, f.song),
              [k \in 1 .. f.song.temps[tr] |-> k], f)

(* file_flatten                                                            *)
Flattened(s) ==
    FoldLeft(TrackFlattened, [song |-> s, ok |-> TRUE], [tr \in Track |-> tr])

-----------------------------------------------------------------------------
(* Revisions.                                                              *)

(* file_commit, unless flattening fails                                    *)
Committed(s) ==
    LET f == Flattened(s)
        rev == [notes |-> f.song.notes, chan |-> f.song.chan, wheel |-> f.song.wheel,
                parent |-> s.tip]
    IN  IF f.ok THEN [f.song EXCEPT !.revs = Append(@, rev), !.tip = Len(s.revs) + 1]
        ELSE f.song

(* The nodes of a channel's tree, of the song or of a revision.            *)
Nodes(s, ch) == [i \in DOMAIN s.chan[ch] |-> <<s.chan[ch][i], s.notes[s.chan[ch][i]].since>>]

(* What the cells hold when the channels are updated: the tracks have been *)
(* updated, and in a cell that is not in the tree data stays.              *)
DataAfter(s, r) ==
    [n \in Note |-> IF s.revs[r].notes[n] # NULL THEN s.revs[r].notes[n]
                    ELSE IF s.revs[s.tip].notes[n] # NULL THEN s.revs[s.tip].notes[n]
                    ELSE s.notes[n]]

(* Where insert_node may put node x, depending on the shape of the tree:   *)
(* the nodes next to its place are on its way down.                        *)
Places(d, list, x) ==
    {i \in 1 .. (Len(list) + 1) :
        /\ i > 1 => ~Before(d, x[1], list[i - 1][1])
        /\ i <= Len(list) => Before(d, x[1], list[i][1])}

FiledNext(d, list, X) ==
    UNION {{InsertAt(list, i, x) : i \in Places(d, list, x)} : x \in X \ ToSet(list)}

(* The lists that filing the nodes in X may make, in any order.            *)
Filings(d, list, X) ==
    LET made[k \in 0 .. Cardinality(X)] ==
            IF k = 0 THEN {list} ELSE UNION {FiledNext(d, l, X) : l \in made[k - 1]}
    IN  made[Cardinality(X)]

Without(list, X) ==
    FoldLeft(LAMBDA l, x : IF x \in X THEN l ELSE Append(l, x), <<>>, list)

(* bst_update of a channel's tree: bst_revert takes nodes out and puts     *)
(* others back, toggle the other way round.                                *)
ListsAfter(s, r, ch) ==
    LET d == [notes |-> DataAfter(s, r)]
        now == ToSet(Nodes(s, ch))
        tip == ToSet(Nodes(s.revs[s.tip], ch))
        rev == ToSet(Nodes(s.revs[r], ch))
        reverted == Filings(d, Without(Nodes(s, ch), now \ tip), tip \ now)
        toggled == UNION {Filings(d, list, rev \ tip) : list \in reverted}
    IN  {Without(list, tip \ rev) : list \in toggled}

Entering(s, r, ch) == ToSet(Nodes(s.revs[r], ch)) \ ToSet(Nodes(s, ch))
Leaving(s, r, ch) == ToSet(Nodes(s, ch)) \ ToSet(Nodes(s.revs[r], ch))
NotesOf(X) == {x[1] : x \in X}

(* A note may have one node that leaves and one that enters.  The list of  *)
(* bst_update has what toggle moved first, and what bst_revert did last;   *)
(* each of them lists the nodes that leave before those that enter.        *)
LeavesLast(s, r, ch, n) ==
    LET tip == ToSet(Nodes(s.revs[s.tip], ch)) IN
    n \in NotesOf(Leaving(s, r, ch) \ tip) /\ n \notin NotesOf(Entering(s, r, ch) \cap tip)

\* Mutant: the nodes that leave come last in the list.
PointersOutLast(s, r, c, ptr) ==
    [n \in Note |-> IF n \in NotesOf(Leaving(s, r, <<0, c>>)) THEN NULL
                    ELSE IF n \in NotesOf(Entering(s, r, <<0, c>>)) THEN <<0, c>> ELSE ptr[n]]

(* channel_update: note->channel                                           *)
Pointers(s, r, c, ptr) ==
    LET in == NotesOf(Entering(s, r, <<0, c>>))
        out == NotesOf(Leaving(s, r, <<0, c>>))
    IN  [n \in Note |-> IF n \in out /\ (n \in in => LeavesLast(s, r, <<0, c>>, n)) THEN NULL
                        ELSE IF n \in in THEN <<0, c>> ELSE ptr[n]]

(* channel_update: channel_usage                                           *)
UsageAfter(s, r, tr, ch) ==
    LET OfTrack(X) == Cardinality({x \in X : DataAfter(s, r)[x[1]].track = tr}) IN
    s.usage[tr][ch] + OfTrack(Entering(s, r, ch)) - OfTrack(Leaving(s, r, ch))

(* track_update erases what is in temporary channels.                      *)
TempsErased(s) ==
    FoldLeft(Erased, s, SetToSeq({n \in Used(s) : s.notes[n].ch \in TempChannel}))

(* file_update: the tracks, the channels by number.                        *)
Updated(s, r, lists) ==
    LET rev == s.revs[r]
        ptr == MapThenFoldSet(LAMBDA c, q : Pointers(s, r, c, q),
                              [n \in Note |-> IF n \in Used(s) THEN s.notes[n].ch ELSE NULL],
                              LAMBDA c : c, LAMBDA C : Max(C), Number)
    IN  [s EXCEPT !.notes = [n \in Note |-> IF rev.notes[n] = NULL THEN NULL
                                            ELSE [rev.notes[n] EXCEPT !.ch = ptr[n]]],
                  !.chan = [ch \in Channel |-> IF ch \in FileChannel
                                THEN [i \in DOMAIN lists[ch] |-> lists[ch][i][1]] ELSE @[ch]],
                  !.usage = [tr \in Track |-> [ch \in FileChannel |-> UsageAfter(s, r, tr, ch)]],
                  !.wheel = [ch \in Channel |-> IF ch \in FileChannel THEN rev.wheel[ch]
                                                ELSE @[ch]],
                  !.tip = r]

-----------------------------------------------------------------------------
Init == song \in Songs

(* A cell belongs to one track's tree, and while the last revision has it  *)
(* no other note gets it.                                                  *)
Free(n, tr) ==
    /\ n \notin Used(song)
    /\ \A r \in DOMAIN song.revs :
          song.revs[r].notes[n] # NULL => r # song.tip /\ song.revs[r].notes[n].track = tr

TrackInsert(n, tr, beg, end, p) ==
    /\ Free(n, tr)
    /\ song' = TrackInserted(song, n, tr, beg, end, p)

EraseNote(n) == n \in Used(song) /\ song' = Erased(song, n)

IsolateNote(n) == n \in Used(song) /\ song' = Isolated(song, n)

WheelInBounds(s) ==                                             \* bound
    \A ch \in Channel : Range(s.wheel[ch]) \subseteq Bend

NoteSetPitch(n, p) ==
    /\ n \in Used(song)
    /\ WheelInBounds(PitchSet(song, n, p))
    /\ song' = PitchSet(song, n, p)

CopyNote(n, d, tr, dt, p) ==
    /\ n \in Used(song) /\ Free(d, tr)
    /\ <<song.notes[n].on + dt, song.notes[n].off + dt>> \in Span      \* bound
    /\ WheelInBounds(Copied(song, n, d, tr, dt, p))
    /\ song' = Copied(song, n, d, tr, dt, p)

TrackClear(tr) ==
    song' = FoldLeft(Erased, song, SetToSeq({n \in Used(song) : song.notes[n].track = tr}))

FileFlatten == song' = Flattened(song).song

FileCommit ==
    /\ Len(song.revs) < Revs                                    \* bound
    /\ song' = Committed(song)

(* Undo, redo, or dropping what was not committed: bound, to revisions     *)
(* that are next to each other.                                            *)
Near(r) ==
    \/ r = song.tip
    \/ song.tip # 0 /\ (song.revs[r].parent = song.tip \/ song.revs[song.tip].parent = r)

FileUpdate(r) ==
    /\ Near(r)
    /\ LET s == TempsErased(song) IN
       \E lists \in {f \in [FileChannel -> UNION {ListsAfter(s, r, ch) : ch \in FileChannel}] :
                       \A ch \in FileChannel : f[ch] \in ListsAfter(s, r, ch)} :
           song' = Updated(s, r, lists)

Edit ==
    \/ \E n \in Note, tr \in Track, s \in Span, p \in Pitch : TrackInsert(n, tr, s[1], s[2], p)
    \/ \E n \in Note : EraseNote(n)
    \/ \E n \in Note : IsolateNote(n)
    \/ \E n \in Note, p \in Pitch : NoteSetPitch(n, p)
    \/ \E n, d \in Note, tr \in Track, dt \in Shift, p \in Pitch : CopyNote(n, d, tr, dt, p)
    \/ \E tr \in Track : TrackClear(tr)
    \/ FileFlatten
    \/ FileCommit

(* A note without a channel makes the next call that looks for its channel *)
(* fail: note_set_channel asserts that it has one.  In a tree that is not  *)
(* in order bst_find does not find the note.                               *)
InOrder(s, ch) ==
    \A i, j \in DOMAIN s.chan[ch] : i < j => ~Before(s, s.chan[ch][j], s.chan[ch][i])

Next ==
    /\ \A n \in Used(song) : song.notes[n].ch # NULL
    /\ \A ch \in Channel : InOrder(song, ch)
    /\ Edit \/ \E r \in DOMAIN song.revs : FileUpdate(r)

Spec == Init /\ [][Next]_song

(* Files that are never updated to another revision.                       *)
EditSpec == Init /\ [][Edit]_song

-----------------------------------------------------------------------------
(* What is asked of a song.                                                *)

(* Every note has its record, every tree holds notes, every map of the     *)
(* wheel goes from times to numbers.                                       *)
TypeOK ==
    /\ \A n \in Note : song.notes[n] \in Notes \cup {NULL}
    /\ song.chan \in [Channel -> Seq(Used(song))]
    /\ song.usage \in [Track -> [FileChannel -> Nat]]
    /\ song.temps \in [Track -> 0 .. Cardinality(Note)]
    /\ DOMAIN song.wheel = Channel
    /\ \A ch \in Channel :
          DOMAIN song.wheel[ch] \subseteq Time /\ Range(song.wheel[ch]) \subseteq Int

(* A note is in the tree of one channel, once, the channel it points to,   *)
(* and at its place in the order, where bst_find of note_set_channel will  *)
(* look for it, however often it was moved or given another pitch.         *)
TreesAgree ==
    /\ \A ch \in Channel :
        /\ \A n \in Used(song) :
            Cardinality({i \in DOMAIN song.chan[ch] : song.chan[ch][i] = n})
                = IF song.notes[n].ch = ch THEN 1 ELSE 0
        /\ InOrder(song, ch)

(* channel_usage, from which flattening takes the order of the channels it *)
(* tries and the player the channels it resets, counts the track's notes.  *)
UsageCounts ==
    \A tr \in Track, ch \in FileChannel :
        song.usage[tr][ch] =
            Cardinality({n \in Used(song) : song.notes[n].track = tr /\ song.notes[n].ch = ch})

Overlap(s, m, n) ==
    s.notes[m].on < s.notes[n].off /\ s.notes[n].on < s.notes[m].off

(* In a temporary channel a note sounds alone.  This is what lets the      *)
(* editing functions set the channel's controllers for one note.           *)
TempsAreExclusive ==
    \A m, n \in Used(song) :
        (m # n /\ song.notes[m].ch = song.notes[n].ch /\ Overlap(song, m, n))
            => song.notes[m].ch \in FileChannel

(* Notes that sound on one channel of the file at a time have one track,   *)
(* as the player's note_owner asserts (play.c:184), and different keys, or *)
(* the end of one would end both.                                          *)
ChannelsPlay ==
    \A m, n \in Used(song) :
        (m # n /\ song.notes[m].ch = song.notes[n].ch /\ Overlap(song, m, n))
            => /\ song.notes[m].track = song.notes[n].track
               /\ Midi[song.notes[m].pitch] # Midi[song.notes[n].pitch]

(* What is heard of a note: its key, and the wheel while it sounds.        *)
Heard(s, n) ==
    LET r == s.notes[n] IN
    <<Midi[r.pitch], [t \in r.on .. (r.off - 1) |-> Maps!Get(s.wheel[r.ch], 0, t)]>>

(* Flattening moves notes between channels, and controllers with them, but *)
(* is not heard, whether it succeeds or gives up halfway.  When it         *)
(* succeeds every note is on a channel of the file, and none has come to a *)
(* channel that its track's chanmask leaves out.                           *)
FlattenIsSilent ==
    LET f == Flattened(song) IN
    \A n \in Used(song) :
        LET from == song.notes[n].ch
            to == f.song.notes[n].ch
        IN  /\ Heard(f.song, n) = Heard(song, n)
            /\ to # from => to \in {<<0, c>> : c \in Mask[song.notes[n].track]}
            /\ f.ok => to \in FileChannel

Changed == {n \in Used(song) \cap Used(song') : Heard(song', n) # Heard(song, n)}

GivesPitch(m) ==
    \/ \E p \in Pitch : NoteSetPitch(m, p)
    \/ \E n \in Note, tr \in Track, dt \in Shift, p \in Pitch : CopyNote(n, m, tr, dt, p)

(* Inserting, erasing and isolating a note is not heard of any other note. *)
(* Changing a pitch is heard on the temporary channel of that note only,   *)
(* and not before it (module ControlMap's AddReachesNextChange).           *)
EditsAreLocal ==
    [][\/ \A n \in Changed : \E m \in Used(song') :
            /\ GivesPitch(m)
            /\ song'.notes[m].ch = song'.notes[n].ch
            /\ song'.notes[m].on <= song'.notes[n].on
       \/ \E r \in DOMAIN song.revs : FileUpdate(r)]_song

(* Every note has a channel, as note_set_channel asserts (note.c:85),      *)
(* whichever revisions the file was updated to.                            *)
NotesHaveChannels == \A n \in Used(song) : song.notes[n].ch # NULL

(* An update that takes a note back to a channel with a lower number sets  *)
(* the note's channel when it comes to that one, and unsets it when it     *)
(* comes to the other; and so does the list of one channel for a note that *)
(* has come back to it in another way.                                     *)
KeepsChannels(r) ==
    \A n \in Used(song) \cap Used(song.revs[r]) :
        LET now == song.notes[n]
            then == song.revs[r].notes[n]
        IN  /\ now.ch \in FileChannel => now.ch[2] <= then.ch[2]
            /\ now.ch = then.ch /\ now.since # then.since =>
                  {<<n, now.since>>, <<n, then.since>>}
                      \cap ToSet(Nodes(song.revs[song.tip], now.ch)) # {}

(* bst_find finds every note in the tree of its channel, as insert_note    *)
(* (note.c:17) and note_reset_pitch (note.c:131) assert.                   *)
NotesAreFound == \A ch \in Channel : InOrder(song, ch)

(* An update files a channel's nodes while those that are to leave are     *)
(* still there, with the data that track_update has changed: a note that   *)
(* gets its old key back hangs at the place of the one it had.  That does  *)
(* no harm where no other note has its times.                              *)
KeepsOrder(r) ==
    LET tip == song.revs[song.tip]
        rev == song.revs[r]
    IN  \A n \in Used(tip) \cap Used(rev), m \in Used(rev) :
            /\ Midi[tip.notes[n].pitch] # Midi[rev.notes[n].pitch]
            /\ rev.notes[m].on = rev.notes[n].on /\ rev.notes[m].off = rev.notes[n].off
            => m = n \/ rev.notes[m].ch # tip.notes[n].ch

(* Otherwise a revision comes back whole: each of its notes is in the      *)
(* channel it was in, which is the one it points to, and is heard as it    *)
(* was, whatever was edited, flattened or committed since; and no other    *)
(* note is left.                                                           *)
UpdateRestores ==
    [][\A r \in DOMAIN song.revs :
         song'.revs = song.revs /\ FileUpdate(r) /\ KeepsChannels(r) =>
             LET rev == song.revs[r] IN
             /\ Used(song') = Used(rev)
             /\ \A n \in Used(rev) : /\ song'.notes[n].ch = rev.notes[n].ch
                                      /\ n \in Range(song'.chan[rev.notes[n].ch])
                                      /\ Heard(song', n) = Heard(rev, n)]_song
=============================================================================
