------------------------------- MODULE Import -------------------------------
(***************************************************************************)
(* src/import.c: reading a standard MIDI file.  A note's beginning and its *)
(* end are two events, and the end may be in another track than the        *)
(* beginning: in one that was read before, or in one that comes later.     *)
(*                                                                         *)
(* off() ends the note that its own track has begun.  If there is none it  *)
(* looks for a finished note of the channel that sounds at that time and   *)
(* shortens it; if there is none of those either, the note-off is kept on  *)
(* a stack until all tracks were read.                                     *)
(*                                                                         *)
(* Which note a lookup meets first depends on the shape of the channel's   *)
(* tree, so the trees are those of module AvlTree, with upd() of channel.c;*)
(* the controllers are the maps of ControlMap.                             *)
(*                                                                         *)
(* A chunk is what its bytes parse to.  A chunk whose bytes do not parse   *)
(* to the end is one that ends earlier.  The velocity of a note-off is its *)
(* number in the file, so that all of them differ (and are less than that  *)
(* of a note that ends without one).                                       *)
(***************************************************************************)
EXTENDS Integers, SequencesExt

CONSTANTS
    Number,     \* the numbers of the channels
    Drums,      \* those in CHANMASK_DRUMS
    FILE,       \* the file itself, which has controllers as a channel has
    Key,        \* the MIDI pitches
    Ctrl,       \* the controllers
    Note,       \* the nodes of the tracks' trees: numbers
    HEAD,
    NULL,
    Chunks,     \* bound: how many tracks the file may say it has
    Dtime,      \* bound: the delta times
    Value,      \* bound: the values of controllers
    Tuned,      \* bound: the pitches given by a proprietary event
    MaxEvents   \* bound: how many events the tracks have, their ends included

ASSUME NumbersAssumption ==
    /\ Number \subseteq Nat /\ Drums \subseteq Number /\ FILE \notin Number
    /\ Key \subseteq Nat /\ Tuned \subseteq Nat /\ Note \subseteq Nat
    /\ Dtime \subseteq Nat /\ Chunks \in Nat /\ MaxEvents \in Nat

VARIABLES
    ctx,        \* import_ctx_t, and the file it builds
    status,     \* "between" chunks, "reading" one, "replaying" the stack,
                \* "done" or, after a chunk that is missing, "undefined"
    log         \* the events read so far, with their times

vars == <<ctx, status, log>>

Default == 0
DEFAULT_VELOCITY == 64

Tree == INSTANCE AvlTree
            WITH tree <- ctx, Node <- Note, Channel <- TRUE,
                 Holds <- [n \in Note |-> {}]

Maps == INSTANCE ControlMap
            WITH maps <- ctx, Map <- Number, Time <- Nat, Value <- Int, MaxChanges <- 0,
                 Default <- [ch \in Number |-> Default]

(* file_init, and what the header says: chunks.  track is the number of    *)
(* the chunk that is read.                                                 *)
NewFile ==
    [chunks  |-> 0,
     notes   |-> [n \in Note |-> NULL],
     tree    |-> [ch \in Number |-> Tree!NoNodes],
     ctrl    |-> [ch \in Number \cup {FILE} |-> [c \in Ctrl |-> <<>>]],
     tracks  |-> <<>>,
     mask    |-> <<>>,
     track   |-> 0,
     time    |-> 0,
     on      |-> [ch \in Number |-> [k \in Key |-> NULL]],
     offs    |-> <<>>,
     pitch   |-> -1,
     drums   |-> FALSE,
     dangling   |-> FALSE,
     compatible |-> TRUE]

Used(s) == {n \in Note : s.notes[n] # NULL}

-----------------------------------------------------------------------------
(* insert_note and erase_note, as far as the file's channels go.           *)
TreeKey(r) == [on |-> r.on, off |-> r.off, midipitch |-> r.key]

InsertNote(s, r) ==
    LET n == Min(Note \ (Used(s) \cup UNION {s.tree[ch].inTree : ch \in Number}))
    IN  [s EXCEPT !.notes[n] = r,
                  !.tree[r.ch] = Tree!InsertNode([@ EXCEPT !.data[n] = TreeKey(r)], n)]

(* bst_find takes a note that compares equal, and it may be another one:   *)
(* then the channel keeps a node whose note is gone.  What is done with it *)
(* is undefined, and nothing is asked of it any more.                      *)
EraseNote(s, n) ==
    LET r == s.notes[n]
        t == s.tree[r.ch]
        m == Tree!Find(t, TreeKey(r))
    IN  [s EXCEPT !.notes[n] = NULL,
                  !.tree[r.ch] = Tree!Freed(Tree!EraseNode(t, m).tree, {m}),
                  !.dangling = @ \/ m # n]

-----------------------------------------------------------------------------
(* channel_range with off_clb: the notes it may end, in the order met; the *)
(* callback stops the walk at the first of them.                           *)
Sounding(s, o) ==
    SelectSeq(Tree!InRange(s.tree[o.ch], o.time - 1, o.time),
              LAMBDA n : s.notes[n] # NULL /\ s.notes[n].key = o.key)

\* Mutant: a note is never made shorter once it has its note-off.
MayEndUnoffed(r, o) == ~r.offed /\ o.offed

(* off_clb: a note gets shorter, or its real note-off.                     *)
MayEnd(r, o) == o.time < r.off \/ (~r.offed /\ o.offed)

Ended(s, n, o) ==
    LET r == s.notes[n] IN
    IF MayEnd(r, o)
    THEN InsertNote(EraseNote(s, n),
                    [r EXCEPT !.off = o.time, !.vel = o.vel, !.offed = o.offed])
    ELSE s

Pushed(s, o) == [s EXCEPT !.offs = Append(@, o)]

EndedElsewhere(s, found, o) ==
    IF found = <<>> THEN Pushed(s, o) ELSE Ended(s, Head(found), o)

(* off: ch and key at the current time.                                    *)
Off(s, ch, key, vel, offed) ==
    LET begun == s.on[ch][key]
        closed == [s EXCEPT !.on[ch][key] = NULL]
        o == [ch |-> ch, key |-> key, time |-> s.time, vel |-> vel, offed |-> offed]
        r == [track |-> s.track, ch |-> ch, key |-> key, pitch |-> begun.pitch,
              on |-> begun.time, off |-> s.time, vel |-> vel, offed |-> offed]
    IN  IF begun # NULL
        THEN IF begun.time # s.time THEN InsertNote(closed, r) ELSE closed
        ELSE EndedElsewhere(s, Sounding(s, o), o)

-----------------------------------------------------------------------------
(* The handlers of an event e.                                             *)
NoteOff(s, e) == Off(s, e.ch, e.key, e.vel, TRUE)

(* v_note_on with velocity 0.                                              *)
NoteOnSilent(s, e) == Off(s, e.ch, e.key, DEFAULT_VELOCITY, FALSE)

\* Mutant: a note-on takes the place of the note before it, unended.
NoteOnOver(s, e) == [s EXCEPT !.on[e.ch][e.key] = NULL]

NoteOnEnds(s, e) == NoteOnSilent(s, e)

NoteBegun(s, e) ==
    [s EXCEPT !.on[e.ch][e.key] =
                  [time |-> s.time, pitch |-> IF s.pitch >= 0 THEN s.pitch ELSE e.key],
              !.pitch = -1,
              !.drums = @ \/ e.ch \in Drums]

NoteOn(s, e) == NoteBegun(NoteOnEnds(s, e), e)

(* v_controller, v_program, v_pitch_wheel, meta: map_set.                  *)
ControlSet(s, e) ==
    [s EXCEPT !.ctrl[e.ch][e.ctrl] = Maps!Set(@, Default, s.time, e.value)]

(* m_vomid, PROPR_PITCH: the first one counts.                             *)
PitchGiven(s, e) == IF s.pitch < 0 THEN [s EXCEPT !.pitch = e.pitch] ELSE s

(* m_eot: every note of the track that is begun ends, those of the first   *)
(* channel first.                                                          *)
Begun(s) == {p \in Number \X Key : s.on[p[1]][p[2]] # NULL}

Eot(s) ==
    FoldLeft(LAMBDA t, p : Off(t, p[1], p[2], DEFAULT_VELOCITY, FALSE), s,
             SetToSortSeq(Begun(s), LAMBDA p, q : p[1] < q[1] \/ (p[1] = q[1] /\ p[2] < q[2])))

Passed(s, e) == [s EXCEPT !.time = @ + e.delta]

Handled(s, e) ==
    CASE e.type = "on"     -> NoteOn(Passed(s, e), e)
      [] e.type = "silent" -> NoteOnSilent(Passed(s, e), e)
      [] e.type = "off"    -> NoteOff(Passed(s, e), e)
      [] e.type = "ctrl"   -> ControlSet(Passed(s, e), e)
      [] e.type = "pitch"  -> PitchGiven(Passed(s, e), e)
      [] e.type = "eot"    -> Eot(Passed(s, e))

-----------------------------------------------------------------------------
(* import_track before and after the chunk's events.                       *)
\* Mutant: a track's time goes on from that of the track before.
TrackBegunLate(s) ==
    [s EXCEPT !.track = @ + 1, !.tracks = Append(@, s.track + 1),
              !.on = NewFile.on, !.pitch = -1, !.drums = FALSE]

TrackBegun(s) ==
    [s EXCEPT !.track = @ + 1, !.tracks = Append(@, s.track + 1),
              !.time = 0, !.on = NewFile.on, !.pitch = -1, !.drums = FALSE]

(* The first track is destroyed if it has no notes.                        *)
Kept(s) ==
    IF s.track = 1 /\ Used(s) = {} THEN [s EXCEPT !.tracks = <<>>]
    ELSE [s EXCEPT !.mask = Append(@, IF s.drums THEN Drums ELSE Number \ Drums)]

TrackEnded(s) == Kept(Eot(s))

(* What is left on the stack, last come, first served.                     *)
EndedByLate(s, found, o) == IF found = <<>> THEN s ELSE Ended(s, Head(found), o)

Replayed(s) ==
    EndedByLate([s EXCEPT !.offs = Front(@)], Sounding(s, Last(s.offs)), Last(s.offs))

(* file_is_compatible: every track has a channel of its own.               *)
ChannelsUsed(s, tr) == {s.notes[n].ch : n \in {n \in Used(s) : s.notes[n].track = tr}}

IsCompatible(s) ==
    \A tr, other \in Range(s.tracks) :
        IF tr = other THEN Cardinality(ChannelsUsed(s, tr)) <= 1
        ELSE ChannelsUsed(s, tr) \cap ChannelsUsed(s, other) = {}

(* reset_marks, and what file_import_f leaves in the file.                 *)
Finished(s) ==
    [s EXCEPT !.notes = [n \in Note |-> IF n \in Used(s) THEN [@[n] EXCEPT !.offed = FALSE]
                                        ELSE NULL],
              !.compatible = IsCompatible(s)]

-----------------------------------------------------------------------------
Init ==
    /\ \E n \in 1 .. Chunks : ctx = [NewFile EXCEPT !.chunks = n]
    /\ status = "between" /\ log = <<>>

TrackBegins ==
    /\ status = "between" /\ ctx.track < ctx.chunks
    /\ ctx' = TrackBegun(ctx)
    /\ status' = "reading"
    /\ UNCHANGED log

(* An event as it is logged: with its place, and the sum of the deltas.    *)
Logged(e) ==
    LET since == IF log # <<>> /\ Last(log).track = ctx.track THEN Last(log).time ELSE 0
    IN  [track |-> ctx.track, time |-> since + e.delta, event |-> e]

Reading ==
    /\ status = "reading"
    /\ Len(log) + ctx.chunks - ctx.track + 1 < MaxEvents       \* bound

Read(e, s) ==
    /\ ctx' = s
    /\ log' = Append(log, Logged(e))
    /\ UNCHANGED status

ReadNoteOn(dt, ch, key) ==
    LET e == [type |-> "on", delta |-> dt, ch |-> ch, key |-> key] IN
    Reading /\ Read(e, NoteOn(Passed(ctx, e), e))

ReadSilentNoteOn(dt, ch, key) ==
    LET e == [type |-> "silent", delta |-> dt, ch |-> ch, key |-> key] IN
    Reading /\ Read(e, NoteOnSilent(Passed(ctx, e), e))

ReadNoteOff(dt, ch, key) ==
    LET e == [type |-> "off", delta |-> dt, ch |-> ch, key |-> key, vel |-> Len(log) + 1] IN
    Reading /\ Read(e, NoteOff(Passed(ctx, e), e))

ReadController(dt, ch, c, v) ==
    LET e == [type |-> "ctrl", delta |-> dt, ch |-> ch, ctrl |-> c, value |-> v] IN
    Reading /\ Read(e, ControlSet(Passed(ctx, e), e))

ReadPitch(dt, p) ==
    LET e == [type |-> "pitch", delta |-> dt, pitch |-> p] IN
    Reading /\ Read(e, PitchGiven(Passed(ctx, e), e))

ReadEot(dt) ==
    LET e == [type |-> "eot", delta |-> dt] IN
    Reading /\ Read(e, Eot(Passed(ctx, e)))

(* The end of the chunk, or of what can be parsed of it.                   *)
TrackEnds ==
    /\ status = "reading"
    /\ ctx' = TrackEnded(ctx)
    /\ log' = Append(log, Logged([type |-> "eot", delta |-> 0]))
    /\ status' = "between"

(* read_chunk fails: what is freed was freed before.                       *)
TrackMissing ==
    /\ status = "between" /\ ctx.track < ctx.chunks
    /\ status' = "undefined"
    /\ UNCHANGED <<ctx, log>>

AllRead ==
    /\ status = "between" /\ ctx.track = ctx.chunks
    /\ status' = "replaying"
    /\ UNCHANGED <<ctx, log>>

Replay ==
    /\ status = "replaying" /\ ctx.offs # <<>>
    /\ ctx' = Replayed(ctx)
    /\ UNCHANGED <<status, log>>

Finish ==
    /\ status = "replaying" /\ ctx.offs = <<>>
    /\ ctx' = Finished(ctx)
    /\ status' = "done"
    /\ UNCHANGED log

Next ==
    \/ TrackBegins
    \/ \E dt \in Dtime, ch \in Number, key \in Key :
          \/ ReadNoteOn(dt, ch, key)
          \/ ReadSilentNoteOn(dt, ch, key)
          \/ ReadNoteOff(dt, ch, key)
    \/ \E dt \in Dtime, ch \in Number \cup {FILE}, c \in Ctrl, v \in Value :
          ReadController(dt, ch, c, v)
    \/ \E dt \in Dtime, p \in Tuned : ReadPitch(dt, p)
    \/ \E dt \in Dtime : ReadEot(dt)
    \/ TrackEnds
    \/ TrackMissing
    \/ AllRead
    \/ Replay
    \/ Finish

Spec == Init /\ [][Next]_vars

-----------------------------------------------------------------------------
(* What the events that were read say.                                     *)
IsNoteEvent(i) == log[i].event.type \in {"on", "silent", "off"}

SameKey(i, j) ==
    /\ IsNoteEvent(i) /\ IsNoteEvent(j)
    /\ log[i].event.ch = log[j].event.ch /\ log[i].event.key = log[j].event.key

SameTrack(i, j) == log[i].track = log[j].track

(* The event that ends, in its own track, what note-on i begins.           *)
OwnEnd(i) ==
    Min({j \in (i + 1) .. Len(log) :
            SameTrack(i, j) /\ (SameKey(i, j) \/ log[j].event.type = "eot")})

NoteOns(ch, key) ==
    {i \in DOMAIN log : /\ log[i].event.type = "on"
                        /\ log[i].event.ch = ch /\ log[i].event.key = key
                        /\ log[OwnEnd(i)].time # log[i].time}

(* A note event with nothing to end in its own track.                      *)
Loose(j) ==
    /\ IsNoteEvent(j)
    /\ \A i \in 1 .. (j - 1) :
          log[i].event.type = "on" /\ SameTrack(i, j) /\ SameKey(i, j) => OwnEnd(i) # j

(* What may end the note begun by i: the end in its own track, and before  *)
(* that whatever its key gets from elsewhere.                              *)
EndedBy(i) ==
    {OwnEnd(i)} \cup {j \in DOMAIN log : /\ SameKey(i, j) /\ Loose(j)
                                        /\ log[i].time < log[j].time
                                        /\ log[j].time <= log[OwnEnd(i)].time}

EndOf(i) == Min({log[j].time : j \in EndedBy(i)})

(* The velocities of the note-offs that end it at that time.               *)
Velocities(i) ==
    LET offs == {j \in EndedBy(i) : log[j].time = EndOf(i) /\ log[j].event.type = "off"}
    IN  IF offs = {} THEN {DEFAULT_VELOCITY} ELSE {log[j].event.vel : j \in offs}

PitchOf(i) ==
    LET since == {j \in 1 .. (i - 1) : /\ SameTrack(i, j) /\ log[j].event.type = "pitch"
                                       /\ \A k \in j .. (i - 1) : log[k].event.type # "on"}
    IN  IF since = {} THEN log[i].event.key ELSE log[Min(since)].event.pitch

OfKey(ch, key) ==
    {ctx.notes[n] : n \in {n \in Used(ctx) : ctx.notes[n].ch = ch /\ ctx.notes[n].key = key}}

IsRead(i, r) == r.track = log[i].track /\ r.on = log[i].time

(* No two tracks hold the key at a time, as far as each of them says.      *)
Separate(ch, key) ==
    \A i, j \in NoteOns(ch, key) :
        SameTrack(i, j) \/ log[OwnEnd(i)].time <= log[j].time
                       \/ log[OwnEnd(j)].time <= log[i].time

(* A note ends at the first event of any track that ends it, wherever in   *)
(* the file that track is, and has the velocity of a note-off if one of    *)
(* the events that end it then is a real one.                              *)
NotesArePaired ==
    status = "done" /\ ~ctx.dangling =>
        \A ch \in Number, key \in Key :
            Separate(ch, key) =>
                \A i \in NoteOns(ch, key) : \A r \in OfKey(ch, key) :
                    IsRead(i, r) => /\ r.off = EndOf(i)
                                    /\ r.vel \in Velocities(i)

(* Whatever the tracks do to each other, every note-on becomes a note - of *)
(* its track, with its pitch -, ends where an event of its key does, and   *)
(* never later than its own track says; and there are no other notes.      *)
NotesAreRead ==
    status = "done" /\ ~ctx.dangling =>
        \A ch \in Number, key \in Key :
            /\ \A i \in NoteOns(ch, key) : \E r \in OfKey(ch, key) :
                  /\ IsRead(i, r) /\ r.pitch = PitchOf(i)
                  /\ r.off \in {log[j].time : j \in EndedBy(i)}
            /\ \A r \in OfKey(ch, key) : \E i \in NoteOns(ch, key) : IsRead(i, r)

(* The value of a controller, at any time, is the one set last before it   *)
(* by the track that sets it; map_set drops changes that change nothing,   *)
(* which a second track could have made count.                             *)
Sets(ch, c) ==
    {i \in DOMAIN log : /\ log[i].event.type = "ctrl"
                        /\ log[i].event.ch = ch /\ log[i].event.ctrl = c}

ControllersAreRead ==
    status = "done" =>
        \A ch \in Number \cup {FILE}, c \in Ctrl :
            (\A i, j \in Sets(ch, c) : SameTrack(i, j)) =>
                \A t \in {log[i].time : i \in DOMAIN log} :
                    LET past == {i \in Sets(ch, c) : log[i].time <= t} IN
                    Maps!Get(ctx.ctrl[ch][c], Default, t)
                        = IF past = {} THEN Default ELSE log[Max(past)].event.value
=============================================================================
