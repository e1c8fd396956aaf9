------------------------------- MODULE Player -------------------------------
(***************************************************************************)
(* src/play.c: a song is played by one loop over a heap of events.  Every  *)
(* controller and every track has one event in the heap, which moves on to *)
(* its next change or note; every sounding note has one for its end.       *)
(* The same loop feeds an output device and, by src/export.c, the chunks   *)
(* of a MIDI file, so both are here: what the device was told, and what    *)
(* was written to each track's chunk.                                      *)
(*                                                                         *)
(* The heap is a set: of events with equal time and priority, either may   *)
(* be on top.  A controller map is a function from times to values, as in  *)
(* ControlMap.  The file's own controllers belong to no channel; they are  *)
(* those of FILE, whose events go to track FILE, the one in front.         *)
(***************************************************************************)
EXTENDS Integers, SequencesExt

CONSTANTS
    Channel,    \* the channels of the file, by number
    TEMP,       \* a track's temporary channel, whose number is negative
    FILE,       \* no channel, no track: the file itself
    Track,
    Ctrl,       \* the controllers
    Pitch,
    Songs       \* bound: what is played, and from which time

Time == Nat
Sender == Channel \cup {FILE}
Noted == [track : Track, ch : Channel \cup {TEMP}, pitch : Pitch, on : Time, off : Time]

(* A song: its notes, its changes[ch][ctrl], the time to start from.       *)
ASSUME SongAssumption ==
    \A s \in Songs :
        /\ s.notes \subseteq Noted
        /\ \A n \in s.notes : n.on < n.off
        /\ \A ch \in Sender, ctrl \in Ctrl : DOMAIN s.changes[ch][ctrl] \subseteq Time
        /\ s.start \in Time
ASSUME NamesAssumption ==
    /\ Channel \subseteq Nat /\ TEMP \in Int \ Nat /\ Pitch \subseteq Nat
    /\ FILE \notin Channel \cup Track

(* CHANNELS, MAX_TRACKS, NOTES, FCTRLS and CCTRLS are what the sum in      *)
(* play()'s array is made of.                                              *)
ASSUME SizesAssumption ==
    IsFiniteSet(Channel) /\ IsFiniteSet(Track) /\ IsFiniteSet(Pitch) /\ IsFiniteSet(Ctrl)

(* What can_move lets onto one channel of the file: notes that meet there  *)
(* are compatible, as far as track and pitch go.  So are the songs whose   *)
(* notes were all put on their channels by track_flatten.                  *)
Overlap(m, n) == m # n /\ m.on < n.off /\ n.on < m.off

Flat(N) ==
    /\ \A n \in N : n.ch \in Channel
    /\ \A m, n \in N : Overlap(m, n) /\ m.ch = n.ch
                          => m.track = n.track /\ m.pitch # n.pitch

VARIABLES
    song,       \* the file and the time it is played from; never changes
    heap,       \* ctx.ev_heap
    time,       \* the time played up to
    value,      \* ctx.fctrl, ctx.cctrl: the values sent
    cache,      \* write_cache: the time of a change kept back, or -1
    notes,      \* ctx.channel_notes
    owner,      \* ctx.channel_owner
    status,     \* "playing", "ended" or "stopped"
    unset,      \* whether process_event looked at a length nobody set
    sounding,   \* the device: the pitches that sound on each channel
    heard,      \* the device: each controller's value
    dtime,      \* export_ctx_t: the time since a chunk's last event
    chunk       \* what was written for each track, in delta times

player == <<song, heap, time, value, cache, notes, owner, status, unset>>
vars == <<player, sounding, heard, dtime, chunk>>

Default == 0

-----------------------------------------------------------------------------
(* Events.                                                                 *)
\* Mutant: a note ends after the notes that begin when it ends.
PrioOffLast == [off |-> 3, ctrl |-> 0, on |-> 1, file |-> 2]

Prio == [off |-> -1, ctrl |-> 0, on |-> 1, file |-> 2]

CtrlEvent(ch, ctrl, t) ==
    [kind |-> IF ch = FILE THEN "file" ELSE "ctrl", time |-> t, ch |-> ch, ctrl |-> ctrl]
OnEvent(n) == [kind |-> "on", time |-> n.on, note |-> n]
OffEvent(n) == [kind |-> "off", time |-> n.off, note |-> n]

Before(e, f) == e.time < f.time \/ (e.time = f.time /\ Prio[e.kind] < Prio[f.kind])

Top == {e \in heap : \A f \in heap : ~Before(f, e)}

(* The first of the changes in T, as a set of none or one event.           *)
EventAt(ch, ctrl, T) == IF T = {} THEN {} ELSE {CtrlEvent(ch, ctrl, Min(T))}

(* push_map: the change that holds at the start, else the first one.       *)
\* Mutant: only changes from the start on are played.
FirstChangeLate(s, ch, ctrl) ==
    EventAt(ch, ctrl, {t \in DOMAIN s.changes[ch][ctrl] : t >= s.start})

FirstChange(s, ch, ctrl) ==
    LET all == DOMAIN s.changes[ch][ctrl]
        past == {t \in all : t <= s.start}
    IN  EventAt(ch, ctrl, IF past # {} THEN {Max(past)} ELSE all)

\* Mutant: the event stays where it is.
NextChangeSame(e) ==
    EventAt(e.ch, e.ctrl, {t \in DOMAIN song.changes[e.ch][e.ctrl] : t >= e.time})

NextChange(e) ==
    EventAt(e.ch, e.ctrl, {t \in DOMAIN song.changes[e.ch][e.ctrl] : t > e.time})

(* The order of a track's notes: note_cmp, and for notes that compare      *)
(* equal, which the tree keeps in the order they came, that of channels.   *)
NoteBefore(m, n) ==
    \/ m.on < n.on
    \/ m.on = n.on /\ m.off < n.off
    \/ m.on = n.on /\ m.off = n.off /\ m.pitch < n.pitch
    \/ m.on = n.on /\ m.off = n.off /\ m.pitch = n.pitch /\ m.ch < n.ch

First(N) == {OnEvent(n) : n \in {n \in N : \A m \in N : ~NoteBefore(m, n)}}

\* Mutant: all of a track's notes are pushed at once.
AllNotes(s, tr) == {OnEvent(n) : n \in {n \in s.notes : n.track = tr /\ n.on >= s.start}}

FirstNote(s, tr) == First({n \in s.notes : n.track = tr /\ n.on >= s.start})

NextNote(e) ==
    First({n \in song.notes : n.track = e.note.track /\ NoteBefore(e.note, n)})

StartHeap(s) ==
    (UNION {FirstChange(s, c[1], c[2]) : c \in Sender \X Ctrl})
        \cup (UNION {FirstNote(s, tr) : tr \in Track})

Init ==
    /\ song \in Songs
    /\ heap = StartHeap(song)
    /\ time = song.start
    /\ value = [ch \in Sender |-> [ctrl \in Ctrl |-> Default]]
    /\ cache = [ch \in Channel |-> [ctrl \in Ctrl |-> -1]]
    /\ notes = [ch \in Channel |-> 0]
    /\ owner = [ch \in Channel |-> FILE]
    /\ status = "playing"
    /\ unset = FALSE
    /\ sounding = [ch \in Channel |-> {}]
    /\ heard = [ch \in Sender |-> [ctrl \in Ctrl |-> Default]]
    /\ dtime = [tr \in Track \cup {FILE} |-> 0]
    /\ chunk = [tr \in Track \cup {FILE} |-> <<>>]

-----------------------------------------------------------------------------
(* tevent_clb of export.c, for the messages ms in their order: the first   *)
(* one carries the time since the track's last event.                      *)
\* Mutant: the time is not set back to 0.
TimeKept(tr, ms) == dtime

TimeWritten(tr, ms) == IF ms = <<>> THEN dtime ELSE [dtime EXCEPT ![tr] = 0]

Write(tr, ms) ==
    /\ chunk' = [chunk EXCEPT ![tr] =
                    @ \o [i \in DOMAIN ms |-> [delta |-> IF i = 1 THEN dtime[tr] ELSE 0,
                                               msg |-> ms[i]]]]
    /\ dtime' = TimeWritten(tr, ms)

CtrlMsg(ch, ctrl, v) == [type |-> "ctrl", ch |-> ch, ctrl |-> ctrl, value |-> v]
NoteMsg(type, n) == [type |-> type, ch |-> n.ch, pitch |-> n.pitch]

ChangedTo(e) == song.changes[e.ch][e.ctrl][e.time]

(* write_ctrl, on a channel where nothing sounds: the change is kept back. *)
KeepBack(e) ==
    /\ e.kind = "ctrl" /\ notes[e.ch] = 0
    /\ cache' = [cache EXCEPT ![e.ch][e.ctrl] = e.time]
    /\ UNCHANGED <<value, notes, owner, status, unset, sounding, heard, dtime, chunk>>

(* write_ctrl, elsewhere: sent to the track that owns the channel.         *)
SendsNow(e) == e.kind = "file" \/ (e.kind = "ctrl" /\ notes[e.ch] # 0)

SendCtrl(e) ==
    /\ SendsNow(e)
    /\ value[e.ch][e.ctrl] # ChangedTo(e)
    /\ value' = [value EXCEPT ![e.ch][e.ctrl] = ChangedTo(e)]
    /\ heard' = [heard EXCEPT ![e.ch][e.ctrl] = ChangedTo(e)]
    /\ Write(IF e.kind = "file" THEN FILE ELSE owner[e.ch],
             <<CtrlMsg(e.ch, e.ctrl, ChangedTo(e))>>)
    /\ UNCHANGED <<cache, notes, owner, status, unset, sounding>>

(* write_ctrl with the value that was sent already: it writes no message   *)
(* and does not set its length, so that process_event may take what the    *)
(* buffer has for one.                                                     *)
SameCtrl(e) ==
    /\ SendsNow(e)
    /\ value[e.ch][e.ctrl] = ChangedTo(e)
    /\ unset' = TRUE
    /\ \E ms \in {<<>>, <<[type |-> "garbage"]>>} :
          Write(IF e.kind = "file" THEN FILE ELSE owner[e.ch], ms)
    /\ UNCHANGED <<value, cache, notes, owner, status, sounding, heard>>

(* flush_cctrl_cache: the controllers to send before a note on channel ch. *)
Flushed(ch) ==
    {ctrl \in Ctrl : /\ cache[ch][ctrl] # -1
                     /\ song.changes[ch][ctrl][cache[ch][ctrl]] # value[ch][ctrl]}

\* Mutant: what was kept back is dropped.
FlushDropped(ch, old) == old

Flush(ch, old) ==
    [ctrl \in Ctrl |-> IF ctrl \in Flushed(ch)
                       THEN song.changes[ch][ctrl][cache[ch][ctrl]] ELSE old[ctrl]]

(* The assert()s of write_noteon.                                          *)
NoteAsserts(n) ==
    /\ n.ch \in Channel
    /\ notes[n.ch] # 0 => owner[n.ch] = n.track

FirstOnChannel(e) ==
    /\ notes[e.note.ch] = 0
    /\ owner' = [owner EXCEPT ![e.note.ch] = e.note.track]
    /\ value' = [value EXCEPT ![e.note.ch] = Flush(e.note.ch, value[e.note.ch])]
    /\ heard' = [heard EXCEPT ![e.note.ch] = Flush(e.note.ch, heard[e.note.ch])]
    /\ cache' = [cache EXCEPT ![e.note.ch] = [ctrl \in Ctrl |-> -1]]
    /\ LET sent == SetToSeq(Flushed(e.note.ch))
           ms == [i \in DOMAIN sent |->
                     CtrlMsg(e.note.ch, sent[i], value'[e.note.ch][sent[i]])]
       IN  Write(e.note.track, Append(ms, NoteMsg("on", e.note)))

NotFirstOnChannel(e) ==
    /\ notes[e.note.ch] # 0
    /\ Write(e.note.track, <<NoteMsg("on", e.note)>>)
    /\ UNCHANGED <<value, heard, cache, owner>>

NoteOn(e) ==
    /\ e.kind = "on"
    /\ NoteAsserts(e.note)
    /\ FirstOnChannel(e) \/ NotFirstOnChannel(e)
    /\ sounding' = [sounding EXCEPT ![e.note.ch] = @ \cup {e.note.pitch}]
    /\ notes' = [notes EXCEPT ![e.note.ch] = @ + 1]
    /\ UNCHANGED <<status, unset>>

NoteOff(e) ==
    /\ e.kind = "off"
    /\ sounding' = [sounding EXCEPT ![e.note.ch] = @ \ {e.note.pitch}]
    /\ notes' = [notes EXCEPT ![e.note.ch] = @ - 1]
    /\ Write(e.note.track, <<NoteMsg("off", e.note)>>)
    /\ UNCHANGED <<value, heard, cache, owner, status, unset>>

(* move_on, and the end of a note, pushed by write_noteon.                 *)
Successors(e) ==
    CASE e.kind = "on"  -> NextNote(e) \cup {OffEvent(e.note)}
      [] e.kind = "off" -> {}
      [] OTHER          -> NextChange(e)

MoveOn(e) == heap' = (heap \ {e}) \cup Successors(e)

Process ==
    /\ status = "playing"
    /\ \E e \in Top :
         /\ e.time <= time
         /\ KeepBack(e) \/ SendCtrl(e) \/ SameCtrl(e) \/ NoteOn(e) \/ NoteOff(e)
         /\ MoveOn(e)
    /\ UNCHANGED <<song, time>>

(* dtime_clb: the caller waits, or asks to stop.                           *)
Wait ==
    /\ status = "playing"
    /\ \E e \in Top :
         /\ e.time > time
         /\ time' = e.time
         /\ dtime' = [tr \in DOMAIN dtime |-> dtime[tr] + (e.time - time)]
    /\ UNCHANGED <<song, heap, value, cache, notes, owner, status, unset,
                   sounding, heard, chunk>>

Stop ==
    /\ status = "playing"
    /\ \E e \in Top : e.time > time
    /\ status' = "stopped"
    /\ UNCHANGED <<song, heap, time, value, cache, notes, owner, unset, sounding,
                   heard, dtime, chunk>>

End ==
    /\ status = "playing"
    /\ heap = {}
    /\ status' = "ended"
    /\ UNCHANGED <<song, heap, time, value, cache, notes, owner, unset, sounding,
                   heard, dtime, chunk>>

Next == Process \/ Wait \/ Stop \/ End

(* The loop is the caller's thread, and the callback returns.              *)
Spec == Init /\ [][Next]_vars /\ WF_vars(Next)

-----------------------------------------------------------------------------
(* The assert()s of write_noteon hold: notes are in channels of the file,  *)
(* and no two tracks sound on one channel at a time.  An event for which   *)
(* they do not hold is not processed.                                      *)
NeverAborts ==
    \A e \in Top : status = "playing" /\ e.time <= time /\ e.kind = "on"
                      => NoteAsserts(e.note)

(* process_event never looks at a length that write_ctrl did not set.      *)
LengthsSet == ~unset

Played == {n \in song.notes : n.on >= song.start}

(* The value of a controller at time t, as ControlMap has it.              *)
ValueAt(c, t) ==
    LET past == {s \in DOMAIN c : s <= t} IN IF past = {} THEN Default ELSE c[Max(past)]

(* All that is due at this time was processed.                             *)
CaughtUp == \A e \in heap : e.time > time

(* Whatever sounds, sounds with the controllers the file has for it: what  *)
(* was kept back while the channel was silent, or happened before the      *)
(* start, is sent before the first note; and the file's own controllers    *)
(* are always up to date.                                                  *)
HearsControllers ==
    CaughtUp => \A ch \in Sender, ctrl \in Ctrl :
        ch = FILE \/ notes[ch] # 0 =>
            heard[ch][ctrl] = ValueAt(song.changes[ch][ctrl], time)

(* The notes that sound are those of the song at this time: a note that    *)
(* begins as another one ends on the same pitch is not ended with it.      *)
SoundsRight ==
    CaughtUp => \A ch \in Channel :
        sounding[ch] = {n.pitch : n \in {n \in Played : /\ n.ch = ch
                                                       /\ n.on <= time
                                                       /\ time < n.off}}

(* The heap holds no more than an event for each controller that changes,  *)
(* one for each track and one for each pitch that sounds on a channel; its *)
(* array of FCTRLS + MAX_TRACKS * 2 * NOTES + CHANNELS * CCTRLS places is  *)
(* larger than that can get.                                               *)
HeapBound ==
    LET changing == {c \in Sender \X Ctrl : song.changes[c[1]][c[2]] # <<>>}
        sounds == UNION {{ch} \X sounding[ch] : ch \in Channel}
    IN  Cardinality(heap)
            <= Cardinality(changing) + Cardinality(Track) + Cardinality(sounds)

(* The chunks: the time of the i-th message of one that begins at a time,  *)
(* and the changes of a controller of a channel.                           *)
TimeOf(begin, c, i) ==
    LET at[k \in 0 .. i] == IF k = 0 THEN begin ELSE at[k - 1] + c[k].delta IN at[i]

ChangesIn(begin, c, ch, ctrl) ==
    {[time |-> TimeOf(begin, c, i), value |-> c[i].msg.value] :
        i \in {i \in DOMAIN c : /\ c[i].msg.type = "ctrl"
                               /\ c[i].msg.ch = ch
                               /\ c[i].msg.ctrl = ctrl}}

ChangesRead(ch, ctrl) ==
    UNION {ChangesIn(song.start, chunk[tr], ch, ctrl) : tr \in Track \cup {FILE}}

(* The values that the changes R leave at time t: those of the last ones.  *)
LastReadAt(R, t) ==
    {r \in R : r.time <= t /\ \A q \in R : q.time <= t => q.time <= r.time}

ReadAt(R, t) ==
    LET last == LastReadAt(R, t) IN
    IF last = {} THEN {Default} ELSE {r.value : r \in last}

(* For every note of a file that was written, the controllers of its       *)
(* channel, read from all chunks together, are what they were in the song, *)
(* as long as it sounds.                                                   *)
FileKeepsControllers ==
    status = "ended" => \A n \in Played, ctrl \in Ctrl : \A t \in n.on .. (n.off - 1) :
        ReadAt(ChangesRead(n.ch, ctrl), t) = {ValueAt(song.changes[n.ch][ctrl], t)}

(* Playing comes to its end.                                               *)
PlayEnds == <>(status # "playing")
-----------------------------------------------------------------------------
(* Why flat songs are played right: the inductive invariant.  The heap is  *)
(* what it says of the notes and of each controller.                       *)

Coming == {n \in song.notes : OnEvent(n) \in heap}
Begun == {n \in song.notes : OffEvent(n) \in heap}
Voices(ch) == {n \in Begun : n.ch = ch}
Due(ch, ctrl) == {t \in DOMAIN song.changes[ch][ctrl] : CtrlEvent(ch, ctrl, t) \in heap}

HeapKnown ==
    \A e \in heap :
        \/ \E n \in Coming : e = OnEvent(n)
        \/ \E n \in Begun : e = OffEvent(n)
        \/ \E ch \in Sender, ctrl \in Ctrl : \E t \in Due(ch, ctrl) : e = CtrlEvent(ch, ctrl, t)

PlayerTypes ==
    /\ song \in Songs
    /\ time \in Time /\ song.start <= time
    /\ DOMAIN value = Sender /\ \A ch \in Sender : DOMAIN value[ch] = Ctrl
    /\ DOMAIN cache = Channel /\ \A ch \in Channel : DOMAIN cache[ch] = Ctrl
    /\ DOMAIN notes = Channel /\ DOMAIN owner = Channel /\ DOMAIN sounding = Channel
    /\ heard = value

(* A track's next note is the first of those that have not begun; a note   *)
(* that has begun ends at or after this time, and they all overlap.        *)
NotesInOrder ==
    /\ Coming \subseteq Played /\ Begun \subseteq Played
    /\ \A n \in Coming : time <= n.on
    /\ \A n \in Begun : n.on <= time /\ time <= n.off
    /\ \A m, n \in Begun : m.on < n.off
    /\ \A m, n \in Coming : m.track = n.track => m = n
    /\ \A m \in Begun, n \in Coming : m.track = n.track => NoteBefore(m, n)
    /\ \A n \in Played :
          \/ n.off <= time
          \/ n \in Begun
          \/ \E m \in Coming : m.track = n.track /\ (m = n \/ NoteBefore(m, n))

(* What is known of a channel is what its begun notes say.                 *)
ChannelsKnown ==
    \A ch \in Channel :
        /\ IsFiniteSet(Voices(ch)) /\ notes[ch] = Cardinality(Voices(ch))
        /\ sounding[ch] = {n.pitch : n \in Voices(ch)}
        /\ \A n \in Voices(ch) : owner[ch] = n.track

(* The changes that a controller's event has passed, the value they leave, *)
(* and the value that was sent or kept back: the same, once an event       *)
(* before the start was processed.                                         *)
Passed(ch, ctrl) ==
    {s \in DOMAIN song.changes[ch][ctrl] : \A t \in Due(ch, ctrl) : s < t}

LastOf(c, T) == IF T = {} THEN Default ELSE c[Max(T)]

KeptBack(ch, ctrl) == ch # FILE /\ cache[ch][ctrl] # -1

Effective(ch, ctrl) ==
    IF KeptBack(ch, ctrl) THEN song.changes[ch][ctrl][cache[ch][ctrl]]
    ELSE value[ch][ctrl]

ControllersKnown ==
    \A ch \in Sender, ctrl \in Ctrl :
        /\ \A s, t \in Due(ch, ctrl) : s = t
        /\ \A s \in Passed(ch, ctrl) : s <= time
        /\ \/ \E t \in Due(ch, ctrl) : t <= song.start
           \/ Effective(ch, ctrl) = LastOf(song.changes[ch][ctrl], Passed(ch, ctrl))
        /\ ch # FILE /\ notes[ch] # 0 => ~KeptBack(ch, ctrl)

PlayInv == PlayerTypes /\ HeapKnown /\ NotesInOrder /\ ChannelsKnown /\ ControllersKnown

(* Why the file has the song's controllers.  Each chunk's deltas and dtime *)
(* add up to this time.                                                    *)
ChunksTimed ==
    /\ DOMAIN chunk = Track \cup {FILE} /\ DOMAIN dtime = Track \cup {FILE}
    /\ \A tr \in Track \cup {FILE} :
          /\ chunk[tr] \in Seq(ToSet(chunk[tr]))
          /\ \A i \in DOMAIN chunk[tr] : chunk[tr][i].delta \in Nat
          /\ dtime[tr] \in Nat
          /\ TimeOf(song.start, chunk[tr], Len(chunk[tr])) + dtime[tr] = time

(* An event is late at the start only, and for its controller's last       *)
(* change then.                                                            *)
NoneLate ==
    /\ status = "ended" => heap = {}
    /\ \A ch \in Channel, ctrl \in Ctrl : \A t \in Due(ch, ctrl) :
          \/ time <= t
          \/ /\ time = song.start
             /\ \A s \in DOMAIN song.changes[ch][ctrl] : s <= t \/ time < s

(* Nothing more is sent of a controller at this time: its channel sounds,  *)
(* and sounds on, and no change is left to come.                           *)
SoundsOn(ch, ctrl) ==
    /\ Voices(ch) # {} /\ \A n \in Voices(ch) : time < n.off
    /\ \A t \in Due(ch, ctrl) : time < t

(* The last change read is the value sent, and is the only one read at its *)
(* time; while notes sounded the changes read were those of the song.      *)
KnownOf(ch, ctrl) ==
    LET R == ChangesRead(ch, ctrl) IN
    /\ \A r \in R : r.time \in Nat /\ r.time <= time
    /\ ReadAt(R, time) = {value[ch][ctrl]}
    /\ \A r \in R : r.time = time => SoundsOn(ch, ctrl)
    /\ \A n \in Played : n.ch = ch => \A t \in n.on .. (n.off - 1) :
          t < time => ReadAt(R, t) = {ValueAt(song.changes[ch][ctrl], t)}

ReadsKnown == \A ch \in Channel, ctrl \in Ctrl : KnownOf(ch, ctrl)

FileInv == PlayInv /\ ChunksTimed /\ NoneLate /\ ReadsKnown
=============================================================================
