------------------------------ MODULE RoundTrip ------------------------------
(***************************************************************************)
(* Writing a song and reading it again: the chunks that src/export.c makes *)
(* of what the player's loop sends are handed to the handlers of           *)
(* src/import.c, chunk after chunk.  The first chunk has the file's own    *)
(* controllers, the others a track each; no track has a note system.       *)
(***************************************************************************)
EXTENDS Player

CONSTANTS
    Node,       \* bound: the nodes for the notes that are read
    HEAD,
    NULL

(* Import for files of the songs' size; what is read is computed by its    *)
(* operators, so that the variables of its loop are not used.              *)
Reader == INSTANCE Import
            WITH Number <- Channel, Drums <- {}, Key <- Pitch,
                 Note <- Node,
                 Chunks <- Cardinality(Track) + 1,
                 Dtime <- Time, Value <- Int, Tuned <- {}, MaxEvents <- 0,
                 ctx <- <<>>, log <- <<>>

(* A message as an event of its chunk; note-offs have no velocity here.    *)
EventRead(m) ==
    IF m.msg.type = "ctrl"
    THEN [type |-> "ctrl", delta |-> m.delta, ch |-> m.msg.ch, ctrl |-> m.msg.ctrl,
          value |-> m.msg.value]
    ELSE [type |-> m.msg.type, delta |-> m.delta, ch |-> m.msg.ch, key |-> m.msg.pitch,
          vel |-> 0]

ChunkRead(s, tr) ==
    Reader!TrackEnded(FoldLeft(LAMBDA t, m : Reader!Handled(t, EventRead(m)),
                               Reader!TrackBegun(s), chunk[tr]))

AllReplayed(s) == FoldLeft(LAMBDA t, o : Reader!Replayed(t), s, s.offs)

FileRead ==
    Reader!Finished(AllReplayed(FoldLeft(ChunkRead, Reader!NewFile,
                                         <<FILE>> \o SetToSortSeq(Track, <))))

-----------------------------------------------------------------------------
(* The tracks whose chunks have messages of a controller.                  *)
Writers(ch, ctrl) ==
    {tr \in DOMAIN chunk :
        \E i \in DOMAIN chunk[tr] : /\ chunk[tr][i].msg.type = "ctrl"
                                    /\ chunk[tr][i].msg.ch = ch
                                    /\ chunk[tr][i].msg.ctrl = ctrl}

IsSong(file) ==
    LET Same(ch, ctrl, t) == Reader!Maps!Get(file.ctrl[ch][ctrl], Default, t)
                                 = ValueAt(song.changes[ch][ctrl], t)
    IN  /\ song.notes = {[track |-> r.track - 1, ch |-> r.ch, pitch |-> r.pitch,
                          on |-> r.on, off |-> r.off] : r \in Range(file.notes) \ {NULL}}
        /\ \A ctrl \in Ctrl, t \in 0 .. time : Same(FILE, ctrl, t)
        /\ \A n \in song.notes, ctrl \in Ctrl :
              Cardinality(Writers(n.ch, ctrl)) <= 1 =>
                  \A t \in n.on .. (n.off - 1) : Same(n.ch, ctrl, t)

(* A song comes back as it was written: every note, in its own track and   *)
(* channel, at its times, each chunk's deltas adding up though they are    *)
(* kept per chunk, and no note-off taken for that of another note; and the *)
(* controllers, as long as a note of their channel sounds, if one track    *)
(* wrote all changes: what several tracks wrote is put together in the    *)
(* order of the tracks, and map_set drops changes on the way.  A song is   *)
(* written from its beginning.                                             *)
SongComesBack ==
    status = "ended" /\ song.start = 0 /\ LengthsSet => IsSong(FileRead)
=============================================================================
