---------------------------- MODULE PlayerProofs ----------------------------
(***************************************************************************)
(* Proofs about Player, for flat songs of any notes and changes: that what *)
(* its invariant says of the heap is kept by every event, and what follows *)
(* for the assertions, the device, the size of the heap and what is read   *)
(* back from the chunks that were written.                                 *)
(***************************************************************************)
EXTENDS Player, NumberFacts, FiniteSetTheorems, TLAPS

FlatOnly == \A s \in Songs : Flat(s.notes)

-----------------------------------------------------------------------------
(* Events are told apart by their kind and what they are about.            *)
LEMMA EventFacts ==
    /\ \A n : /\ OnEvent(n).kind = "on" /\ OnEvent(n).note = n /\ OnEvent(n).time = n.on
              /\ OffEvent(n).kind = "off" /\ OffEvent(n).note = n /\ OffEvent(n).time = n.off
    /\ \A m, n : OnEvent(m) = OnEvent(n) <=> m = n
    /\ \A m, n : OffEvent(m) = OffEvent(n) <=> m = n
    /\ \A m, n : OnEvent(m) # OffEvent(n)
  BY DEF OnEvent, OffEvent

LEMMA CtrlEventFacts ==
    ASSUME NEW ch, NEW ctrl, NEW t
    PROVE  /\ CtrlEvent(ch, ctrl, t).kind = IF ch = FILE THEN "file" ELSE "ctrl"
           /\ CtrlEvent(ch, ctrl, t).ch = ch
           /\ CtrlEvent(ch, ctrl, t).ctrl = ctrl
           /\ CtrlEvent(ch, ctrl, t).time = t
  BY DEF CtrlEvent

LEMMA CtrlEventsDiffer ==
    ASSUME NEW ch, NEW ctrl, NEW t, NEW ch2, NEW ctrl2, NEW t2
    PROVE  CtrlEvent(ch, ctrl, t) = CtrlEvent(ch2, ctrl2, t2)
              <=> ch = ch2 /\ ctrl = ctrl2 /\ t = t2
  BY CtrlEventFacts

LEMMA CtrlEventIsNoNote ==
    ASSUME NEW ch, NEW ctrl, NEW t, NEW n
    PROVE  CtrlEvent(ch, ctrl, t) # OnEvent(n) /\ CtrlEvent(ch, ctrl, t) # OffEvent(n)
  BY DEF CtrlEvent, OnEvent, OffEvent

-----------------------------------------------------------------------------
(* The notes of a track are in a total order.                              *)
LEMMA NoteTypes ==
    ASSUME FlatOnly, NEW s \in Songs
    PROVE  /\ s.start \in Nat
           /\ \A n \in s.notes :
                 /\ n \in Noted /\ n.track \in Track /\ n.ch \in Channel
                 /\ n.on \in Nat /\ n.off \in Nat /\ n.on < n.off
                 /\ n.pitch \in Nat /\ n.ch \in Nat
           /\ \A m, n \in s.notes :
                 m.track = n.track /\ m.on = n.on /\ m.off = n.off
                     /\ m.pitch = n.pitch /\ m.ch = n.ch => m = n
  <1>1. /\ s.notes \subseteq Noted /\ s.start \in Nat
        /\ \A n \in s.notes : n.on < n.off /\ n.ch \in Channel
    BY SongAssumption DEF FlatOnly, Flat, Time
  <1>2. \A n \in Noted : /\ n.track \in Track /\ n.on \in Nat /\ n.off \in Nat
                         /\ n.pitch \in Nat
    BY NamesAssumption DEF Noted, Time
  <1>3. \A m, n \in Noted :
           m.track = n.track /\ m.on = n.on /\ m.off = n.off
               /\ m.pitch = n.pitch /\ m.ch = n.ch => m = n
    BY DEF Noted
  <1> QED
    BY <1>1, <1>2, <1>3, NamesAssumption

LEMMA NoteOrder ==
    ASSUME FlatOnly, NEW s \in Songs
    PROVE  /\ \A n \in s.notes : ~NoteBefore(n, n)
           /\ \A l, m, n \in s.notes :
                 NoteBefore(l, m) /\ NoteBefore(m, n) => NoteBefore(l, n)
           /\ \A m, n \in s.notes :
                 m.track = n.track => m = n \/ NoteBefore(m, n) \/ NoteBefore(n, m)
  <1> USE NoteTypes DEF NoteBefore
  <1>1. \A n \in s.notes : ~NoteBefore(n, n)
    OBVIOUS
  <1>2. \A l, m, n \in s.notes :
            NoteBefore(l, m) /\ NoteBefore(m, n) => NoteBefore(l, n)
    OBVIOUS
  <1>3. \A m, n \in s.notes :
            m.track = n.track => m = n \/ NoteBefore(m, n) \/ NoteBefore(n, m)
    OBVIOUS
  <1> QED
    BY <1>1, <1>2, <1>3

(* Of some notes of one track one is the first, whatever their number: the *)
(* lowest channel of the lowest pitch of the first end of the first start. *)
LEMMA FirstNoteOf ==
    ASSUME FlatOnly, NEW s \in Songs, NEW N \in SUBSET s.notes, N # {},
           \A m, n \in N : m.track = n.track
    PROVE  \E m \in N : /\ First(N) = {OnEvent(m)}
                        /\ \A n \in N : m = n \/ NoteBefore(m, n)
  <1>1. \A n \in N : /\ n.on \in Nat /\ n.off \in Nat /\ n.pitch \in Nat /\ n.ch \in Nat
                     /\ n \in s.notes
    BY NoteTypes
  <1>2. PICK a \in N : \A n \in N : a.on <= n.on
    <2>1. PICK f : f = [n \in N |-> n.on]
      OBVIOUS
    <2>2. \A n \in N : f[n] = n.on /\ f[n] \in Nat
      BY <1>1, <2>1
    <2>3. \E x \in N : \A n \in N : f[x] <= f[n]
      BY <2>2, LeastBy
    <2> QED
      BY <2>2, <2>3
  <1> DEFINE A == {n \in N : n.on = a.on}
  <1>3. PICK b \in A : \A n \in A : b.off <= n.off
    <2>1. PICK f : f = [n \in A |-> n.off]
      OBVIOUS
    <2>2. \A n \in A : f[n] = n.off /\ f[n] \in Nat
      BY <1>1, <2>1
    <2>3. \E x \in A : \A n \in A : f[x] <= f[n]
      BY <2>2, LeastBy
    <2> QED
      BY <2>2, <2>3
  <1> DEFINE B == {n \in A : n.off = b.off}
  <1>4. PICK c \in B : \A n \in B : c.pitch <= n.pitch
    <2>1. PICK f : f = [n \in B |-> n.pitch]
      OBVIOUS
    <2>2. \A n \in B : f[n] = n.pitch /\ f[n] \in Nat
      BY <1>1, <2>1
    <2>3. \E x \in B : \A n \in B : f[x] <= f[n]
      BY <2>2, LeastBy
    <2> QED
      BY <2>2, <2>3
  <1> DEFINE C == {n \in B : n.pitch = c.pitch}
  <1>5. PICK m \in C : \A n \in C : m.ch <= n.ch
    <2>1. PICK f : f = [n \in C |-> n.ch]
      OBVIOUS
    <2>2. \A n \in C : f[n] = n.ch /\ f[n] \in Nat
      BY <1>1, <2>1
    <2>3. \E x \in C : \A n \in C : f[x] <= f[n]
      BY <2>2, LeastBy
    <2> QED
      BY <2>2, <2>3
  <1>6. \A n \in N : m = n \/ NoteBefore(m, n)
    <2> SUFFICES ASSUME NEW n \in N, ~NoteBefore(m, n) PROVE m = n
      OBVIOUS
    <2>1. m.on = a.on /\ a.on <= n.on
      BY <1>2
    <2>2. n \in A
      BY <1>1, <2>1 DEF NoteBefore
    <2>3. n \in B
      BY <1>1, <1>3, <2>2 DEF NoteBefore
    <2>4. n \in C
      BY <1>1, <1>4, <2>3 DEF NoteBefore
    <2>5. m.ch = n.ch
      BY <1>1, <1>5, <2>4 DEF NoteBefore
    <2> QED
      BY <1>1, <2>4, <2>5, NoteTypes
  <1>7. \A n \in N : (\A l \in N : ~NoteBefore(l, n)) <=> n = m
    <2>1. \A l \in N : ~NoteBefore(l, m)
      BY <1>1, <1>6, NoteOrder
    <2> QED
      BY <1>6, <2>1
  <1> QED
    BY <1>6, <1>7 DEF First

LEMMA FirstOfNone == First({}) = {}
  BY DEF First

-----------------------------------------------------------------------------
(* What the heap says of notes and controllers, before and after a step.   *)
LEMMA Members ==
    /\ \A n : n \in Coming <=> n \in song.notes /\ OnEvent(n) \in heap
    /\ \A n : n \in Begun <=> n \in song.notes /\ OffEvent(n) \in heap
    /\ \A ch, ctrl, t : t \in Due(ch, ctrl) <=>
          t \in DOMAIN song.changes[ch][ctrl] /\ CtrlEvent(ch, ctrl, t) \in heap
  BY DEF Coming, Begun, Due

LEMMA MembersAfter ==
    ASSUME song' = song
    PROVE  /\ \A n : n \in Coming' <=> n \in song.notes /\ OnEvent(n) \in heap'
           /\ \A n : n \in Begun' <=> n \in song.notes /\ OffEvent(n) \in heap'
           /\ \A ch, ctrl, t : t \in Due(ch, ctrl)' <=>
                 t \in DOMAIN song.changes[ch][ctrl] /\ CtrlEvent(ch, ctrl, t) \in heap'
  <1>1. \A n : n \in Coming' <=> n \in song.notes /\ OnEvent(n) \in heap'
    BY DEF Coming
  <1>2. \A n : n \in Begun' <=> n \in song.notes /\ OffEvent(n) \in heap'
    BY DEF Begun
  <1>3. \A ch, ctrl, t : t \in Due(ch, ctrl)' <=>
            t \in DOMAIN song.changes[ch][ctrl] /\ CtrlEvent(ch, ctrl, t) \in heap'
    BY DEF Due
  <1> QED
    BY <1>1, <1>2, <1>3

(* What processing an event does to the heap.                              *)
LEMMA OnMoves ==
    ASSUME FlatOnly, song \in Songs, HeapKnown, NEW n0 \in Coming,
           MoveOn(OnEvent(n0)), song' = song
    PROVE  /\ Begun' = Begun \cup {n0}
           /\ \/ /\ Coming' = Coming \ {n0}
                 /\ \A n \in song.notes : n.track = n0.track => ~NoteBefore(n0, n)
              \/ \E m \in song.notes :
                    /\ m.track = n0.track /\ NoteBefore(n0, m)
                    /\ Coming' = (Coming \ {n0}) \cup {m}
                    /\ \A n \in song.notes : n.track = n0.track /\ NoteBefore(n0, n)
                                                => m = n \/ NoteBefore(m, n)
           /\ \A ch, ctrl : Due(ch, ctrl)' = Due(ch, ctrl)
           /\ HeapKnown'
  <1> DEFINE e == OnEvent(n0)
             N == {n \in song.notes : n.track = n0.track /\ NoteBefore(n0, n)}
  <1>1. n0 \in song.notes /\ e \in heap /\ e.kind = "on" /\ e.note = n0
    BY EventFacts DEF Coming
  <1>2. heap' = (heap \ {e}) \cup First(N) \cup {OffEvent(n0)}
    BY <1>1 DEF MoveOn, Successors, NextNote
  <1>3. PICK M \in SUBSET N :
            /\ First(N) = {OnEvent(m) : m \in M}
            /\ \/ M = {} /\ N = {}
               \/ \E m \in N : M = {m} /\ \A n \in N : m = n \/ NoteBefore(m, n)
    <2>1. CASE N = {}
      BY <2>1, FirstOfNone
    <2>2. CASE N # {}
      <3>1. PICK m \in N : /\ First(N) = {OnEvent(m)}
                           /\ \A n \in N : m = n \/ NoteBefore(m, n)
        BY <2>2, FirstNoteOf
      <3>2. First(N) = {OnEvent(n) : n \in {m}}
        BY <3>1
      <3> QED
        BY <3>1, <3>2
    <2> QED
      BY <2>1, <2>2
  <1>3a. \A f : f \in heap' <=> \/ f \in heap /\ f # OnEvent(n0)
                                \/ \E m \in M : f = OnEvent(m)
                                \/ f = OffEvent(n0)
    BY <1>2, <1>3
  <1>4. Begun' = Begun \cup {n0}
    <2>1. \A n : OffEvent(n) \in heap' <=> OffEvent(n) \in heap \/ n = n0
      BY <1>3a DEF OnEvent, OffEvent
    <2>2. \A n : n \in Begun' <=> n \in Begun \/ n = n0
      BY <2>1, <1>1, Members, MembersAfter
    <2> QED
      BY <2>2
  <1>5. Coming' = (Coming \ {n0}) \cup M
    <2>1. \A n : OnEvent(n) \in heap' <=> (OnEvent(n) \in heap /\ n # n0) \/ n \in M
      BY <1>3a DEF OnEvent, OffEvent
    <2>2. \A n : n \in Coming' <=> (n \in Coming /\ n # n0) \/ n \in M
      BY <2>1, Members, MembersAfter
    <2> QED
      BY <2>2
  <1>6. \A ch, ctrl : Due(ch, ctrl)' = Due(ch, ctrl)
    <2>1. \A ch, ctrl, t : CtrlEvent(ch, ctrl, t) \in heap'
                              <=> CtrlEvent(ch, ctrl, t) \in heap
      BY <1>3a, CtrlEventIsNoNote
    <2>2. \A ch, ctrl : \A t : t \in Due(ch, ctrl)' <=> t \in Due(ch, ctrl)
      BY <2>1, Members, MembersAfter
    <2> QED
      BY <2>2 DEF Due
  <1>7. HeapKnown'
    <2> SUFFICES ASSUME NEW f \in heap'
                 PROVE  \/ \E n \in Coming' : f = OnEvent(n)
                        \/ \E n \in Begun' : f = OffEvent(n)
                        \/ \E ch \in Sender, ctrl \in Ctrl :
                              \E t \in Due(ch, ctrl) : f = CtrlEvent(ch, ctrl, t)
      BY <1>6 DEF HeapKnown
    <2>1. CASE f \in heap /\ f # e
      BY <2>1, <1>4, <1>5 DEF HeapKnown
    <2>2. CASE \E m \in M : f = OnEvent(m)
      BY <2>2, <1>5
    <2>3. CASE f = OffEvent(n0)
      BY <2>3, <1>4
    <2> QED
      BY <2>1, <2>2, <2>3, <1>3a
  <1> QED
    BY <1>3, <1>4, <1>5, <1>6, <1>7

LEMMA OffMoves ==
    ASSUME HeapKnown, NEW n0 \in Begun, MoveOn(OffEvent(n0)), song' = song
    PROVE  /\ Begun' = Begun \ {n0} /\ Coming' = Coming
           /\ \A ch, ctrl : Due(ch, ctrl)' = Due(ch, ctrl)
           /\ HeapKnown'
  <1>1. heap' = heap \ {OffEvent(n0)}
    BY EventFacts DEF MoveOn, Successors
  <1>2. Begun' = Begun \ {n0} /\ Coming' = Coming
    <2>1. /\ \A n : n \in Begun' <=> n \in Begun /\ n # n0
          /\ \A n : n \in Coming' <=> n \in Coming
      BY <1>1, EventFacts, Members, MembersAfter
    <2>2. Begun' = Begun \ {n0}
      BY <2>1
    <2>3. Coming' = Coming
      BY <2>1 DEF Coming
    <2> QED
      BY <2>2, <2>3
  <1>3. \A ch, ctrl : Due(ch, ctrl)' = Due(ch, ctrl)
    <2>1. \A ch, ctrl : \A t : t \in Due(ch, ctrl)' <=> t \in Due(ch, ctrl)
      BY <1>1, CtrlEventIsNoNote, Members, MembersAfter
    <2> QED
      BY <2>1 DEF Due
  <1>4. HeapKnown'
    BY <1>1, <1>2, <1>3 DEF HeapKnown
  <1> QED
    BY <1>2, <1>3, <1>4

LEMMA ChangeTimes ==
    ASSUME NEW s \in Songs, NEW ch \in Sender, NEW ctrl \in Ctrl
    PROVE  DOMAIN s.changes[ch][ctrl] \subseteq Nat
  BY SongAssumption DEF Time

LEMMA CtrlMoves ==
    ASSUME HeapKnown, song \in Songs, NEW ch0 \in Sender, NEW ctrl0 \in Ctrl, NEW t0 \in Due(ch0, ctrl0),
           MoveOn(CtrlEvent(ch0, ctrl0, t0)), song' = song
    PROVE  /\ Begun' = Begun /\ Coming' = Coming
           /\ \A ch \in Sender, ctrl \in Ctrl :
                 ch # ch0 \/ ctrl # ctrl0 => Due(ch, ctrl)' = Due(ch, ctrl)
           /\ LET later == {s \in DOMAIN song.changes[ch0][ctrl0] : s > t0}
              IN  Due(ch0, ctrl0)' = (Due(ch0, ctrl0) \ {t0})
                                        \cup (IF later = {} THEN {} ELSE {Min(later)})
           /\ HeapKnown'
  <1> DEFINE e == CtrlEvent(ch0, ctrl0, t0)
             later == {s \in DOMAIN song.changes[ch0][ctrl0] : s > t0}
             next == IF later = {} THEN {} ELSE {Min(later)}
  <1>1. /\ e.kind = IF ch0 = FILE THEN "file" ELSE "ctrl"
        /\ e.ch = ch0 /\ e.ctrl = ctrl0 /\ e.time = t0
    BY CtrlEventFacts
  <1>2. NextChange(e) = {CtrlEvent(ch0, ctrl0, t) : t \in next}
    BY <1>1 DEF NextChange, EventAt
  <1>3. heap' = (heap \ {e}) \cup NextChange(e)
    BY <1>1 DEF MoveOn, Successors
  <1>3a. \A f : f \in heap' <=> \/ f \in heap /\ f # e
                                \/ \E t \in next : f = CtrlEvent(ch0, ctrl0, t)
    BY <1>2, <1>3
  <1> HIDE DEF next, e
  <1>4. next \subseteq DOMAIN song.changes[ch0][ctrl0]
    <2> USE DEF next
    <2>1. later # {} => Min(later) \in later
      <3>1. later \subseteq Nat
        BY ChangeTimes
      <3> QED
        BY <3>1, MinFacts
    <2> QED
      BY <2>1
  <1>5. Begun' = Begun /\ Coming' = Coming
    <2>0. \A n : /\ OnEvent(n) \in heap' <=> OnEvent(n) \in heap
                 /\ OffEvent(n) \in heap' <=> OffEvent(n) \in heap
      BY <1>3a, CtrlEventIsNoNote DEF e
    <2>1. /\ \A n : n \in Begun' <=> n \in Begun
          /\ \A n : n \in Coming' <=> n \in Coming
      BY <2>0, Members, MembersAfter
    <2>2. Begun' = Begun
      BY <2>1 DEF Begun
    <2>3. Coming' = Coming
      BY <2>1 DEF Coming
    <2> QED
      BY <2>2, <2>3
  <1>6. \A ch \in Sender, ctrl \in Ctrl :
            ch # ch0 \/ ctrl # ctrl0 => Due(ch, ctrl)' = Due(ch, ctrl)
    <2> SUFFICES ASSUME NEW ch, NEW ctrl, ch # ch0 \/ ctrl # ctrl0
                 PROVE  Due(ch, ctrl)' = Due(ch, ctrl)
      OBVIOUS
    <2>0. \A t, s : CtrlEvent(ch, ctrl, t) # CtrlEvent(ch0, ctrl0, s)
      BY CtrlEventsDiffer
    <2>1. \A t : CtrlEvent(ch, ctrl, t) \in heap' <=> CtrlEvent(ch, ctrl, t) \in heap
      BY <1>3a, <2>0 DEF e
    <2>2. \A t : t \in Due(ch, ctrl)' <=> t \in Due(ch, ctrl)
      BY <2>1, Members, MembersAfter
    <2> QED
      BY <2>2 DEF Due
  <1>7. Due(ch0, ctrl0)' = (Due(ch0, ctrl0) \ {t0}) \cup next
    <2>1. \A t : CtrlEvent(ch0, ctrl0, t) \in heap'
                    <=> (CtrlEvent(ch0, ctrl0, t) \in heap /\ t # t0) \/ t \in next
      <3>1. \A t, s : CtrlEvent(ch0, ctrl0, t) = CtrlEvent(ch0, ctrl0, s) <=> t = s
        BY CtrlEventsDiffer
      <3> QED
        BY <1>3a, <3>1 DEF e
    <2>2. \A t : t \in Due(ch0, ctrl0)' <=> (t \in Due(ch0, ctrl0) /\ t # t0) \/ t \in next
      BY <2>1, <1>4, Members, MembersAfter
    <2> QED
      BY <2>2
  <1>8. HeapKnown'
    <2> SUFFICES ASSUME NEW f \in heap'
                 PROVE  \/ \E n \in Coming' : f = OnEvent(n)
                        \/ \E n \in Begun' : f = OffEvent(n)
                        \/ \E ch \in Sender, ctrl \in Ctrl :
                              \E t \in Due(ch, ctrl)' : f = CtrlEvent(ch, ctrl, t)
      BY DEF HeapKnown
    <2>1. CASE f \in heap /\ f # e
      <3>1. CASE \E ch \in Sender, ctrl \in Ctrl :
                    \E t \in Due(ch, ctrl) : f = CtrlEvent(ch, ctrl, t)
        <4>0. PICK ch \in Sender, ctrl \in Ctrl :
                  \E t \in Due(ch, ctrl) : f = CtrlEvent(ch, ctrl, t)
          BY <3>1
        <4>1. PICK t \in Due(ch, ctrl) : f = CtrlEvent(ch, ctrl, t)
          BY <4>0
        <4>2. ch # ch0 \/ ctrl # ctrl0 \/ t # t0
          BY <2>1, <4>1 DEF e
        <4>3. t \in Due(ch, ctrl)'
          BY <4>1, <4>2, <1>6, <1>7
        <4> QED
          BY <4>1, <4>3
      <3> QED
        BY <2>1, <3>1, <1>5 DEF HeapKnown
    <2>2. CASE f \in NextChange(e)
      BY <2>2, <1>2, <1>7
    <2> QED
      BY <2>1, <2>2, <1>3
  <1> QED
    BY <1>5, <1>6, <1>7, <1>8 DEF next

-----------------------------------------------------------------------------
(* What the heap holds is known of every event at its top.                 *)
LEMMA PlayTypes ==
    ASSUME FlatOnly, PlayInv
    PROVE  /\ song \in Songs /\ time \in Nat /\ song.start \in Nat /\ song.start <= time
           /\ Coming \subseteq song.notes /\ Begun \subseteq song.notes
           /\ Played \subseteq song.notes
           /\ \A ch \in Sender, ctrl \in Ctrl :
                 /\ Due(ch, ctrl) \subseteq DOMAIN song.changes[ch][ctrl]
                 /\ DOMAIN song.changes[ch][ctrl] \subseteq Nat
  <1>1. song \in Songs /\ time \in Nat /\ song.start <= time
    BY DEF PlayInv, PlayerTypes, Time
  <1>2. song.start \in Nat
    BY <1>1, NoteTypes
  <1>3. /\ Coming \subseteq song.notes /\ Begun \subseteq song.notes
        /\ Played \subseteq song.notes
    BY DEF Coming, Begun, Played
  <1> QED
    BY <1>1, <1>2, <1>3, ChangeTimes DEF Due

LEMMA ProcessCases ==
    ASSUME FlatOnly, PlayInv, Process
    PROVE  /\ song' = song /\ time' = time
           /\ \/ \E n \in Coming :
                    /\ OnEvent(n) \in Top /\ n.on <= time
                    /\ NoteOn(OnEvent(n)) /\ MoveOn(OnEvent(n))
              \/ \E n \in Begun :
                    /\ OffEvent(n) \in Top /\ n.off <= time
                    /\ NoteOff(OffEvent(n)) /\ MoveOn(OffEvent(n))
              \/ \E ch \in Sender, ctrl \in Ctrl : \E t \in Due(ch, ctrl) :
                    LET e == CtrlEvent(ch, ctrl, t) IN
                    /\ e \in Top /\ t <= time /\ MoveOn(e)
                    /\ KeepBack(e) \/ SendCtrl(e) \/ SameCtrl(e)
  <1>1. song' = song /\ time' = time
    BY DEF Process
  <1>2. PICK e \in Top :
            /\ e.time <= time
            /\ KeepBack(e) \/ SendCtrl(e) \/ SameCtrl(e) \/ NoteOn(e) \/ NoteOff(e)
            /\ MoveOn(e)
    BY DEF Process
  <1>3. e \in heap
    BY DEF Top
  <1>4. CASE \E n \in Coming : e = OnEvent(n)
    <2>1. PICK n \in Coming : e = OnEvent(n)
      BY <1>4
    <2>2. e.kind = "on" /\ e.time = n.on
      BY <2>1 DEF OnEvent
    <2>3. NoteOn(e)
      BY <1>2, <2>2 DEF KeepBack, SendCtrl, SameCtrl, SendsNow, NoteOff
    <2> QED
      BY <1>1, <1>2, <2>1, <2>2, <2>3
  <1>5. CASE \E n \in Begun : e = OffEvent(n)
    <2>1. PICK n \in Begun : e = OffEvent(n)
      BY <1>5
    <2>2. e.kind = "off" /\ e.time = n.off
      BY <2>1 DEF OffEvent
    <2>3. NoteOff(e)
      BY <1>2, <2>2 DEF KeepBack, SendCtrl, SameCtrl, SendsNow, NoteOn
    <2> QED
      BY <1>1, <1>2, <2>1, <2>2, <2>3
  <1>6. CASE \E ch \in Sender, ctrl \in Ctrl : \E t \in Due(ch, ctrl) : e = CtrlEvent(ch, ctrl, t)
    <2>1. PICK ch \in Sender, ctrl \in Ctrl :
              \E t \in Due(ch, ctrl) : e = CtrlEvent(ch, ctrl, t)
      BY <1>6
    <2>2. PICK t \in Due(ch, ctrl) : e = CtrlEvent(ch, ctrl, t)
      BY <2>1
    <2>3. e.kind # "on" /\ e.kind # "off" /\ e.time = t
      BY <2>2 DEF CtrlEvent
    <2>4. KeepBack(e) \/ SendCtrl(e) \/ SameCtrl(e)
      BY <1>2, <2>3 DEF NoteOn, NoteOff
    <2> QED
      BY <1>1, <1>2, <2>2, <2>3, <2>4
  <1> QED
    BY <1>3, <1>4, <1>5, <1>6 DEF PlayInv, HeapKnown

(* When a note begins, every note that has ended by then was ended.        *)
LEMMA EndsBeforeBegins ==
    ASSUME FlatOnly, PlayInv, NEW n0 \in Coming, OnEvent(n0) \in Top, n0.on <= time
    PROVE  /\ n0.on = time
           /\ \A m \in Begun : time < m.off
           /\ n0 \notin Begun
  <1>1. n0.on = time
    BY PlayTypes, NoteTypes DEF PlayInv, NotesInOrder
  <1>2. ASSUME NEW m \in Begun PROVE time < m.off
    <2>1. ~Before(OffEvent(m), OnEvent(n0))
      BY DEF Top, Begun
    <2>2. Prio["off"] < Prio["on"]
      BY DEF Prio
    <2>3. m.off # n0.on
      BY <2>1, <2>2, EventFacts DEF Before
    <2>4. time <= m.off /\ m.off \in Nat /\ time \in Nat
      BY PlayTypes, NoteTypes DEF PlayInv, NotesInOrder
    <2> QED
      BY <1>1, <2>3, <2>4
  <1>3. n0 \notin Begun
    BY PlayTypes, NoteOrder DEF PlayInv, NotesInOrder
  <1> QED
    BY <1>1, <1>2, <1>3

-----------------------------------------------------------------------------
(* The notes stay in order.                                                *)
LEMMA OnKeepsOrder ==
    ASSUME FlatOnly, PlayInv, NEW n0 \in Coming, OnEvent(n0) \in Top, n0.on <= time,
           MoveOn(OnEvent(n0)), song' = song, time' = time
    PROVE  NotesInOrder'
  <1>1. /\ song \in Songs /\ time \in Nat /\ n0 \in song.notes
        /\ Begun \subseteq song.notes /\ Coming \subseteq song.notes
        /\ NotesInOrder /\ HeapKnown /\ Played \subseteq song.notes
    BY PlayTypes DEF PlayInv
  <1>2. /\ n0.on = time /\ n0.on < n0.off /\ n0.off \in Nat
        /\ \A m \in Begun : time < m.off
    BY <1>1, EndsBeforeBegins, NoteTypes
  <1>3. Begun' = Begun \cup {n0} /\ Played' = Played
    BY <1>1, OnMoves DEF Played
  <1>4. PICK M \in SUBSET song.notes :
            /\ Coming' = (Coming \ {n0}) \cup M
            /\ \A m \in M : m.track = n0.track /\ NoteBefore(n0, m)
            /\ \A m, n \in M : m = n
            /\ \A n \in song.notes : n.track = n0.track /\ NoteBefore(n0, n)
                  => \E m \in M : m = n \/ NoteBefore(m, n)
    <2>1. CASE /\ Coming' = Coming \ {n0}
               /\ \A n \in song.notes : n.track = n0.track => ~NoteBefore(n0, n)
      <3> WITNESS {} \in SUBSET song.notes
      <3> QED
        BY <2>1
    <2>2. ASSUME NEW m \in song.notes,
                 m.track = n0.track, NoteBefore(n0, m), Coming' = (Coming \ {n0}) \cup {m},
                 \A n \in song.notes : n.track = n0.track /\ NoteBefore(n0, n)
                                          => m = n \/ NoteBefore(m, n)
          PROVE \E M \in SUBSET song.notes :
            /\ Coming' = (Coming \ {n0}) \cup M
            /\ \A l \in M : l.track = n0.track /\ NoteBefore(n0, l)
            /\ \A l, n \in M : l = n
            /\ \A n \in song.notes : n.track = n0.track /\ NoteBefore(n0, n)
                  => \E l \in M : l = n \/ NoteBefore(l, n)
      <3> WITNESS {m} \in SUBSET song.notes
      <3> QED
        BY <2>2
    <2> QED
      BY <1>1, <2>1, <2>2, OnMoves
  <1>5. /\ \A n \in Played : n \in song.notes /\ song.start <= n.on
        /\ \A n \in song.notes : song.start <= n.on => n \in Played
    BY <1>1, NoteTypes DEF Played
  <1>6. \A m \in M : m \in Played /\ time <= m.on
    <2>1. \A m \in M : n0.on <= m.on
      BY <1>1, <1>4, NoteTypes DEF NoteBefore
    <2>2. song.start <= time /\ song.start \in Nat
      BY PlayTypes
    <2> QED
      BY <1>1, <1>2, <1>5, <2>1, <2>2, NoteTypes
  <1>7. n0 \in Played
    BY <1>1 DEF NotesInOrder
  <1>8. /\ Coming' \subseteq Played' /\ Begun' \subseteq Played'
        /\ \A n \in Coming' : time' <= n.on
    BY <1>1, <1>3, <1>4, <1>6, <1>7 DEF NotesInOrder
  <1>9. \A n \in Begun' : n.on <= time' /\ time' <= n.off
    BY <1>1, <1>2, <1>3 DEF NotesInOrder
  <1>10. \A m, n \in Begun' : m.on < n.off
    BY <1>1, <1>2, <1>3, NoteTypes DEF NotesInOrder
  <1>11. \A m, n \in Coming' : m.track = n.track => m = n
    BY <1>1, <1>4 DEF NotesInOrder
  <1>12. \A m \in Begun', n \in Coming' : m.track = n.track => NoteBefore(m, n)
    BY <1>1, <1>3, <1>4, NoteOrder DEF NotesInOrder
  <1>13. ASSUME NEW n \in Played', ~(n.off <= time'), n \notin Begun'
         PROVE  \E m \in Coming' : m.track = n.track /\ (m = n \/ NoteBefore(m, n))
    <2>1. PICK m \in Coming : m.track = n.track /\ (m = n \/ NoteBefore(m, n))
      BY <1>1, <1>3, <1>13 DEF NotesInOrder
    <2>2. CASE m # n0
      BY <2>1, <2>2, <1>4
    <2>3. CASE m = n0
      BY <2>1, <2>3, <1>1, <1>3, <1>4, <1>13
    <2> QED
      BY <2>2, <2>3
  <1> QED
    BY <1>8, <1>9, <1>10, <1>11, <1>12, <1>13 DEF NotesInOrder

LEMMA OffKeepsOrder ==
    ASSUME FlatOnly, PlayInv, NEW n0 \in Begun, n0.off <= time,
           MoveOn(OffEvent(n0)), song' = song, time' = time
    PROVE  NotesInOrder'
  <1>1. NotesInOrder /\ HeapKnown
    BY DEF PlayInv
  <1>2. Begun' = Begun \ {n0} /\ Coming' = Coming /\ Played' = Played
    BY <1>1, OffMoves DEF Played
  <1> QED
    BY <1>1, <1>2 DEF NotesInOrder

(* Time goes on to the next event, never past one.                         *)
LEMMA WaitsForNext ==
    ASSUME FlatOnly, PlayInv, Wait
    PROVE  /\ time' \in Nat /\ time < time'
           /\ \A n \in Coming : time' <= n.on
           /\ \A n \in Begun : time' <= n.off
           /\ \A ch \in Sender, ctrl \in Ctrl : \A t \in Due(ch, ctrl) : time' <= t
           /\ song' = song /\ heap' = heap
  <1>1. PICK e \in Top : e.time > time /\ time' = e.time
    BY DEF Wait
  <1>2. /\ \A n \in Coming : n.on \in Nat
        /\ \A n \in Begun : n.off \in Nat
        /\ \A ch \in Sender, ctrl \in Ctrl : \A t \in Due(ch, ctrl) : t \in Nat
    BY PlayTypes, NoteTypes
  <1>3. e.time \in Nat
    <2>1. e \in heap
      BY DEF Top
    <2>2. CASE \E n \in Coming : e = OnEvent(n)
      BY <2>2, <1>2 DEF OnEvent
    <2>3. CASE \E n \in Begun : e = OffEvent(n)
      BY <2>3, <1>2 DEF OffEvent
    <2>4. CASE \E ch \in Sender, ctrl \in Ctrl :
                  \E t \in Due(ch, ctrl) : e = CtrlEvent(ch, ctrl, t)
      BY <2>4, <1>2 DEF CtrlEvent
    <2> QED
      BY <2>1, <2>2, <2>3, <2>4 DEF PlayInv, HeapKnown
  <1>4. \A f \in heap : ~(f.time < e.time)
    BY DEF Top, Before
  <1>5. ASSUME NEW n \in Coming PROVE time' <= n.on
    <2>1. OnEvent(n) \in heap /\ OnEvent(n).time = n.on
      BY EventFacts DEF Coming
    <2> QED
      BY <1>1, <1>2, <1>3, <1>4, <2>1
  <1>6. ASSUME NEW n \in Begun PROVE time' <= n.off
    <2>1. OffEvent(n) \in heap /\ OffEvent(n).time = n.off
      BY EventFacts DEF Begun
    <2> QED
      BY <1>1, <1>2, <1>3, <1>4, <2>1
  <1>7. ASSUME NEW ch \in Sender, NEW ctrl \in Ctrl, NEW t \in Due(ch, ctrl)
        PROVE  time' <= t
    <2>1. CtrlEvent(ch, ctrl, t) \in heap /\ CtrlEvent(ch, ctrl, t).time = t
      BY CtrlEventFacts DEF Due
    <2> QED
      BY <1>1, <1>2, <1>3, <1>4, <2>1
  <1>8. song' = song /\ heap' = heap
    BY DEF Wait
  <1> QED
    BY <1>1, <1>3, <1>5, <1>6, <1>7, <1>8, PlayTypes

LEMMA WaitKeepsOrder ==
    ASSUME FlatOnly, PlayInv, Wait
    PROVE  NotesInOrder'
  <1>1. /\ NotesInOrder /\ time \in Nat
        /\ \A n \in Begun : n.on \in Nat
        /\ \A n \in Played : n.off \in Nat
    BY PlayTypes, NoteTypes DEF PlayInv
  <1>2. /\ time' \in Nat /\ time < time'
        /\ \A n \in Coming : time' <= n.on
        /\ \A n \in Begun : time' <= n.off
        /\ song' = song /\ heap' = heap
    BY WaitsForNext
  <1>3. Coming' = Coming /\ Begun' = Begun /\ Played' = Played
    BY <1>2 DEF Coming, Begun, Played
  <1>4. \A n \in Begun' : n.on <= time' /\ time' <= n.off
    BY <1>1, <1>2, <1>3 DEF NotesInOrder
  <1>5. \A n \in Played' : n.off <= time => n.off <= time'
    BY <1>1, <1>2, <1>3
  <1>6. \A n \in Coming' : time' <= n.on
    BY <1>2, <1>3
  <1>7. \A n \in Played' : \/ n.off <= time'
                           \/ n \in Begun'
                           \/ \E m \in Coming' : m.track = n.track /\ (m = n \/ NoteBefore(m, n))
    BY <1>1, <1>3, <1>5 DEF NotesInOrder
  <1> QED
    BY <1>1, <1>3, <1>4, <1>6, <1>7 DEF NotesInOrder

-----------------------------------------------------------------------------
(* The channels stay known.                                                *)
LEMMA ChannelsUnmoved ==
    ASSUME ChannelsKnown, Begun' = Begun, UNCHANGED <<notes, sounding, owner>>
    PROVE  ChannelsKnown'
  <1>1. \A ch : Voices(ch)' = Voices(ch)
    BY DEF Voices
  <1> QED
    BY <1>1 DEF ChannelsKnown

(* What sounds on a flat song's channel has one track, and a pitch each.   *)
LEMMA VoicesDiffer ==
    ASSUME FlatOnly, PlayInv, NEW m \in Begun, NEW n \in Begun, m.ch = n.ch, m # n
    PROVE  m.track = n.track /\ m.pitch # n.pitch
  <1>1. m \in song.notes /\ n \in song.notes /\ Flat(song.notes)
    BY PlayTypes DEF FlatOnly
  <1>2. m.on < n.off /\ n.on < m.off
    BY DEF PlayInv, NotesInOrder
  <1> QED
    BY <1>1, <1>2 DEF Flat, Overlap

LEMMA ComingDiffers ==
    ASSUME FlatOnly, PlayInv, NEW n0 \in Coming, OnEvent(n0) \in Top, n0.on <= time,
           NEW m \in Begun, m.ch = n0.ch
    PROVE  m.track = n0.track /\ m.pitch # n0.pitch
  <1>1. m \in song.notes /\ n0 \in song.notes /\ Flat(song.notes) /\ song \in Songs
    BY PlayTypes DEF FlatOnly
  <1>2. n0.on = time /\ time < m.off /\ m # n0 /\ m.on <= time
    BY EndsBeforeBegins DEF PlayInv, NotesInOrder
  <1>3. n0.on < n0.off
    BY <1>1, NoteTypes
  <1>4. m.on < n0.off /\ n0.on < m.off
    BY <1>1, <1>2, <1>3, NoteTypes
  <1> QED
    BY <1>1, <1>2, <1>4 DEF Flat, Overlap

LEMMA OnKeepsChannels ==
    ASSUME FlatOnly, PlayInv, NEW n0 \in Coming, OnEvent(n0) \in Top, n0.on <= time,
           NoteOn(OnEvent(n0)), MoveOn(OnEvent(n0)), song' = song
    PROVE  ChannelsKnown'
  <1>1. /\ song \in Songs /\ n0 \in song.notes /\ n0.ch \in Channel
        /\ HeapKnown /\ ChannelsKnown /\ PlayerTypes
    BY PlayTypes, NoteTypes DEF PlayInv
  <1>2. Begun' = Begun \cup {n0} /\ n0 \notin Begun
    BY <1>1, OnMoves, EndsBeforeBegins
  <1>3. /\ sounding' = [sounding EXCEPT ![n0.ch] = @ \cup {n0.pitch}]
        /\ notes' = [notes EXCEPT ![n0.ch] = @ + 1]
        /\ \/ notes[n0.ch] = 0 /\ owner' = [owner EXCEPT ![n0.ch] = n0.track]
           \/ notes[n0.ch] # 0 /\ owner' = owner /\ owner[n0.ch] = n0.track
    BY EventFacts DEF NoteOn, NoteAsserts, FirstOnChannel, NotFirstOnChannel
  <1>4. DOMAIN notes = Channel /\ DOMAIN owner = Channel /\ DOMAIN sounding = Channel
    BY <1>1 DEF PlayerTypes
  <1> SUFFICES ASSUME NEW ch \in Channel
               PROVE  /\ IsFiniteSet(Voices(ch)') /\ notes'[ch] = Cardinality(Voices(ch)')
                      /\ sounding'[ch] = {n.pitch : n \in Voices(ch)'}
                      /\ \A n \in Voices(ch)' : owner'[ch] = n.track
    BY DEF ChannelsKnown
  <1>5. /\ IsFiniteSet(Voices(ch)) /\ notes[ch] = Cardinality(Voices(ch))
        /\ sounding[ch] = {n.pitch : n \in Voices(ch)}
        /\ \A n \in Voices(ch) : owner[ch] = n.track
    BY <1>1 DEF ChannelsKnown
  <1>6. CASE ch # n0.ch
    <2>1. Voices(ch)' = Voices(ch)
      BY <1>2, <1>6 DEF Voices
    <2>2. notes'[ch] = notes[ch] /\ owner'[ch] = owner[ch] /\ sounding'[ch] = sounding[ch]
      BY <1>3, <1>4, <1>6
    <2> QED
      BY <1>5, <2>1, <2>2
  <1>7. CASE ch = n0.ch
    <2>1. Voices(ch)' = Voices(ch) \cup {n0} /\ n0 \notin Voices(ch)
      BY <1>2, <1>7 DEF Voices
    <2>2. IsFiniteSet(Voices(ch)') /\ Cardinality(Voices(ch)') = Cardinality(Voices(ch)) + 1
      BY <1>5, <2>1, FS_AddElement
    <2>3. notes'[ch] = notes[ch] + 1 /\ sounding'[ch] = sounding[ch] \cup {n0.pitch}
      BY <1>3, <1>4, <1>7
    <2>4. sounding'[ch] = {n.pitch : n \in Voices(ch)'}
      BY <1>5, <2>1, <2>3
    <2>5. \A n \in Voices(ch)' : owner'[ch] = n.track
      <3>1. CASE notes[ch] = 0
        <4>1. Voices(ch) = {}
          BY <1>5, <3>1, FS_EmptySet
        <4> QED
          BY <1>3, <1>4, <1>7, <2>1, <3>1, <4>1
      <3>2. CASE notes[ch] # 0
        BY <1>3, <1>5, <1>7, <2>1, <3>2
      <3> QED
        BY <3>1, <3>2
    <2> QED
      BY <1>5, <2>2, <2>3, <2>4, <2>5
  <1> QED
    BY <1>6, <1>7

LEMMA OffKeepsChannels ==
    ASSUME FlatOnly, PlayInv, NEW n0 \in Begun,
           NoteOff(OffEvent(n0)), MoveOn(OffEvent(n0)), song' = song
    PROVE  ChannelsKnown'
  <1>1. /\ song \in Songs /\ n0 \in song.notes /\ n0.ch \in Channel
        /\ HeapKnown /\ ChannelsKnown /\ PlayerTypes
    BY PlayTypes, NoteTypes DEF PlayInv
  <1>2. Begun' = Begun \ {n0}
    BY <1>1, OffMoves
  <1>3. /\ sounding' = [sounding EXCEPT ![n0.ch] = @ \ {n0.pitch}]
        /\ notes' = [notes EXCEPT ![n0.ch] = @ - 1]
        /\ owner' = owner
    BY EventFacts DEF NoteOff
  <1>4. DOMAIN notes = Channel /\ DOMAIN owner = Channel /\ DOMAIN sounding = Channel
    BY <1>1 DEF PlayerTypes
  <1> SUFFICES ASSUME NEW ch \in Channel
               PROVE  /\ IsFiniteSet(Voices(ch)') /\ notes'[ch] = Cardinality(Voices(ch)')
                      /\ sounding'[ch] = {n.pitch : n \in Voices(ch)'}
                      /\ \A n \in Voices(ch)' : owner'[ch] = n.track
    BY DEF ChannelsKnown
  <1>5. /\ IsFiniteSet(Voices(ch)) /\ notes[ch] = Cardinality(Voices(ch))
        /\ sounding[ch] = {n.pitch : n \in Voices(ch)}
        /\ \A n \in Voices(ch) : owner[ch] = n.track
    BY <1>1 DEF ChannelsKnown
  <1>6. CASE ch # n0.ch
    <2>1. Voices(ch)' = Voices(ch)
      BY <1>2, <1>6 DEF Voices
    <2>2. notes'[ch] = notes[ch] /\ owner'[ch] = owner[ch] /\ sounding'[ch] = sounding[ch]
      BY <1>3, <1>4, <1>6
    <2> QED
      BY <1>5, <2>1, <2>2
  <1>7. CASE ch = n0.ch
    <2>1. Voices(ch)' = Voices(ch) \ {n0} /\ n0 \in Voices(ch)
      BY <1>2, <1>7 DEF Voices
    <2>2. IsFiniteSet(Voices(ch)') /\ Cardinality(Voices(ch)') = Cardinality(Voices(ch)) - 1
      BY <1>5, <2>1, FS_RemoveElement
    <2>3. notes'[ch] = notes[ch] - 1 /\ sounding'[ch] = sounding[ch] \ {n0.pitch}
      BY <1>3, <1>4, <1>7
    <2>4. sounding'[ch] = {n.pitch : n \in Voices(ch)'}
      <3>1. \A n \in Voices(ch) : n # n0 => n.pitch # n0.pitch
        BY <2>1, VoicesDiffer DEF Voices
      <3> QED
        BY <1>5, <2>1, <2>3, <3>1
    <2> QED
      BY <1>3, <1>5, <2>1, <2>2, <2>3, <2>4
  <1> QED
    BY <1>6, <1>7

-----------------------------------------------------------------------------
(* The controllers stay known.                                             *)
LEMMA ControllersUnmoved ==
    ASSUME FlatOnly, PlayInv, song' = song, time' \in Nat, time <= time',
           \A ch \in Sender, ctrl \in Ctrl :
              /\ Due(ch, ctrl)' = Due(ch, ctrl)
              /\ Effective(ch, ctrl)' = Effective(ch, ctrl)
              /\ ch # FILE /\ notes'[ch] # 0 => ~KeptBack(ch, ctrl)'
    PROVE  ControllersKnown'
  <1> SUFFICES ASSUME NEW ch \in Sender, NEW ctrl \in Ctrl
               PROVE  /\ \A s, t \in Due(ch, ctrl)' : s = t
                      /\ \A s \in Passed(ch, ctrl)' : s <= time'
                      /\ \/ \E t \in Due(ch, ctrl)' : t <= song'.start
                         \/ Effective(ch, ctrl)'
                              = LastOf(song'.changes[ch][ctrl], Passed(ch, ctrl)')
                      /\ ch # FILE /\ notes'[ch] # 0 => ~KeptBack(ch, ctrl)'
    BY DEF ControllersKnown, LastOf
  <1>1. ControllersKnown /\ time \in Nat
    BY PlayTypes DEF PlayInv
  <1>2. Passed(ch, ctrl)' = Passed(ch, ctrl)
    BY DEF Passed
  <1>3. Passed(ch, ctrl) \subseteq Nat
    BY PlayTypes DEF Passed
  <1>4. \A s \in Passed(ch, ctrl)' : s <= time'
    BY <1>1, <1>2, <1>3 DEF ControllersKnown
  <1> QED
    BY <1>1, <1>2, <1>4 DEF ControllersKnown

LEMMA OnKeepsControllers ==
    ASSUME FlatOnly, PlayInv, NEW n0 \in Coming,
           NoteOn(OnEvent(n0)), MoveOn(OnEvent(n0)), song' = song, time' = time
    PROVE  ControllersKnown'
  <1> DEFINE e == OnEvent(n0)
  <1>1. /\ song \in Songs /\ n0 \in song.notes /\ n0.ch \in Channel /\ n0.ch # FILE
        /\ HeapKnown /\ PlayerTypes /\ ControllersKnown /\ time \in Nat
    BY PlayTypes, NoteTypes, NamesAssumption DEF PlayInv
  <1>2. \A ch \in Sender, ctrl \in Ctrl : Due(ch, ctrl)' = Due(ch, ctrl)
    BY <1>1, OnMoves
  <1>3. e.note = n0
    BY EventFacts
  <1>4. /\ DOMAIN value = Sender /\ DOMAIN cache = Channel /\ DOMAIN notes = Channel
        /\ \A ch \in Channel : ch \in Sender
    BY <1>1 DEF PlayerTypes, Sender
  <1>5. ASSUME NEW ch \in Sender, NEW ctrl \in Ctrl
        PROVE  /\ Effective(ch, ctrl)' = Effective(ch, ctrl)
               /\ ch # FILE /\ notes'[ch] # 0 => ~KeptBack(ch, ctrl)'
    <2>1. notes' = [notes EXCEPT ![n0.ch] = @ + 1]
      BY <1>3 DEF NoteOn
    <2>2. CASE ch # n0.ch
      <3>1. value'[ch] = value[ch] /\ (ch # FILE => cache'[ch] = cache[ch])
        BY <1>3, <1>4, <2>2 DEF NoteOn, FirstOnChannel, NotFirstOnChannel, Sender
      <3>2. KeptBack(ch, ctrl)' = KeptBack(ch, ctrl)
        BY <3>1 DEF KeptBack
      <3>3. ch # FILE => notes'[ch] = notes[ch]
        BY <2>1, <2>2, <1>4 DEF Sender
      <3>4. Effective(ch, ctrl)' = Effective(ch, ctrl)
        BY <3>1, <3>2 DEF Effective, KeptBack
      <3> QED
        BY <1>1, <3>2, <3>3, <3>4 DEF ControllersKnown
    <2>3. CASE ch = n0.ch /\ FirstOnChannel(e)
      <3>1. value'[ch][ctrl] = IF ctrl \in Flushed(ch)
                               THEN song.changes[ch][ctrl][cache[ch][ctrl]]
                               ELSE value[ch][ctrl]
        BY <1>1, <1>3, <1>4, <2>3 DEF FirstOnChannel, Flush
      <3>2. cache'[ch][ctrl] = -1
        BY <1>1, <1>3, <1>4, <2>3 DEF FirstOnChannel
      <3>3. ~KeptBack(ch, ctrl)'
        BY <3>2 DEF KeptBack
      <3>4. Effective(ch, ctrl)' = value'[ch][ctrl]
        BY <3>3 DEF Effective
      <3>5. Effective(ch, ctrl) = IF cache[ch][ctrl] # -1
                                  THEN song.changes[ch][ctrl][cache[ch][ctrl]]
                                  ELSE value[ch][ctrl]
        BY <1>1, <2>3 DEF Effective, KeptBack
      <3>6. ctrl \in Flushed(ch) <=>
                /\ cache[ch][ctrl] # -1
                /\ song.changes[ch][ctrl][cache[ch][ctrl]] # value[ch][ctrl]
        BY DEF Flushed
      <3> QED
        BY <3>1, <3>3, <3>4, <3>5, <3>6
    <2>4. CASE ch = n0.ch /\ NotFirstOnChannel(e)
      <3>1. notes[ch] # 0 /\ value' = value /\ cache' = cache
        BY <1>3, <2>4 DEF NotFirstOnChannel
      <3>2. KeptBack(ch, ctrl)' = KeptBack(ch, ctrl)
        BY <3>1 DEF KeptBack
      <3>3. Effective(ch, ctrl)' = Effective(ch, ctrl)
        BY <3>1, <3>2 DEF Effective
      <3> QED
        BY <1>1, <2>4, <3>1, <3>2, <3>3 DEF ControllersKnown
    <2> QED
      BY <2>2, <2>3, <2>4 DEF NoteOn
  <1> QED
    BY <1>1, <1>2, <1>5, ControllersUnmoved

LEMMA OffKeepsControllers ==
    ASSUME FlatOnly, PlayInv, NEW n0 \in Begun,
           NoteOff(OffEvent(n0)), MoveOn(OffEvent(n0)), song' = song, time' = time
    PROVE  ControllersKnown'
  <1>1. /\ song \in Songs /\ n0 \in song.notes /\ n0.ch \in Channel /\ n0.ch # FILE
        /\ HeapKnown /\ PlayerTypes /\ ControllersKnown /\ ChannelsKnown /\ time \in Nat
    BY PlayTypes, NoteTypes, NamesAssumption DEF PlayInv
  <1>2. \A ch \in Sender, ctrl \in Ctrl : Due(ch, ctrl)' = Due(ch, ctrl)
    BY <1>1, OffMoves
  <1>3. /\ notes' = [notes EXCEPT ![n0.ch] = @ - 1]
        /\ value' = value /\ cache' = cache
    BY EventFacts DEF NoteOff
  <1>4. notes[n0.ch] # 0
    <2>1. n0 \in Voices(n0.ch)
      BY DEF Voices
    <2> QED
      BY <1>1, <2>1, FS_EmptySet DEF ChannelsKnown
  <1>5. DOMAIN notes = Channel
    BY <1>1 DEF PlayerTypes
  <1>6. ASSUME NEW ch \in Sender, NEW ctrl \in Ctrl
        PROVE  /\ Effective(ch, ctrl)' = Effective(ch, ctrl)
               /\ ch # FILE /\ notes'[ch] # 0 => ~KeptBack(ch, ctrl)'
    <2>1. KeptBack(ch, ctrl)' = KeptBack(ch, ctrl)
      BY <1>3 DEF KeptBack
    <2>2. Effective(ch, ctrl)' = Effective(ch, ctrl)
      BY <1>3, <2>1 DEF Effective
    <2>3. ch # FILE /\ notes'[ch] # 0 => notes[ch] # 0
      BY <1>3, <1>4, <1>5 DEF Sender
    <2> QED
      BY <1>1, <2>1, <2>2, <2>3 DEF ControllersKnown
  <1> QED
    BY <1>1, <1>2, <1>6, ControllersUnmoved

LEMMA WaitKeepsControllers ==
    ASSUME FlatOnly, PlayInv, Wait
    PROVE  ControllersKnown'
  <1>1. /\ time' \in Nat /\ time <= time' /\ song' = song /\ heap' = heap
        /\ UNCHANGED <<value, cache, notes>>
    BY WaitsForNext, PlayTypes DEF Wait
  <1>2. ASSUME NEW ch \in Sender, NEW ctrl \in Ctrl
        PROVE  /\ Due(ch, ctrl)' = Due(ch, ctrl)
               /\ Effective(ch, ctrl)' = Effective(ch, ctrl)
               /\ KeptBack(ch, ctrl)' = KeptBack(ch, ctrl)
    <2>1. KeptBack(ch, ctrl)' = KeptBack(ch, ctrl)
      BY <1>1 DEF KeptBack
    <2>2. Effective(ch, ctrl)' = Effective(ch, ctrl)
      BY <1>1, <2>1 DEF Effective
    <2>3. Due(ch, ctrl)' = Due(ch, ctrl)
      BY <1>1 DEF Due
    <2> QED
      BY <2>1, <2>2, <2>3
  <1>3. \A ch \in Sender, ctrl \in Ctrl :
            ch # FILE /\ notes'[ch] # 0 => ~KeptBack(ch, ctrl)'
    BY <1>1, <1>2 DEF PlayInv, ControllersKnown
  <1> QED
    BY <1>1, <1>2, <1>3, ControllersUnmoved

(* A change that is processed leaves its value: sent, or kept back.        *)
LEMMA CtrlTakesEffect ==
    ASSUME FlatOnly, PlayInv, NEW ch \in Sender, NEW ctrl \in Ctrl, NEW t \in Due(ch, ctrl),
           song' = song,
           \/ KeepBack(CtrlEvent(ch, ctrl, t))
           \/ SendCtrl(CtrlEvent(ch, ctrl, t))
           \/ SameCtrl(CtrlEvent(ch, ctrl, t))
    PROVE  /\ Effective(ch, ctrl)' = song.changes[ch][ctrl][t]
           /\ ch # FILE /\ notes[ch] # 0 => ~KeptBack(ch, ctrl)'
           /\ notes' = notes
  <1> DEFINE e == CtrlEvent(ch, ctrl, t)
  <1>1. /\ e.kind = IF ch = FILE THEN "file" ELSE "ctrl"
        /\ e.ch = ch /\ e.ctrl = ctrl /\ e.time = t
        /\ ChangedTo(e) = song.changes[ch][ctrl][t]
    BY CtrlEventFacts DEF ChangedTo
  <1>2. /\ DOMAIN value = Sender /\ DOMAIN value[ch] = Ctrl
        /\ ch # FILE => ch \in DOMAIN cache /\ DOMAIN cache[ch] = Ctrl
    BY DEF PlayInv, PlayerTypes, Sender
  <1>3. t \in Nat
    BY PlayTypes
  <1>4. CASE KeepBack(e)
    <2>1. ch # FILE /\ notes[ch] = 0 /\ notes' = notes
          /\ cache' = [cache EXCEPT ![ch][ctrl] = t]
      BY <1>1, <1>4 DEF KeepBack
    <2>2. cache'[ch][ctrl] = t
      BY <1>2, <2>1
    <2>3. KeptBack(ch, ctrl)'
      BY <1>3, <2>1, <2>2 DEF KeptBack
    <2> QED
      BY <2>1, <2>2, <2>3 DEF Effective
  <1>5. CASE SendCtrl(e) \/ SameCtrl(e)
    <2>1. /\ value'[ch][ctrl] = song.changes[ch][ctrl][t]
          /\ cache' = cache /\ notes' = notes
          /\ ch # FILE => notes[ch] # 0
      BY <1>1, <1>2, <1>5 DEF SendCtrl, SameCtrl, SendsNow
    <2>2. ~KeptBack(ch, ctrl)
      BY <2>1 DEF PlayInv, ControllersKnown, KeptBack
    <2>3. ~KeptBack(ch, ctrl)'
      BY <2>1, <2>2 DEF KeptBack
    <2> QED
      BY <2>1, <2>3 DEF Effective
  <1> QED
    BY <1>4, <1>5

LEMMA CtrlLeavesOthers ==
    ASSUME PlayInv, NEW ch0 \in Sender, NEW ctrl0 \in Ctrl, NEW t0,
           \/ KeepBack(CtrlEvent(ch0, ctrl0, t0))
           \/ SendCtrl(CtrlEvent(ch0, ctrl0, t0))
           \/ SameCtrl(CtrlEvent(ch0, ctrl0, t0)),
           song' = song, NEW ch \in Sender, NEW ctrl \in Ctrl, ch # ch0 \/ ctrl # ctrl0
    PROVE  /\ Effective(ch, ctrl)' = Effective(ch, ctrl)
           /\ KeptBack(ch, ctrl)' = KeptBack(ch, ctrl)
  <1> DEFINE e == CtrlEvent(ch0, ctrl0, t0)
  <1>1. e.ch = ch0 /\ e.ctrl = ctrl0 /\ e.time = t0
    BY CtrlEventFacts
  <1>2. /\ \A c \in Sender : c \in DOMAIN value /\ DOMAIN value[c] = Ctrl
        /\ \A c \in Sender : c # FILE => c \in DOMAIN cache /\ DOMAIN cache[c] = Ctrl
    BY DEF PlayInv, PlayerTypes, Sender
  <1>3. /\ value' = value \/ \E v : value' = [value EXCEPT ![ch0][ctrl0] = v]
        /\ cache' = cache \/ cache' = [cache EXCEPT ![ch0][ctrl0] = t0]
    BY <1>1 DEF KeepBack, SendCtrl, SameCtrl
  <1>4. value'[ch][ctrl] = value[ch][ctrl]
    BY <1>2, <1>3
  <1>5. ch # FILE => cache'[ch][ctrl] = cache[ch][ctrl]
    BY <1>2, <1>3
  <1>6. KeptBack(ch, ctrl)' = KeptBack(ch, ctrl)
    BY <1>5 DEF KeptBack
  <1> QED
    BY <1>4, <1>5, <1>6 DEF Effective, KeptBack

LEMMA CtrlKeepsControllers ==
    ASSUME FlatOnly, PlayInv,
           NEW ch0 \in Sender, NEW ctrl0 \in Ctrl, NEW t0 \in Due(ch0, ctrl0), t0 <= time,
           MoveOn(CtrlEvent(ch0, ctrl0, t0)), song' = song, time' = time,
           \/ KeepBack(CtrlEvent(ch0, ctrl0, t0))
           \/ SendCtrl(CtrlEvent(ch0, ctrl0, t0))
           \/ SameCtrl(CtrlEvent(ch0, ctrl0, t0))
    PROVE  ControllersKnown'
  <1>1. /\ song \in Songs /\ HeapKnown /\ ControllersKnown /\ time \in Nat
    BY PlayTypes DEF PlayInv
  <1> SUFFICES ASSUME NEW ch \in Sender, NEW ctrl \in Ctrl
               PROVE  /\ \A s, t \in Due(ch, ctrl)' : s = t
                      /\ \A s \in Passed(ch, ctrl)' : s <= time'
                      /\ \/ \E t \in Due(ch, ctrl)' : t <= song'.start
                         \/ Effective(ch, ctrl)'
                              = LastOf(song'.changes[ch][ctrl], Passed(ch, ctrl)')
                      /\ ch # FILE /\ notes'[ch] # 0 => ~KeptBack(ch, ctrl)'
    BY DEF ControllersKnown, LastOf
  <1>2. notes' = notes
    BY CtrlTakesEffect
  <1>3. CASE ch # ch0 \/ ctrl # ctrl0
    <2>1. Due(ch, ctrl)' = Due(ch, ctrl)
      BY <1>1, <1>3, CtrlMoves
    <2>2. Passed(ch, ctrl)' = Passed(ch, ctrl)
      BY <2>1 DEF Passed
    <2>3. /\ Effective(ch, ctrl)' = Effective(ch, ctrl)
          /\ KeptBack(ch, ctrl)' = KeptBack(ch, ctrl)
      BY <1>3, CtrlLeavesOthers
    <2> QED
      BY <1>1, <1>2, <2>1, <2>2, <2>3 DEF ControllersKnown
  <1>4. CASE ch = ch0 /\ ctrl = ctrl0
    <2> DEFINE c == song.changes[ch0][ctrl0]
               later == {s \in DOMAIN c : s > t0}
    <2>1. DOMAIN c \subseteq Nat /\ t0 \in DOMAIN c
      BY PlayTypes
    <2>2. Due(ch0, ctrl0) = {t0}
      BY <1>1 DEF ControllersKnown
    <2>3. Due(ch0, ctrl0)' = IF later = {} THEN {} ELSE {Min(later)}
      <3>1. Due(ch0, ctrl0)' = (Due(ch0, ctrl0) \ {t0})
                                 \cup (IF later = {} THEN {} ELSE {Min(later)})
        BY <1>1, CtrlMoves
      <3> QED
        BY <2>2, <3>1
    <2>4. later # {} => Min(later) \in later /\ \A s \in later : Min(later) <= s
      BY <2>1, MinFacts
    <2>5. Passed(ch0, ctrl0)' = {s \in DOMAIN c : s <= t0}
      <3>1. \A s : s \in Passed(ch0, ctrl0)'
                      <=> s \in DOMAIN c /\ \A t \in Due(ch0, ctrl0)' : s < t
        BY DEF Passed
      <3>2. ASSUME NEW s \in DOMAIN c
            PROVE  (\A t \in Due(ch0, ctrl0)' : s < t) <=> s <= t0
        <4>1. CASE later = {}
          BY <2>1, <2>3, <4>1
        <4>2. CASE later # {}
          <5>1. \A t \in Due(ch0, ctrl0)' : t = Min(later)
            BY <2>3, <4>2
          <5>2. Min(later) \in Due(ch0, ctrl0)'
            BY <2>3, <4>2
          <5>3. Min(later) \in Nat /\ Min(later) > t0 /\ t0 \in Nat /\ s \in Nat
            BY <2>1, <2>4, <4>2
          <5>4. s < Min(later) <=> s <= t0
            <6>1. CASE s <= t0
              BY <5>3, <6>1
            <6>2. CASE s > t0
              <7>1. Min(later) <= s
                BY <2>4, <4>2, <6>2
              <7> QED
                BY <5>3, <6>2, <7>1
            <6> QED
              BY <5>3, <6>1, <6>2
          <5> QED
            BY <5>1, <5>2, <5>4
        <4> QED
          BY <4>1, <4>2
      <3> QED
        BY <3>1, <3>2
    <2>6. Max(Passed(ch0, ctrl0)') = t0 /\ Passed(ch0, ctrl0)' # {}
      <3> DEFINE P == {s \in DOMAIN c : s <= t0}
      <3>1. P \in SUBSET Nat /\ t0 \in P /\ \A s \in P : s <= t0
        BY <2>1
      <3>2. Max(P) = t0
        BY <3>1, MaxIs
      <3> QED
        BY <2>5, <3>1, <3>2
    <2>7. LastOf(c, Passed(ch0, ctrl0)') = c[t0]
      BY <2>6 DEF LastOf
    <2>8. Effective(ch0, ctrl0)' = c[t0]
      BY CtrlTakesEffect
    <2>9. \A s \in Passed(ch0, ctrl0)' : s <= time
      BY <1>1, <2>1, <2>5
    <2>10. \A s, t \in Due(ch0, ctrl0)' : s = t
      BY <2>3
    <2>11. ch0 # FILE /\ notes'[ch0] # 0 => ~KeptBack(ch0, ctrl0)'
      BY <1>2, CtrlTakesEffect
    <2> QED
      BY <1>4, <2>7, <2>8, <2>9, <2>10, <2>11
  <1> QED
    BY <1>3, <1>4

-----------------------------------------------------------------------------
(* The start: each controller's event is at the change that holds, or else *)
(* at its first; each track's at its first note.                           *)
LEMMA StartEvents ==
    ASSUME NEW s \in Songs, NEW f
    PROVE  f \in StartHeap(s) <=>
              \/ \E ch \in Sender, ctrl \in Ctrl : f \in FirstChange(s, ch, ctrl)
              \/ \E tr \in Track : f \in FirstNote(s, tr)
  <1> DEFINE changes == UNION {FirstChange(s, c[1], c[2]) : c \in Sender \X Ctrl}
             firsts == UNION {FirstNote(s, tr) : tr \in Track}
  <1>1. StartHeap(s) = changes \cup firsts
    BY DEF StartHeap
  <1>2. f \in changes <=> \E c \in Sender \X Ctrl : f \in FirstChange(s, c[1], c[2])
    OBVIOUS
  <1>3. f \in changes => \E ch \in Sender, ctrl \in Ctrl : f \in FirstChange(s, ch, ctrl)
    <2> SUFFICES ASSUME f \in changes
                 PROVE  \E ch \in Sender, ctrl \in Ctrl : f \in FirstChange(s, ch, ctrl)
      OBVIOUS
    <2>1. PICK c \in Sender \X Ctrl : f \in FirstChange(s, c[1], c[2])
      BY <1>2
    <2>2. c[1] \in Sender /\ c[2] \in Ctrl
      OBVIOUS
    <2> QED
      BY <2>1, <2>2
  <1>4. ASSUME NEW ch \in Sender, NEW ctrl \in Ctrl, f \in FirstChange(s, ch, ctrl)
        PROVE  f \in changes
    <2>1. <<ch, ctrl>> \in Sender \X Ctrl /\ <<ch, ctrl>>[1] = ch /\ <<ch, ctrl>>[2] = ctrl
      OBVIOUS
    <2> HIDE DEF changes
    <2> QED
      BY <1>2, <1>4, <2>1
  <1>5. f \in firsts <=> \E tr \in Track : f \in FirstNote(s, tr)
    OBVIOUS
  <1> HIDE DEF changes, firsts
  <1> QED
    BY <1>1, <1>3, <1>4, <1>5

LEMMA FirstChangeIs ==
    ASSUME FlatOnly, NEW s \in Songs, NEW ch \in Sender, NEW ctrl \in Ctrl
    PROVE  \E D \in SUBSET DOMAIN s.changes[ch][ctrl] :
              /\ FirstChange(s, ch, ctrl) = {CtrlEvent(ch, ctrl, t) : t \in D}
              /\ \A t, u \in D : t = u
              /\ \/ \E t \in D : t <= s.start
                 \/ \A u \in DOMAIN s.changes[ch][ctrl] : \E t \in D : t <= u
              /\ \A t \in D, u \in DOMAIN s.changes[ch][ctrl] :
                    s.start <= t \/ u <= t \/ s.start < u
  <1> DEFINE all == DOMAIN s.changes[ch][ctrl]
             past == {t \in all : t <= s.start}
             T == IF past # {} THEN {Max(past)} ELSE all
  <1>1. FirstChange(s, ch, ctrl) = EventAt(ch, ctrl, T)
    BY DEF FirstChange
  <1>2. all \subseteq Nat /\ past \subseteq Nat /\ s.start \in Nat
    BY ChangeTimes, NoteTypes
  <1>3. CASE T = {}
    <2>1. all = {}
      BY <1>3
    <2>2. FirstChange(s, ch, ctrl) = {}
      BY <1>1, <1>3 DEF EventAt
    <2> WITNESS {} \in SUBSET all
    <2> QED
      BY <2>1, <2>2
  <1>4. CASE T # {}
    <2>1. past # {} => Max(past) \in past /\ \A u \in past : u <= Max(past)
      BY <1>2, MaxFacts
    <2>2. T \in SUBSET Nat /\ T \subseteq all
      BY <1>2, <2>1
    <2>3. Min(T) \in T /\ \A u \in T : Min(T) <= u
      BY <1>4, <2>2, MinFacts
    <2>4. FirstChange(s, ch, ctrl) = {CtrlEvent(ch, ctrl, Min(T))}
      BY <1>1, <1>4 DEF EventAt
    <2>5. past # {} => Min(T) <= s.start
      BY <2>1, <2>3
    <2>6. past = {} => \A u \in all : Min(T) <= u
      BY <2>3
    <2>6a. \A u \in all : s.start <= Min(T) \/ u <= Min(T) \/ s.start < u
      <3>1. CASE past # {}
        <4>1. Min(T) = Max(past) /\ Min(T) \in Nat
          BY <2>2, <2>3, <3>1
        <4>2. \A u \in past : u <= Min(T)
          BY <2>1, <3>1, <4>1
        <4> HIDE DEF T
        <4>3. \A u \in all : u \in past \/ s.start < u
          BY <1>2
        <4> QED
          BY <4>2, <4>3
      <3>2. CASE past = {}
        <4>1. Min(T) \in all /\ Min(T) \notin past
          BY <2>2, <2>3, <3>2
        <4> HIDE DEF T
        <4>2. s.start < Min(T)
          BY <1>2, <4>1
        <4>3. Min(T) \in Nat
          BY <1>2, <4>1
        <4> QED
          BY <1>2, <4>2, <4>3
      <3> QED
        BY <3>1, <3>2
    <2> HIDE DEF T, past
    <2>7. FirstChange(s, ch, ctrl) = {CtrlEvent(ch, ctrl, t) : t \in {Min(T)}}
      BY <2>4
    <2>8. {Min(T)} \in SUBSET all
      BY <2>2, <2>3
    <2> WITNESS {Min(T)} \in SUBSET all
    <2> QED
      BY <2>5, <2>6, <2>6a, <2>7
  <1> QED
    BY <1>3, <1>4

LEMMA FirstNoteIs ==
    ASSUME FlatOnly, NEW s \in Songs, NEW tr \in Track
    PROVE  \E M \in SUBSET {n \in s.notes : n.track = tr /\ n.on >= s.start} :
              /\ FirstNote(s, tr) = {OnEvent(n) : n \in M}
              /\ \A m, n \in M : m = n
              /\ \A n \in s.notes : n.track = tr /\ n.on >= s.start
                                       => \E m \in M : m = n \/ NoteBefore(m, n)
  <1> DEFINE N == {n \in s.notes : n.track = tr /\ n.on >= s.start}
  <1>1. FirstNote(s, tr) = First(N)
    BY DEF FirstNote
  <1>2. CASE N = {}
    <2>1. FirstNote(s, tr) = {}
      BY <1>1, <1>2, FirstOfNone
    <2> WITNESS {} \in SUBSET N
    <2> QED
      BY <1>2, <2>1
  <1>3. CASE N # {}
    <2>1. PICK m \in N : /\ First(N) = {OnEvent(m)}
                         /\ \A n \in N : m = n \/ NoteBefore(m, n)
      BY <1>3, FirstNoteOf
    <2>2. FirstNote(s, tr) = {OnEvent(n) : n \in {m}}
      BY <1>1, <2>1
    <2> WITNESS {m} \in SUBSET N
    <2> QED
      BY <2>1, <2>2
  <1> QED
    BY <1>2, <1>3

LEMMA InitKnown ==
    ASSUME FlatOnly, Init
    PROVE  /\ Begun = {} /\ HeapKnown
           /\ Coming \subseteq Played
           /\ \A n \in Played : \E m \in Coming :
                 m.track = n.track /\ (m = n \/ NoteBefore(m, n))
           /\ \A m, n \in Coming : m.track = n.track => m = n
           /\ \A ch \in Sender, ctrl \in Ctrl :
                 \A t : t \in Due(ch, ctrl)
                            <=> CtrlEvent(ch, ctrl, t) \in FirstChange(song, ch, ctrl)
  <1>1. song \in Songs /\ heap = StartHeap(song)
    BY DEF Init
  <1>2. \A f \in heap :
           \/ \E n \in song.notes : n \in Coming /\ f = OnEvent(n)
           \/ \E ch \in Sender, ctrl \in Ctrl : \E t \in Due(ch, ctrl) : f = CtrlEvent(ch, ctrl, t)
    <2> SUFFICES ASSUME NEW f \in heap
                 PROVE  \/ \E n \in song.notes : n \in Coming /\ f = OnEvent(n)
                        \/ \E ch \in Sender, ctrl \in Ctrl :
                              \E t \in Due(ch, ctrl) : f = CtrlEvent(ch, ctrl, t)
      OBVIOUS
    <2>1. CASE \E ch \in Sender, ctrl \in Ctrl : f \in FirstChange(song, ch, ctrl)
      <3>1. PICK ch \in Sender, ctrl \in Ctrl : f \in FirstChange(song, ch, ctrl)
        BY <2>1
      <3>2. PICK t \in DOMAIN song.changes[ch][ctrl] : f = CtrlEvent(ch, ctrl, t)
        BY <1>1, <3>1, FirstChangeIs
      <3>3. t \in Due(ch, ctrl)
        BY <3>2 DEF Due
      <3> QED
        BY <3>2, <3>3
    <2>2. CASE \E tr \in Track : f \in FirstNote(song, tr)
      <3>1. PICK tr \in Track : f \in FirstNote(song, tr)
        BY <2>2
      <3>2. PICK n \in song.notes : f = OnEvent(n)
        BY <1>1, <3>1, FirstNoteIs
      <3> QED
        BY <3>2 DEF Coming
    <2> QED
      BY <1>1, <2>1, <2>2, StartEvents
  <1>3. Begun = {}
    <2>1. ASSUME NEW n, OffEvent(n) \in heap
          PROVE  FALSE
      <3>1. CASE \E m : OffEvent(n) = OnEvent(m)
        BY <3>1 DEF OnEvent, OffEvent
      <3>2. CASE \E ch, ctrl, t : OffEvent(n) = CtrlEvent(ch, ctrl, t)
        BY <3>2, CtrlEventIsNoNote
      <3> QED
        BY <1>2, <2>1, <3>1, <3>2
    <2> QED
      BY <2>1 DEF Begun
  <1>4. HeapKnown
    BY <1>2 DEF HeapKnown
  <1>5. \A n : OnEvent(n) \in heap <=> \E tr \in Track : OnEvent(n) \in FirstNote(song, tr)
    <2> SUFFICES ASSUME NEW n, NEW ch \in Sender, NEW ctrl \in Ctrl,
                        OnEvent(n) \in FirstChange(song, ch, ctrl)
                 PROVE  FALSE
      BY <1>1, StartEvents
    <2>1. PICK t : OnEvent(n) = CtrlEvent(ch, ctrl, t)
      BY <1>1, FirstChangeIs
    <2> QED
      BY <2>1, CtrlEventIsNoNote
  <1>6. \A n \in Coming :
           /\ n \in song.notes /\ n.on >= song.start /\ n.track \in Track
           /\ OnEvent(n) \in FirstNote(song, n.track)
    <2> SUFFICES ASSUME NEW n \in Coming
                 PROVE  /\ n \in song.notes /\ n.on >= song.start /\ n.track \in Track
                        /\ OnEvent(n) \in FirstNote(song, n.track)
      OBVIOUS
    <2>1. PICK tr \in Track : OnEvent(n) \in FirstNote(song, tr)
      BY <1>5 DEF Coming
    <2>2. PICK m \in song.notes :
              m.track = tr /\ m.on >= song.start /\ OnEvent(n) = OnEvent(m)
      BY <1>1, <2>1, FirstNoteIs
    <2>3. m = n
      BY <2>2, EventFacts
    <2> QED
      BY <2>1, <2>2, <2>3
  <1>7. Coming \subseteq Played
    BY <1>6 DEF Played
  <1>8. \A m, n \in Coming : m.track = n.track => m = n
    <2> SUFFICES ASSUME NEW m \in Coming, NEW n \in Coming, m.track = n.track
                 PROVE  m = n
      OBVIOUS
    <2>1. PICK M : /\ FirstNote(song, m.track) = {OnEvent(l) : l \in M}
                   /\ \A k, l \in M : k = l
      BY <1>1, <1>6, FirstNoteIs
    <2>2. OnEvent(m) \in FirstNote(song, m.track) /\ OnEvent(n) \in FirstNote(song, m.track)
      BY <1>6
    <2>3. m \in M /\ n \in M
      BY <2>1, <2>2, EventFacts
    <2> QED
      BY <2>1, <2>3
  <1>9. \A n \in Played : \E m \in Coming : m.track = n.track /\ (m = n \/ NoteBefore(m, n))
    <2> SUFFICES ASSUME NEW n \in Played
                 PROVE  \E m \in Coming : m.track = n.track /\ (m = n \/ NoteBefore(m, n))
      OBVIOUS
    <2>1. n \in song.notes /\ n.on >= song.start /\ n.track \in Track
      BY <1>1, NoteTypes DEF Played
    <2>2. PICK M \in SUBSET {k \in song.notes : k.track = n.track /\ k.on >= song.start} :
              /\ FirstNote(song, n.track) = {OnEvent(l) : l \in M}
              /\ \E m \in M : m = n \/ NoteBefore(m, n)
      BY <1>1, <2>1, FirstNoteIs
    <2>3. PICK m \in M : m = n \/ NoteBefore(m, n)
      BY <2>2
    <2>4. m \in song.notes /\ m.track = n.track /\ OnEvent(m) \in FirstNote(song, n.track)
      BY <2>2, <2>3
    <2>5. m \in Coming
      BY <1>5, <2>1, <2>4 DEF Coming
    <2> QED
      BY <2>3, <2>4, <2>5
  <1>10. ASSUME NEW ch \in Sender, NEW ctrl \in Ctrl, NEW t
         PROVE  t \in Due(ch, ctrl) <=> CtrlEvent(ch, ctrl, t) \in FirstChange(song, ch, ctrl)
    <2>1. ASSUME CtrlEvent(ch, ctrl, t) \in FirstChange(song, ch, ctrl)
          PROVE  t \in Due(ch, ctrl)
      <3>1. PICK u \in DOMAIN song.changes[ch][ctrl] :
                CtrlEvent(ch, ctrl, t) = CtrlEvent(ch, ctrl, u)
        BY <1>1, <2>1, FirstChangeIs
      <3>2. t = u
        BY <3>1, CtrlEventsDiffer
      <3>3. CtrlEvent(ch, ctrl, t) \in heap
        BY <1>1, <2>1, StartEvents
      <3> QED
        BY <3>2, <3>3 DEF Due
    <2>2. ASSUME t \in Due(ch, ctrl)
          PROVE  CtrlEvent(ch, ctrl, t) \in FirstChange(song, ch, ctrl)
      <3>1. CtrlEvent(ch, ctrl, t) \in heap
        BY <2>2 DEF Due
      <3>2. ASSUME NEW tr \in Track, CtrlEvent(ch, ctrl, t) \in FirstNote(song, tr)
            PROVE  FALSE
        <4>1. PICK n : CtrlEvent(ch, ctrl, t) = OnEvent(n)
          BY <1>1, <3>2, FirstNoteIs
        <4> QED
          BY <4>1, CtrlEventIsNoNote
      <3>3. PICK ch2 \in Sender, ctrl2 \in Ctrl :
                CtrlEvent(ch, ctrl, t) \in FirstChange(song, ch2, ctrl2)
        BY <1>1, <3>1, <3>2, StartEvents
      <3>4. PICK u : CtrlEvent(ch, ctrl, t) = CtrlEvent(ch2, ctrl2, u)
        BY <1>1, <3>3, FirstChangeIs
      <3>5. ch = ch2 /\ ctrl = ctrl2
        BY <3>4, CtrlEventsDiffer
      <3> QED
        BY <3>3, <3>5
    <2> QED
      BY <2>1, <2>2
  <1> QED
    BY <1>3, <1>4, <1>7, <1>8, <1>9, <1>10

LEMMA InitControllers ==
    ASSUME FlatOnly, Init
    PROVE  ControllersKnown
  <1>1. song \in Songs /\ time = song.start /\ song.start \in Nat
    BY NoteTypes DEF Init
  <1>2. ASSUME NEW ch \in Sender, NEW ctrl \in Ctrl
        PROVE  /\ \A s, t \in Due(ch, ctrl) : s = t
               /\ \A s \in Passed(ch, ctrl) : s <= time
               /\ \/ \E t \in Due(ch, ctrl) : t <= song.start
                  \/ Effective(ch, ctrl) = LastOf(song.changes[ch][ctrl], Passed(ch, ctrl))
               /\ ~KeptBack(ch, ctrl)
    <2> DEFINE c == song.changes[ch][ctrl]
    <2>1. PICK D \in SUBSET DOMAIN c :
              /\ FirstChange(song, ch, ctrl) = {CtrlEvent(ch, ctrl, t) : t \in D}
              /\ \A t, u \in D : t = u
              /\ \/ \E t \in D : t <= song.start
                 \/ \A u \in DOMAIN c : \E t \in D : t <= u
      BY <1>1, FirstChangeIs
    <2>2. DOMAIN c \subseteq Nat
      BY <1>1, ChangeTimes
    <2>3. \A t : CtrlEvent(ch, ctrl, t) \in FirstChange(song, ch, ctrl) <=> t \in D
      BY <2>1, CtrlEventsDiffer
    <2>4. \A t : t \in Due(ch, ctrl) <=> t \in D
      BY <2>3, InitKnown
    <2>5. \A s : s \in Passed(ch, ctrl) <=> s \in DOMAIN c /\ \A t \in D : s < t
      BY <2>4 DEF Passed
    <2>6. CASE \E t \in D : t <= song.start
      <3>1. PICK t \in D : t <= song.start
        BY <2>6
      <3>2. \A s \in Passed(ch, ctrl) : s <= time
        BY <1>1, <2>2, <2>5, <3>1
      <3>3. ~KeptBack(ch, ctrl)
        BY DEF Init, KeptBack, Sender
      <3> QED
        BY <2>1, <2>4, <3>1, <3>2, <3>3
    <2>7. CASE \A u \in DOMAIN c : \E t \in D : t <= u
      <3>1. Passed(ch, ctrl) = {}
        <4> SUFFICES ASSUME NEW s \in Passed(ch, ctrl)
                     PROVE  FALSE
          OBVIOUS
        <4>1. PICK t \in D : t <= s
          BY <2>5, <2>7
        <4> QED
          BY <2>2, <2>5, <4>1
      <3>2. ~KeptBack(ch, ctrl)
        BY DEF Init, KeptBack, Sender
      <3>3. value[ch][ctrl] = Default
        BY DEF Init
      <3>4. Effective(ch, ctrl) = Default /\ LastOf(c, Passed(ch, ctrl)) = Default
        BY <3>1, <3>2, <3>3 DEF Effective, LastOf
      <3> QED
        BY <2>1, <2>4, <3>1, <3>2, <3>4
    <2> QED
      BY <2>1, <2>6, <2>7
  <1> QED
    BY <1>2 DEF ControllersKnown

-----------------------------------------------------------------------------
(* The invariant.                                                          *)
LEMMA InitInv ==
    ASSUME FlatOnly, Init
    PROVE  PlayInv
  <1>1. song \in Songs /\ time = song.start /\ song.start \in Nat
    BY NoteTypes DEF Init
  <1>2. PlayerTypes
    BY <1>1 DEF Init, PlayerTypes, Time
  <1>3. NotesInOrder
    <2>1. Begun = {} /\ Coming \subseteq Played
      BY InitKnown
    <2>2. \A n \in Coming : time <= n.on
      BY <1>1, <2>1, NoteTypes DEF Played
    <2> QED
      BY <2>1, <2>2, InitKnown DEF NotesInOrder
  <1>4. ChannelsKnown
    <2>1. \A ch : Voices(ch) = {}
      BY InitKnown DEF Voices
    <2>2. \A ch \in Channel : notes[ch] = 0 /\ sounding[ch] = {}
      BY DEF Init
    <2>3. IsFiniteSet({}) /\ Cardinality({}) = 0
      BY FS_EmptySet
    <2> QED
      BY <2>1, <2>2, <2>3 DEF ChannelsKnown
  <1> QED
    BY <1>2, <1>3, <1>4, InitKnown, InitControllers DEF PlayInv

LEMMA OnKeepsTypes ==
    ASSUME FlatOnly, PlayInv, NEW n0 \in Coming, NoteOn(OnEvent(n0)),
           song' = song, time' = time
    PROVE  PlayerTypes'
  <1>1. /\ n0.ch \in Channel /\ n0.ch \in Sender /\ OnEvent(n0).note = n0
        /\ PlayerTypes
    BY PlayTypes, NoteTypes, EventFacts DEF PlayInv, Sender
  <1>2. /\ DOMAIN notes' = Channel /\ DOMAIN sounding' = Channel /\ DOMAIN owner' = Channel
    BY <1>1 DEF PlayerTypes, NoteOn, FirstOnChannel, NotFirstOnChannel
  <1>3. DOMAIN cache' = Channel /\ \A ch \in Channel : DOMAIN cache'[ch] = Ctrl
    BY <1>1 DEF PlayerTypes, NoteOn, FirstOnChannel, NotFirstOnChannel
  <1>4. \A old : DOMAIN Flush(n0.ch, old) = Ctrl
    BY DEF Flush
  <1>5. DOMAIN value' = Sender /\ \A ch \in Sender : DOMAIN value'[ch] = Ctrl
    BY <1>1, <1>4 DEF PlayerTypes, NoteOn, FirstOnChannel, NotFirstOnChannel
  <1>6. heard' = value'
    BY <1>1 DEF PlayerTypes, NoteOn, FirstOnChannel, NotFirstOnChannel
  <1> QED
    BY <1>1, <1>2, <1>3, <1>5, <1>6 DEF PlayerTypes

LEMMA OffKeepsTypes ==
    ASSUME FlatOnly, PlayInv, NEW n0 \in Begun, NoteOff(OffEvent(n0)),
           song' = song, time' = time
    PROVE  PlayerTypes'
  BY DEF PlayInv, PlayerTypes, NoteOff

LEMMA CtrlKeepsTypes ==
    ASSUME FlatOnly, PlayInv, NEW ch0 \in Sender, NEW ctrl0 \in Ctrl, NEW t0,
           \/ KeepBack(CtrlEvent(ch0, ctrl0, t0))
           \/ SendCtrl(CtrlEvent(ch0, ctrl0, t0))
           \/ SameCtrl(CtrlEvent(ch0, ctrl0, t0)),
           song' = song, time' = time
    PROVE  PlayerTypes'
  <1> DEFINE e == CtrlEvent(ch0, ctrl0, t0)
  <1>1. e.ch = ch0 /\ e.ctrl = ctrl0 /\ e.time = t0
    BY CtrlEventFacts
  <1>2. CASE KeepBack(e)
    BY <1>1, <1>2 DEF KeepBack, PlayInv, PlayerTypes
  <1>3. CASE SendCtrl(e)
    BY <1>1, <1>3 DEF SendCtrl, PlayInv, PlayerTypes
  <1>4. CASE SameCtrl(e)
    BY <1>4 DEF SameCtrl, PlayInv, PlayerTypes
  <1> QED
    BY <1>2, <1>3, <1>4

LEMMA CtrlKeepsRest ==
    ASSUME FlatOnly, PlayInv,
           NEW ch0 \in Sender, NEW ctrl0 \in Ctrl, NEW t0 \in Due(ch0, ctrl0),
           MoveOn(CtrlEvent(ch0, ctrl0, t0)), song' = song, time' = time,
           \/ KeepBack(CtrlEvent(ch0, ctrl0, t0))
           \/ SendCtrl(CtrlEvent(ch0, ctrl0, t0))
           \/ SameCtrl(CtrlEvent(ch0, ctrl0, t0))
    PROVE  HeapKnown' /\ NotesInOrder' /\ ChannelsKnown'
  <1>1. HeapKnown /\ NotesInOrder /\ ChannelsKnown /\ song \in Songs
    BY PlayTypes DEF PlayInv
  <1>2. Begun' = Begun /\ Coming' = Coming /\ HeapKnown'
    BY <1>1, CtrlMoves
  <1>3. NotesInOrder'
    <2>1. Played' = Played
      BY DEF Played
    <2> QED
      BY <1>1, <1>2, <2>1 DEF NotesInOrder
  <1>4. UNCHANGED <<notes, sounding, owner>>
    BY DEF KeepBack, SendCtrl, SameCtrl
  <1> QED
    BY <1>1, <1>2, <1>3, <1>4, ChannelsUnmoved

(* The invariant says nothing of what else changes.                        *)
LEMMA RestUnmoved ==
    ASSUME PlayInv,
           UNCHANGED <<song, heap, time, value, cache, notes, owner, sounding, heard>>
    PROVE  PlayInv'
  <1>1. Begun' = Begun /\ Coming' = Coming /\ Played' = Played
    BY DEF Begun, Coming, Played
  <1>2. \A ch, ctrl : Due(ch, ctrl)' = Due(ch, ctrl)
    BY DEF Due
  <1>3. \A ch, ctrl : Passed(ch, ctrl)' = Passed(ch, ctrl)
    BY <1>2 DEF Passed
  <1>4. \A ch, ctrl : KeptBack(ch, ctrl)' = KeptBack(ch, ctrl)
    BY DEF KeptBack
  <1>5. \A ch, ctrl : Effective(ch, ctrl)' = Effective(ch, ctrl)
    BY <1>4 DEF Effective
  <1>6. PlayerTypes' /\ NotesInOrder'
    BY <1>1 DEF PlayInv, PlayerTypes, NotesInOrder
  <1>7. HeapKnown'
    BY <1>1, <1>2 DEF PlayInv, HeapKnown
  <1>8. ChannelsKnown'
    BY <1>1, ChannelsUnmoved DEF PlayInv
  <1>9. ControllersKnown'
    BY <1>2, <1>3, <1>4, <1>5 DEF PlayInv, ControllersKnown, LastOf
  <1> QED
    BY <1>6, <1>7, <1>8, <1>9 DEF PlayInv

LEMMA NextInv ==
    ASSUME FlatOnly, PlayInv, [Next]_vars
    PROVE  PlayInv'
  <1>1. CASE Process
    <2>1. song' = song /\ time' = time /\ HeapKnown /\ song \in Songs
      BY <1>1, ProcessCases, PlayTypes DEF PlayInv
    <2>2. CASE \E n \in Coming : /\ OnEvent(n) \in Top /\ n.on <= time
                                 /\ NoteOn(OnEvent(n)) /\ MoveOn(OnEvent(n))
      <3>1. PICK n \in Coming : /\ OnEvent(n) \in Top /\ n.on <= time
                                /\ NoteOn(OnEvent(n)) /\ MoveOn(OnEvent(n))
        BY <2>2
      <3>2. HeapKnown'
        BY <2>1, <3>1, OnMoves
      <3> QED
        BY <2>1, <3>1, <3>2, OnKeepsTypes, OnKeepsOrder, OnKeepsChannels, OnKeepsControllers
        DEF PlayInv
    <2>3. CASE \E n \in Begun : /\ OffEvent(n) \in Top /\ n.off <= time
                                /\ NoteOff(OffEvent(n)) /\ MoveOn(OffEvent(n))
      <3>1. PICK n \in Begun : /\ OffEvent(n) \in Top /\ n.off <= time
                               /\ NoteOff(OffEvent(n)) /\ MoveOn(OffEvent(n))
        BY <2>3
      <3>2. HeapKnown'
        BY <2>1, <3>1, OffMoves
      <3> QED
        BY <2>1, <3>1, <3>2, OffKeepsTypes, OffKeepsOrder, OffKeepsChannels, OffKeepsControllers
        DEF PlayInv
    <2>4. CASE \E ch \in Sender, ctrl \in Ctrl : \E t \in Due(ch, ctrl) :
                  LET e == CtrlEvent(ch, ctrl, t) IN
                  /\ e \in Top /\ t <= time /\ MoveOn(e)
                  /\ KeepBack(e) \/ SendCtrl(e) \/ SameCtrl(e)
      <3>1. PICK ch \in Sender, ctrl \in Ctrl :
                \E t \in Due(ch, ctrl) :
                  LET e == CtrlEvent(ch, ctrl, t) IN
                  /\ e \in Top /\ t <= time /\ MoveOn(e)
                  /\ KeepBack(e) \/ SendCtrl(e) \/ SameCtrl(e)
        BY <2>4
      <3>2. PICK t \in Due(ch, ctrl) :
                LET e == CtrlEvent(ch, ctrl, t) IN
                /\ e \in Top /\ t <= time /\ MoveOn(e)
                /\ KeepBack(e) \/ SendCtrl(e) \/ SameCtrl(e)
        BY <3>1
      <3> QED
        BY <2>1, <3>2, CtrlKeepsTypes, CtrlKeepsRest, CtrlKeepsControllers DEF PlayInv
    <2> QED
      BY <1>1, <2>2, <2>3, <2>4, ProcessCases
  <1>2. CASE Wait
    <2>1. /\ time' \in Nat /\ time < time' /\ song' = song /\ heap' = heap
          /\ UNCHANGED <<value, cache, notes, owner, sounding, heard>>
      BY <1>2, WaitsForNext DEF Wait
    <2>2. Begun' = Begun /\ Coming' = Coming /\ \A ch, ctrl : Due(ch, ctrl)' = Due(ch, ctrl)
      BY <2>1 DEF Begun, Coming, Due
    <2>3. HeapKnown'
      BY <2>1, <2>2 DEF PlayInv, HeapKnown
    <2>4. PlayerTypes'
      <3>1. song.start <= time /\ song.start \in Nat /\ time \in Nat
        BY PlayTypes
      <3> QED
        BY <2>1, <3>1 DEF PlayInv, PlayerTypes, Time
    <2>5. ChannelsKnown'
      BY <2>1, <2>2, ChannelsUnmoved DEF PlayInv
    <2> QED
      BY <1>2, <2>3, <2>4, <2>5, WaitKeepsOrder, WaitKeepsControllers DEF PlayInv
  <1>3. CASE Stop \/ End \/ UNCHANGED vars
    BY <1>3, RestUnmoved DEF Stop, End, vars, player
  <1> QED
    BY <1>1, <1>2, <1>3 DEF Next

(* Whatever is played, at any time, the heap holds each track's next note, *)
(* the ends of those that sound, and each controller's next change; the    *)
(* counters, owners and kept values agree with what was processed.         *)
THEOREM PlayInvariant ==
    ASSUME FlatOnly
    PROVE  Spec => []PlayInv
  <1>1. Init => PlayInv
    BY InitInv
  <1>2. PlayInv /\ [Next]_vars => PlayInv'
    BY NextInv
  <1> QED
    BY <1>1, <1>2, PTL DEF Spec

-----------------------------------------------------------------------------
(* What follows from the invariant.                                        *)
LEMMA SilentIsEmpty ==
    ASSUME PlayInv, NEW ch \in Channel
    PROVE  notes[ch] = 0 <=> Voices(ch) = {}
  BY FS_EmptySet DEF PlayInv, ChannelsKnown

LEMMA InvNeverAborts ==
    ASSUME FlatOnly, PlayInv
    PROVE  NeverAborts
  <1> SUFFICES ASSUME NEW e \in Top, e.time <= time, e.kind = "on"
               PROVE  NoteAsserts(e.note)
    BY DEF NeverAborts
  <1>1. PICK n \in Coming : e = OnEvent(n)
    <2>1. e \in heap
      BY DEF Top
    <2>2. ~\E n \in Begun : e = OffEvent(n)
      BY DEF OffEvent
    <2>3. ~\E ch \in Sender, ctrl \in Ctrl : \E t \in Due(ch, ctrl) : e = CtrlEvent(ch, ctrl, t)
      BY CtrlEventFacts
    <2> QED
      BY <2>1, <2>2, <2>3 DEF PlayInv, HeapKnown
  <1>2. e.note = n /\ n.on <= time /\ n \in song.notes /\ n.ch \in Channel
    BY <1>1, EventFacts, PlayTypes, NoteTypes
  <1>3. notes[n.ch] # 0 => owner[n.ch] = n.track
    <2> SUFFICES ASSUME notes[n.ch] # 0
                 PROVE  owner[n.ch] = n.track
      OBVIOUS
    <2>1. PICK m \in Voices(n.ch) : TRUE
      BY <1>2, SilentIsEmpty
    <2>2. m \in Begun /\ m.ch = n.ch
      BY DEF Voices
    <2>3. m.track = n.track
      BY <1>1, <1>2, <2>2, ComingDiffers
    <2> QED
      BY <1>2, <2>3 DEF PlayInv, ChannelsKnown
  <1> QED
    BY <1>2, <1>3 DEF NoteAsserts

(* Once all that is due was processed, the notes that have begun are those *)
(* that sound in the song.                                                 *)
LEMMA BegunAre ==
    ASSUME FlatOnly, PlayInv, CaughtUp, NEW n
    PROVE  n \in Begun <=> n \in Played /\ n.on <= time /\ time < n.off
  <1>1. NotesInOrder /\ time \in Nat /\ song \in Songs
    BY PlayTypes DEF PlayInv
  <1>2. ASSUME n \in Begun
        PROVE  n \in Played /\ n.on <= time /\ time < n.off
    <2>1. OffEvent(n) \in heap /\ OffEvent(n).time = n.off
      BY <1>2, EventFacts DEF Begun
    <2> QED
      BY <1>1, <1>2, <2>1 DEF CaughtUp, NotesInOrder
  <1>3. ASSUME n \in Played, n.on <= time, time < n.off, n \notin Begun
        PROVE  FALSE
    <2>1. n \in song.notes /\ n.on \in Nat /\ n.off \in Nat
      BY <1>1, <1>3, NoteTypes DEF Played
    <2>2. PICK m \in Coming : m.track = n.track /\ (m = n \/ NoteBefore(m, n))
      BY <1>1, <1>3, <2>1 DEF NotesInOrder
    <2>3. OnEvent(m) \in heap /\ OnEvent(m).time = m.on /\ m.on \in Nat
      BY <1>1, <2>2, EventFacts, NoteTypes DEF Coming
    <2>4. m.on > time
      BY <2>3 DEF CaughtUp
    <2>5. m.on <= n.on
      BY <2>1, <2>2, <2>3 DEF NoteBefore
    <2> QED
      BY <1>1, <1>3, <2>1, <2>3, <2>4, <2>5
  <1> QED
    BY <1>2, <1>3

LEMMA InvSoundsRight ==
    ASSUME FlatOnly, PlayInv
    PROVE  SoundsRight
  <1> SUFFICES ASSUME CaughtUp, NEW ch \in Channel
               PROVE  sounding[ch] = {n.pitch : n \in {n \in Played : /\ n.ch = ch
                                                                     /\ n.on <= time
                                                                     /\ time < n.off}}
    BY DEF SoundsRight
  <1>1. Voices(ch) = {n \in Played : n.ch = ch /\ n.on <= time /\ time < n.off}
    BY BegunAre DEF Voices
  <1> QED
    BY <1>1 DEF PlayInv, ChannelsKnown

LEMMA InvHearsControllers ==
    ASSUME FlatOnly, PlayInv
    PROVE  HearsControllers
  <1> SUFFICES ASSUME CaughtUp, NEW ch \in Sender, NEW ctrl \in Ctrl,
                      ch = FILE \/ notes[ch] # 0
               PROVE  heard[ch][ctrl] = ValueAt(song.changes[ch][ctrl], time)
    BY DEF HearsControllers
  <1> DEFINE c == song.changes[ch][ctrl]
  <1>1. /\ ControllersKnown /\ heard = value /\ time \in Nat /\ song.start <= time
        /\ song.start \in Nat /\ DOMAIN c \subseteq Nat
    BY PlayTypes DEF PlayInv, PlayerTypes
  <1>2. \A t \in Due(ch, ctrl) : t > time
    BY CtrlEventFacts DEF Due, CaughtUp
  <1>3. Passed(ch, ctrl) = {s \in DOMAIN c : s <= time}
    <2>1. \A s \in Passed(ch, ctrl) : s \in DOMAIN c /\ s <= time
      BY <1>1 DEF ControllersKnown, Passed
    <2>2. \A s \in DOMAIN c : s <= time => \A t \in Due(ch, ctrl) : s < t
      BY <1>1, <1>2, PlayTypes
    <2> QED
      BY <2>1, <2>2 DEF Passed
  <1>4. ~KeptBack(ch, ctrl)
    BY <1>1 DEF ControllersKnown, KeptBack
  <1>5. ~\E t \in Due(ch, ctrl) : t <= song.start
    BY <1>1, <1>2, PlayTypes
  <1>6. value[ch][ctrl] = LastOf(c, Passed(ch, ctrl))
    BY <1>1, <1>4, <1>5 DEF ControllersKnown, Effective
  <1> QED
    BY <1>1, <1>3, <1>6 DEF LastOf, ValueAt

LEMMA AtMostAsMany ==
    ASSUME NEW S, NEW T, IsFiniteSet(T), NEW f, \A x \in S : f[x] \in T,
           \A x, y \in S : f[x] = f[y] => x = y
    PROVE  IsFiniteSet(S) /\ Cardinality(S) <= Cardinality(T)
  <1> DEFINE g == [x \in S |-> f[x]]
  <1>1. g \in Injection(S, T)
    BY DEF Injection, IsInjective
  <1> QED
    BY <1>1, FS_Injection

LEMMA TogetherAtMost ==
    ASSUME NEW S, NEW T, IsFiniteSet(S), IsFiniteSet(T)
    PROVE  /\ IsFiniteSet(S \cup T)
           /\ Cardinality(S \cup T) <= Cardinality(S) + Cardinality(T)
  <1>1. /\ IsFiniteSet(S \cup T)
        /\ Cardinality(S \cup T) = Cardinality(S) + Cardinality(T) - Cardinality(S \cap T)
    BY FS_Union
  <1>2. IsFiniteSet(S \cap T)
    BY FS_Intersection
  <1>3. Cardinality(S) \in Nat /\ Cardinality(T) \in Nat /\ Cardinality(S \cap T) \in Nat
    BY <1>2, FS_CardinalityType
  <1> QED
    BY <1>1, <1>3

LEMMA InvHeapBound ==
    ASSUME FlatOnly, PlayInv
    PROVE  HeapBound
  <1> DEFINE changing == {c \in Sender \X Ctrl : song.changes[c[1]][c[2]] # <<>>}
             sounds == UNION {{ch} \X sounding[ch] : ch \in Channel}
             ons == {OnEvent(n) : n \in Coming}
             offs == {OffEvent(n) : n \in Begun}
             ctrls == heap \ (ons \cup offs)
  <1>1. /\ IsFiniteSet(changing) /\ IsFiniteSet(ctrls)
        /\ Cardinality(ctrls) <= Cardinality(changing)
    <2>1. IsFiniteSet(changing)
      <3>1. IsFiniteSet({FILE})
        BY FS_Singleton
      <3>2. IsFiniteSet(Sender)
        BY <3>1, SizesAssumption, FS_Union DEF Sender
      <3>3. IsFiniteSet(Sender \X Ctrl)
        BY <3>2, SizesAssumption, FS_Product
      <3>4. changing \in SUBSET (Sender \X Ctrl)
        OBVIOUS
      <3> HIDE DEF changing
      <3> QED
        BY <3>3, <3>4, FS_Subset
    <2>2. ASSUME NEW e \in ctrls
          PROVE  \E ch \in Sender, ctrl \in Ctrl :
                    \E t \in Due(ch, ctrl) : e = CtrlEvent(ch, ctrl, t)
      BY DEF PlayInv, HeapKnown
    <2> DEFINE f == [e \in ctrls |-> <<e.ch, e.ctrl>>]
    <2>3. ASSUME NEW e \in ctrls PROVE f[e] \in changing
      <3>1. PICK ch \in Sender, ctrl \in Ctrl :
                \E t \in Due(ch, ctrl) : e = CtrlEvent(ch, ctrl, t)
        BY <2>2
      <3>2. PICK t \in Due(ch, ctrl) : e = CtrlEvent(ch, ctrl, t)
        BY <3>1
      <3>3. e.ch = ch /\ e.ctrl = ctrl
        BY <3>2, CtrlEventFacts
      <3>4. song.changes[ch][ctrl] # <<>>
        BY <3>2 DEF Due
      <3> HIDE DEF ctrls
      <3> QED
        BY <3>3, <3>4
    <2>4. ASSUME NEW d \in ctrls, NEW e \in ctrls, f[d] = f[e] PROVE d = e
      <3>1. PICK ch \in Sender, ctrl \in Ctrl :
                \E t \in Due(ch, ctrl) : d = CtrlEvent(ch, ctrl, t)
        BY <2>2
      <3>2. PICK t \in Due(ch, ctrl) : d = CtrlEvent(ch, ctrl, t)
        BY <3>1
      <3>3. PICK ch2 \in Sender, ctrl2 \in Ctrl :
                \E u \in Due(ch2, ctrl2) : e = CtrlEvent(ch2, ctrl2, u)
        BY <2>2
      <3>4. PICK u \in Due(ch2, ctrl2) : e = CtrlEvent(ch2, ctrl2, u)
        BY <3>3
      <3>5. d.ch = ch /\ d.ctrl = ctrl /\ e.ch = ch2 /\ e.ctrl = ctrl2
        BY <3>2, <3>4, CtrlEventFacts
      <3>6. ch = ch2 /\ ctrl = ctrl2
        <4> HIDE DEF ctrls
        <4> QED
          BY <2>4, <3>5
      <3>7. t = u
        BY <3>2, <3>4, <3>6 DEF PlayInv, ControllersKnown
      <3> QED
        BY <3>2, <3>4, <3>6, <3>7
    <2> HIDE DEF ctrls, changing, f
    <2> QED
      BY <2>1, <2>3, <2>4, AtMostAsMany
  <1>2. IsFiniteSet(ons) /\ Cardinality(ons) <= Cardinality(Track)
    <2> DEFINE f == [e \in ons |-> e.note.track]
    <2>1. ASSUME NEW e \in ons PROVE f[e] \in Track
      <3>1. PICK n \in Coming : e = OnEvent(n)
        OBVIOUS
      <3>2. e.note = n /\ n.track \in Track
        BY <3>1, EventFacts, PlayTypes, NoteTypes
      <3> HIDE DEF ons
      <3> QED
        BY <3>2
    <2>2. ASSUME NEW d \in ons, NEW e \in ons, f[d] = f[e] PROVE d = e
      <3>1. PICK m \in Coming : d = OnEvent(m)
        OBVIOUS
      <3>2. PICK n \in Coming : e = OnEvent(n)
        OBVIOUS
      <3>3. d.note = m /\ e.note = n
        BY <3>1, <3>2, EventFacts
      <3>4. m.track = n.track
        <4> HIDE DEF ons
        <4> QED
          BY <2>2, <3>3
      <3> QED
        BY <3>1, <3>2, <3>4 DEF PlayInv, NotesInOrder
    <2> HIDE DEF ons, f
    <2> QED
      BY <2>1, <2>2, SizesAssumption, AtMostAsMany
  <1>3. /\ IsFiniteSet(sounds) /\ IsFiniteSet(offs)
        /\ Cardinality(offs) <= Cardinality(sounds)
    <2>1. \A n \in Begun : n.ch \in Channel /\ n.pitch \in Pitch
      BY PlayTypes, NoteTypes DEF Noted
    <2>2. \A ch \in Channel : sounding[ch] = {n.pitch : n \in Voices(ch)}
      BY DEF PlayInv, ChannelsKnown
    <2>3. IsFiniteSet(sounds)
      <3>1. IsFiniteSet(Channel \X Pitch)
        BY SizesAssumption, FS_Product
      <3>2. \A ch \in Channel : sounding[ch] \subseteq Pitch
        BY <2>1, <2>2 DEF Voices
      <3>3. sounds \in SUBSET (Channel \X Pitch)
        BY <3>2
      <3> HIDE DEF sounds
      <3> QED
        BY <3>1, <3>3, FS_Subset
    <2> DEFINE f == [e \in offs |-> <<e.note.ch, e.note.pitch>>]
    <2>4. ASSUME NEW e \in offs PROVE f[e] \in sounds
      <3>1. PICK n \in Begun : e = OffEvent(n)
        OBVIOUS
      <3>2. e.note = n /\ n \in Voices(n.ch) /\ n.ch \in Channel
        BY <2>1, <3>1, EventFacts DEF Voices
      <3>3. n.pitch \in sounding[n.ch]
        BY <2>2, <3>2
      <3>4. f[e] = <<n.ch, n.pitch>>
        <4> HIDE DEF offs
        <4> QED
          BY <3>2
      <3> HIDE DEF f
      <3> QED
        BY <3>2, <3>3, <3>4
    <2>5. ASSUME NEW d \in offs, NEW e \in offs, f[d] = f[e] PROVE d = e
      <3>1. PICK m \in Begun : d = OffEvent(m)
        OBVIOUS
      <3>2. PICK n \in Begun : e = OffEvent(n)
        OBVIOUS
      <3>3. d.note = m /\ e.note = n
        BY <3>1, <3>2, EventFacts
      <3>4. m.ch = n.ch /\ m.pitch = n.pitch
        <4> HIDE DEF offs
        <4> QED
          BY <2>5, <3>3
      <3> QED
        BY <3>1, <3>2, <3>4, VoicesDiffer
    <2> HIDE DEF offs, sounds, f
    <2> QED
      BY <2>3, <2>4, <2>5, AtMostAsMany
  <1>4. heap \subseteq ctrls \cup (ons \cup offs)
    OBVIOUS
  <1> HIDE DEF ctrls, ons, offs, changing, sounds
  <1>5. /\ IsFiniteSet(ons \cup offs)
        /\ Cardinality(ons \cup offs) <= Cardinality(ons) + Cardinality(offs)
    BY <1>2, <1>3, TogetherAtMost
  <1>6. /\ IsFiniteSet(ctrls \cup (ons \cup offs))
        /\ Cardinality(ctrls \cup (ons \cup offs))
              <= Cardinality(ctrls) + Cardinality(ons \cup offs)
    BY <1>1, <1>5, TogetherAtMost
  <1>7. Cardinality(heap) <= Cardinality(ctrls \cup (ons \cup offs)) /\ IsFiniteSet(heap)
    BY <1>4, <1>6, FS_Subset
  <1>8. Cardinality(heap) <= Cardinality(changing) + Cardinality(Track) + Cardinality(sounds)
    BY <1>1, <1>2, <1>3, <1>5, <1>6, <1>7, SizesAssumption, FS_CardinalityType
  <1> QED
    BY <1>8 DEF HeapBound, changing, sounds

(* No assertion of write_noteon fails while a flat song is played, from    *)
(* any time: two tracks never sound on one channel at once.                *)
THEOREM FlatNeverAborts ==
    ASSUME FlatOnly
    PROVE  Spec => []NeverAborts
  BY InvNeverAborts, PlayInvariant, PTL

(* The pitches that the device holds down are those of the song, at every  *)
(* time up to which all was processed.                                     *)
THEOREM FlatSoundsRight ==
    ASSUME FlatOnly
    PROVE  Spec => []SoundsRight
  BY InvSoundsRight, PlayInvariant, PTL

(* What sounds, sounds with the song's controllers, those kept back while  *)
(* their channel was silent and those from before the start included.      *)
THEOREM FlatHearsControllers ==
    ASSUME FlatOnly
    PROVE  Spec => []HearsControllers
  BY InvHearsControllers, PlayInvariant, PTL

(* play()'s array of events is never outgrown, however many notes the song *)
(* has.                                                                    *)
THEOREM FlatHeapBound ==
    ASSUME FlatOnly
    PROVE  Spec => []HeapBound
  BY InvHeapBound, PlayInvariant, PTL

-----------------------------------------------------------------------------
(* What a chunk's deltas add up to.                                        *)
AddDelta(c, t, k) == t + c[k].delta
SelNone(a, D) == 0
GoodAny(a, k, t) == TRUE

Sums == INSTANCE FoldFacts WITH Step <- AddDelta, Sel <- SelNone, Good <- GoodAny

IsTimes(begin, c, i, g) ==
    g = [k \in 0 .. i |-> IF k = 0 THEN begin ELSE g[k - 1] + c[k].delta]

LEMMA TimesExist ==
    ASSUME NEW begin, NEW c, NEW i \in Nat
    PROVE  \E g : IsTimes(begin, c, i, g) /\ TimeOf(begin, c, i) = g[i]
  <1> DEFINE h == CHOOSE g : g = [k \in 0 .. i |-> IF k = 0 THEN begin ELSE g[k - 1] + c[k].delta]
  <1>1. \E g : Sums!IsLoop(c, begin, i, g)
    BY Sums!LoopExists
  <1>2. \E g : g = [k \in 0 .. i |-> IF k = 0 THEN begin ELSE g[k - 1] + c[k].delta]
    BY <1>1 DEF Sums!IsLoop, AddDelta
  <1>3. h = [k \in 0 .. i |-> IF k = 0 THEN begin ELSE h[k - 1] + c[k].delta]
    BY <1>2
  <1>4. TimeOf(begin, c, i) = h[i]
    BY DEF TimeOf
  <1> QED
    BY <1>3, <1>4 DEF IsTimes

(* Two chunks that agree up to a message agree about its time.             *)
LEMMA TimesAgree ==
    ASSUME NEW begin, NEW c, NEW d, NEW i \in Nat, NEW j \in Nat, NEW g, NEW h,
           IsTimes(begin, c, i, g), IsTimes(begin, d, j, h), NEW n \in Nat, n <= i, n <= j,
           \A k \in 1 .. n : c[k].delta = d[k].delta
    PROVE  g[n] = h[n]
  <1> DEFINE Bad == {k \in 0 .. n : g[k] # h[k]}
  <1> SUFFICES ASSUME Bad # {} PROVE FALSE
    OBVIOUS
  <1>1. PICK k \in Bad : \A m \in Bad : k <= m
    <2>1. Bad \in SUBSET Nat
      OBVIOUS
    <2> QED
      BY <2>1, LeastNat
  <1>2. k \in 0 .. n /\ k \in 0 .. i /\ k \in 0 .. j /\ g[k] # h[k]
    BY <1>1
  <1>3. /\ g[k] = IF k = 0 THEN begin ELSE g[k - 1] + c[k].delta
        /\ h[k] = IF k = 0 THEN begin ELSE h[k - 1] + d[k].delta
    BY <1>2 DEF IsTimes
  <1>4. k # 0
    BY <1>2, <1>3
  <1>5. k - 1 \in 0 .. n /\ k - 1 \notin Bad /\ k \in 1 .. n
    BY <1>1, <1>2, <1>4
  <1>6. g[k - 1] = h[k - 1] /\ c[k].delta = d[k].delta
    BY <1>5
  <1> QED
    BY <1>2, <1>3, <1>4, <1>6

LEMMA TimeBegins ==
    ASSUME NEW begin, NEW c
    PROVE  TimeOf(begin, c, 0) = begin
  <1>1. PICK g : IsTimes(begin, c, 0, g) /\ TimeOf(begin, c, 0) = g[0]
    BY TimesExist
  <1>2. g[0] = begin
    BY <1>1 DEF IsTimes
  <1> QED
    BY <1>1, <1>2

LEMMA TimeSteps ==
    ASSUME NEW begin, NEW c, NEW i \in Nat
    PROVE  TimeOf(begin, c, i + 1) = TimeOf(begin, c, i) + c[i + 1].delta
  <1>1. PICK g : IsTimes(begin, c, i, g) /\ TimeOf(begin, c, i) = g[i]
    BY TimesExist
  <1>2. i + 1 \in Nat
    OBVIOUS
  <1>3. PICK h : IsTimes(begin, c, i + 1, h) /\ TimeOf(begin, c, i + 1) = h[i + 1]
    BY <1>2, TimesExist
  <1>4. h[i + 1] = h[i + 1 - 1] + c[i + 1].delta
    BY <1>3 DEF IsTimes
  <1>5. g[i] = h[i]
    BY <1>1, <1>2, <1>3, TimesAgree
  <1>6. i + 1 - 1 = i
    OBVIOUS
  <1> QED
    BY <1>1, <1>3, <1>4, <1>5, <1>6

LEMMA TimesSame ==
    ASSUME NEW begin, NEW c, NEW d, NEW i \in Nat, \A k \in 1 .. i : c[k].delta = d[k].delta
    PROVE  TimeOf(begin, c, i) = TimeOf(begin, d, i)
  <1>1. PICK g : IsTimes(begin, c, i, g) /\ TimeOf(begin, c, i) = g[i]
    BY TimesExist
  <1>2. PICK h : IsTimes(begin, d, i, h) /\ TimeOf(begin, d, i) = h[i]
    BY TimesExist
  <1> QED
    BY <1>1, <1>2, TimesAgree

(* What is written at a time is read at that time, whatever is written.    *)
Timed(dt, ms) == [i \in DOMAIN ms |-> [delta |-> IF i = 1 THEN dt ELSE 0, msg |-> ms[i]]]

LEMMA SeqOfItself ==
    ASSUME NEW S, NEW s \in Seq(S)
    PROVE  s \in Seq(ToSet(s))
  BY DEF ToSet

(* c ends at time t but for a delta of dt; d is c with the messages ms.     *)
EndsAt(begin, c, dt, t) ==
    /\ begin \in Nat /\ c \in Seq(ToSet(c)) /\ \A i \in DOMAIN c : c[i].delta \in Nat
    /\ dt \in Nat /\ t \in Nat
    /\ TimeOf(begin, c, Len(c)) \in Int /\ TimeOf(begin, c, Len(c)) + dt = t

GoesOnWith(begin, c, d, ms, t) ==
    /\ Len(c) \in Nat /\ DOMAIN c = 1 .. Len(c) /\ Len(ms) \in Nat /\ DOMAIN ms = 1 .. Len(ms)
    /\ DOMAIN d = 1 .. (Len(c) + Len(ms))
    /\ \A i \in 1 .. Len(c) : d[i] = c[i] /\ TimeOf(begin, d, i) = TimeOf(begin, c, i)
    /\ \A i \in 1 .. Len(ms) : d[Len(c) + i].msg = ms[i] /\ TimeOf(begin, d, Len(c) + i) = t

LEMMA TimedWell ==
    ASSUME NEW begin, NEW c, NEW dt, NEW t, EndsAt(begin, c, dt, t), NEW S, NEW ms \in Seq(S),
           NEW d, d = c \o Timed(dt, ms)
    PROVE  /\ GoesOnWith(begin, c, d, ms, t)
           /\ EndsAt(begin, d, IF ms = <<>> THEN dt ELSE 0, t)
  <1> USE DEF EndsAt
  <1> DEFINE e == Timed(dt, ms)
  <1>1. /\ Len(ms) \in Nat /\ DOMAIN ms = 1 .. Len(ms) /\ Len(c) \in Nat
        /\ DOMAIN c = 1 .. Len(c)
    OBVIOUS
  <1>2. /\ e \in Seq({e[i] : i \in DOMAIN ms}) /\ Len(e) = Len(ms)
        /\ \A i \in 1 .. Len(ms) : /\ e[i].msg = ms[i]
                                   /\ e[i].delta = IF i = 1 THEN dt ELSE 0
    BY <1>1 DEF Timed
  <1> HIDE DEF e
  <1>3. d = c \o e
    BY DEF e
  <1>4. /\ d \in Seq(ToSet(c) \cup {e[i] : i \in DOMAIN ms}) /\ Len(d) = Len(c) + Len(ms)
        /\ \A i \in 1 .. Len(c) : d[i] = c[i]
        /\ \A i \in 1 .. Len(ms) : d[Len(c) + i] = e[i]
    <2> DEFINE U == ToSet(c) \cup {e[i] : i \in DOMAIN ms}
    <2>1. c \in Seq(U) /\ e \in Seq(U)
      <3>1. \A i \in 1 .. Len(c) : c[i] \in U
        BY <1>1 DEF ToSet
      <3>2. \A i \in 1 .. Len(ms) : e[i] \in U
        BY <1>1
      <3> QED
        BY <1>1, <1>2, <3>1, <3>2
    <2> HIDE DEF U
    <2>2. /\ c \o e \in Seq(U) /\ Len(c \o e) = Len(c) + Len(e)
          /\ \A i \in 1 .. Len(c) : (c \o e)[i] = c[i]
          /\ \A i \in 1 .. Len(e) : (c \o e)[Len(c) + i] = e[i]
      BY <2>1
    <2> QED
      BY <1>2, <1>3, <2>2 DEF U
  <1>5. d \in Seq(ToSet(d))
    BY <1>4, SeqOfItself
  <1>6. \A i \in DOMAIN d : d[i].delta \in Nat
    <2> SUFFICES ASSUME NEW i \in 1 .. (Len(c) + Len(ms)) PROVE d[i].delta \in Nat
      BY <1>4
    <2>1. CASE i \in 1 .. Len(c)
      BY <1>1, <1>4, <2>1
    <2>2. CASE i \notin 1 .. Len(c)
      <3>1. i - Len(c) \in 1 .. Len(ms) /\ Len(c) + (i - Len(c)) = i
        BY <1>1, <2>2
      <3>2. d[i] = e[i - Len(c)]
        BY <1>4, <3>1
      <3>3. e[i - Len(c)].delta = dt \/ e[i - Len(c)].delta = 0
        BY <1>2, <3>1
      <3> QED
        BY <3>2, <3>3
    <2> QED
      BY <2>1, <2>2
  <1>7. \A i \in 0 .. Len(c) : TimeOf(begin, d, i) = TimeOf(begin, c, i)
    <2> SUFFICES ASSUME NEW i \in 0 .. Len(c) PROVE TimeOf(begin, d, i) = TimeOf(begin, c, i)
      OBVIOUS
    <2>1. i \in Nat /\ \A k \in 1 .. i : d[k].delta = c[k].delta
      BY <1>1, <1>4
    <2> QED
      BY <2>1, TimesSame
  <1>8. \A i \in 1 .. Len(ms) : TimeOf(begin, d, Len(c) + i) = t
    <2> DEFINE Bad == {i \in 1 .. Len(ms) : TimeOf(begin, d, Len(c) + i) # t}
    <2> SUFFICES ASSUME Bad # {} PROVE FALSE
      OBVIOUS
    <2>1. PICK k \in Bad : \A m \in Bad : k <= m
      <3>1. Bad \in SUBSET Nat
        OBVIOUS
      <3> QED
        BY <3>1, LeastNat
    <2>2. k \in 1 .. Len(ms) /\ TimeOf(begin, d, Len(c) + k) # t
      BY <2>1
    <2>3. Len(c) + k - 1 \in Nat /\ (Len(c) + k - 1) + 1 = Len(c) + k
      BY <1>1, <2>2
    <2>4. TimeOf(begin, d, Len(c) + k) = TimeOf(begin, d, Len(c) + k - 1) + d[Len(c) + k].delta
      <3> DEFINE j == Len(c) + k - 1
      <3>1. j \in Nat /\ j + 1 = Len(c) + k
        BY <2>3
      <3> HIDE DEF j
      <3>2. TimeOf(begin, d, j + 1) = TimeOf(begin, d, j) + d[j + 1].delta
        BY <3>1, TimeSteps
      <3> QED
        BY <3>1, <3>2 DEF j
    <2>5. d[Len(c) + k].delta = IF k = 1 THEN dt ELSE 0
      BY <1>2, <1>4, <2>2
    <2>6. CASE k = 1
      <3>1. Len(c) + k - 1 = Len(c) /\ Len(c) \in 0 .. Len(c)
        BY <1>1, <2>6
      <3>2. TimeOf(begin, d, Len(c) + k - 1) = TimeOf(begin, c, Len(c))
        BY <1>7, <3>1
      <3> QED
        BY <2>2, <2>4, <2>5, <2>6, <3>2
    <2>7. CASE k # 1
      <3>1. k - 1 \in 1 .. Len(ms) /\ ~(k <= k - 1) /\ Len(c) + (k - 1) = Len(c) + k - 1
        BY <1>1, <2>2, <2>7
      <3>2. TimeOf(begin, d, Len(c) + (k - 1)) = t
        BY <2>1, <3>1
      <3> QED
        BY <2>2, <2>4, <2>5, <2>7, <3>1, <3>2
    <2> QED
      BY <2>6, <2>7
  <1>9. TimeOf(begin, d, Len(d)) + (IF ms = <<>> THEN dt ELSE 0) = t
    <2>1. CASE ms = <<>>
      <3>1. Len(d) = Len(c) /\ Len(c) \in 0 .. Len(c)
        BY <1>1, <1>4, <2>1
      <3> QED
        BY <1>7, <2>1, <3>1
    <2>2. CASE ms # <<>>
      <3>1. Len(ms) \in 1 .. Len(ms)
        BY <1>1, <2>2
      <3> QED
        BY <1>4, <1>8, <2>2, <3>1
    <2> QED
      BY <2>1, <2>2
  <1>10. \A i \in 1 .. Len(c) : d[i] = c[i] /\ TimeOf(begin, d, i) = TimeOf(begin, c, i)
    BY <1>1, <1>4, <1>7
  <1>11. \A i \in 1 .. Len(ms) : d[Len(c) + i].msg = ms[i] /\ TimeOf(begin, d, Len(c) + i) = t
    BY <1>2, <1>4, <1>8
  <1>12. DOMAIN d = 1 .. (Len(c) + Len(ms)) /\ Len(d) \in Nat
    BY <1>1, <1>4
  <1>13. GoesOnWith(begin, c, d, ms, t)
    BY <1>1, <1>10, <1>11, <1>12 DEF GoesOnWith
  <1>14. TimeOf(begin, d, Len(d)) \in Int
    <2>1. CASE ms = <<>>
      BY <1>1, <1>4, <1>7, <2>1
    <2>2. CASE ms # <<>>
      <3>1. Len(ms) \in 1 .. Len(ms)
        BY <1>1, <2>2
      <3> QED
        BY <1>4, <1>8, <3>1
    <2> QED
      BY <2>1, <2>2
  <1> QED
    BY <1>5, <1>6, <1>9, <1>13, <1>14

LEMMA TimesAreNat ==
    ASSUME NEW begin \in Nat, NEW c, NEW i \in Nat, \A k \in 1 .. i : c[k].delta \in Nat
    PROVE  TimeOf(begin, c, i) \in Nat
  <1> DEFINE Bad == {k \in 0 .. i : TimeOf(begin, c, k) \notin Nat}
  <1> SUFFICES ASSUME Bad # {} PROVE FALSE
    OBVIOUS
  <1>1. PICK k \in Bad : \A m \in Bad : k <= m
    <2>1. Bad \in SUBSET Nat
      OBVIOUS
    <2> QED
      BY <2>1, LeastNat
  <1>2. k \in 0 .. i /\ TimeOf(begin, c, k) \notin Nat
    BY <1>1
  <1>3. k # 0
    BY <1>2, TimeBegins
  <1>4. k - 1 \in 0 .. i /\ k - 1 \notin Bad /\ k \in 1 .. i /\ k - 1 \in Nat
    BY <1>1, <1>2, <1>3
  <1>5. TimeOf(begin, c, (k - 1) + 1) = TimeOf(begin, c, k - 1) + c[(k - 1) + 1].delta
    BY <1>4, TimeSteps
  <1>6. (k - 1) + 1 = k
    BY <1>2
  <1> QED
    BY <1>2, <1>4, <1>5, <1>6

(* The values that some messages send of a controller.                     *)
IsSent(m, ch, ctrl) == m.type = "ctrl" /\ m.ch = ch /\ m.ctrl = ctrl

Sends(ms, ch, ctrl) == {ms[i].value : i \in {i \in DOMAIN ms : IsSent(ms[i], ch, ctrl)}}

ReadsAt(t, V) == {[time |-> t, value |-> v] : v \in V}

LEMMA ReadsAdded ==
    ASSUME NEW begin, NEW c, NEW d, NEW ms, NEW t, GoesOnWith(begin, c, d, ms, t),
           NEW ch, NEW ctrl
    PROVE  ChangesIn(begin, d, ch, ctrl)
              = ChangesIn(begin, c, ch, ctrl) \cup ReadsAt(t, Sends(ms, ch, ctrl))
  <1> USE DEF GoesOnWith
  <1>1. \A x : \A e : x \in ChangesIn(begin, e, ch, ctrl)
            <=> \E i \in DOMAIN e : /\ IsSent(e[i].msg, ch, ctrl)
                                    /\ x = [time |-> TimeOf(begin, e, i), value |-> e[i].msg.value]
    BY DEF ChangesIn, IsSent
  <1>2. \A x : x \in ReadsAt(t, Sends(ms, ch, ctrl))
            <=> \E i \in DOMAIN ms : /\ IsSent(ms[i], ch, ctrl)
                                     /\ x = [time |-> t, value |-> ms[i].value]
    BY DEF ReadsAt, Sends
  <1>3. ASSUME NEW x \in ChangesIn(begin, c, ch, ctrl)
        PROVE  x \in ChangesIn(begin, d, ch, ctrl)
    <2>1. PICK i \in DOMAIN c : /\ IsSent(c[i].msg, ch, ctrl)
                                /\ x = [time |-> TimeOf(begin, c, i), value |-> c[i].msg.value]
      BY <1>1, <1>3
    <2>2. i \in DOMAIN d /\ d[i] = c[i] /\ TimeOf(begin, d, i) = TimeOf(begin, c, i)
      OBVIOUS
    <2> QED
      BY <1>1, <2>1, <2>2
  <1>4. ASSUME NEW x \in ReadsAt(t, Sends(ms, ch, ctrl))
        PROVE  x \in ChangesIn(begin, d, ch, ctrl)
    <2>1. PICK i \in DOMAIN ms : IsSent(ms[i], ch, ctrl) /\ x = [time |-> t, value |-> ms[i].value]
      BY <1>2, <1>4
    <2>2. /\ Len(c) + i \in DOMAIN d /\ d[Len(c) + i].msg = ms[i]
          /\ TimeOf(begin, d, Len(c) + i) = t
      OBVIOUS
    <2> QED
      BY <1>1, <2>1, <2>2
  <1>5. ASSUME NEW x \in ChangesIn(begin, d, ch, ctrl)
        PROVE  x \in ChangesIn(begin, c, ch, ctrl) \/ x \in ReadsAt(t, Sends(ms, ch, ctrl))
    <2>1. PICK i \in DOMAIN d : /\ IsSent(d[i].msg, ch, ctrl)
                                /\ x = [time |-> TimeOf(begin, d, i), value |-> d[i].msg.value]
      BY <1>1, <1>5
    <2>2. CASE i \in 1 .. Len(c)
      <3>1. i \in DOMAIN c /\ d[i] = c[i] /\ TimeOf(begin, d, i) = TimeOf(begin, c, i)
        BY <2>2
      <3> QED
        BY <1>1, <2>1, <3>1
    <2>3. CASE i \notin 1 .. Len(c)
      <3> DEFINE j == i - Len(c)
      <3>1. j \in 1 .. Len(ms) /\ i = Len(c) + j
        BY <2>3
      <3> HIDE DEF j
      <3>2. d[i].msg = ms[j] /\ TimeOf(begin, d, i) = t
        BY <3>1
      <3> QED
        BY <1>2, <2>1, <3>1, <3>2
    <2> QED
      BY <2>2, <2>3
  <1> QED
    BY <1>3, <1>4, <1>5

LEMMA WriteReads ==
    ASSUME FlatOnly, PlayInv, ChunksTimed, song' = song, time' = time,
           NEW tr0 \in Track \cup {FILE}, NEW S, NEW ms \in Seq(S), Write(tr0, ms)
    PROVE  /\ ChunksTimed'
           /\ \A ch, ctrl : ChangesRead(ch, ctrl)'
                               = ChangesRead(ch, ctrl) \cup ReadsAt(time, Sends(ms, ch, ctrl))
  <1> DEFINE begin == song.start
             Tracks == Track \cup {FILE}
  <1>1. begin \in Nat /\ time \in Nat /\ begin' = begin
    BY PlayTypes
  <1>2. /\ DOMAIN chunk = Tracks /\ DOMAIN dtime = Tracks
        /\ \A tr \in Tracks : EndsAt(begin, chunk[tr], dtime[tr], time)
    <2>1. DOMAIN chunk = Tracks /\ DOMAIN dtime = Tracks
      BY DEF ChunksTimed
    <2>2. ASSUME NEW tr \in Tracks PROVE EndsAt(begin, chunk[tr], dtime[tr], time)
      <3> DEFINE c == chunk[tr]
      <3>1. /\ c \in Seq(ToSet(c)) /\ \A i \in DOMAIN c : c[i].delta \in Nat
            /\ dtime[tr] \in Nat /\ TimeOf(begin, c, Len(c)) + dtime[tr] = time
        BY DEF ChunksTimed
      <3> HIDE DEF c, begin
      <3>2. Len(c) \in Nat /\ \A k \in 1 .. Len(c) : c[k].delta \in Nat
        BY <3>1
      <3>3. TimeOf(begin, c, Len(c)) \in Nat
        BY <1>1, <3>2, TimesAreNat
      <3> QED
        BY <1>1, <3>1, <3>3 DEF EndsAt, c
    <2> QED
      BY <2>1, <2>2
  <1> DEFINE c == chunk[tr0]
             dt == dtime[tr0]
             d == c \o Timed(dt, ms)
  <1>3. chunk' = [chunk EXCEPT ![tr0] = d] /\ dtime' = IF ms = <<>> THEN dtime ELSE [dtime EXCEPT ![tr0] = 0]
    BY DEF Write, TimeWritten, Timed
  <1>4. /\ chunk'[tr0] = d /\ dtime'[tr0] = (IF ms = <<>> THEN dt ELSE 0)
        /\ \A tr \in Tracks : tr # tr0 => chunk'[tr] = chunk[tr] /\ dtime'[tr] = dtime[tr]
        /\ DOMAIN chunk' = Tracks /\ DOMAIN dtime' = Tracks
    BY <1>2, <1>3
  <1>5. EndsAt(begin, c, dt, time) /\ d = c \o Timed(dt, ms)
    BY <1>2
  <1> HIDE DEF begin, c, d, dt
  <1>6. GoesOnWith(begin, c, d, ms, time) /\ EndsAt(begin, d, IF ms = <<>> THEN dt ELSE 0, time)
    BY <1>5, TimedWell
  <1>7. ASSUME NEW tr \in Tracks PROVE EndsAt(begin, chunk'[tr], dtime'[tr], time)
    BY <1>2, <1>4, <1>6
  <1>8. ChunksTimed'
    <2> USE DEF EndsAt
    <2>1. \A tr \in Tracks :
              /\ chunk'[tr] \in Seq(ToSet(chunk'[tr]))
              /\ \A i \in DOMAIN chunk'[tr] : chunk'[tr][i].delta \in Nat
              /\ dtime'[tr] \in Nat
              /\ TimeOf(begin, chunk'[tr], Len(chunk'[tr])) + dtime'[tr] = time
      BY <1>7
    <2> QED
      BY <1>4, <2>1 DEF ChunksTimed, begin
  <1>9. ASSUME NEW ch, NEW ctrl
        PROVE  ChangesRead(ch, ctrl)'
                   = ChangesRead(ch, ctrl) \cup ReadsAt(time, Sends(ms, ch, ctrl))
    <2>1. ChangesIn(begin, d, ch, ctrl)
             = ChangesIn(begin, c, ch, ctrl) \cup ReadsAt(time, Sends(ms, ch, ctrl))
      BY <1>6, ReadsAdded
    <2>2. \A tr \in Tracks :
              ChangesIn(begin, chunk'[tr], ch, ctrl)
                  = IF tr = tr0 THEN ChangesIn(begin, d, ch, ctrl)
                    ELSE ChangesIn(begin, chunk[tr], ch, ctrl)
      BY <1>4
    <2>3. ChangesRead(ch, ctrl)' = UNION {ChangesIn(begin, chunk'[tr], ch, ctrl) : tr \in Tracks}
      BY DEF ChangesRead, begin
    <2>4. ChangesRead(ch, ctrl) = UNION {ChangesIn(begin, chunk[tr], ch, ctrl) : tr \in Tracks}
      BY DEF ChangesRead, begin
    <2>5. ChangesIn(begin, c, ch, ctrl) = ChangesIn(begin, chunk[tr0], ch, ctrl)
      BY DEF c
    <2> QED
      BY <2>1, <2>2, <2>3, <2>4, <2>5
  <1> QED
    BY <1>8, <1>9

-----------------------------------------------------------------------------
(* Reading at a time, when changes are added.                              *)
LEMMA ReadLater ==
    ASSUME NEW R, NEW t \in Nat, NEW u \in Nat, t <= u, \A r \in R : r.time \in Nat /\ r.time <= t
    PROVE  ReadAt(R, u) = ReadAt(R, t)
  <1>1. LastReadAt(R, u) = LastReadAt(R, t)
    <2>1. \A r \in R : r.time <= u
      OBVIOUS
    <2> QED
      BY <2>1 DEF LastReadAt
  <1> QED
    BY <1>1 DEF ReadAt

LEMMA ReadNew ==
    ASSUME NEW R, NEW t \in Nat, NEW v, NEW Q, Q = R \cup ReadsAt(t, {v}),
           \A r \in R : r.time \in Nat /\ r.time < t
    PROVE  ReadAt(Q, t) = {v}
  <1> DEFINE r0 == [time |-> t, value |-> v]
  <1>1. Q = R \cup {r0}
    BY DEF ReadsAt
  <1>2. r0.time = t /\ r0.value = v
    OBVIOUS
  <1> HIDE DEF r0
  <1>3. r0 \in LastReadAt(Q, t)
    <2>1. \A r \in Q : r.time <= t
      BY <1>1, <1>2
    <2> QED
      BY <1>1, <1>2, <2>1 DEF LastReadAt
  <1>4. ASSUME NEW r \in LastReadAt(Q, t) PROVE r = r0
    <2>1. r \in Q /\ r0.time <= r.time
      BY <1>1, <1>2, <1>4 DEF LastReadAt
    <2> QED
      BY <1>1, <1>2, <2>1
  <1>5. LastReadAt(Q, t) = {r0}
    BY <1>3, <1>4
  <1> QED
    BY <1>2, <1>5 DEF ReadAt

LEMMA ReadOld ==
    ASSUME NEW R, NEW t \in Nat, NEW V, NEW Q, Q = R \cup ReadsAt(t, V),
           NEW u \in Nat, u < t
    PROVE  ReadAt(Q, u) = ReadAt(R, u)
  <1>1. \A r \in ReadsAt(t, V) : ~(r.time <= u)
    BY DEF ReadsAt
  <1>2. LastReadAt(Q, u) = LastReadAt(R, u)
    BY <1>1 DEF LastReadAt
  <1> QED
    BY <1>2 DEF ReadAt

-----------------------------------------------------------------------------
(* Reads stay known: when a step adds none, and when it adds the one of    *)
(* the value it sends.                                                     *)
LEMMA ReadsStay ==
    ASSUME NEW ch, NEW ctrl, KnownOf(ch, ctrl), song' = song, time' = time,
           ChangesRead(ch, ctrl)' = ChangesRead(ch, ctrl),
           value'[ch][ctrl] = value[ch][ctrl],
           SoundsOn(ch, ctrl) => SoundsOn(ch, ctrl)'
    PROVE  KnownOf(ch, ctrl)'
  <1>1. Played' = Played
    BY DEF Played
  <1> QED
    BY <1>1 DEF KnownOf, ValueAt

LEMMA ReadsGrow ==
    ASSUME FlatOnly, PlayInv, NEW ch, NEW ctrl, KnownOf(ch, ctrl), song' = song, time' = time,
           NEW v, ChangesRead(ch, ctrl)' = ChangesRead(ch, ctrl) \cup ReadsAt(time, {v}),
           value'[ch][ctrl] = v, ~SoundsOn(ch, ctrl), SoundsOn(ch, ctrl)'
    PROVE  KnownOf(ch, ctrl)'
  <1> DEFINE R == ChangesRead(ch, ctrl)
             Q == R \cup ReadsAt(time, {v})
             c == song.changes[ch][ctrl]
  <1>1. time \in Nat /\ song \in Songs /\ Played' = Played /\ Played \subseteq song.notes
    BY PlayTypes DEF Played
  <1>2. \A r \in R : r.time \in Nat /\ r.time < time
    BY <1>1 DEF KnownOf
  <1>3. \A n \in Played : n.ch = ch => \A t \in n.on .. (n.off - 1) :
            t < time => ReadAt(R, t) = {ValueAt(c, t)}
    BY DEF KnownOf
  <1> HIDE DEF R, c
  <1>3a. Q = R \cup ReadsAt(time, {v}) /\ time \in Nat
    BY <1>1
  <1>4. \A r \in Q : r.time \in Nat /\ r.time <= time
    BY <1>1, <1>2 DEF ReadsAt
  <1>5. ReadAt(Q, time) = {v}
    <2> HIDE DEF Q
    <2> QED
      BY <1>2, <1>3a, ReadNew
  <1>6. ASSUME NEW n \in Played, n.ch = ch, NEW t \in n.on .. (n.off - 1), t < time
        PROVE  ReadAt(Q, t) = {ValueAt(c, t)}
    <2>1. t \in Nat
      <3>1. n.on \in Nat /\ n.off \in Nat
        BY <1>1, NoteTypes
      <3> QED
        BY <3>1
    <2>2. ReadAt(Q, t) = ReadAt(R, t)
      <3> HIDE DEF Q
      <3> QED
        BY <1>3a, <1>6, <2>1, ReadOld
    <2> QED
      BY <1>3, <1>6, <2>2
  <1>7. ChangesRead(ch, ctrl)' = Q /\ song'.changes[ch][ctrl] = c
    BY DEF R, c
  <1> HIDE DEF Q
  <1> QED
    BY <1>1, <1>4, <1>5, <1>6, <1>7 DEF KnownOf, ValueAt

LEMMA SendsOne ==
    ASSUME NEW m, NEW ch, NEW ctrl
    PROVE  Sends(<<m>>, ch, ctrl) = IF IsSent(m, ch, ctrl) THEN {m.value} ELSE {}
  <1>1. DOMAIN <<m>> = {1} /\ <<m>>[1] = m
    OBVIOUS
  <1> QED
    BY <1>1 DEF Sends

LEMMA SendsNone ==
    ASSUME NEW ch, NEW ctrl
    PROVE  /\ Sends(<<>>, ch, ctrl) = {}
           /\ \A t : ReadsAt(t, {}) = {}
  BY DEF Sends, ReadsAt

(* The messages of the first note on a channel.                            *)
LEMMA SentOnce ==
    ASSUME NEW S, IsFiniteSet(S)
    PROVE  /\ Cardinality(S) \in Nat /\ SetToSeq(S) \in [1 .. Cardinality(S) -> S]
           /\ \A x \in S : \E i \in 1 .. Cardinality(S) : SetToSeq(S)[i] = x
  <1> DEFINE D == 1 .. Cardinality(S)
             f == SetToSeq(S)
  <1>1. Cardinality(S) \in Nat /\ ExistsBijection(D, S)
    BY FS_CardinalityType
  <1>2. \E g \in [D -> S] : IsInjective(g)
    BY <1>1 DEF ExistsBijection, Bijection, Injection
  <1>3. f \in [D -> S] /\ IsInjective(f)
    BY <1>2 DEF SetToSeq
  <1>4. f \in Injection(D, S) /\ IsFiniteSet(D) /\ Cardinality(D) = Cardinality(S)
    BY <1>1, <1>3, FS_Interval DEF Injection
  <1> HIDE DEF f, D
  <1>5. f \in Surjection(D, S)
    BY <1>4, FS_Injection
  <1>6. \A x \in S : \E i \in D : f[i] = x
    BY <1>5 DEF Surjection
  <1> QED
    BY <1>1, <1>3, <1>6 DEF f, D

FlushMsgs(S, c, V, m) ==
    Append([i \in DOMAIN SetToSeq(S) |-> CtrlMsg(c, SetToSeq(S)[i], V[SetToSeq(S)[i]])], m)

SendsTheFlush(ms, S, c, V) ==
    \A ch, ctrl : Sends(ms, ch, ctrl) = IF ch = c /\ ctrl \in S THEN {V[ctrl]} ELSE {}

LEMMA FlushSends ==
    ASSUME NEW S, IsFiniteSet(S), NEW c0, NEW V, NEW m0, m0.type # "ctrl",
           NEW ms, ms = FlushMsgs(S, c0, V, m0)
    PROVE  \E U : ms \in Seq(U) /\ SendsTheFlush(ms, S, c0, V)
  <1> DEFINE q == SetToSeq(S)
             N == Cardinality(S)
             es == [i \in DOMAIN q |-> CtrlMsg(c0, q[i], V[q[i]])]
             U == {es[i] : i \in 1 .. N} \cup {m0}
  <1>1. N \in Nat /\ q \in [1 .. N -> S] /\ \A x \in S : \E i \in 1 .. N : q[i] = x
    BY SentOnce
  <1> HIDE DEF q, N
  <1>2. DOMAIN es = 1 .. N /\ \A i \in 1 .. N : es[i] = CtrlMsg(c0, q[i], V[q[i]])
    BY <1>1
  <1>3. es \in Seq(U) /\ Len(es) = N
    BY <1>1, <1>2
  <1>4. ms = Append(es, m0) /\ m0 \in U
    BY DEF q, FlushMsgs
  <1> HIDE DEF es
  <1>5. ms \in Seq(U) /\ DOMAIN ms = 1 .. (N + 1) /\ ms[N + 1] = m0
        /\ \A i \in 1 .. N : ms[i] = es[i]
    <2> HIDE DEF U
    <2>1. Append(es, m0) \in Seq(U) /\ Len(Append(es, m0)) = N + 1
      BY <1>3, <1>4
    <2>2. Append(es, m0)[N + 1] = m0 /\ \A i \in 1 .. N : Append(es, m0)[i] = es[i]
      BY <1>1, <1>3, <1>4
    <2>3. ms \in Seq(U) /\ Len(ms) = N + 1
      BY <1>4, <2>1
    <2>4. DOMAIN ms = 1 .. (N + 1)
      BY <2>3
    <2> QED
      BY <1>4, <2>2, <2>3, <2>4
  <1>6. ASSUME NEW ch, NEW ctrl
        PROVE  Sends(ms, ch, ctrl) = IF ch = c0 /\ ctrl \in S THEN {V[ctrl]} ELSE {}
    <2>1. \A i \in 1 .. N : /\ IsSent(ms[i], ch, ctrl) <=> ch = c0 /\ ctrl = q[i]
                            /\ ms[i].value = V[q[i]]
      <3> SUFFICES ASSUME NEW i \in 1 .. N
                   PROVE  /\ IsSent(ms[i], ch, ctrl) <=> ch = c0 /\ ctrl = q[i]
                          /\ ms[i].value = V[q[i]]
        OBVIOUS
      <3> DEFINE m == CtrlMsg(c0, q[i], V[q[i]])
      <3>1. ms[i] = m
        BY <1>2, <1>5
      <3>2. m.type = "ctrl" /\ m.ch = c0 /\ m.ctrl = q[i] /\ m.value = V[q[i]]
        BY DEF CtrlMsg
      <3> HIDE DEF m
      <3> QED
        BY <3>1, <3>2 DEF IsSent
    <2>2. ~IsSent(ms[N + 1], ch, ctrl)
      BY <1>5 DEF IsSent
    <2>3. \A i \in DOMAIN ms : i \in 1 .. N \/ i = N + 1
      BY <1>1, <1>5
    <2>4. \A v : v \in Sends(ms, ch, ctrl) <=> \E i \in DOMAIN ms : IsSent(ms[i], ch, ctrl) /\ v = ms[i].value
      BY DEF Sends
    <2>5. \A v \in Sends(ms, ch, ctrl) : ch = c0 /\ ctrl \in S /\ v = V[ctrl]
      <3> SUFFICES ASSUME NEW v \in Sends(ms, ch, ctrl)
                   PROVE  ch = c0 /\ ctrl \in S /\ v = V[ctrl]
        OBVIOUS
      <3>1. PICK i \in DOMAIN ms : IsSent(ms[i], ch, ctrl) /\ v = ms[i].value
        BY <2>4
      <3>2. i \in 1 .. N
        BY <2>2, <2>3, <3>1
      <3>3. ch = c0 /\ ctrl = q[i] /\ ms[i].value = V[q[i]]
        BY <2>1, <3>1, <3>2
      <3>4. q[i] \in S
        BY <1>1, <3>2
      <3> QED
        BY <3>1, <3>3, <3>4
    <2>6. ch = c0 /\ ctrl \in S => V[ctrl] \in Sends(ms, ch, ctrl)
      <3> SUFFICES ASSUME ch = c0, ctrl \in S PROVE V[ctrl] \in Sends(ms, ch, ctrl)
        OBVIOUS
      <3>1. PICK i \in 1 .. N : q[i] = ctrl
        BY <1>1
      <3>2. i \in DOMAIN ms
        BY <1>1, <1>5
      <3> QED
        BY <2>1, <2>4, <3>1, <3>2
    <2> QED
      BY <2>5, <2>6
  <1> QED
    BY <1>5, <1>6 DEF SendsTheFlush

-----------------------------------------------------------------------------
(* The start of a file.                                                    *)
LEMMA ReadNothing == \A t : ReadAt({}, t) = {Default}
  BY DEF ReadAt, LastReadAt

LEMMA FileBegins ==
    ASSUME FlatOnly, Init
    PROVE  FileInv
  <1>1. song \in Songs /\ time = song.start /\ song.start \in Nat /\ PlayInv
    BY InitInv, NoteTypes DEF Init
  <1>2. ChunksTimed
    <2>1. /\ chunk = [tr \in Track \cup {FILE} |-> <<>>]
          /\ dtime = [tr \in Track \cup {FILE} |-> 0]
      BY DEF Init
    <2>2. /\ <<>> \in Seq(ToSet(<<>>)) /\ Len(<<>>) = 0
          /\ \A i \in DOMAIN <<>> : FALSE
      OBVIOUS
    <2>3. TimeOf(song.start, <<>>, 0) = song.start
      BY TimeBegins
    <2>4. DOMAIN chunk = Track \cup {FILE} /\ DOMAIN dtime = Track \cup {FILE}
      BY <2>1
    <2>5. ASSUME NEW tr \in Track \cup {FILE}
          PROVE  /\ chunk[tr] \in Seq(ToSet(chunk[tr]))
                 /\ \A i \in DOMAIN chunk[tr] : chunk[tr][i].delta \in Nat
                 /\ dtime[tr] \in Nat
                 /\ TimeOf(song.start, chunk[tr], Len(chunk[tr])) + dtime[tr] = time
      <3>1. chunk[tr] = <<>> /\ dtime[tr] = 0
        BY <2>1
      <3>2. TimeOf(song.start, chunk[tr], Len(chunk[tr])) = song.start
        BY <2>2, <2>3, <3>1
      <3>3. TimeOf(song.start, chunk[tr], Len(chunk[tr])) + dtime[tr] = time
        BY <1>1, <3>1, <3>2
      <3> QED
        BY <2>2, <3>1, <3>3
    <2> QED
      BY <2>4, <2>5 DEF ChunksTimed
  <1>3. NoneLate
    <2>1. status = "playing"
      BY DEF Init
    <2>2. ASSUME NEW ch \in Channel, NEW ctrl \in Ctrl, NEW t \in Due(ch, ctrl)
          PROVE  \/ time <= t
                 \/ /\ time = song.start
                    /\ \A s \in DOMAIN song.changes[ch][ctrl] : s <= t \/ time < s
      <3>0. ch \in Sender
        BY DEF Sender
      <3>1. PICK D \in SUBSET DOMAIN song.changes[ch][ctrl] :
                /\ FirstChange(song, ch, ctrl) = {CtrlEvent(ch, ctrl, u) : u \in D}
                /\ \A u \in D, s \in DOMAIN song.changes[ch][ctrl] :
                      song.start <= u \/ s <= u \/ song.start < s
        BY <1>1, <3>0, FirstChangeIs
      <3>2. CtrlEvent(ch, ctrl, t) \in FirstChange(song, ch, ctrl)
        BY <3>0, InitKnown
      <3>3. t \in D
        BY <3>1, <3>2, CtrlEventsDiffer
      <3> QED
        BY <1>1, <3>1, <3>3
    <2> QED
      BY <2>1, <2>2 DEF NoneLate
  <1>4. ASSUME NEW ch \in Channel, NEW ctrl \in Ctrl PROVE KnownOf(ch, ctrl)
    <2>1. ChangesRead(ch, ctrl) = {}
      <3>1. \A tr \in Track \cup {FILE} : ChangesIn(song.start, chunk[tr], ch, ctrl) = {}
        <4>1. \A tr \in Track \cup {FILE} : DOMAIN chunk[tr] = {}
          BY DEF Init
        <4> QED
          BY <4>1 DEF ChangesIn
      <3> QED
        BY <3>1 DEF ChangesRead
    <2>2. ReadAt({}, time) = {value[ch][ctrl]}
      BY ReadNothing DEF Init, Sender
    <2>3. \A n \in Played : \A t \in n.on .. (n.off - 1) : ~(t < time)
      <3> SUFFICES ASSUME NEW n \in Played, NEW t \in n.on .. (n.off - 1) PROVE ~(t < time)
        OBVIOUS
      <3>1. n.on \in Nat /\ n.off \in Nat /\ n.on >= song.start
        BY <1>1, NoteTypes DEF Played
      <3> QED
        BY <1>1, <3>1
    <2> QED
      BY <2>1, <2>2, <2>3 DEF KnownOf
  <1> QED
    BY <1>1, <1>2, <1>3, <1>4 DEF FileInv, ReadsKnown

-----------------------------------------------------------------------------
(* The events.                                                             *)
LEMMA SoundsOnMoves ==
    ASSUME NEW ch, NEW ctrl, time' = time, Voices(ch)' = Voices(ch),
           Due(ch, ctrl)' = Due(ch, ctrl)
    PROVE  SoundsOn(ch, ctrl) => SoundsOn(ch, ctrl)'
  BY DEF SoundsOn

LEMMA OnKeepsFile ==
    ASSUME FlatOnly, FileInv, NEW n0 \in Coming, OnEvent(n0) \in Top, n0.on <= time,
           NoteOn(OnEvent(n0)), MoveOn(OnEvent(n0)), song' = song, time' = time,
           status = "playing"
    PROVE  ChunksTimed' /\ NoneLate' /\ ReadsKnown'
  <1> DEFINE c0 == n0.ch
             S == Flushed(c0)
  <1>1. /\ PlayInv /\ ChunksTimed /\ NoneLate /\ HeapKnown /\ song \in Songs /\ time \in Nat
        /\ \A ch \in Channel, ctrl \in Ctrl : KnownOf(ch, ctrl)
        /\ DOMAIN value = Sender
    BY PlayTypes DEF FileInv, PlayInv, ReadsKnown, PlayerTypes
  <1>2. /\ n0 \in song.notes /\ c0 \in Channel /\ n0.track \in Track
        /\ n0.on \in Nat /\ n0.off \in Nat /\ n0.on < n0.off
    BY <1>1, PlayTypes, NoteTypes
  <1>3. Begun' = Begun \cup {n0} /\ \A ch, ctrl : Due(ch, ctrl)' = Due(ch, ctrl)
    BY <1>1, OnMoves
  <1>4. n0.on = time /\ \A m \in Begun : time < m.off
    BY <1>1, EndsBeforeBegins
  <1>5. NoneLate'
    <2>1. status' = "playing"
      BY DEF NoteOn
    <2> QED
      BY <1>1, <1>3, <2>1 DEF NoneLate
  <1>6. \A ch : Voices(ch)' = IF ch = c0 THEN Voices(ch) \cup {n0} ELSE Voices(ch)
    BY <1>3 DEF Voices
  <1>7. ASSUME NEW ctrl \in Ctrl PROVE SoundsOn(c0, ctrl)'
    <2>1. \A n \in Voices(c0)' : time < n.off
      BY <1>2, <1>4, <1>6 DEF Voices
    <2>2. \A t \in Due(c0, ctrl) : time < t
      <3> SUFFICES ASSUME NEW t \in Due(c0, ctrl) PROVE time < t
        OBVIOUS
      <3> DEFINE f == CtrlEvent(c0, ctrl, t)
      <3>1. f \in heap /\ f.kind = "ctrl" /\ f.time = t /\ t \in Nat
        <4>1. c0 # FILE /\ c0 \in Sender
          BY <1>2, NamesAssumption DEF Sender
        <4>2. t \in Nat
          BY <1>1, <4>1, PlayTypes
        <4> QED
          BY <4>1, <4>2, CtrlEventFacts DEF Due
      <3> HIDE DEF f
      <3>2. ~Before(f, OnEvent(n0))
        BY <3>1 DEF Top
      <3>3. OnEvent(n0).kind = "on" /\ OnEvent(n0).time = time /\ Prio["ctrl"] < Prio["on"]
        <4>1. Prio["ctrl"] < Prio["on"]
          BY DEF Prio
        <4> QED
          BY <1>4, <4>1, EventFacts
      <3> QED
        BY <1>1, <3>1, <3>2, <3>3 DEF Before
    <2>3. Voices(c0)' # {}
      BY <1>6
    <2> QED
      BY <1>3, <2>1, <2>2, <2>3 DEF SoundsOn
  <1>8. CASE FirstOnChannel(OnEvent(n0))
    <2> DEFINE V == value'[c0]
               m0 == NoteMsg("on", n0)
               ms == FlushMsgs(S, c0, V, m0)
    <2>1. /\ notes[c0] = 0 /\ value' = [value EXCEPT ![c0] = Flush(c0, value[c0])]
          /\ Write(n0.track, ms)
      <3> DEFINE e == OnEvent(n0)
      <3>1. e.note = n0
        BY EventFacts
      <3> HIDE DEF e
      <3>2. /\ notes[e.note.ch] = 0
            /\ value' = [value EXCEPT ![e.note.ch] = Flush(e.note.ch, value[e.note.ch])]
            /\ Write(e.note.track,
                     Append([i \in DOMAIN SetToSeq(Flushed(e.note.ch)) |->
                               CtrlMsg(e.note.ch, SetToSeq(Flushed(e.note.ch))[i],
                                       value'[e.note.ch][SetToSeq(Flushed(e.note.ch))[i]])],
                            NoteMsg("on", e.note)))
        BY <1>8 DEF FirstOnChannel, e
      <3> QED
        BY <3>1, <3>2 DEF FlushMsgs
    <2>2. V = Flush(c0, value[c0])
      BY <1>1, <1>2, <2>1 DEF Sender
    <2>3. m0.type # "ctrl" /\ IsFiniteSet(S)
      <3>1. S \subseteq Ctrl
        BY DEF Flushed
      <3> QED
        BY <3>1, FS_Subset, SizesAssumption DEF NoteMsg
    <2>4. ms = FlushMsgs(S, c0, V, m0)
      OBVIOUS
    <2> HIDE DEF V, m0, ms, S
    <2>5. PICK U : ms \in Seq(U) /\ SendsTheFlush(ms, S, c0, V)
      BY <2>3, <2>4, FlushSends
    <2>6. /\ ChunksTimed'
          /\ \A ch, ctrl : ChangesRead(ch, ctrl)'
                              = ChangesRead(ch, ctrl) \cup ReadsAt(time, Sends(ms, ch, ctrl))
      BY <1>1, <1>2, <2>1, <2>5, WriteReads
    <2>7. \A ctrl \in Ctrl : ~SoundsOn(c0, ctrl)
      BY <1>1, <1>2, <2>1, SilentIsEmpty DEF SoundsOn
    <2>8. ASSUME NEW ch \in Channel, NEW ctrl \in Ctrl PROVE KnownOf(ch, ctrl)'
      <3>1. CASE ch = c0 /\ ctrl \in S
        <4>1. ChangesRead(ch, ctrl)' = ChangesRead(ch, ctrl) \cup ReadsAt(time, {V[ctrl]})
          BY <2>5, <2>6, <3>1 DEF SendsTheFlush
        <4>2. value'[ch][ctrl] = V[ctrl]
          BY <3>1 DEF V
        <4>3. KnownOf(ch, ctrl) /\ ~SoundsOn(ch, ctrl) /\ SoundsOn(ch, ctrl)'
          BY <1>1, <1>7, <2>7, <3>1
        <4> QED
          BY <1>1, <4>1, <4>2, <4>3, ReadsGrow
      <3>2. CASE ~(ch = c0 /\ ctrl \in S)
        <4>1. ChangesRead(ch, ctrl)' = ChangesRead(ch, ctrl)
          BY <2>5, <2>6, <3>2, SendsNone DEF SendsTheFlush
        <4>2. value'[ch][ctrl] = value[ch][ctrl]
          <5>1. CASE ch = c0
            BY <2>2, <3>2, <5>1 DEF V, Flush, S
          <5>2. CASE ch # c0
            BY <1>1, <2>1, <5>2 DEF Sender
          <5> QED
            BY <5>1, <5>2
        <4>3. SoundsOn(ch, ctrl) => SoundsOn(ch, ctrl)'
          BY <1>3, <1>6, <1>7, SoundsOnMoves
        <4> QED
          BY <1>1, <4>1, <4>2, <4>3, ReadsStay
      <3> QED
        BY <3>1, <3>2
    <2> QED
      BY <1>5, <2>6, <2>8 DEF ReadsKnown
  <1>9. CASE NotFirstOnChannel(OnEvent(n0))
    <2> DEFINE m0 == NoteMsg("on", n0)
    <2>1. Write(n0.track, <<m0>>) /\ value' = value
      <3>1. OnEvent(n0).note = n0
        BY EventFacts
      <3> QED
        BY <1>9, <3>1 DEF NotFirstOnChannel
    <2>2. \A ch, ctrl : ~IsSent(m0, ch, ctrl)
      BY DEF IsSent, NoteMsg
    <2> HIDE DEF m0
    <2>3. <<m0>> \in Seq({m0}) /\ \A ch, ctrl : Sends(<<m0>>, ch, ctrl) = {}
      <3>1. <<m0>> \in Seq({m0})
        OBVIOUS
      <3>2. \A ch, ctrl : Sends(<<m0>>, ch, ctrl) = {}
        <4> TAKE ch, ctrl
        <4>1. Sends(<<m0>>, ch, ctrl) = IF IsSent(m0, ch, ctrl) THEN {m0.value} ELSE {}
          BY SendsOne
        <4> QED
          BY <2>2, <4>1
      <3> QED
        BY <3>1, <3>2
    <2>4. /\ ChunksTimed'
          /\ \A ch, ctrl : ChangesRead(ch, ctrl)'
                              = ChangesRead(ch, ctrl) \cup ReadsAt(time, Sends(<<m0>>, ch, ctrl))
      BY <1>1, <1>2, <2>1, <2>3, WriteReads
    <2>5. ASSUME NEW ch \in Channel, NEW ctrl \in Ctrl PROVE KnownOf(ch, ctrl)'
      <3>1. ChangesRead(ch, ctrl)' = ChangesRead(ch, ctrl)
        BY <2>3, <2>4, SendsNone
      <3>2. SoundsOn(ch, ctrl) => SoundsOn(ch, ctrl)'
        BY <1>3, <1>6, <1>7, SoundsOnMoves
      <3> QED
        BY <1>1, <2>1, <3>1, <3>2, ReadsStay
    <2> QED
      BY <1>5, <2>4, <2>5 DEF ReadsKnown
  <1> QED
    BY <1>8, <1>9 DEF NoteOn

LEMMA OffKeepsFile ==
    ASSUME FlatOnly, FileInv, NEW n0 \in Begun, OffEvent(n0) \in Top, n0.off <= time,
           NoteOff(OffEvent(n0)), MoveOn(OffEvent(n0)), song' = song, time' = time,
           status = "playing"
    PROVE  ChunksTimed' /\ NoneLate' /\ ReadsKnown'
  <1> DEFINE m0 == NoteMsg("off", n0)
  <1>1. /\ PlayInv /\ ChunksTimed /\ NoneLate /\ HeapKnown /\ song \in Songs /\ time \in Nat
        /\ \A ch \in Channel, ctrl \in Ctrl : KnownOf(ch, ctrl)
    BY PlayTypes DEF FileInv, PlayInv, ReadsKnown
  <1>2. n0 \in song.notes /\ n0.track \in Track /\ n0.off \in Nat
    BY <1>1, PlayTypes, NoteTypes
  <1>3. Begun' = Begun \ {n0} /\ \A ch, ctrl : Due(ch, ctrl)' = Due(ch, ctrl)
    BY <1>1, OffMoves
  <1>4. NoneLate'
    <2>1. status' = "playing"
      BY DEF NoteOff
    <2> QED
      BY <1>1, <1>3, <2>1 DEF NoneLate
  <1>5. Write(n0.track, <<m0>>) /\ value' = value
    BY EventFacts DEF NoteOff
  <1>6. \A ch, ctrl : ~IsSent(m0, ch, ctrl)
    BY DEF IsSent, NoteMsg
  <1> HIDE DEF m0
  <1>7. <<m0>> \in Seq({m0}) /\ \A ch, ctrl : Sends(<<m0>>, ch, ctrl) = {}
    <2>1. <<m0>> \in Seq({m0})
      OBVIOUS
    <2>2. \A ch, ctrl : Sends(<<m0>>, ch, ctrl) = {}
      <3> TAKE ch, ctrl
      <3>1. Sends(<<m0>>, ch, ctrl) = IF IsSent(m0, ch, ctrl) THEN {m0.value} ELSE {}
        BY SendsOne
      <3> QED
        BY <1>6, <3>1
    <2> QED
      BY <2>1, <2>2
  <1>8. /\ ChunksTimed'
        /\ \A ch, ctrl : ChangesRead(ch, ctrl)'
                            = ChangesRead(ch, ctrl) \cup ReadsAt(time, Sends(<<m0>>, ch, ctrl))
    BY <1>1, <1>2, <1>5, <1>7, WriteReads
  <1>9. ASSUME NEW ch \in Channel, NEW ctrl \in Ctrl PROVE KnownOf(ch, ctrl)'
    <2>1. ChangesRead(ch, ctrl)' = ChangesRead(ch, ctrl)
      BY <1>7, <1>8, SendsNone
    <2>2. CASE ch = n0.ch
      <3>1. n0 \in Voices(ch) /\ ~(time < n0.off)
        BY <1>1, <1>2, <2>2 DEF Voices
      <3>2. ~SoundsOn(ch, ctrl)
        BY <3>1 DEF SoundsOn
      <3> QED
        BY <1>1, <1>5, <2>1, <3>2, ReadsStay
    <2>3. CASE ch # n0.ch
      <3>1. Voices(ch)' = Voices(ch)
        BY <1>3, <2>3 DEF Voices
      <3>2. SoundsOn(ch, ctrl) => SoundsOn(ch, ctrl)'
        BY <1>3, <3>1, SoundsOnMoves
      <3> QED
        BY <1>1, <1>5, <2>1, <3>2, ReadsStay
    <2> QED
      BY <2>2, <2>3
  <1> QED
    BY <1>4, <1>8, <1>9 DEF ReadsKnown

-----------------------------------------------------------------------------
(* A change that is processed is the last one for this time, and what      *)
(* sounds then, sounds on: what ends at this time was ended before.        *)
LEMMA CtrlIsLast ==
    ASSUME FlatOnly, FileInv, status = "playing", NEW ch0 \in Channel, NEW ctrl0 \in Ctrl,
           NEW t0 \in Due(ch0, ctrl0), CtrlEvent(ch0, ctrl0, t0) \in Top, t0 <= time,
           MoveOn(CtrlEvent(ch0, ctrl0, t0)), song' = song, time' = time
    PROVE  /\ ~SoundsOn(ch0, ctrl0)
           /\ \A t \in Due(ch0, ctrl0)' : time < t
           /\ Voices(ch0) # {} => SoundsOn(ch0, ctrl0)'
  <1> DEFINE e == CtrlEvent(ch0, ctrl0, t0)
             later == {s \in DOMAIN song.changes[ch0][ctrl0] : s > t0}
  <1>1. /\ PlayInv /\ NoneLate /\ HeapKnown /\ NotesInOrder /\ song \in Songs /\ time \in Nat
        /\ song.start \in Nat /\ ch0 \in Sender /\ ch0 # FILE
    BY PlayTypes, NamesAssumption DEF FileInv, PlayInv, Sender
  <1>2. /\ t0 \in Nat /\ DOMAIN song.changes[ch0][ctrl0] \subseteq Nat
        /\ t0 \in DOMAIN song.changes[ch0][ctrl0]
    BY <1>1, PlayTypes
  <1>3. \/ t0 = time
        \/ /\ time = song.start
           /\ \A s \in DOMAIN song.changes[ch0][ctrl0] : s <= t0 \/ time < s
    BY <1>1, <1>2 DEF NoneLate
  <1>4. ~SoundsOn(ch0, ctrl0)
    BY <1>1, <1>2 DEF SoundsOn
  <1>5. /\ Begun' = Begun
        /\ Due(ch0, ctrl0)' = (Due(ch0, ctrl0) \ {t0})
                                 \cup (IF later = {} THEN {} ELSE {Min(later)})
    BY <1>1, CtrlMoves
  <1>6. \A t \in Due(ch0, ctrl0)' : time < t
    <2>1. \A t \in Due(ch0, ctrl0) : t = t0
      BY <1>1 DEF PlayInv, ControllersKnown
    <2>2. later # {} => Min(later) \in later
      <3>1. ASSUME NEW D \in SUBSET Nat PROVE D # {} => Min(D) \in D
        BY MinFacts
      <3>2. later \in SUBSET Nat
        BY <1>2
      <3> HIDE DEF later
      <3> QED
        BY <3>1, <3>2
    <2>3. \A t \in Due(ch0, ctrl0)' : t \in later
      BY <1>5, <2>1, <2>2
    <2>4. \A t \in later : time < t
      BY <1>1, <1>2, <1>3
    <2> QED
      BY <2>3, <2>4
  <1>7. ASSUME Voices(ch0) # {} PROVE SoundsOn(ch0, ctrl0)'
    <2>1. Voices(ch0)' = Voices(ch0)
      BY <1>5 DEF Voices
    <2>2. ASSUME NEW n \in Voices(ch0) PROVE time < n.off
      <3>1. n \in Begun /\ OffEvent(n) \in heap /\ n \in Played /\ time <= n.off
        BY <1>1 DEF Voices, Begun, NotesInOrder
      <3>2. n.on \in Nat /\ n.off \in Nat /\ n.on < n.off /\ song.start <= n.on
        BY <1>1, <3>1, NoteTypes DEF Played
      <3>3. CASE t0 = time
        <4>1. ~Before(OffEvent(n), e)
          BY <3>1 DEF Top
        <4>2. Prio["off"] < Prio["ctrl"]
          BY DEF Prio
        <4>3. e.kind = "ctrl" /\ e.time = t0
          BY <1>1, CtrlEventFacts
        <4>4. OffEvent(n).kind = "off" /\ OffEvent(n).time = n.off
          BY EventFacts
        <4> HIDE DEF e
        <4>5. n.off # time
          BY <3>3, <4>1, <4>2, <4>3, <4>4 DEF Before
        <4> QED
          BY <1>1, <3>1, <3>2, <4>5
      <3>4. CASE time = song.start
        BY <1>1, <3>2, <3>4
      <3> QED
        BY <1>3, <3>3, <3>4
    <2> QED
      BY <1>6, <1>7, <2>1, <2>2 DEF SoundsOn
  <1> QED
    BY <1>4, <1>6, <1>7

LEMMA CtrlKeepsFile ==
    ASSUME FlatOnly, FileInv, status = "playing", NEW ch0 \in Sender, NEW ctrl0 \in Ctrl,
           NEW t0 \in Due(ch0, ctrl0), CtrlEvent(ch0, ctrl0, t0) \in Top, t0 <= time,
           MoveOn(CtrlEvent(ch0, ctrl0, t0)), song' = song, time' = time,
           \/ KeepBack(CtrlEvent(ch0, ctrl0, t0))
           \/ SendCtrl(CtrlEvent(ch0, ctrl0, t0))
           \/ SameCtrl(CtrlEvent(ch0, ctrl0, t0))
    PROVE  ChunksTimed' /\ NoneLate' /\ ReadsKnown'
  <1> DEFINE e == CtrlEvent(ch0, ctrl0, t0)
             to == IF e.kind = "file" THEN FILE ELSE owner[ch0]
  <1>1. /\ PlayInv /\ ChunksTimed /\ NoneLate /\ HeapKnown /\ song \in Songs /\ time \in Nat
        /\ \A ch \in Channel, ctrl \in Ctrl : KnownOf(ch, ctrl)
        /\ DOMAIN value = Sender /\ DOMAIN value[ch0] = Ctrl
    BY PlayTypes DEF FileInv, PlayInv, ReadsKnown, PlayerTypes
  <1>2. /\ e.kind = IF ch0 = FILE THEN "file" ELSE "ctrl"
        /\ e.ch = ch0 /\ e.ctrl = ctrl0 /\ e.time = t0
    BY CtrlEventFacts
  <1>3. /\ Begun' = Begun
        /\ \A ch \in Sender, ctrl \in Ctrl :
              ch # ch0 \/ ctrl # ctrl0 => Due(ch, ctrl)' = Due(ch, ctrl)
    BY <1>1, CtrlMoves
  <1>4. ch0 \in Channel =>
            /\ ~SoundsOn(ch0, ctrl0)
            /\ \A t \in Due(ch0, ctrl0)' : time < t
            /\ Voices(ch0) # {} => SoundsOn(ch0, ctrl0)'
    BY CtrlIsLast
  <1>5. status' = "playing"
    BY DEF KeepBack, SendCtrl, SameCtrl
  <1>6. NoneLate'
    <2>1. ASSUME NEW ch \in Channel, NEW ctrl \in Ctrl, NEW t \in Due(ch, ctrl)'
          PROVE  \/ time <= t
                 \/ /\ time = song.start
                    /\ \A s \in DOMAIN song.changes[ch][ctrl] : s <= t \/ time < s
      <3>1. ch \in Sender
        BY DEF Sender
      <3>2. CASE ch = ch0 /\ ctrl = ctrl0
        <4>1. time < t
          BY <1>4, <2>1, <3>2
        <4>2. t \in Nat
          <5>1. DOMAIN song.changes[ch][ctrl] \subseteq Nat
            BY <1>1, <3>1, PlayTypes
          <5>2. t \in DOMAIN song.changes[ch][ctrl]
            BY <2>1 DEF Due
          <5> QED
            BY <5>1, <5>2
        <4> QED
          BY <1>1, <4>1, <4>2
      <3>3. CASE ~(ch = ch0 /\ ctrl = ctrl0)
        <4>1. t \in Due(ch, ctrl)
          BY <1>3, <2>1, <3>1, <3>3
        <4> QED
          BY <1>1, <4>1 DEF NoneLate
      <3> QED
        BY <3>2, <3>3
    <2> QED
      BY <1>5, <2>1 DEF NoneLate
  <1>7. ASSUME NEW ch \in Channel, NEW ctrl \in Ctrl
        PROVE  SoundsOn(ch, ctrl) => SoundsOn(ch, ctrl)'
    <2>1. CASE ch = ch0 /\ ctrl = ctrl0
      BY <1>4, <2>1
    <2>2. CASE ~(ch = ch0 /\ ctrl = ctrl0)
      <3>1. Due(ch, ctrl)' = Due(ch, ctrl)
        BY <1>3, <2>2 DEF Sender
      <3>2. Voices(ch)' = Voices(ch)
        BY <1>3 DEF Voices
      <3> QED
        BY <3>1, <3>2, SoundsOnMoves
    <2> QED
      BY <2>1, <2>2
  <1>8. SendsNow(e) => /\ to \in Track \cup {FILE}
                       /\ ch0 # FILE => ch0 \in Channel /\ Voices(ch0) # {}
    <2> SUFFICES ASSUME SendsNow(e), ch0 # FILE
                 PROVE  ch0 \in Channel /\ Voices(ch0) # {} /\ owner[ch0] \in Track
      BY <1>2
    <2>1. ch0 \in Channel /\ notes[ch0] # 0
      BY <1>2 DEF SendsNow, Sender
    <2>2. PICK n \in Voices(ch0) : TRUE
      BY <1>1, <2>1, SilentIsEmpty
    <2>3. owner[ch0] = n.track
      BY <1>1, <2>1 DEF PlayInv, ChannelsKnown
    <2>4. n \in song.notes
      BY DEF Voices, Begun
    <2> QED
      BY <1>1, <2>1, <2>2, <2>3, <2>4, NoteTypes
  <1>9. CASE KeepBack(e)
    <2>1. chunk' = chunk /\ dtime' = dtime /\ value' = value
      BY <1>9 DEF KeepBack
    <2>2. ChunksTimed'
      BY <1>1, <2>1 DEF ChunksTimed
    <2>3. ASSUME NEW ch \in Channel, NEW ctrl \in Ctrl PROVE KnownOf(ch, ctrl)'
      <3>1. ChangesRead(ch, ctrl)' = ChangesRead(ch, ctrl)
        BY <2>1 DEF ChangesRead
      <3> QED
        BY <1>1, <1>7, <2>1, <3>1, ReadsStay
    <2> QED
      BY <1>6, <2>2, <2>3 DEF ReadsKnown
  <1>10. CASE SendCtrl(e)
    <2> DEFINE v == ChangedTo(e)
               m0 == CtrlMsg(ch0, ctrl0, v)
    <2>1. /\ SendsNow(e) /\ value' = [value EXCEPT ![ch0][ctrl0] = v]
          /\ Write(to, <<m0>>)
      BY <1>2, <1>10 DEF SendCtrl
    <2> HIDE DEF e, to
    <2>2. /\ m0.value = v
          /\ \A ch, ctrl : IsSent(m0, ch, ctrl) <=> ch = ch0 /\ ctrl = ctrl0
      BY DEF IsSent, CtrlMsg
    <2> HIDE DEF v, m0
    <2>3. \A ch, ctrl : Sends(<<m0>>, ch, ctrl) = IF IsSent(m0, ch, ctrl) THEN {v} ELSE {}
      BY <2>2, SendsOne
    <2>4. <<m0>> \in Seq({m0})
      OBVIOUS
    <2>5. /\ ChunksTimed'
          /\ \A ch, ctrl : ChangesRead(ch, ctrl)'
                              = ChangesRead(ch, ctrl) \cup ReadsAt(time, Sends(<<m0>>, ch, ctrl))
      BY <1>1, <1>8, <2>1, <2>4, WriteReads
    <2>6. ASSUME NEW ch \in Channel, NEW ctrl \in Ctrl PROVE KnownOf(ch, ctrl)'
      <3>1. CASE ch = ch0 /\ ctrl = ctrl0
        <4>1. ChangesRead(ch, ctrl)' = ChangesRead(ch, ctrl) \cup ReadsAt(time, {v})
          <5>1. Sends(<<m0>>, ch, ctrl) = {v}
            BY <2>2, <2>3, <3>1
          <5> QED
            BY <2>5, <5>1
        <4>2. value'[ch][ctrl] = v
          BY <1>1, <2>1, <3>1
        <4>3. ch0 # FILE
          BY <3>1, NamesAssumption
        <4>4. KnownOf(ch, ctrl) /\ ~SoundsOn(ch, ctrl) /\ SoundsOn(ch, ctrl)'
          BY <1>1, <1>4, <1>8, <2>1, <3>1, <4>3
        <4> QED
          BY <1>1, <4>1, <4>2, <4>4, ReadsGrow
      <3>2. CASE ~(ch = ch0 /\ ctrl = ctrl0)
        <4>1. ChangesRead(ch, ctrl)' = ChangesRead(ch, ctrl)
          <5>1. Sends(<<m0>>, ch, ctrl) = {}
            BY <2>2, <2>3, <3>2
          <5> QED
            BY <2>5, <5>1, SendsNone
        <4>2. value'[ch][ctrl] = value[ch][ctrl]
          BY <1>1, <2>1, <3>2
        <4> QED
          BY <1>1, <1>7, <4>1, <4>2, ReadsStay
      <3> QED
        BY <3>1, <3>2
    <2> QED
      BY <1>6, <2>5, <2>6 DEF ReadsKnown
  <1>11. CASE SameCtrl(e)
    <2>1. PICK ms \in {<<>>, <<[type |-> "garbage"]>>} : Write(to, ms)
      BY <1>2, <1>11 DEF SameCtrl
    <2>2. SendsNow(e) /\ value' = value
      BY <1>11 DEF SameCtrl
    <2> HIDE DEF e, to
    <2>3. /\ ms \in Seq({[type |-> "garbage"]})
          /\ \A ch, ctrl : Sends(ms, ch, ctrl) = {}
      <3>1. CASE ms = <<>>
        <4>1. <<>> \in Seq({[type |-> "garbage"]})
          OBVIOUS
        <4> QED
          BY <3>1, <4>1, SendsNone
      <3>2. CASE ms = <<[type |-> "garbage"]>>
        <4> DEFINE m0 == [type |-> "garbage"]
        <4>1. \A ch, ctrl : ~IsSent(m0, ch, ctrl)
          BY DEF IsSent
        <4> HIDE DEF m0
        <4>2. \A ch, ctrl : Sends(<<m0>>, ch, ctrl) = {}
          <5> TAKE ch, ctrl
          <5>1. Sends(<<m0>>, ch, ctrl) = IF IsSent(m0, ch, ctrl) THEN {m0.value} ELSE {}
            BY SendsOne
          <5> QED
            BY <4>1, <5>1
        <4>3. <<m0>> \in Seq({m0})
          OBVIOUS
        <4> QED
          BY <3>2, <4>2, <4>3 DEF m0
      <3> QED
        BY <2>1, <3>1, <3>2
    <2>4. /\ ChunksTimed'
          /\ \A ch, ctrl : ChangesRead(ch, ctrl)'
                              = ChangesRead(ch, ctrl) \cup ReadsAt(time, Sends(ms, ch, ctrl))
      <3> HIDE DEF KnownOf
      <3>1. to \in Track \cup {FILE}
        BY <1>8, <2>2
      <3> QED
        BY <1>1, <2>1, <2>3, <3>1, WriteReads
    <2>5. ASSUME NEW ch \in Channel, NEW ctrl \in Ctrl PROVE KnownOf(ch, ctrl)'
      <3>1. ChangesRead(ch, ctrl)' = ChangesRead(ch, ctrl)
        BY <2>3, <2>4, SendsNone
      <3> QED
        BY <1>1, <1>7, <2>2, <3>1, ReadsStay
    <2> QED
      BY <1>6, <2>4, <2>5 DEF ReadsKnown
  <1> QED
    BY <1>9, <1>10, <1>11

-----------------------------------------------------------------------------
(* Waiting.                                                                *)
LEMMA ValueHolds ==
    ASSUME NEW c, NEW t \in Nat, NEW u \in Nat, t <= u, DOMAIN c \subseteq Nat,
           \A s \in DOMAIN c : s <= t \/ u < s
    PROVE  ValueAt(c, u) = ValueAt(c, t)
  <1>1. {s \in DOMAIN c : s <= u} = {s \in DOMAIN c : s <= t}
    OBVIOUS
  <1> QED
    BY <1>1 DEF ValueAt

LEMMA SumWaits ==
    ASSUME NEW T \in Nat, NEW d \in Nat, NEW t \in Nat, NEW u \in Nat, t < u, T + d = t,
           NEW e, e = d + (u - t)
    PROVE  e \in Nat /\ T + e = u
  <1>1. u - t \in Nat
    OBVIOUS
  <1>2. e \in Nat
    BY <1>1
  <1>3. T + e = (T + d) + (u - t)
    BY <1>1
  <1> QED
    BY <1>2, <1>3

LEMMA WaitKeepsFile ==
    ASSUME FlatOnly, FileInv, Wait
    PROVE  ChunksTimed' /\ NoneLate' /\ ReadsKnown'
  <1>1. /\ PlayInv /\ ChunksTimed /\ NoneLate /\ NotesInOrder /\ ControllersKnown
        /\ song \in Songs /\ time \in Nat
        /\ \A ch \in Channel, ctrl \in Ctrl : KnownOf(ch, ctrl)
        /\ heard = value
    BY PlayTypes DEF FileInv, PlayInv, ReadsKnown, PlayerTypes
  <1>2. /\ time' \in Nat /\ time < time'
        /\ \A n \in Coming : time' <= n.on
        /\ \A n \in Begun : time' <= n.off
        /\ \A ch \in Sender, ctrl \in Ctrl : \A t \in Due(ch, ctrl) : time' <= t
        /\ song' = song /\ heap' = heap
    BY <1>1, WaitsForNext
  <1>3. /\ status = "playing" /\ status' = status /\ value' = value /\ chunk' = chunk
        /\ dtime' = [tr \in DOMAIN dtime |-> dtime[tr] + (time' - time)]
    BY DEF Wait
  <1>4. \A ch, ctrl : /\ Due(ch, ctrl)' = Due(ch, ctrl)
                      /\ ChangesRead(ch, ctrl)' = ChangesRead(ch, ctrl)
    BY <1>2, <1>3 DEF Due, ChangesRead
  <1>5. ChunksTimed'
    <2>1. DOMAIN chunk' = Track \cup {FILE} /\ DOMAIN dtime' = Track \cup {FILE}
      BY <1>1, <1>3 DEF ChunksTimed
    <2>2. ASSUME NEW tr \in Track \cup {FILE}
          PROVE  /\ chunk'[tr] \in Seq(ToSet(chunk'[tr]))
                 /\ \A i \in DOMAIN chunk'[tr] : chunk'[tr][i].delta \in Nat
                 /\ dtime'[tr] \in Nat
                 /\ TimeOf(song'.start, chunk'[tr], Len(chunk'[tr])) + dtime'[tr] = time'
      <3> DEFINE T == TimeOf(song.start, chunk[tr], Len(chunk[tr]))
      <3>1. /\ chunk[tr] \in Seq(ToSet(chunk[tr]))
            /\ \A i \in DOMAIN chunk[tr] : chunk[tr][i].delta \in Nat
            /\ dtime[tr] \in Nat /\ tr \in DOMAIN dtime
        BY <1>1 DEF ChunksTimed
      <3>2. T + dtime[tr] = time
        BY <1>1 DEF ChunksTimed
      <3>3. T \in Nat
        <4>1. song.start \in Nat
          BY <1>1, NoteTypes
        <4>2. Len(chunk[tr]) \in Nat
          BY <3>1
        <4>3. \A k \in 1 .. Len(chunk[tr]) : k \in DOMAIN chunk[tr]
          BY <3>1
        <4> QED
          BY <3>1, <4>1, <4>2, <4>3, TimesAreNat
      <3>4. TimeOf(song'.start, chunk'[tr], Len(chunk'[tr])) = T
        BY <1>2, <1>3
      <3> HIDE DEF T
      <3>5. dtime'[tr] = dtime[tr] + (time' - time)
        BY <1>3, <3>1
      <3>6. dtime'[tr] \in Nat /\ T + dtime'[tr] = time'
        <4>1. time \in Nat /\ time' \in Nat /\ time < time'
          BY <1>1, <1>2
        <4>2. dtime[tr] \in Nat
          BY <3>1
        <4> QED
          BY <3>2, <3>3, <3>5, <4>1, <4>2, SumWaits
      <3> QED
        BY <1>3, <3>1, <3>4, <3>6
    <2> QED
      BY <2>1, <2>2 DEF ChunksTimed
  <1>6. NoneLate'
    <2>1. \A ch \in Channel, ctrl \in Ctrl : \A t \in Due(ch, ctrl)' : time' <= t
      BY <1>2, <1>4 DEF Sender
    <2> QED
      BY <1>3, <2>1 DEF NoneLate
  <1>7. CaughtUp
    <2>1. PICK e \in Top : e.time > time /\ time' = e.time
      BY DEF Wait
    <2>2. \A f \in heap : ~(f.time < e.time)
      BY DEF Top, Before
    <2>3. \A f \in heap : f.time \in Nat
      <3>1. /\ \A n \in Coming : n.on \in Nat
            /\ \A n \in Begun : n.off \in Nat
            /\ \A ch \in Sender, ctrl \in Ctrl : \A t \in Due(ch, ctrl) : t \in Nat
        BY <1>1, PlayTypes, NoteTypes
      <3> SUFFICES ASSUME NEW f \in heap PROVE f.time \in Nat
        OBVIOUS
      <3>2. CASE \E n \in Coming : f = OnEvent(n)
        BY <3>1, <3>2 DEF OnEvent
      <3>3. CASE \E n \in Begun : f = OffEvent(n)
        BY <3>1, <3>3 DEF OffEvent
      <3>4. CASE \E ch \in Sender, ctrl \in Ctrl :
                    \E t \in Due(ch, ctrl) : f = CtrlEvent(ch, ctrl, t)
        BY <3>1, <3>4 DEF CtrlEvent
      <3> QED
        BY <1>1, <3>2, <3>3, <3>4 DEF PlayInv, HeapKnown
    <2> QED
      BY <1>1, <1>2, <2>1, <2>2, <2>3 DEF CaughtUp
  <1>8. ASSUME NEW ch \in Channel, NEW ctrl \in Ctrl PROVE KnownOf(ch, ctrl)'
    <2> DEFINE R == ChangesRead(ch, ctrl)
               c == song.changes[ch][ctrl]
    <2>1. /\ \A r \in R : r.time \in Nat /\ r.time <= time
          /\ ReadAt(R, time) = {value[ch][ctrl]}
          /\ \A n \in Played : n.ch = ch => \A t \in n.on .. (n.off - 1) :
                t < time => ReadAt(R, t) = {ValueAt(c, t)}
      BY <1>1 DEF KnownOf
    <2>2. R' = R /\ c' = c /\ Played' = Played
      BY <1>2, <1>4 DEF Played
    <2>3. ch \in Sender /\ DOMAIN c \subseteq Nat
      BY <1>1, ChangeTimes DEF Sender
    <2>4. \A s \in DOMAIN c : s <= time \/ time' <= s
      <3> SUFFICES ASSUME NEW s \in DOMAIN c, ~(s <= time) PROVE time' <= s
        OBVIOUS
      <3>1. s \notin Passed(ch, ctrl)
        BY <1>1, <2>3 DEF ControllersKnown
      <3>2. PICK t \in Due(ch, ctrl) : ~(s < t)
        BY <3>1 DEF Passed
      <3>3. t \in Nat /\ time' <= t
        BY <1>1, <1>2, <2>3, PlayTypes
      <3> QED
        BY <1>2, <2>3, <3>2, <3>3
    <2> HIDE DEF R, c
    <2>5. \A u \in Nat : time <= u => ReadAt(R, u) = ReadAt(R, time)
      BY <1>1, <2>1, ReadLater
    <2>6. ASSUME NEW n \in Played, n.ch = ch, NEW t \in n.on .. (n.off - 1), t < time'
          PROVE  ReadAt(R, t) = {ValueAt(c, t)}
      <3>0. n.on \in Nat /\ n.off \in Nat /\ n \in song.notes
        BY <1>1, NoteTypes DEF Played
      <3>1. CASE t < time
        BY <2>1, <2>6, <3>1
      <3>2. CASE time <= t
        <4>1. n.on < time' /\ time < n.off /\ t \in Nat
          BY <1>1, <1>2, <2>6, <3>0, <3>2
        <4>2. n \in Begun
          <5> SUFFICES ASSUME n \notin Begun PROVE FALSE
            OBVIOUS
          <5>1. PICK m \in Coming : m.track = n.track /\ (m = n \/ NoteBefore(m, n))
            BY <1>1, <3>0, <4>1 DEF NotesInOrder
          <5>2. m.on \in Nat /\ time' <= m.on
            BY <1>1, <1>2, PlayTypes, NoteTypes
          <5>3. m.on <= n.on
            BY <3>0, <5>1, <5>2 DEF NoteBefore
          <5> QED
            BY <1>2, <3>0, <4>1, <5>2, <5>3
        <4>3. notes[ch] # 0
          <5>1. n \in Voices(ch)
            BY <2>6, <4>2 DEF Voices
          <5> QED
            BY <1>1, <5>1, SilentIsEmpty
        <4>4. value[ch][ctrl] = ValueAt(c, time)
          BY <1>1, <1>7, <2>3, <4>3, InvHearsControllers DEF HearsControllers, c
        <4>5. ValueAt(c, t) = ValueAt(c, time)
          <5>1. \A s \in DOMAIN c : s <= time \/ t < s
            BY <1>1, <1>2, <2>3, <2>4, <2>6, <4>1
          <5> QED
            BY <1>1, <2>3, <3>2, <4>1, <5>1, ValueHolds
        <4>6. ReadAt(R, t) = {value[ch][ctrl]}
          BY <2>1, <2>5, <3>2, <4>1
        <4> QED
          BY <4>4, <4>5, <4>6
      <3>3. t \in Int
        BY <3>0, <2>6
      <3> QED
        BY <1>1, <3>1, <3>2, <3>3
    <2>7. ReadAt(R, time') = {value[ch][ctrl]}
      BY <1>1, <1>2, <2>1, <2>5
    <2>8. \A r \in R : r.time \in Nat /\ r.time <= time' /\ r.time # time'
      BY <1>1, <1>2, <2>1
    <2> QED
      BY <1>2, <1>3, <2>2, <2>6, <2>7, <2>8 DEF KnownOf, R, c
  <1> QED
    BY <1>5, <1>6, <1>8 DEF ReadsKnown

(* The invariant says of the status that nothing is left at the end.       *)
LEMMA RestKeepsFile ==
    ASSUME FileInv, Stop \/ End \/ UNCHANGED vars
    PROVE  ChunksTimed' /\ NoneLate' /\ ReadsKnown'
  <1>1. UNCHANGED <<song, heap, time, value, dtime, chunk>>
    BY DEF Stop, End, vars, player
  <1>2. status' = status \/ status' = "stopped" \/ heap = {}
    BY DEF Stop, End, vars, player
  <1>3. /\ ChunksTimed /\ NoneLate
        /\ \A ch \in Channel, ctrl \in Ctrl : KnownOf(ch, ctrl)
    BY DEF FileInv, ReadsKnown
  <1>4. \A ch, ctrl : /\ Due(ch, ctrl)' = Due(ch, ctrl)
                      /\ ChangesRead(ch, ctrl)' = ChangesRead(ch, ctrl)
                      /\ Voices(ch)' = Voices(ch)
    BY <1>1 DEF Due, ChangesRead, Voices, Begun
  <1>5. ChunksTimed'
    BY <1>1, <1>3 DEF ChunksTimed
  <1>6. NoneLate'
    BY <1>1, <1>2, <1>3, <1>4 DEF NoneLate
  <1>7. \A ch \in Channel, ctrl \in Ctrl : KnownOf(ch, ctrl)'
    BY <1>1, <1>3, <1>4, SoundsOnMoves, ReadsStay
  <1> QED
    BY <1>5, <1>6, <1>7 DEF ReadsKnown

LEMMA NextFileInv ==
    ASSUME FlatOnly, FileInv, [Next]_vars
    PROVE  FileInv'
  <1>1. PlayInv
    BY DEF FileInv
  <1>2. PlayInv'
    BY <1>1, NextInv
  <1>3. CASE Process
    <2>1. /\ song' = song /\ time' = time
          /\ \/ \E n \in Coming : /\ OnEvent(n) \in Top /\ n.on <= time
                                  /\ NoteOn(OnEvent(n)) /\ MoveOn(OnEvent(n))
             \/ \E n \in Begun : /\ OffEvent(n) \in Top /\ n.off <= time
                                 /\ NoteOff(OffEvent(n)) /\ MoveOn(OffEvent(n))
             \/ \E ch \in Sender, ctrl \in Ctrl : \E t \in Due(ch, ctrl) :
                    LET e == CtrlEvent(ch, ctrl, t) IN
                    /\ e \in Top /\ t <= time /\ MoveOn(e)
                    /\ KeepBack(e) \/ SendCtrl(e) \/ SameCtrl(e)
      BY <1>1, <1>3, ProcessCases
    <2>2. status = "playing"
      BY <1>3 DEF Process
    <2> QED
      BY <1>2, <2>1, <2>2, OnKeepsFile, OffKeepsFile, CtrlKeepsFile DEF FileInv
  <1>4. CASE Wait
    BY <1>2, <1>4, WaitKeepsFile DEF FileInv
  <1>5. CASE Stop \/ End \/ UNCHANGED vars
    BY <1>2, <1>5, RestKeepsFile DEF FileInv
  <1> QED
    BY <1>3, <1>4, <1>5 DEF Next

LEMMA InvFileKeepsControllers ==
    ASSUME FlatOnly, FileInv
    PROVE  FileKeepsControllers
  <1> SUFFICES ASSUME status = "ended", NEW n \in Played, NEW ctrl \in Ctrl,
                      NEW t \in n.on .. (n.off - 1)
               PROVE  ReadAt(ChangesRead(n.ch, ctrl), t)
                        = {ValueAt(song.changes[n.ch][ctrl], t)}
    BY DEF FileKeepsControllers
  <1>1. PlayInv /\ NotesInOrder /\ heap = {} /\ ReadsKnown /\ song \in Songs /\ time \in Nat
    BY PlayTypes DEF FileInv, PlayInv, NoneLate
  <1>2. n.ch \in Channel /\ n.on \in Nat /\ n.off \in Nat
    BY <1>1, NoteTypes DEF Played
  <1>3. n.off <= time
    BY <1>1 DEF NotesInOrder, Coming, Begun
  <1>4. t < time
    BY <1>1, <1>2, <1>3
  <1> QED
    BY <1>1, <1>2, <1>4 DEF ReadsKnown, KnownOf

(* Whatever is written, each chunk's deltas add up to this time, and what  *)
(* was read of a controller up to now is what its notes were played with.  *)
THEOREM FileInvariant ==
    ASSUME FlatOnly
    PROVE  Spec => []FileInv
  <1>1. Init => FileInv
    BY FileBegins
  <1>2. FileInv /\ [Next]_vars => FileInv'
    BY NextFileInv
  <1> QED
    BY <1>1, <1>2, PTL DEF Spec

(* A file that was written to its end has, for every note and as long as   *)
(* it sounds, the controllers that the song has, whichever of its chunks   *)
(* the changes are in.                                                     *)
THEOREM FlatFileKeepsControllers ==
    ASSUME FlatOnly
    PROVE  Spec => []FileKeepsControllers
  BY InvFileKeepsControllers, FileInvariant, PTL
=============================================================================
