------------------------ MODULE OutputStream_proofs ------------------------
(***************************************************************************)
(* Theorems about OutputStream for any number of sockets and phones, every *)
(* capacity of the channel and of the ring, and every value of the bounds. *)
(***************************************************************************)
EXTENDS OutputStream, SequenceTheorems, TLAPS

(* The inductive invariant: what the handover rests on, with the types.     *)
StreamInv == TypeOK /\ HandoverInv /\ ClosedIsLast

-----------------------------------------------------------------------------
(* A push onto the channel's window: the newest event is last, and the rest *)
(* is the old window, without its first event if the window was full.       *)
LEMMA PushProperties ==
  ASSUME NEW w \in Seq(Event), Len(w) <= Capacity, NEW e \in Event, NEW v,
         v = IF Len(w) < Capacity THEN Append(w, e) ELSE Append(Tail(w), e)
  PROVE  /\ v \in Seq(Event)
         /\ Len(v) \in 1 .. Capacity
         /\ Len(v) = IF Len(w) < Capacity THEN Len(w) + 1 ELSE Capacity
         /\ v[Len(v)] = e
         /\ \A i \in 1 .. Len(v) - 1 : v[i] = IF Len(w) < Capacity THEN w[i] ELSE w[i + 1]
<1>1. Capacity \in Nat \ {0} /\ Len(w) \in Nat
  BY StreamAssumption
<1>2. CASE Len(w) < Capacity
  <2>1. v = Append(w, e)
    BY <1>2
  <2>2. /\ Append(w, e) \in Seq(Event)
        /\ Len(Append(w, e)) = Len(w) + 1
        /\ \A i \in 1 .. Len(w) : Append(w, e)[i] = w[i]
        /\ Append(w, e)[Len(w) + 1] = e
    BY AppendProperties
  <2>3. /\ v \in Seq(Event)
        /\ Len(v) = Len(w) + 1
        /\ \A i \in 1 .. Len(w) : v[i] = w[i]
        /\ v[Len(w) + 1] = e
    BY <2>1, <2>2, Zenon
  <2> QED
    BY <1>1, <1>2, <2>3
<1>3. CASE ~ (Len(w) < Capacity)
  <2>1. Len(w) = Capacity /\ w # <<>>
    BY <1>1, <1>3
  <2> DEFINE t == Tail(w)
  <2>2. t \in Seq(Event) /\ Len(t) = Len(w) - 1
    BY <2>1, HeadTailProperties
  <2>3. \A i \in 1 .. Len(t) : t[i] = w[i + 1]
    BY <2>1, HeadTailProperties
  <2>4. v = Append(t, e)
    BY <1>3
  <2> HIDE DEF t
  <2>5. /\ Append(t, e) \in Seq(Event)
        /\ Len(Append(t, e)) = Len(t) + 1
        /\ \A i \in 1 .. Len(t) : Append(t, e)[i] = t[i]
        /\ Append(t, e)[Len(t) + 1] = e
    BY <2>2, AppendProperties
  <2>6. /\ v \in Seq(Event)
        /\ Len(v) = Len(t) + 1
        /\ \A i \in 1 .. Len(t) : v[i] = t[i]
        /\ v[Len(t) + 1] = e
    BY <2>4, <2>5, Zenon
  <2> QED
    BY <1>1, <2>1, <2>2, <2>3, <2>6
<1> QED
  BY <1>2, <1>3

(* The event that a listening subscriber receives next is in the window.    *)
LEMMA NextEventHeld ==
  ASSUME TypeOK, BacklogHeld, NEW s \in Subscribers, Listening(s), ~Missed(s), backlog[s] > 0
  PROVE  /\ Len(window) - backlog[s] + 1 \in 1 .. Len(window)
         /\ NextEvent(s) = window[Len(window) - backlog[s] + 1]
         /\ NextEvent(s) \in Event
<1>1. backlog[s] \in Nat /\ Len(window) \in Nat /\ Capacity \in Nat
  BY StreamAssumption DEF TypeOK
<1>2. backlog[s] <= Len(window)
  BY DEF BacklogHeld
<1>3. Len(window) - backlog[s] + 1 \in 1 .. Len(window)
  BY <1>1, <1>2
<1>4. NextEvent(s) = window[Len(window) - backlog[s] + 1]
  BY DEF NextEvent
<1>5. window \in Seq(Event)
  BY DEF TypeOK
<1> QED
  BY <1>3, <1>4, <1>5

(* An event that begins at what is shown and ends at what will be keeps the *)
(* window linked, and a subscriber's place in the output where it was; only *)
(* a subscriber that misses events is moved on.                             *)
LEMMA SendKeepsLinks ==
  ASSUME TypeOK, WindowLinked, BacklogHeld, NEW e \in Event, Send(e),
         UNCHANGED stream, shown' \in Nat, shown <= shown',
         e.from = shown, e.upto = shown',
         IF e.kind = "output" THEN shown < shown' ELSE shown = shown',
         shown < shown' => pane, e.kind = "closed" \/ ~pane => ~pane'
  PROVE  /\ window' \in Seq(Event) /\ Len(window') <= Capacity
         /\ backlog' \in [Subscribers -> 0 .. Capacity + 1]
         /\ WindowLinked'
         /\ BacklogHeld'
         /\ \A s \in Subscribers : Listening(s) =>
              /\ ~Missed(s)' => ~Missed(s) /\ Mark(s)' = Mark(s)
              /\ Mark(s) <= Mark(s)'
<1>1. Capacity \in Nat \ {0}
  BY StreamAssumption
<1>2. window \in Seq(Event) /\ Len(window) <= Capacity /\ shown \in Nat /\ Len(window) \in Nat
  BY DEF TypeOK
<1>3. /\ window' \in Seq(Event)
      /\ Len(window') \in 1 .. Capacity
      /\ Len(window') = IF Len(window) < Capacity THEN Len(window) + 1 ELSE Capacity
      /\ window'[Len(window')] = e
      /\ \A i \in 1 .. Len(window') - 1 :
            window'[i] = IF Len(window) < Capacity THEN window[i] ELSE window[i + 1]
  BY <1>2, PushProperties DEF Send
<1>4. \A s \in Subscribers :
        /\ backlog[s] \in 0 .. Capacity + 1
        /\ backlog'[s] = IF Listening(s) /\ backlog[s] <= Capacity THEN backlog[s] + 1 ELSE backlog[s]
  BY DEF Send, TypeOK
<1>5. backlog' \in [Subscribers -> 0 .. Capacity + 1]
  <2>1. \A s \in Subscribers :
          (IF Listening(s) /\ backlog[s] <= Capacity THEN backlog[s] + 1 ELSE backlog[s])
             \in 0 .. Capacity + 1
    BY <1>1, <1>4
  <2> QED
    BY <2>1 DEF Send
<1>6. ASSUME NEW i \in 1 .. Len(window)
      PROVE  window[i] \in Event /\ window[i].from \in Nat /\ window[i].upto \in Nat
               /\ window[i].from <= window[i].upto
  <2>1. window[i] \in Event
    BY <1>2, ElementOfSeq
  <2>2. window[i].from \in Nat /\ window[i].upto \in Nat
    BY <2>1 DEF Event
  <2>3. IF window[i].kind = "output" THEN window[i].from < window[i].upto
                                    ELSE window[i].from = window[i].upto
    BY DEF WindowLinked
  <2> QED
    BY <2>1, <2>2, <2>3
<1>7. WindowLinked'
  <2>1. ASSUME NEW i \in 1 .. Len(window')
        PROVE  /\ window'[i].upto <= shown'
               /\ IF window'[i].kind = "output" THEN window'[i].from < window'[i].upto
                                               ELSE window'[i].from = window'[i].upto
               /\ window'[i].kind = "closed" => ~pane' /\ window'[i].upto = shown'
    <3>1. CASE i = Len(window')
      BY <1>3, <3>1 DEF Event
    <3>2. CASE i # Len(window')
      <4>1. PICK j \in 1 .. Len(window) : window'[i] = window[j]
        BY <1>1, <1>2, <1>3, <3>2, SMTT(30)
      <4>2. /\ window[j].upto <= shown
            /\ IF window[j].kind = "output" THEN window[j].from < window[j].upto
                                            ELSE window[j].from = window[j].upto
            /\ window[j].kind = "closed" => ~pane /\ window[j].upto = shown
        BY DEF WindowLinked
      <4> QED
        BY <1>2, <1>6, <4>1, <4>2
    <3> QED
      BY <3>1, <3>2
  <2>2. ASSUME NEW i \in 1 .. Len(window') - 1
        PROVE  window'[i].upto = window'[i + 1].from
    <3>1. CASE i + 1 = Len(window')
      <4>1. window # <<>> /\ window'[i] = window[Len(window)]
        BY <1>1, <1>2, <1>3, <3>1
      <4> QED
        BY <1>3, <3>1, <4>1 DEF WindowLinked
    <3>2. CASE i + 1 # Len(window')
      <4>1. i + 1 \in 1 .. Len(window') - 1
        BY <1>3, <3>2
      <4>2. PICK j \in 1 .. Len(window) - 1 :
               window'[i] = window[j] /\ window'[i + 1] = window[j + 1]
        BY <1>1, <1>2, <1>3, <4>1
      <4> QED
        BY <4>2 DEF WindowLinked
    <3> QED
      BY <3>1, <3>2
  <2>3. window'[Len(window')].upto = shown'
    BY <1>3
  <2> QED
    BY <2>1, <2>2, <2>3 DEF WindowLinked
<1>8. BacklogHeld'
  <2>1. ASSUME NEW s \in Subscribers
        PROVE  (IF Listening(s) THEN backlog[s] <= Len(window) \/ (Missed(s) /\ Len(window) = Capacity)
                                ELSE backlog[s] = 0)'
    <3>1. Listening(s)' <=> Listening(s)
      BY DEF Listening
    <3>2. IF Listening(s) THEN backlog[s] <= Len(window) \/ (Missed(s) /\ Len(window) = Capacity)
                          ELSE backlog[s] = 0
      BY DEF BacklogHeld
    <3> QED
      BY <1>1, <1>2, <1>3, <1>4, <3>1, <3>2 DEF Missed
  <2> QED
    BY <2>1 DEF BacklogHeld
<1>9. ASSUME NEW s \in Subscribers, Listening(s)
      PROVE  /\ ~Missed(s)' => ~Missed(s) /\ Mark(s)' = Mark(s)
             /\ Mark(s) <= Mark(s)'
  <2>1. backlog[s] <= Len(window) \/ (Missed(s) /\ Len(window) = Capacity)
    BY <1>9 DEF BacklogHeld
  <2>2. CASE backlog[s] = 0
    <3>1. backlog'[s] = 1 /\ ~Missed(s) /\ ~Missed(s)'
      BY <1>1, <1>4, <1>9, <2>2 DEF Missed
    <3>2. Mark(s)' = window'[Len(window')].from
      BY <1>3, <3>1 DEF Mark, NextEvent
    <3>3. Mark(s) = shown
      BY <2>2 DEF Mark
    <3> QED
      BY <1>2, <1>3, <3>1, <3>2, <3>3
  <2>3. CASE backlog[s] > 0 /\ backlog[s] < Capacity
    <3>1. backlog'[s] = backlog[s] + 1 /\ ~Missed(s) /\ ~Missed(s)'
      BY <1>1, <1>4, <1>9, <2>3 DEF Missed
    <3>2. backlog[s] <= Len(window)
      BY <2>1, <3>1
    <3>3. Mark(s) = window[Len(window) - backlog[s] + 1].from
      BY <1>4, <2>3, <3>1 DEF Mark, NextEvent
    <3>4. Mark(s)' = window'[Len(window') - (backlog[s] + 1) + 1].from
      BY <1>4, <2>3, <3>1 DEF Mark, NextEvent
    <3>5. window'[Len(window') - (backlog[s] + 1) + 1] = window[Len(window) - backlog[s] + 1]
      <4>1. Len(window') - (backlog[s] + 1) + 1 \in 1 .. Len(window') - 1
        BY <1>1, <1>2, <1>3, <1>4, <2>3, <3>2
      <4>2. CASE Len(window) < Capacity
        <5>1. Len(window') - (backlog[s] + 1) + 1 = Len(window) - backlog[s] + 1
          BY <1>2, <1>3, <1>4, <4>2
        <5> QED
          BY <1>3, <4>1, <4>2, <5>1
      <4>3. CASE ~ (Len(window) < Capacity)
        <5>1. Len(window') - (backlog[s] + 1) + 1 + 1 = Len(window) - backlog[s] + 1
          BY <1>1, <1>2, <1>3, <1>4, <4>3
        <5> QED
          BY <1>3, <4>1, <4>3, <5>1
      <4> QED
        BY <4>2, <4>3
    <3>6. Mark(s) \in Nat
      BY <1>2, <1>4, <1>6, <2>3, <3>2, <3>3
    <3> QED
      BY <3>1, <3>3, <3>4, <3>5, <3>6
  <2>4. CASE backlog[s] >= Capacity
    <3>1. backlog'[s] = Capacity + 1 /\ Missed(s)'
      BY <1>1, <1>4, <1>9, <2>4 DEF Missed
    <3>2. Len(window) = Capacity
      BY <1>1, <1>2, <1>4, <2>1, <2>4
    <3>3. Mark(s) = window[1].from
      <4>1. CASE Missed(s)
        BY <1>1, <2>4, <4>1 DEF Mark
      <4>2. CASE ~Missed(s)
        <5>1. backlog[s] = Capacity
          BY <1>1, <1>4, <2>4, <4>2 DEF Missed
        <5>2. Mark(s) = window[Len(window) - backlog[s] + 1].from
          BY <1>1, <4>2, <5>1 DEF Mark, NextEvent
        <5> QED
          BY <1>1, <3>2, <5>1, <5>2
      <4> QED
        BY <4>1, <4>2
    <3>4. Mark(s)' = window'[1].from
      BY <1>1, <3>1 DEF Mark
    <3>5. window[1].from <= window'[1].from
      <4>1. CASE Capacity = 1
        BY <1>2, <1>3, <1>6, <3>2, <4>1 DEF WindowLinked
      <4>2. CASE Capacity # 1
        <5>1. window'[1] = window[2]
          BY <1>1, <1>3, <3>2, <4>2
        <5>2. window[1].upto = window[2].from
          BY <1>1, <3>2, <4>2 DEF WindowLinked
        <5> QED
          BY <1>1, <1>6, <3>2, <5>1, <5>2
      <4> QED
        BY <4>1, <4>2
    <3> QED
      BY <3>1, <3>3, <3>4, <3>5
  <2> QED
    BY <1>1, <1>4, <2>2, <2>3, <2>4
<1> QED
  BY <1>3, <1>5, <1>7, <1>8, <1>9

(* An event sent leaves every viewer where it stands: what it has still ends *)
(* where the channel goes on.                                               *)
LEMMA SendKeepsViews ==
  ASSUME TypeOK, ViewsMatch, UNCHANGED <<stream, view, lagged>>,
         shown' \in Nat, shown < shown' => pane, shown <= shown', ~pane => ~pane',
         \A s \in Subscribers : Listening(s) =>
              /\ ~Missed(s)' => ~Missed(s) /\ Mark(s)' = Mark(s)
              /\ Mark(s) <= Mark(s)' /\ Mark(s) \in Int /\ Mark(s)' \in Int
  PROVE  ViewsMatch'
<1> SUFFICES ASSUME NEW s \in Subscribers
             PROVE  ViewMatches(s)'
  BY DEF ViewsMatch
<1>1. ViewMatches(s) /\ view[s].high \in Nat /\ shown \in Nat
  BY DEF ViewsMatch, TypeOK, View
<1>2. Listening(s)' <=> Listening(s)
  BY DEF Listening
<1>3. Listening(s) /\ s \in Sockets => view[s].high <= Mark(s)'
  BY <1>1 DEF ViewMatches
<1>4. Listening(s) /\ s \notin lagged /\ ~Missed(s)' => view[s].high = Mark(s)'
  BY <1>1 DEF ViewMatches
<1>5. stream[s] = "live" /\ s \in Phones /\ ~Missed(s)' => view[s].high >= Mark(s)'
  BY <1>1 DEF ViewMatches, Listening
<1>6. stream[s] = "ended" => ~pane' /\ (s \notin lagged => view[s].high = shown')
  BY <1>1 DEF ViewMatches
<1> QED
  BY <1>1, <1>2, <1>3, <1>4, <1>5, <1>6 DEF ViewMatches

(* After the pane has gone, only events of others are sent.                 *)
LEMMA SendKeepsClosedLast ==
  ASSUME TypeOK, WindowLinked, ClosedIsLast, NEW e \in Event, Send(e),
         ~pane => e.kind = "other", e.kind = "closed" \/ ~pane => ~pane'
  PROVE  ClosedIsLast'
<1>1. window \in Seq(Event) /\ Len(window) <= Capacity /\ Len(window) \in Nat /\ Capacity \in Nat \ {0}
  BY StreamAssumption DEF TypeOK
<1>2. /\ Len(window') \in 1 .. Capacity
      /\ Len(window') = IF Len(window) < Capacity THEN Len(window) + 1 ELSE Capacity
      /\ window'[Len(window')] = e
      /\ \A i \in 1 .. Len(window') - 1 :
            window'[i] = IF Len(window) < Capacity THEN window[i] ELSE window[i + 1]
  BY <1>1, PushProperties DEF Send
<1>3. ASSUME NEW i \in 1 .. Len(window'), window'[i].kind = "closed"
      PROVE  ~pane' /\ \A j \in i + 1 .. Len(window') : window'[j].kind = "other"
  <2>1. CASE i = Len(window')
    BY <1>2, <1>3, <2>1
  <2>2. CASE i # Len(window')
    <3> DEFINE k == IF Len(window) < Capacity THEN i ELSE i + 1
    <3>1. k \in 1 .. Len(window) /\ window'[i] = window[k]
      BY <1>1, <1>2, <2>2
    <3>2. ~pane /\ \A j \in k + 1 .. Len(window) : window[j].kind = "other"
      BY <1>3, <3>1 DEF ClosedIsLast
    <3>3. ASSUME NEW j \in i + 1 .. Len(window')
          PROVE  window'[j].kind = "other"
      <4>1. CASE j = Len(window')
        BY <1>2, <3>2, <4>1
      <4>2. CASE j # Len(window')
        <5> DEFINE l == IF Len(window) < Capacity THEN j ELSE j + 1
        <5>1. l \in k + 1 .. Len(window) /\ window'[j] = window[l]
          BY <1>1, <1>2, <4>2
        <5> QED
          BY <3>2, <5>1
      <4> QED
        BY <4>1, <4>2
    <3> QED
      BY <3>2, <3>3
  <2> QED
    BY <2>1, <2>2
<1> QED
  BY <1>3 DEF ClosedIsLast

(* Where a listener stands is a number of bytes.                            *)
LEMMA MarkIsNat ==
  ASSUME TypeOK, BacklogHeld, NEW s \in Subscribers, Listening(s)
  PROVE  Mark(s) \in Nat
<1>1. backlog[s] \in Nat /\ Len(window) \in Nat /\ Capacity \in Nat \ {0} /\ window \in Seq(Event)
  BY StreamAssumption DEF TypeOK
<1>2. CASE backlog[s] = 0
  BY <1>2 DEF Mark, TypeOK
<1>3. CASE backlog[s] # 0 /\ Missed(s)
  <2>1. Len(window) = Capacity
    BY <1>1, <1>3 DEF BacklogHeld, TypeOK, Missed
  <2>2. window[1] \in Event
    BY <1>1, <2>1, ElementOfSeq
  <2> QED
    BY <1>3, <2>2 DEF Mark, Event
<1>4. CASE backlog[s] # 0 /\ ~Missed(s)
  <2>1. NextEvent(s) \in Event
    BY <1>1, <1>4, NextEventHeld
  <2> QED
    BY <1>4, <2>1 DEF Mark, Event
<1> QED
  BY <1>2, <1>3, <1>4

(* All that an event changes, together.                                     *)
LEMMA SendKeepsHandover ==
  ASSUME StreamInv, NEW e \in Event, Send(e),
         UNCHANGED <<stream, view, lagged>>, shown' \in Nat, shown <= shown',
         e.from = shown, e.upto = shown',
         IF e.kind = "output" THEN shown < shown' ELSE shown = shown',
         ~pane => e.kind = "other", e.kind = "closed" \/ ~pane => ~pane'
  PROVE  /\ window' \in Seq(Event) /\ Len(window') <= Capacity
         /\ backlog' \in [Subscribers -> 0 .. Capacity + 1]
         /\ WindowLinked' /\ BacklogHeld' /\ ViewsMatch' /\ ClosedIsLast'
<1>1. TypeOK /\ WindowLinked /\ BacklogHeld /\ ViewsMatch /\ ClosedIsLast
  BY DEF StreamInv, HandoverInv
<1>2. shown < shown' => pane
  BY <1>1 DEF TypeOK
<1>3. /\ window' \in Seq(Event) /\ Len(window') <= Capacity
      /\ backlog' \in [Subscribers -> 0 .. Capacity + 1]
      /\ WindowLinked'
      /\ BacklogHeld'
      /\ \A s \in Subscribers : Listening(s) =>
           /\ ~Missed(s)' => ~Missed(s) /\ Mark(s)' = Mark(s)
           /\ Mark(s) <= Mark(s)'
  BY <1>1, <1>2, SendKeepsLinks
<1>4. ASSUME NEW s \in Subscribers, Listening(s)
      PROVE  Mark(s) \in Int /\ Mark(s)' \in Int
  <2>1. Mark(s) \in Nat
    BY <1>1, <1>4, MarkIsNat
  <2>2. CASE Missed(s)'
    <3>1. backlog'[s] > Capacity /\ backlog'[s] # 0 /\ Len(window') = Capacity
      BY <1>3, <1>4, <2>2, StreamAssumption DEF BacklogHeld, Missed, Listening
    <3>2. window'[1] \in Event
      BY <1>3, <3>1, ElementOfSeq, StreamAssumption
    <3> QED
      BY <2>1, <2>2, <3>1, <3>2 DEF Mark, Event
  <2>3. CASE ~Missed(s)'
    BY <1>3, <1>4, <2>1, <2>3
  <2> QED
    BY <2>1, <2>2, <2>3
<1>5. ViewsMatch'
  BY <1>1, <1>2, <1>3, <1>4, SendKeepsViews
<1>6. ClosedIsLast'
  BY <1>1, SendKeepsClosedLast
<1> QED
  BY <1>3, <1>5, <1>6

-----------------------------------------------------------------------------
(* Steps that send nothing and deliver nothing.                             *)
LEMMA QuietKeepsHandover ==
  ASSUME StreamInv, UNCHANGED <<pane, shown, window, backlog, stream, view, lagged>>
  PROVE  WindowLinked' /\ BacklogHeld' /\ ViewsMatch' /\ ClosedIsLast'
<1>1. WindowLinked'
  BY DEF StreamInv, HandoverInv, WindowLinked
<1>2. BacklogHeld'
  BY DEF StreamInv, HandoverInv, BacklogHeld, Missed, Listening
<1>3. ViewsMatch'
  <2>1. ASSUME NEW s \in Subscribers
        PROVE  ViewMatches(s)'
    <3>1. ViewMatches(s)
      BY DEF StreamInv, HandoverInv, ViewsMatch
    <3>2. Mark(s)' = Mark(s) /\ (Missed(s)' <=> Missed(s)) /\ (Listening(s)' <=> Listening(s))
      BY DEF Mark, Missed, Listening, NextEvent
    <3> QED
      BY <3>1, <3>2 DEF ViewMatches
  <2> QED
    BY <2>1 DEF ViewsMatch
<1>4. ClosedIsLast'
  BY DEF StreamInv, ClosedIsLast
<1> QED
  BY <1>1, <1>2, <1>3, <1>4

(* The first chunk of the queue lies after what is shown, the others after it. *)
LEMMA QueueTail ==
  ASSUME TypeOK, QueueAhead, queue # <<>>
  PROVE  /\ Head(queue) \in Nat /\ Head(queue) > shown
         /\ Tail(queue) \in Seq(Nat)
         /\ \A i \in 1 .. Len(Tail(queue)) :
              Tail(queue)[i] > IF i = 1 THEN Head(queue) ELSE Tail(queue)[i - 1]
<1>1. queue \in Seq(Nat) /\ shown \in Nat
  BY DEF TypeOK
<1>2. Len(queue) \in Nat \ {0}
  BY <1>1, EmptySeq
<1>3. /\ Head(queue) \in Nat /\ Tail(queue) \in Seq(Nat)
      /\ Len(Tail(queue)) = Len(queue) - 1
      /\ \A i \in 1 .. Len(Tail(queue)) : Tail(queue)[i] = queue[i + 1]
  BY <1>1, HeadTailProperties
<1>4. Head(queue) = queue[1] /\ queue[1] > shown
  BY <1>1, <1>2 DEF QueueAhead
<1>5. ASSUME NEW i \in 1 .. Len(Tail(queue))
      PROVE  Tail(queue)[i] > IF i = 1 THEN Head(queue) ELSE Tail(queue)[i - 1]
  <2>1. i + 1 \in 1 .. Len(queue) /\ i + 1 # 1 /\ i \in Nat
    BY <1>2, <1>3
  <2>2. queue[i + 1] > queue[i + 1 - 1]
    BY <2>1 DEF QueueAhead
  <2>3. queue[i + 1] > queue[i]
    BY <2>1, <2>2
  <2>4. CASE i = 1
    BY <1>3, <1>4, <2>3, <2>4
  <2>5. CASE i # 1
    <3>1. i - 1 \in 1 .. Len(Tail(queue))
      BY <1>2, <1>3, <2>5
    <3>2. Tail(queue)[i - 1] = queue[i - 1 + 1]
      BY <1>3, <3>1
    <3>3. i - 1 + 1 = i
      BY <2>1
    <3>4. Tail(queue)[i - 1] = queue[i]
      BY <3>2, <3>3
    <3> QED
      BY <1>3, <2>3, <2>5, <3>4
  <2> QED
    BY <2>4, <2>5
<1> QED
  BY <1>3, <1>4, <1>5

(* The replay ends where the live stream begins.                            *)
LEMMA ReplayEndsAtShown ==
  ASSUME TypeOK, ReplayIsNewest
  PROVE  /\ Replay \in View
         /\ Replay.low <= shown /\ Replay.high = shown /\ ~Replay.gap /\ ~Replay.back
<1>1. shown \in Nat /\ RingCapacity \in Nat
  BY StreamAssumption DEF TypeOK
<1>2. CASE ring = NoLog
  BY <1>1, <1>2 DEF Replay, Blank, View
<1>3. CASE ring # NoLog
  <2>1. ring \in [low : Nat, high : Nat]
    BY <1>3 DEF TypeOK
  <2>2. ring.high = shown /\ ring.low <= shown
    BY <1>1, <1>3 DEF ReplayIsNewest
  <2>3. Replay = [low |-> ring.low, high |-> ring.high, gap |-> FALSE, back |-> FALSE]
    BY <1>3 DEF Replay, Blank
  <2> QED
    BY <1>1, <2>1, <2>2, <2>3 DEF View
<1> QED
  BY <1>2, <1>3

LEMMA ReadKeeps == ASSUME StreamInv, Read PROVE StreamInv'
<1>1. WindowLinked' /\ BacklogHeld' /\ ViewsMatch' /\ ClosedIsLast'
  BY QuietKeepsHandover DEF Read, channel, readers
<1>2. ReplayIsNewest'
  BY DEF StreamInv, HandoverInv, Read, ReplayIsNewest
<1>3. TypeOK /\ QueueAhead
  BY DEF StreamInv, HandoverInv
<1>4. queue' \in Seq(Nat) /\ QueueAhead'
  <2>1. CASE UNCHANGED queue
    BY <1>3, <2>1 DEF TypeOK, QueueAhead, Read
  <2>2. CASE ~UNCHANGED queue
    <3>1. PICK n \in 1 .. MaxChunk : queue' = Append(queue, LastRead + n)
      BY <2>2 DEF Read
    <3>2. queue \in Seq(Nat) /\ shown \in Nat /\ Len(queue) \in Nat /\ MaxChunk \in Nat
      BY <1>3, StreamAssumption DEF TypeOK
    <3>3. LastRead \in Nat /\ LastRead = IF Len(queue) = 0 THEN shown ELSE queue[Len(queue)]
      BY <3>2, EmptySeq, ElementOfSeq DEF LastRead
    <3>4. LastRead + n \in Nat /\ LastRead + n > LastRead
      BY <3>2, <3>3
    <3>5. /\ Append(queue, LastRead + n) \in Seq(Nat)
          /\ Len(Append(queue, LastRead + n)) = Len(queue) + 1
          /\ \A i \in 1 .. Len(queue) : Append(queue, LastRead + n)[i] = queue[i]
          /\ Append(queue, LastRead + n)[Len(queue) + 1] = LastRead + n
      BY <3>2, <3>4, AppendProperties
    <3>6. /\ queue' \in Seq(Nat) /\ Len(queue') = Len(queue) + 1
          /\ \A i \in 1 .. Len(queue) : queue'[i] = queue[i]
          /\ queue'[Len(queue) + 1] = LastRead + n
      BY <3>1, <3>5
    <3>7. ASSUME NEW i \in 1 .. Len(queue')
          PROVE  queue'[i] > IF i = 1 THEN shown ELSE queue'[i - 1]
      <4>1. CASE i = Len(queue')
        BY <3>2, <3>3, <3>4, <3>6, <4>1
      <4>2. CASE i # Len(queue')
        <5>1. i \in 1 .. Len(queue) /\ (i # 1 => i - 1 \in 1 .. Len(queue))
          BY <3>2, <3>6, <4>2
        <5>2. queue[i] > IF i = 1 THEN shown ELSE queue[i - 1]
          BY <1>3, <5>1 DEF QueueAhead
        <5> QED
          BY <3>6, <5>1, <5>2
      <4> QED
        BY <4>1, <4>2
    <3>8. shown' = shown
      BY DEF Read
    <3> QED
      BY <3>6, <3>7, <3>8 DEF QueueAhead
  <2> QED
    BY <2>1, <2>2
<1>5. TypeOK'
  BY <1>3, <1>4 DEF TypeOK, Read, channel, readers
<1> QED
  BY <1>1, <1>2, <1>4, <1>5 DEF StreamInv, HandoverInv

LEMMA ShellStepKeeps ==
  ASSUME StreamInv, ShellExits \/ ReadEof PROVE StreamInv'
<1>1. UNCHANGED <<pane, shown, window, backlog, stream, view, lagged>>
  BY DEF ShellExits, ReadEof, channel, readers
<1>2. WindowLinked' /\ BacklogHeld' /\ ViewsMatch' /\ ClosedIsLast'
  BY <1>1, QuietKeepsHandover
<1>3. ReplayIsNewest' /\ QueueAhead'
  BY DEF StreamInv, HandoverInv, ShellExits, ReadEof, ReplayIsNewest, QueueAhead
<1>4. TypeOK'
  BY DEF StreamInv, TypeOK, ShellExits, ReadEof, channel, readers
<1> QED
  BY <1>2, <1>3, <1>4 DEF StreamInv, HandoverInv

LEMMA create_byte_log_forKeeps ==
  ASSUME StreamInv, create_byte_log_for PROVE StreamInv'
<1>1. UNCHANGED <<pane, shown, window, backlog, stream, view, lagged>>
  BY DEF create_byte_log_for, channel, readers
<1>2. WindowLinked' /\ BacklogHeld' /\ ViewsMatch' /\ ClosedIsLast'
  BY <1>1, QuietKeepsHandover
<1>3. QueueAhead'
  BY DEF StreamInv, HandoverInv, create_byte_log_for, QueueAhead
<1>4. TypeOK /\ shown \in Nat /\ RingCapacity \in Nat /\ shown' = shown
  BY StreamAssumption DEF StreamInv, TypeOK, create_byte_log_for
<1>5. ring' \in [low : Nat, high : Nat] \union {NoLog} /\ ReplayIsNewest'
  <2>1. CASE ring' = NoLog
    BY <2>1 DEF ReplayIsNewest
  <2>2. CASE ring' = RingOf(0, shown)
    BY <1>4, <2>2 DEF RingOf, ReplayIsNewest
  <2> QED
    BY <2>1, <2>2 DEF create_byte_log_for
<1>6. TypeOK'
  BY <1>4, <1>5 DEF TypeOK, create_byte_log_for, channel, readers
<1> QED
  BY <1>2, <1>3, <1>5, <1>6 DEF StreamInv, HandoverInv

LEMMA QuietDrainKeeps ==
  ASSUME StreamInv, take_pane_output_rx \/ DrainEof PROVE StreamInv'
<1>1. UNCHANGED <<pane, shown, window, backlog, stream, view, lagged>>
  BY DEF take_pane_output_rx, DrainEof, channel, readers
<1>2. WindowLinked' /\ BacklogHeld' /\ ViewsMatch' /\ ClosedIsLast'
  BY <1>1, QuietKeepsHandover
<1>3. ReplayIsNewest' /\ QueueAhead'
  BY DEF StreamInv, HandoverInv, take_pane_output_rx, DrainEof, ReplayIsNewest, QueueAhead
<1>4. TypeOK'
  BY DEF StreamInv, TypeOK, take_pane_output_rx, DrainEof, channel, readers
<1> QED
  BY <1>2, <1>3, <1>4 DEF StreamInv, HandoverInv

LEMMA DropBytesKeeps == ASSUME StreamInv, DropBytes PROVE StreamInv'
<1>1. UNCHANGED <<pane, shown, window, backlog, stream, view, lagged>>
  BY DEF DropBytes, channel, readers
<1>2. WindowLinked' /\ BacklogHeld' /\ ViewsMatch' /\ ClosedIsLast'
  BY <1>1, QuietKeepsHandover
<1>3. ReplayIsNewest'
  BY DEF StreamInv, HandoverInv, DropBytes, ReplayIsNewest
<1>4. TypeOK /\ QueueAhead /\ queue # <<>> /\ queue' = Tail(queue) /\ shown' = shown /\ shown \in Nat
  BY DEF StreamInv, HandoverInv, DropBytes, TypeOK
<1>5. /\ Head(queue) \in Nat /\ Head(queue) > shown
      /\ queue' \in Seq(Nat)
      /\ \A i \in 1 .. Len(queue') : queue'[i] > IF i = 1 THEN Head(queue) ELSE queue'[i - 1]
  BY <1>4, QueueTail
<1>6. QueueAhead'
  <2>1. ASSUME NEW i \in 1 .. Len(queue')
        PROVE  queue'[i] > IF i = 1 THEN shown' ELSE queue'[i - 1]
    <3>1. queue'[i] \in Nat
      BY <1>5, ElementOfSeq
    <3> QED
      BY <1>4, <1>5, <3>1
  <2> QED
    BY <2>1 DEF QueueAhead
<1>7. TypeOK'
  BY <1>4, <1>5 DEF TypeOK, DropBytes, channel, readers
<1> QED
  BY <1>2, <1>3, <1>6, <1>7 DEF StreamInv, HandoverInv

-----------------------------------------------------------------------------
(* Steps that send an event.                                                *)
LEMMA process_pane_bytesKeeps == ASSUME StreamInv, process_pane_bytes PROVE StreamInv'
<1> DEFINE e == [kind |-> "output", from |-> shown, upto |-> Head(queue)]
<1>1. TypeOK /\ QueueAhead /\ ReplayIsNewest /\ shown \in Nat /\ RingCapacity \in Nat
  BY StreamAssumption DEF StreamInv, HandoverInv, TypeOK
<1>2. /\ pane /\ pane' = pane /\ shown' = Head(queue) /\ queue' = Tail(queue)
      /\ ring' = append(ring, Head(queue)) /\ queue # <<>> /\ Send(e)
      /\ UNCHANGED <<stream, view, lagged>>
  BY DEF process_pane_bytes, readers
<1>3. /\ Head(queue) \in Nat /\ Head(queue) > shown
      /\ queue' \in Seq(Nat)
      /\ \A i \in 1 .. Len(queue') : queue'[i] > IF i = 1 THEN Head(queue) ELSE queue'[i - 1]
  BY <1>1, <1>2, QueueTail
<1>4. /\ e \in Event /\ e.kind = "output" /\ e.from = shown /\ e.upto = shown'
      /\ shown' \in Nat /\ shown < shown' /\ shown <= shown'
  BY <1>1, <1>2, <1>3 DEF Event
<1> HIDE DEF e
<1>5. /\ window' \in Seq(Event) /\ Len(window') <= Capacity
      /\ backlog' \in [Subscribers -> 0 .. Capacity + 1]
      /\ WindowLinked' /\ BacklogHeld' /\ ViewsMatch' /\ ClosedIsLast'
  BY <1>2, <1>4, SendKeepsHandover
<1>6. QueueAhead'
  BY <1>2, <1>3 DEF QueueAhead
<1>7. ring' \in [low : Nat, high : Nat] \union {NoLog} /\ ReplayIsNewest'
  <2>1. CASE ring = NoLog
    BY <1>2, <2>1 DEF append, ReplayIsNewest
  <2>2. CASE ring # NoLog
    <3>1. ring.low \in Nat /\ ring.low = IF shown > RingCapacity THEN shown - RingCapacity ELSE 0
      BY <1>1, <2>2 DEF TypeOK, ReplayIsNewest
    <3>2. PICK b \in Nat : b = shown' /\ shown < b
      BY <1>4
    <3>3. PICK l \in Nat : l = IF b > RingCapacity THEN b - RingCapacity ELSE 0
      <4>1. b \in Nat
        BY <3>2
      <4>2. RingCapacity \in Nat
        BY StreamAssumption
      <4>3. CASE b > RingCapacity
        <5>1. b - RingCapacity \in Nat
          BY <4>1, <4>2, <4>3
        <5> QED
          BY <4>3, <5>1
      <4> QED
        BY <4>3
    <3>4. ring' = [low |-> IF b - ring.low > RingCapacity THEN b - RingCapacity ELSE ring.low,
                   high |-> b]
      BY <1>2, <2>2, <3>2 DEF append, RingOf
    <3>5. (IF b - ring.low > RingCapacity THEN b - RingCapacity ELSE ring.low) = l
      <4>1. b \in Nat /\ RingCapacity \in Nat /\ shown \in Nat /\ shown < b /\ ring.low \in Nat
        BY <1>1, <3>1, <3>2
      <4>2. CASE shown > RingCapacity
        <5>1. ring.low = shown - RingCapacity
          BY <3>1, <4>2
        <5>2. b - ring.low > RingCapacity
          BY <4>1, <5>1
        <5>3. b > RingCapacity
          BY <4>1, <4>2
        <5> QED
          BY <3>3, <5>2, <5>3
      <4>3. CASE ~ (shown > RingCapacity)
        <5>1. ring.low = 0
          BY <3>1, <4>3
        <5>2. b - ring.low = b
          BY <4>1, <5>1
        <5> QED
          BY <3>3, <5>1, <5>2
      <4> QED
        BY <4>2, <4>3
    <3>6. ring' = [low |-> l, high |-> b]
      BY <3>4, <3>5
    <3>7. ring' \in [low : Nat, high : Nat] /\ ring'.low = l /\ ring'.high = b
      BY <3>6
    <3> QED
      BY <3>2, <3>3, <3>7 DEF ReplayIsNewest
  <2> QED
    BY <2>1, <2>2
<1>8. TypeOK'
  BY <1>1, <1>3, <1>4, <1>5, <1>7 DEF TypeOK, process_pane_bytes, readers
<1> QED
  BY <1>5, <1>6, <1>7, <1>8 DEF StreamInv, HandoverInv

(* close_pane itself, for both of its callers.                              *)
LEMMA close_paneKeeps ==
  ASSUME StreamInv, close_pane, UNCHANGED <<shown, stream, view, lagged>>
  PROVE  /\ window' \in Seq(Event) /\ Len(window') <= Capacity
         /\ backlog' \in [Subscribers -> 0 .. Capacity + 1]
         /\ WindowLinked' /\ BacklogHeld' /\ ViewsMatch' /\ ClosedIsLast' /\ ReplayIsNewest'
         /\ ring' = NoLog /\ alive' = FALSE /\ pane' = FALSE
<1> DEFINE e == [kind |-> "closed", from |-> shown, upto |-> shown]
<1>1. shown \in Nat /\ shown' = shown
  BY DEF StreamInv, TypeOK
<1>2. pane /\ pane' = FALSE /\ ring' = NoLog /\ alive' = FALSE /\ Send(e)
  BY DEF close_pane
<1>3. e \in Event /\ e.kind = "closed" /\ e.from = shown /\ e.upto = shown' /\ shown' \in Nat /\ shown <= shown'
  BY <1>1 DEF Event
<1> HIDE DEF e
<1>4. /\ window' \in Seq(Event) /\ Len(window') <= Capacity
      /\ backlog' \in [Subscribers -> 0 .. Capacity + 1]
      /\ WindowLinked' /\ BacklogHeld' /\ ViewsMatch' /\ ClosedIsLast'
  BY <1>1, <1>2, <1>3, SendKeepsHandover
<1> QED
  BY <1>2, <1>4 DEF ReplayIsNewest

LEMMA ClosingKeeps == ASSUME StreamInv, DrainCloses \/ ClientCloses PROVE StreamInv'
<1>1. TypeOK /\ QueueAhead /\ ReplayIsNewest
  BY DEF StreamInv, HandoverInv
<1>2. UNCHANGED <<reader, shown, others, stream, view, lagged, late>>
  BY DEF DrainCloses, ClientCloses, readers
<1>3. drain' \in {"spawned", "logged", "running", "closing", "gone"}
  BY <1>1 DEF DrainCloses, ClientCloses, TypeOK
<1>4. queue' = <<>> \/ queue' = queue
  BY DEF DrainCloses, ClientCloses
<1>5. queue' \in Seq(Nat) /\ QueueAhead'
  <2>1. CASE queue' = <<>>
    BY <2>1, EmptySeq DEF QueueAhead
  <2>2. CASE queue' = queue
    BY <1>1, <1>2, <2>2 DEF QueueAhead, TypeOK
  <2> QED
    BY <1>4, <2>1, <2>2
<1>6. CASE close_pane
  <2>1. /\ window' \in Seq(Event) /\ Len(window') <= Capacity
        /\ backlog' \in [Subscribers -> 0 .. Capacity + 1]
        /\ WindowLinked' /\ BacklogHeld' /\ ViewsMatch' /\ ClosedIsLast' /\ ReplayIsNewest'
        /\ ring' = NoLog /\ alive' = FALSE /\ pane' = FALSE
    BY <1>2, <1>6, close_paneKeeps
  <2>2. TypeOK'
    BY <1>1, <1>2, <1>3, <1>5, <2>1 DEF TypeOK
  <2> QED
    BY <1>5, <2>1, <2>2 DEF StreamInv, HandoverInv
<1>7. CASE ~close_pane
  <2>1. UNCHANGED <<alive, pane, ring, window, backlog>>
    BY <1>7 DEF DrainCloses, ClientCloses
  <2>2. WindowLinked' /\ BacklogHeld' /\ ViewsMatch' /\ ClosedIsLast'
    BY <1>2, <2>1, QuietKeepsHandover
  <2>3. ReplayIsNewest'
    BY <1>1, <1>2, <2>1 DEF ReplayIsNewest
  <2>4. TypeOK'
    BY <1>1, <1>2, <1>3, <1>5, <2>1 DEF TypeOK
  <2> QED
    BY <1>5, <2>2, <2>3, <2>4 DEF StreamInv, HandoverInv
<1> QED
  BY <1>6, <1>7

LEMMA OtherEventKeeps == ASSUME StreamInv, OtherEvent PROVE StreamInv'
<1> DEFINE e == [kind |-> "other", from |-> shown, upto |-> shown]
<1>1. TypeOK /\ QueueAhead /\ ReplayIsNewest /\ shown \in Nat /\ others \in 0 .. MaxOthers
  BY DEF StreamInv, HandoverInv, TypeOK
<1>2. /\ others < MaxOthers /\ others' = others + 1 /\ Send(e)
      /\ UNCHANGED <<alive, reader, queue, drain, pane, ring, shown, stream, view, lagged, late>>
  BY DEF OtherEvent, source, readers
<1>3. e \in Event /\ e.kind = "other" /\ e.from = shown /\ e.upto = shown' /\ shown' \in Nat /\ shown <= shown'
  BY <1>1, <1>2 DEF Event
<1> HIDE DEF e
<1>4. /\ window' \in Seq(Event) /\ Len(window') <= Capacity
      /\ backlog' \in [Subscribers -> 0 .. Capacity + 1]
      /\ WindowLinked' /\ BacklogHeld' /\ ViewsMatch' /\ ClosedIsLast'
  BY <1>2, <1>3, SendKeepsHandover
<1>5. QueueAhead' /\ ReplayIsNewest'
  BY <1>1, <1>2 DEF QueueAhead, ReplayIsNewest
<1>6. others' \in 0 .. MaxOthers
  BY <1>1, <1>2, StreamAssumption
<1>7. TypeOK'
  BY <1>1, <1>2, <1>4, <1>6 DEF TypeOK
<1> QED
  BY <1>4, <1>5, <1>7 DEF StreamInv, HandoverInv

-----------------------------------------------------------------------------
(* Steps of one subscriber: the pane and the channel stay as they are, and  *)
(* so does what the invariant says of the other subscribers.                *)
LEMMA SubscriberStep ==
  ASSUME StreamInv, NEW s \in Subscribers,
         UNCHANGED <<queue, ring, pane, shown, window>>,
         \A t \in Subscribers \ {s} :
            /\ stream'[t] = stream[t] /\ backlog'[t] = backlog[t] /\ view'[t] = view[t]
            /\ t \in lagged' <=> t \in lagged,
         IF Listening(s)' THEN backlog'[s] <= Len(window) \/ (Missed(s)' /\ Len(window) = Capacity)
                          ELSE backlog'[s] = 0,
         ViewMatches(s)'
  PROVE  HandoverInv' /\ ClosedIsLast'
<1>1. WindowLinked' /\ QueueAhead' /\ ReplayIsNewest' /\ ClosedIsLast'
  BY DEF StreamInv, HandoverInv, WindowLinked, QueueAhead, ReplayIsNewest, ClosedIsLast
<1>2. ASSUME NEW t \in Subscribers \ {s}
      PROVE  /\ Mark(t)' = Mark(t) /\ (Missed(t)' <=> Missed(t)) /\ (Listening(t)' <=> Listening(t))
             /\ ViewMatches(t)'
  <2>1. Mark(t)' = Mark(t) /\ (Missed(t)' <=> Missed(t)) /\ (Listening(t)' <=> Listening(t))
    BY DEF Mark, Missed, Listening, NextEvent
  <2>2. ViewMatches(t)
    BY DEF StreamInv, HandoverInv, ViewsMatch
  <2> QED
    BY <2>1, <2>2 DEF ViewMatches
<1>3. ViewsMatch'
  BY <1>2 DEF ViewsMatch
<1>4. BacklogHeld'
  <2>1. ASSUME NEW t \in Subscribers
        PROVE  IF Listening(t)' THEN backlog'[t] <= Len(window') \/ (Missed(t)' /\ Len(window') = Capacity)
                                ELSE backlog'[t] = 0
    <3>1. CASE t = s
      BY <3>1
    <3>2. CASE t # s
      <4>1. IF Listening(t) THEN backlog[t] <= Len(window) \/ (Missed(t) /\ Len(window) = Capacity)
                            ELSE backlog[t] = 0
        BY DEF StreamInv, HandoverInv, BacklogHeld
      <4> QED
        BY <1>2, <3>2, <4>1
    <3> QED
      BY <3>1, <3>2
  <2> QED
    BY <2>1 DEF BacklogHeld
<1> QED
  BY <1>1, <1>3, <1>4 DEF HandoverInv

(* What the invariant gives a subscriber, in one place.                     *)
LEMMA SubscriberFacts ==
  ASSUME StreamInv, NEW s \in Subscribers
  PROVE  /\ TypeOK /\ BacklogHeld /\ ViewMatches(s) /\ WindowLinked /\ ReplayIsNewest
         /\ backlog[s] \in 0 .. Capacity + 1 /\ backlog[s] \in Nat /\ view[s] \in View
         /\ Capacity \in Nat \ {0} /\ shown \in Nat /\ Len(window) \in Nat
         /\ IF Listening(s) THEN backlog[s] <= Len(window) \/ (Missed(s) /\ Len(window) = Capacity)
                            ELSE backlog[s] = 0
<1>1. TypeOK /\ BacklogHeld /\ ViewMatches(s) /\ WindowLinked /\ ReplayIsNewest
  BY DEF StreamInv, HandoverInv, ViewsMatch
<1>2. Capacity \in Nat \ {0} /\ shown \in Nat /\ Len(window) \in Nat
  BY <1>1, StreamAssumption DEF TypeOK
<1>3. backlog[s] \in 0 .. Capacity + 1 /\ view[s] \in View
  BY <1>1 DEF TypeOK
<1>4. IF Listening(s) THEN backlog[s] <= Len(window) \/ (Missed(s) /\ Len(window) = Capacity)
                      ELSE backlog[s] = 0
  BY <1>1 DEF BacklogHeld
<1> QED
  BY <1>1, <1>2, <1>3, <1>4

LEMMA ValidateKeeps == ASSUME StreamInv, NEW s \in Subscribers, Validate(s) PROVE StreamInv'
<1>1. /\ TypeOK /\ ViewMatches(s) /\ backlog[s] = 0 /\ stream[s] = "idle"
      /\ stream' = [stream EXCEPT ![s] = "checked"]
      /\ UNCHANGED <<alive, reader, queue, drain, pane, ring, shown, window, others, view, lagged, late, backlog>>
  BY SubscriberFacts DEF Validate, source, channel, Listening
<1>2. stream'[s] = "checked" /\ \A t \in Subscribers \ {s} : stream'[t] = stream[t]
  BY <1>1 DEF TypeOK
<1>3. ~Listening(s)'
  BY <1>2 DEF Listening
<1>4. ViewMatches(s)'
  BY <1>1, <1>2, <1>3 DEF ViewMatches
<1>5. HandoverInv' /\ ClosedIsLast'
  BY <1>1, <1>2, <1>3, <1>4, SubscriberStep
<1>6. TypeOK'
  BY <1>1 DEF TypeOK
<1> QED
  BY <1>5, <1>6 DEF StreamInv

LEMMA subscribe_with_snapshotKeeps ==
  ASSUME StreamInv, NEW s \in Subscribers, subscribe_with_snapshot(s) PROVE StreamInv'
<1>1. /\ TypeOK /\ ViewMatches(s) /\ ReplayIsNewest /\ Capacity \in Nat \ {0} /\ Len(window) \in Nat
      /\ shown \in Nat
      /\ stream' = [stream EXCEPT ![s] = "live"]
      /\ backlog' = [backlog EXCEPT ![s] = 0]
      /\ view' = [view EXCEPT ![s] = Replay]
      /\ late' = IF pane THEN late ELSE late \union {s}
      /\ UNCHANGED <<alive, reader, queue, drain, pane, ring, shown, window, others, lagged>>
  BY SubscriberFacts DEF subscribe_with_snapshot, source, channel
<1>2. Replay \in View /\ Replay.high = shown /\ ~Replay.gap /\ ~Replay.back
  BY <1>1, ReplayEndsAtShown
<1>3. /\ stream'[s] = "live" /\ backlog'[s] = 0 /\ view'[s] = Replay
      /\ \A t \in Subscribers \ {s} :
           stream'[t] = stream[t] /\ backlog'[t] = backlog[t] /\ view'[t] = view[t]
  BY <1>1 DEF TypeOK
<1>4. Mark(s)' = shown /\ Listening(s)' /\ ~Missed(s)'
  BY <1>1, <1>3 DEF Mark, Listening, Missed
<1>5. ViewMatches(s)'
  BY <1>1, <1>2, <1>3, <1>4 DEF ViewMatches
<1>6. HandoverInv' /\ ClosedIsLast'
  BY <1>1, <1>3, <1>4, <1>5, SubscriberStep
<1>7. TypeOK'
  BY <1>1, <1>2 DEF TypeOK
<1> QED
  BY <1>6, <1>7 DEF StreamInv

LEMMA ResendKeeps == ASSUME StreamInv, NEW s \in Subscribers, Resend(s) PROVE StreamInv'
<1>1. /\ TypeOK /\ BacklogHeld /\ WindowLinked /\ ViewMatches(s) /\ ReplayIsNewest
      /\ Capacity \in Nat \ {0} /\ Len(window) \in Nat /\ shown \in Nat /\ backlog[s] \in Nat
      /\ stream[s] = "resync" /\ Listening(s) /\ s \in Phones /\ s \in lagged /\ s \notin Sockets
      /\ backlog[s] <= Len(window) \/ (Missed(s) /\ Len(window) = Capacity)
      /\ stream' = [stream EXCEPT ![s] = "live"]
      /\ view' = [view EXCEPT ![s] = Replay]
      /\ UNCHANGED <<alive, reader, queue, drain, pane, ring, shown, window, others, lagged, late, backlog>>
  BY SubscriberFacts, StreamAssumption DEF Resend, source, channel, Listening, ViewMatches
<1>2. Replay \in View /\ Replay.high = shown /\ ~Replay.gap /\ ~Replay.back
  BY <1>1, ReplayEndsAtShown
<1>3. /\ stream'[s] = "live" /\ view'[s] = Replay
      /\ \A t \in Subscribers \ {s} : stream'[t] = stream[t] /\ view'[t] = view[t]
  BY <1>1 DEF TypeOK
<1>4. Mark(s)' = Mark(s) /\ Listening(s)' /\ (Missed(s)' <=> Missed(s))
  BY <1>1, <1>3 DEF Mark, Listening, Missed, NextEvent
<1>5. ~Missed(s) => Mark(s) <= shown
  <2>1. CASE backlog[s] = 0
    BY <1>1, <2>1 DEF Mark
  <2>2. CASE backlog[s] # 0 /\ ~Missed(s)
    <3> DEFINE i == Len(window) - backlog[s] + 1
    <3>1. i \in 1 .. Len(window) /\ NextEvent(s) = window[i] /\ NextEvent(s) \in Event
      BY <1>1, <2>2, NextEventHeld
    <3>2. window[i].from \in Nat /\ window[i].upto \in Nat
      BY <3>1 DEF Event
    <3>3. /\ window[i].upto <= shown
          /\ IF window[i].kind = "output" THEN window[i].from < window[i].upto
                                          ELSE window[i].from = window[i].upto
      BY <1>1, <3>1 DEF WindowLinked
    <3>4. Mark(s) = window[i].from
      BY <2>2, <3>1 DEF Mark
    <3> HIDE DEF i
    <3> QED
      BY <1>1, <3>2, <3>3, <3>4
  <2> QED
    BY <2>1, <2>2
<1>6. ViewMatches(s)'
  BY <1>1, <1>2, <1>3, <1>4, <1>5 DEF ViewMatches
<1>7. HandoverInv' /\ ClosedIsLast'
  BY <1>1, <1>3, <1>4, <1>6, SubscriberStep
<1>8. TypeOK'
  BY <1>1, <1>2 DEF TypeOK
<1> QED
  BY <1>7, <1>8 DEF StreamInv

LEMMA LeaveKeeps == ASSUME StreamInv, NEW s \in Subscribers, Leave(s) PROVE StreamInv'
<1>1. /\ TypeOK /\ ViewMatches(s) /\ Capacity \in Nat \ {0}
      /\ stream' = [stream EXCEPT ![s] = "left"]
      /\ backlog' = [backlog EXCEPT ![s] = 0]
      /\ UNCHANGED <<alive, reader, queue, drain, pane, ring, shown, window, others, view, lagged, late>>
  BY SubscriberFacts DEF Leave, source, channel
<1>2. /\ stream'[s] = "left" /\ backlog'[s] = 0
      /\ \A t \in Subscribers \ {s} : stream'[t] = stream[t] /\ backlog'[t] = backlog[t]
  BY <1>1 DEF TypeOK
<1>3. ~Listening(s)'
  BY <1>2 DEF Listening
<1>4. ViewMatches(s)'
  BY <1>1, <1>2, <1>3 DEF ViewMatches
<1>5. HandoverInv' /\ ClosedIsLast'
  BY <1>1, <1>2, <1>3, <1>4, SubscriberStep
<1>6. TypeOK'
  BY <1>1 DEF TypeOK
<1> QED
  BY <1>5, <1>6 DEF StreamInv

LEMMA RecvLaggedKeeps == ASSUME StreamInv, NEW s \in Subscribers, RecvLagged(s) PROVE StreamInv'
<1>1. /\ TypeOK /\ ViewMatches(s) /\ Capacity \in Nat \ {0} /\ backlog[s] \in Nat /\ s \in Subscribers
      /\ stream[s] = "live" /\ Missed(s) /\ Listening(s) /\ Len(window) = Capacity
      /\ backlog' = [backlog EXCEPT ![s] = Capacity]
      /\ lagged' = lagged \union {s}
      /\ stream' = IF s \in Phones THEN [stream EXCEPT ![s] = "resync"] ELSE stream
      /\ UNCHANGED <<alive, reader, queue, drain, pane, ring, shown, window, others, view, late>>
  <2>1. TypeOK /\ ViewMatches(s) /\ Capacity \in Nat \ {0} /\ backlog[s] \in Nat
        /\ stream[s] = "live" /\ Missed(s) /\ Listening(s)
    BY SubscriberFacts DEF RecvLagged, Listening
  <2>2. backlog[s] <= Len(window) \/ Len(window) = Capacity
    BY <2>1, SubscriberFacts
  <2>3. Len(window) \in Nat /\ Len(window) <= Capacity /\ backlog[s] > Capacity
    BY <2>1 DEF TypeOK, Missed
  <2>4. Len(window) = Capacity
    BY <2>1, <2>2, <2>3
  <2> QED
    BY <2>1, <2>4 DEF RecvLagged, source, channel
<1>2. /\ backlog'[s] = Capacity /\ s \in lagged'
      /\ stream'[s] = IF s \in Phones THEN "resync" ELSE "live"
      /\ \A t \in Subscribers \ {s} :
           /\ stream'[t] = stream[t] /\ backlog'[t] = backlog[t]
           /\ t \in lagged' <=> t \in lagged
  BY <1>1 DEF TypeOK
<1>3. Listening(s)' /\ ~Missed(s)'
  BY <1>1, <1>2 DEF Listening, Missed
<1>4. Mark(s)' = Mark(s)
  <2>1. Mark(s) = window[1].from
    BY <1>1 DEF Mark, Missed
  <2>2. Mark(s)' = window[Len(window) - Capacity + 1].from
    BY <1>1, <1>2, <1>3 DEF Mark, NextEvent
  <2>3. Len(window) - Capacity + 1 = 1
    BY <1>1
  <2> QED
    BY <2>1, <2>2, <2>3
<1>5. ViewMatches(s)'
  BY <1>1, <1>2, <1>3, <1>4 DEF ViewMatches
<1>6. HandoverInv' /\ ClosedIsLast'
  BY <1>1, <1>2, <1>3, <1>5, SubscriberStep
<1>7. TypeOK'
  BY <1>1 DEF TypeOK
<1> QED
  BY <1>6, <1>7 DEF StreamInv

(* Receiving an event that is not the end brings a viewer to where the next *)
(* event begins.                                                            *)
LEMMA RecvMovesMark ==
  ASSUME StreamInv, NEW s \in Subscribers, Recv(s), NextEvent(s).kind # "closed"
  PROVE  Mark(s)' = NextEvent(s).upto
<1> DEFINE i == Len(window) - backlog[s] + 1
<1>1. /\ TypeOK /\ BacklogHeld /\ WindowLinked /\ Capacity \in Nat \ {0}
      /\ Len(window) \in Nat /\ backlog[s] \in Nat /\ backlog[s] > 0 /\ ~Missed(s) /\ Listening(s)
      /\ UNCHANGED <<window, shown>>
  BY SubscriberFacts DEF Recv, Listening, channel
<1>2. i \in 1 .. Len(window) /\ NextEvent(s) = window[i]
  BY <1>1, NextEventHeld
<1>3. backlog'[s] = backlog[s] - 1
  BY DEF Recv, StreamInv, TypeOK
<1>4. ~Missed(s)'
  BY <1>1, <1>3 DEF Missed
<1>5. CASE backlog[s] = 1
  <2>1. i = Len(window) /\ window # <<>>
    BY <1>1, <1>2, <1>5
  <2>2. Mark(s)' = shown
    BY <1>1, <1>3, <1>5 DEF Mark
  <2> QED
    BY <1>1, <1>2, <2>1, <2>2 DEF WindowLinked
<1>6. CASE backlog[s] # 1
  <2>1. i \in 1 .. Len(window) - 1 /\ Len(window) - (backlog[s] - 1) + 1 = i + 1
    BY <1>1, <1>2, <1>6
  <2>2. Mark(s)' = window[Len(window) - (backlog[s] - 1) + 1].from
    BY <1>1, <1>3, <1>4, <1>6 DEF Mark, NextEvent
  <2>3. window[i].upto = window[i + 1].from
    BY <1>1, <2>1 DEF WindowLinked
  <2> QED
    BY <1>2, <2>1, <2>2, <2>3
<1> QED
  BY <1>5, <1>6

(* What a viewer has when it receives e, before and after.                  *)
LEMMA RecvFacts ==
  ASSUME StreamInv, NEW s \in Subscribers, Recv(s)
  PROVE  /\ NextEvent(s) \in Event /\ NextEvent(s).from \in Nat /\ NextEvent(s).upto \in Nat
         /\ NextEvent(s).upto <= shown
         /\ IF NextEvent(s).kind = "output" THEN NextEvent(s).from < NextEvent(s).upto
                                            ELSE NextEvent(s).from = NextEvent(s).upto
         /\ NextEvent(s).kind = "closed" => ~pane /\ NextEvent(s).upto = shown
         /\ s \in Sockets => view[s].high <= NextEvent(s).from
         /\ s \in Phones => view[s].high >= NextEvent(s).from
         /\ s \notin lagged => view[s].high = NextEvent(s).from
         /\ view[s].low \in Nat /\ view[s].high \in Nat
         /\ view[s].gap \in BOOLEAN /\ view[s].back \in BOOLEAN
<1> DEFINE i == Len(window) - backlog[s] + 1
<1>1. /\ TypeOK /\ BacklogHeld /\ WindowLinked /\ ViewMatches(s)
      /\ backlog[s] > 0 /\ backlog[s] \in Nat /\ ~Missed(s) /\ Listening(s) /\ stream[s] = "live"
      /\ view[s] \in View
  BY SubscriberFacts DEF Recv, Listening
<1>2. i \in 1 .. Len(window) /\ NextEvent(s) = window[i] /\ NextEvent(s) \in Event
  BY <1>1, NextEventHeld
<1>3. /\ window[i].upto <= shown
      /\ IF window[i].kind = "output" THEN window[i].from < window[i].upto
                                      ELSE window[i].from = window[i].upto
      /\ window[i].kind = "closed" => ~pane /\ window[i].upto = shown
  BY <1>1, <1>2 DEF WindowLinked
<1>4. NextEvent(s).from \in Nat /\ NextEvent(s).upto \in Nat
  BY <1>2 DEF Event
<1>5. Mark(s) = NextEvent(s).from
  BY <1>1 DEF Mark
<1> HIDE DEF i
<1>6. /\ s \in Sockets => view[s].high <= NextEvent(s).from
      /\ s \in Phones => view[s].high >= NextEvent(s).from
      /\ s \notin lagged => view[s].high = NextEvent(s).from
  BY <1>1, <1>5 DEF ViewMatches
<1>7. /\ view[s].low \in Nat /\ view[s].high \in Nat
      /\ view[s].gap \in BOOLEAN /\ view[s].back \in BOOLEAN
  BY <1>1 DEF View
<1> QED
  BY <1>2, <1>3, <1>4, <1>6, <1>7, Zenon

LEMMA RecvKeeps == ASSUME StreamInv, NEW s \in Subscribers, Recv(s) PROVE StreamInv'
<1> DEFINE e == NextEvent(s)
           w == Extended(view[s], e)
<1>1. /\ TypeOK /\ ViewMatches(s) /\ Capacity \in Nat \ {0} /\ backlog[s] \in Nat /\ shown \in Nat
      /\ backlog[s] > 0 /\ ~Missed(s) /\ Listening(s) /\ stream[s] = "live" /\ Len(window) \in Nat
      /\ backlog[s] <= Len(window)
      /\ UNCHANGED <<alive, reader, queue, drain, pane, ring, shown, window, others, lagged, late>>
  <2>1. /\ TypeOK /\ ViewMatches(s) /\ Capacity \in Nat \ {0} /\ backlog[s] \in Nat /\ shown \in Nat
        /\ backlog[s] > 0 /\ ~Missed(s) /\ Listening(s) /\ stream[s] = "live" /\ Len(window) \in Nat
        /\ UNCHANGED <<alive, reader, queue, drain, pane, ring, shown, window, others, lagged, late>>
    BY SubscriberFacts DEF Recv, Listening, source, channel
  <2> QED
    BY <2>1, SubscriberFacts
<1>2. /\ e \in Event /\ e.from \in Nat /\ e.upto \in Nat /\ e.upto <= shown
      /\ IF e.kind = "output" THEN e.from < e.upto ELSE e.from = e.upto
      /\ e.kind = "closed" => ~pane /\ e.upto = shown
      /\ s \in Sockets => view[s].high <= e.from
      /\ s \in Phones => view[s].high >= e.from
      /\ s \notin lagged => view[s].high = e.from
      /\ view[s].low \in Nat /\ view[s].high \in Nat
      /\ view[s].gap \in BOOLEAN /\ view[s].back \in BOOLEAN
  BY RecvFacts
<1>3. e.kind # "closed" => Mark(s)' = e.upto
  BY RecvMovesMark
<1>4. /\ backlog' = [backlog EXCEPT ![s] = IF e.kind = "closed" THEN 0 ELSE @ - 1]
      /\ view' = IF e.kind = "output" THEN [view EXCEPT ![s] = w] ELSE view
      /\ stream' = IF e.kind = "closed" THEN [stream EXCEPT ![s] = "ended"] ELSE stream
  BY DEF Recv
<1> HIDE DEF e
<1>5. /\ backlog'[s] = IF e.kind = "closed" THEN 0 ELSE backlog[s] - 1
      /\ view'[s] = IF e.kind = "output" THEN w ELSE view[s]
      /\ stream'[s] = IF e.kind = "closed" THEN "ended" ELSE "live"
      /\ \A t \in Subscribers \ {s} :
           stream'[t] = stream[t] /\ backlog'[t] = backlog[t] /\ view'[t] = view[t]
  BY <1>1, <1>4 DEF TypeOK
<1>6. /\ w \in View /\ w.high = e.upto
      /\ w.gap = (view[s].gap \/ e.from > view[s].high)
      /\ w.back = (view[s].back \/ (view[s].low < view[s].high /\ e.from < view[s].high))
  BY <1>2 DEF Extended, View
<1>7. ~Missed(s)' /\ (IF Listening(s)' THEN backlog'[s] <= Len(window) ELSE backlog'[s] = 0)
  BY <1>1, <1>5 DEF Missed, Listening
<1>8. ViewMatches(s)'
  <2>1. CASE e.kind = "closed"
    <3>1. stream'[s] = "ended" /\ view'[s] = view[s] /\ ~Listening(s)'
      BY <1>5, <2>1 DEF Listening
    <3> QED
      BY <1>1, <1>2, <2>1, <3>1 DEF ViewMatches
  <2>2. CASE e.kind = "output"
    <3>1. stream'[s] = "live" /\ view'[s] = w
      BY <1>5, <2>2
    <3>2. /\ view'[s].high = e.upto
          /\ view'[s].gap = (view[s].gap \/ e.from > view[s].high)
          /\ view'[s].back = (view[s].back \/ (view[s].low < view[s].high /\ e.from < view[s].high))
          /\ Mark(s)' = e.upto
      BY <1>3, <1>6, <2>2, <3>1
    <3>3. /\ s \notin lagged => ~view[s].gap /\ ~view[s].back
          /\ s \in Sockets => ~view[s].back
          /\ s \in Phones => ~view[s].gap
      BY <1>1 DEF ViewMatches
    <3>4. /\ s \notin lagged => ~view'[s].gap /\ ~view'[s].back
          /\ s \in Sockets => ~view'[s].back
          /\ s \in Phones => ~view'[s].gap
      BY <1>2, <3>2, <3>3
    <3> QED
      BY <1>1, <1>2, <3>1, <3>2, <3>4 DEF ViewMatches
  <2>3. CASE e.kind # "closed" /\ e.kind # "output"
    <3>1. stream'[s] = "live" /\ view'[s] = view[s] /\ Mark(s)' = e.from
      BY <1>2, <1>3, <1>5, <2>3
    <3> QED
      BY <1>1, <1>2, <3>1 DEF ViewMatches
  <2> QED
    BY <2>1, <2>2, <2>3
<1>9. HandoverInv' /\ ClosedIsLast'
  BY <1>1, <1>5, <1>7, <1>8, SubscriberStep
<1>10. TypeOK'
  <2>1. backlog' \in [Subscribers -> 0 .. Capacity + 1]
    <3>1. (IF e.kind = "closed" THEN 0 ELSE backlog[s] - 1) \in 0 .. Capacity + 1
      BY <1>1 DEF Missed
    <3> QED
      BY <1>1, <1>4, <3>1 DEF TypeOK
  <2>2. view' \in [Subscribers -> View] /\ stream' \in [Subscribers -> {"idle", "checked", "live", "resync", "ended", "left"}]
    BY <1>1, <1>4, <1>6 DEF TypeOK
  <2> QED
    BY <1>1, <2>1, <2>2 DEF TypeOK
<1> QED
  BY <1>9, <1>10 DEF StreamInv

-----------------------------------------------------------------------------
LEMMA StreamInvInit == Init => StreamInv
<1> SUFFICES ASSUME Init PROVE StreamInv
  OBVIOUS
<1>1. /\ Capacity \in Nat \ {0} /\ RingCapacity \in Nat /\ MaxPreload \in Nat /\ MaxOthers \in Nat
  BY StreamAssumption
<1>2. window = <<>> /\ queue = <<>> /\ shown \in Nat /\ ring = NoLog /\ pane = TRUE
  BY <1>1 DEF Init
<1>3. \A s \in Subscribers :
        /\ stream[s] = "idle" /\ backlog[s] = 0 /\ s \notin lagged
        /\ view[s] = [low |-> 0, high |-> 0, gap |-> FALSE, back |-> FALSE]
  BY DEF Init, Blank
<1>4. \A s \in Subscribers : ~Listening(s)
  BY <1>3 DEF Listening
<1>5. TypeOK
  <2>1. Len(window) = 0 /\ window \in Seq(Event) /\ queue \in Seq(Nat)
    BY <1>2, EmptySeq
  <2>2. Blank(0) \in View /\ 0 \in 0 .. Capacity + 1 /\ 0 \in 0 .. MaxOthers
    BY <1>1 DEF Blank, View
  <2> QED
    BY <1>1, <1>2, <2>1, <2>2 DEF Init, TypeOK
<1>6. WindowLinked /\ QueueAhead /\ ClosedIsLast /\ ReplayIsNewest
  BY <1>2 DEF WindowLinked, QueueAhead, ClosedIsLast, ReplayIsNewest
<1>7. BacklogHeld /\ ViewsMatch
  BY <1>3, <1>4 DEF BacklogHeld, ViewsMatch, ViewMatches
<1> QED
  BY <1>5, <1>6, <1>7 DEF StreamInv, HandoverInv

LEMMA StreamInvNext == StreamInv /\ [Next]_vars => StreamInv'
<1> SUFFICES ASSUME StreamInv, [Next]_vars PROVE StreamInv'
  OBVIOUS
<1>1. CASE UNCHANGED vars
  <2>1. /\ UNCHANGED <<pane, shown, window, backlog, stream, view, lagged>>
        /\ UNCHANGED <<alive, reader, queue, drain, ring, others, late>>
    BY <1>1 DEF vars, source, channel, readers
  <2>2. WindowLinked' /\ BacklogHeld' /\ ViewsMatch' /\ ClosedIsLast'
    BY <2>1, QuietKeepsHandover
  <2>3. TypeOK' /\ QueueAhead' /\ ReplayIsNewest'
    BY <2>1 DEF StreamInv, HandoverInv, TypeOK, QueueAhead, ReplayIsNewest
  <2> QED
    BY <2>2, <2>3 DEF StreamInv, HandoverInv
<1>2. CASE ShellExits \/ ReadEof
  BY <1>2, ShellStepKeeps
<1>3. CASE Read
  BY <1>3, ReadKeeps
<1>4. CASE create_byte_log_for
  BY <1>4, create_byte_log_forKeeps
<1>5. CASE take_pane_output_rx \/ DrainEof
  BY <1>5, QuietDrainKeeps
<1>6. CASE process_pane_bytes
  BY <1>6, process_pane_bytesKeeps
<1>7. CASE DropBytes
  BY <1>7, DropBytesKeeps
<1>8. CASE DrainCloses \/ ClientCloses
  BY <1>8, ClosingKeeps
<1>9. CASE OtherEvent
  BY <1>9, OtherEventKeeps
<1>10. ASSUME NEW s \in Subscribers,
              \/ Validate(s)
              \/ subscribe_with_snapshot(s)
              \/ Recv(s)
              \/ RecvLagged(s)
              \/ Resend(s)
              \/ Leave(s)
       PROVE  StreamInv'
  BY <1>10, ValidateKeeps, subscribe_with_snapshotKeeps, RecvKeeps, RecvLaggedKeeps, ResendKeeps,
     LeaveKeeps
<1> QED
  BY <1>1, <1>2, <1>3, <1>4, <1>5, <1>6, <1>7, <1>8, <1>9, <1>10 DEF Next, Drain

LEMMA StreamInvAlways == Spec => []StreamInv
  BY StreamInvInit, StreamInvNext, PTL DEF Spec

(* Every variable of the output path keeps to its set of values, the        *)
(* channel never holds more than its capacity, and no receiver's count of   *)
(* pending events runs past the one that stands for "some are lost".        *)
THEOREM StreamTypeCorrect == Spec => []TypeOK
<1>1. StreamInv => TypeOK
  BY DEF StreamInv
<1> QED
  BY <1>1, StreamInvAlways, PTL

(* The inductive invariant itself: events in the channel are linked, and    *)
(* each viewer's last byte is where the channel goes on for it.             *)
THEOREM HandoverCorrect == Spec => []HandoverInv
<1>1. StreamInv => HandoverInv
  BY DEF StreamInv
<1> QED
  BY <1>1, StreamInvAlways, PTL

(* subscribe_with_snapshot takes the snapshot and the receiver under one    *)
(* lock: nobody who keeps up misses a byte or gets one twice, a stream that *)
(* ended with the pane had all of its output, and a socket's bytes are in   *)
(* order whatever it missed.                                                *)
THEOREM HandoverIsExact == Spec => []StreamsAreExact
<1>1. StreamInv => StreamsAreExact
  BY DEF StreamInv, HandoverInv, ViewsMatch, ViewMatches, StreamsAreExact
<1> QED
  BY <1>1, StreamInvAlways, PTL

(* handle_subscribe_stream answers a lag with the whole ring, so a phone is *)
(* never left with a hole in what it shows.                                 *)
THEOREM PhonesMissNothing == Spec => []LagLosesNothingOnPhones
<1>1. StreamInv => LagLosesNothingOnPhones
  BY DEF StreamInv, HandoverInv, ViewsMatch, ViewMatches, LagLosesNothingOnPhones, Subscribers
<1> QED
  BY <1>1, StreamInvAlways, PTL

(* process_pane_bytes appends to the ring what it broadcasts: the ring is   *)
(* the newest end of what was shown, for every capacity.                    *)
THEOREM RingIsNewest == Spec => []ReplayIsNewest
<1>1. StreamInv => ReplayIsNewest
  BY DEF StreamInv, HandoverInv
<1> QED
  BY <1>1, StreamInvAlways, PTL

(* close_pane unregisters the pane with the same lock held as it announces  *)
(* the end, and process_pane_bytes asks for the pane under it: PaneClosed   *)
(* is sent once, and nothing of the pane comes after it.                    *)
THEOREM ClosedAlwaysLast == Spec => []ClosedIsLast
<1>1. StreamInv => ClosedIsLast
  BY DEF StreamInv
<1> QED
  BY <1>1, StreamInvAlways, PTL

-----------------------------------------------------------------------------
(* OutputStream implements TerminalStream for its sockets: the initial       *)
(* states map to initial states, and every step maps to a step of the        *)
(* terminal or leaves it as it is.                                           *)

(* What the terminal's state is of, in terms of one socket.                 *)
SocketSame(c) ==
  /\ stream'[c] = stream[c]
  /\ view'[c] = view[c]
  /\ c \in lagged' <=> c \in lagged

LEMMA NoSocketMoves ==
  ASSUME \A c \in Sockets : SocketSame(c), UNCHANGED <<shown, pane>>
  PROVE  UNCHANGED Terminal!vars
<1>1. \A c \in Sockets : Phase(c)' = Phase(c)
  BY DEF SocketSame, Phase, Listening
<1>2. UNCHANGED [c \in Sockets |-> Phase(c)]
  BY <1>1
<1>3. /\ UNCHANGED [c \in Sockets |-> [low |-> view[c].low, high |-> view[c].high]]
      /\ UNCHANGED {c \in Sockets : ~view[c].gap /\ ~view[c].back}
      /\ UNCHANGED (lagged \cap Sockets)
  BY DEF SocketSame
<1> QED
  BY <1>2, <1>3 DEF Terminal!vars

LEMMA TerminalInit == Init => Terminal!Init
<1> SUFFICES ASSUME Init PROVE Terminal!Init
  OBVIOUS
<1>1. shown \in Nat /\ pane = TRUE /\ lagged = {}
  BY StreamAssumption DEF Init
<1>2. \A c \in Sockets :
        /\ stream[c] = "idle"
        /\ view[c] = [low |-> 0, high |-> 0, gap |-> FALSE, back |-> FALSE]
  BY DEF Init, Blank, Subscribers
<1>3. \A c \in Sockets : Phase(c) = "away"
  BY <1>2 DEF Phase
<1>4. [c \in Sockets |-> Phase(c)] = [c \in Sockets |-> "away"]
  BY <1>3
<1>5. [c \in Sockets |-> [low |-> view[c].low, high |-> view[c].high]]
        = [c \in Sockets |-> [low |-> 0, high |-> 0]]
  BY <1>2
<1>6. {c \in Sockets : ~view[c].gap /\ ~view[c].back} = Sockets
  BY <1>2
<1> QED
  BY <1>1, <1>4, <1>5, <1>6 DEF Terminal!Init

-----------------------------------------------------------------------------
(* The terminal's functions, named.                                         *)
Phases == [c \in Sockets |-> Phase(c)]
Spans  == [c \in Sockets |-> [low |-> view[c].low, high |-> view[c].high]]
Wholes == {c \in Sockets : ~view[c].gap /\ ~view[c].back}

(* A step of one socket changes them at that socket.                        *)
LEMMA OneSocketMoves ==
  ASSUME NEW s \in Sockets, \A c \in Sockets \ {s} : SocketSame(c)
  PROVE  /\ Phases' = [Phases EXCEPT ![s] = Phase(s)']
         /\ Spans' = [Spans EXCEPT ![s] = [low |-> view'[s].low, high |-> view'[s].high]]
         /\ Wholes' \ {s} = Wholes \ {s}
<1>1. \A c \in Sockets \ {s} : Phase(c)' = Phase(c)
  BY DEF SocketSame, Phase, Listening
<1>2. Phases' = [Phases EXCEPT ![s] = Phase(s)']
  BY <1>1 DEF Phases
<1>3. Spans' = [Spans EXCEPT ![s] = [low |-> view'[s].low, high |-> view'[s].high]]
  BY DEF Spans, SocketSame
<1>4. Wholes' \ {s} = Wholes \ {s}
  BY DEF Wholes, SocketSame
<1> QED
  BY <1>2, <1>3, <1>4

(* ... and leaves alone what it does not touch.                             *)
LEMMA SocketKeepsView ==
  ASSUME UNCHANGED view
  PROVE  UNCHANGED <<Spans, Wholes>>
  BY DEF Spans, Wholes

(* subscribe_with_snapshot is Join: the replay ends at what is shown.       *)
LEMMA JoinMaps ==
  ASSUME StreamInv, NEW s \in Sockets, subscribe_with_snapshot(s)
  PROVE  Terminal!Join(s)
<1>1. /\ TypeOK /\ ViewMatches(s) /\ ReplayIsNewest /\ s \in Subscribers /\ stream[s] = "checked"
      /\ stream' = [stream EXCEPT ![s] = "live"]
      /\ view' = [view EXCEPT ![s] = Replay]
      /\ UNCHANGED <<pane, shown, lagged>>
  BY SubscriberFacts DEF subscribe_with_snapshot, channel, Subscribers
<1>2. /\ Replay \in View /\ Replay.low <= shown /\ Replay.high = shown
      /\ ~Replay.gap /\ ~Replay.back /\ shown \in Nat /\ Replay.low \in Nat
  <2>1. Replay \in View /\ Replay.low <= shown /\ Replay.high = shown /\ ~Replay.gap /\ ~Replay.back
    BY <1>1, ReplayEndsAtShown
  <2> QED
    BY <1>1, <2>1 DEF View, TypeOK
<1>3. stream'[s] = "live" /\ view'[s] = Replay /\ \A c \in Sockets \ {s} : SocketSame(c)
  BY <1>1 DEF TypeOK, SocketSame, Subscribers
<1>4. Phase(s) = "away" /\ Phase(s)' = "here"
  BY <1>1, <1>3 DEF Phase, Listening
<1>5. Phases' = [Phases EXCEPT ![s] = "here"] /\ Phases[s] = "away"
  BY <1>3, <1>4, OneSocketMoves DEF Phases
<1>6. Spans' = [Spans EXCEPT ![s] = [low |-> Replay.low, high |-> shown]]
  BY <1>2, <1>3, OneSocketMoves
<1>7. Wholes' = Wholes
  <2>1. ~view[s].back /\ ~view[s].gap
    BY <1>1 DEF ViewMatches
  <2> QED
    BY <1>2, <1>3, <2>1, OneSocketMoves DEF Wholes
<1>8. Replay.low \in 0 .. shown
  BY <1>2
<1> QED
  BY <1>1, <1>5, <1>6, <1>7, <1>8 DEF Terminal!Join, Phases, Spans, Wholes

(* A turn of the live loop is Deliver for a chunk, End for PaneClosed, and   *)
(* nothing for an event about something else.                               *)
LEMMA RecvMaps ==
  ASSUME StreamInv, NEW s \in Sockets, Recv(s)
  PROVE  Terminal!Deliver(s) \/ Terminal!End(s) \/ UNCHANGED Terminal!vars
<1> DEFINE e == NextEvent(s)
           w == Extended(view[s], e)
<1>1. /\ TypeOK /\ ViewMatches(s) /\ s \in Subscribers /\ stream[s] = "live" /\ s \notin Phones
      /\ shown \in Nat /\ UNCHANGED <<pane, shown, lagged>>
  BY SubscriberFacts, StreamAssumption DEF Recv, channel, Subscribers
<1>2. /\ e.from \in Nat /\ e.upto \in Nat /\ e.upto <= shown
      /\ IF e.kind = "output" THEN e.from < e.upto ELSE e.from = e.upto
      /\ e.kind = "closed" => ~pane /\ e.upto = shown
      /\ view[s].high <= e.from
      /\ s \notin lagged => view[s].high = e.from
      /\ view[s].low \in Nat /\ view[s].high \in Nat
      /\ view[s].gap \in BOOLEAN /\ view[s].back \in BOOLEAN
  BY <1>1, RecvFacts
<1>3. /\ view' = IF e.kind = "output" THEN [view EXCEPT ![s] = w] ELSE view
      /\ stream' = IF e.kind = "closed" THEN [stream EXCEPT ![s] = "ended"] ELSE stream
  BY DEF Recv
<1> HIDE DEF e
<1>4. \A c \in Sockets \ {s} : SocketSame(c)
  BY <1>1, <1>3 DEF SocketSame, TypeOK, Subscribers
<1>5. /\ Phases' = [Phases EXCEPT ![s] = Phase(s)'] /\ Phases[s] = "here"
      /\ Spans' = [Spans EXCEPT ![s] = [low |-> view'[s].low, high |-> view'[s].high]]
      /\ Spans[s] = [low |-> view[s].low, high |-> view[s].high]
      /\ Wholes' \ {s} = Wholes \ {s}
  <2>1. Phase(s) = "here"
    BY <1>1 DEF Phase, Listening
  <2> QED
    BY <1>4, <2>1, OneSocketMoves DEF Phases, Spans
<1>6. ~view[s].back /\ (s \notin lagged => ~view[s].gap)
  BY <1>1 DEF ViewMatches
<1>7. CASE e.kind = "output"
  <2>1. stream' = stream /\ view'[s] = w
    BY <1>1, <1>3, <1>7 DEF TypeOK
  <2>2. w.low = view[s].low
    BY <1>2, <1>7 DEF Extended
  <2>3. w.high = e.upto /\ e.upto \in view[s].high + 1 .. shown
    BY <1>1, <1>2, <1>7 DEF Extended
  <2>4. w.gap = (view[s].gap \/ e.from > view[s].high)
    BY DEF Extended
  <2>5. ~w.back
    <3>1. w.back = (view[s].back \/ (view[s].low < view[s].high /\ e.from < view[s].high))
      BY DEF Extended
    <3>2. ~(e.from < view[s].high)
      BY <1>2
    <3> HIDE DEF w
    <3> QED
      BY <1>2, <1>6, <3>1, <3>2
  <2> HIDE DEF w
  <2>6. Phases' = Phases
    BY <2>1 DEF Phases, Phase, Listening
  <2>7. Spans' = [Spans EXCEPT ![s].high = e.upto]
    <3>1. [low |-> view'[s].low, high |-> view'[s].high] = [Spans[s] EXCEPT !.high = e.upto]
      BY <1>5, <2>1, <2>2, <2>3
    <3>2. Spans' = [Spans EXCEPT ![s] = [Spans[s] EXCEPT !.high = e.upto]]
      BY <1>5, <3>1
    <3> QED
      BY <3>2
  <2>8. Wholes' = Wholes \/ (s \in lagged /\ Wholes' = Wholes \ {s})
    <3>1. s \in Wholes <=> ~view[s].gap
      BY <1>6 DEF Wholes
    <3>2. s \in Wholes' <=> ~w.gap
      BY <2>1, <2>5 DEF Wholes
    <3>3. CASE w.gap = view[s].gap
      BY <1>5, <3>1, <3>2, <3>3
    <3>4. CASE w.gap # view[s].gap
      <4>1. w.gap /\ e.from > view[s].high
        BY <1>2, <2>4, <3>4
      <4>2. s \in lagged
        BY <1>2, <4>1
      <4> QED
        BY <1>5, <3>2, <4>1, <4>2
    <3> QED
      BY <3>3, <3>4
  <2>9. Spans[s].high = view[s].high
    BY <1>5
  <2> QED
    BY <1>1, <1>5, <2>3, <2>6, <2>7, <2>8, <2>9 DEF Terminal!Deliver, Phases, Spans, Wholes
<1>8. CASE e.kind = "closed"
  <2>1. view' = view /\ stream'[s] = "ended"
    BY <1>1, <1>3, <1>8 DEF TypeOK
  <2>2. Phase(s)' = "ended" /\ UNCHANGED <<Spans, Wholes>>
    BY <2>1, SocketKeepsView DEF Phase, Listening
  <2>3. ~pane /\ (s \notin lagged => view[s].high = shown /\ s \in Wholes)
    BY <1>2, <1>6, <1>8 DEF Wholes
  <2>4. Spans[s].high = view[s].high
    BY <1>5
  <2> QED
    BY <1>1, <1>5, <2>2, <2>3, <2>4 DEF Terminal!End, Phases, Spans, Wholes
<1>9. CASE e.kind # "closed" /\ e.kind # "output"
  BY <1>1, <1>3, <1>9, NoSocketMoves DEF SocketSame
<1> QED
  BY <1>7, <1>8, <1>9

(* Being told of a lag is FallBehind, and the client's departure is Leave.   *)
LEMMA LagAndLeaveMap ==
  ASSUME StreamInv, NEW s \in Sockets
  PROVE  /\ RecvLagged(s) => Terminal!FallBehind(s)
         /\ Leave(s) => Terminal!Leave(s)
<1>1. TypeOK /\ s \in Subscribers /\ s \notin Phones
  BY StreamAssumption DEF StreamInv, Subscribers
<1>2. ASSUME RecvLagged(s) PROVE Terminal!FallBehind(s)
  <2>1. /\ stream[s] = "live" /\ lagged' = lagged \union {s}
        /\ UNCHANGED <<pane, shown, view, stream>>
    BY <1>1, <1>2 DEF RecvLagged, channel
  <2>2. Phase(s) = "here" /\ UNCHANGED <<Phases, Spans, Wholes>>
    BY <2>1, SocketKeepsView DEF Phase, Phases, Listening
  <2>3. lagged' \cap Sockets = (lagged \cap Sockets) \union {s}
    BY <2>1
  <2> QED
    BY <2>1, <2>2, <2>3 DEF Terminal!FallBehind, Phases, Spans, Wholes
<1>3. ASSUME Leave(s) PROVE Terminal!Leave(s)
  <2>1. /\ Listening(s) /\ stream' = [stream EXCEPT ![s] = "left"]
        /\ UNCHANGED <<pane, shown, view, lagged>>
    BY <1>3 DEF Leave, channel
  <2>2. stream'[s] = "left" /\ \A c \in Sockets \ {s} : SocketSame(c)
    BY <1>1, <2>1 DEF TypeOK, SocketSame, Subscribers
  <2>3. Phase(s) = "here" /\ Phase(s)' = "left" /\ UNCHANGED <<Spans, Wholes>>
    BY <2>1, <2>2, SocketKeepsView DEF Phase, Listening
  <2>4. Phases' = [Phases EXCEPT ![s] = "left"] /\ Phases[s] = "here"
    BY <2>2, <2>3, OneSocketMoves DEF Phases
  <2> QED
    BY <2>1, <2>3, <2>4 DEF Terminal!Leave, Phases, Spans, Wholes
<1> QED
  BY <1>2, <1>3

-----------------------------------------------------------------------------
(* Steps of the pane: showing bytes is Show, closing the pane is Finish, and *)
(* the rest is not seen by a viewer.                                        *)
LEMMA PaneMaps ==
  ASSUME StreamInv,
         \/ ShellExits \/ Read \/ ReadEof \/ Drain \/ ClientCloses \/ OtherEvent
  PROVE  Terminal!Show \/ Terminal!Finish \/ UNCHANGED Terminal!vars
<1>1. UNCHANGED <<stream, view, lagged>>
  BY DEF ShellExits, Read, ReadEof, Drain, create_byte_log_for, take_pane_output_rx,
     process_pane_bytes, DropBytes, DrainEof, DrainCloses, ClientCloses, OtherEvent, readers
<1>2. UNCHANGED <<Phases, Spans, Wholes>>
  BY <1>1 DEF Phases, Phase, Listening, Spans, Wholes
<1>3. CASE process_pane_bytes
  <2>1. TypeOK /\ QueueAhead /\ queue # <<>>
    BY <1>3 DEF StreamInv, HandoverInv, process_pane_bytes
  <2>2. shown' \in Nat /\ shown' > shown
    BY <1>3, <2>1, QueueTail DEF process_pane_bytes
  <2>3. pane /\ pane' = pane
    BY <1>3 DEF process_pane_bytes
  <2> QED
    BY <1>1, <1>2, <2>2, <2>3 DEF Terminal!Show, Phases, Spans, Wholes
<1>4. CASE ~process_pane_bytes /\ close_pane
  <2>1. pane' = FALSE /\ shown' = shown
    BY <1>4 DEF close_pane, ShellExits, Read, ReadEof, Drain, create_byte_log_for,
       take_pane_output_rx, DropBytes, DrainEof, DrainCloses, ClientCloses, OtherEvent
  <2> QED
    BY <1>1, <1>2, <2>1 DEF Terminal!Finish, Phases, Spans, Wholes
<1>5. CASE ~process_pane_bytes /\ ~close_pane
  <2>1. UNCHANGED <<pane, shown>>
    BY <1>5 DEF ShellExits, Read, ReadEof, Drain, create_byte_log_for,
       take_pane_output_rx, DropBytes, DrainEof, DrainCloses, ClientCloses, OtherEvent
  <2> QED
    BY <1>1, <2>1, NoSocketMoves DEF SocketSame
<1> QED
  BY <1>3, <1>4, <1>5

(* Steps of a phone are not seen by a socket.                                *)
LEMMA PhoneMaps ==
  ASSUME StreamInv, NEW s \in Subscribers \ Sockets,
         \/ Validate(s)
         \/ subscribe_with_snapshot(s)
         \/ Recv(s)
         \/ RecvLagged(s)
         \/ Resend(s)
         \/ Leave(s)
  PROVE  UNCHANGED Terminal!vars
<1>1. TypeOK /\ UNCHANGED <<pane, shown>>
  BY DEF StreamInv, Validate, subscribe_with_snapshot, Recv, RecvLagged, Resend, Leave, channel
<1>2. ASSUME NEW c \in Sockets
      PROVE  SocketSame(c)
  <2>1. c \in Subscribers /\ c # s
    BY DEF Subscribers
  <2>2. /\ stream'[c] = stream[c]
        /\ view'[c] = view[c]
    BY <1>1, <2>1 DEF TypeOK, Validate, subscribe_with_snapshot, Recv, RecvLagged, Resend, Leave
  <2>3. c \in lagged' <=> c \in lagged
    BY <2>1 DEF Validate, subscribe_with_snapshot, Recv, RecvLagged, Resend, Leave
  <2> QED
    BY <2>2, <2>3 DEF SocketSame
<1> QED
  BY <1>1, <1>2, NoSocketMoves

LEMMA StepMaps ==
  ASSUME StreamInv, [Next]_vars
  PROVE  [Terminal!Next]_(Terminal!vars)
<1>1. CASE UNCHANGED vars
  <2>1. UNCHANGED <<pane, shown, stream, view, lagged>>
    BY <1>1 DEF vars, readers
  <2> QED
    BY <2>1, NoSocketMoves DEF SocketSame
<1>2. CASE \/ ShellExits \/ Read \/ ReadEof \/ Drain \/ ClientCloses \/ OtherEvent
  BY <1>2, PaneMaps DEF Terminal!Next
<1>3. ASSUME NEW s \in Subscribers,
             \/ Validate(s)
             \/ subscribe_with_snapshot(s)
             \/ Recv(s)
             \/ RecvLagged(s)
             \/ Resend(s)
             \/ Leave(s)
      PROVE  [Terminal!Next]_(Terminal!vars)
  <2>1. CASE s \notin Sockets
    BY <1>3, <2>1, PhoneMaps
  <2>2. CASE s \in Sockets /\ Validate(s)
    <3>1. TypeOK /\ stream[s] = "idle" /\ stream' = [stream EXCEPT ![s] = "checked"]
          /\ UNCHANGED <<pane, shown, view, lagged>>
      BY <2>2 DEF StreamInv, Validate, channel
    <3>2. \A c \in Sockets : stream[c] = stream'[c] \/ (stream[c] = "idle" /\ stream'[c] = "checked")
      BY <3>1 DEF TypeOK, Subscribers
    <3>3. \A c \in Sockets : Phase(c)' = Phase(c)
      BY <3>2 DEF Phase, Listening
    <3>4. UNCHANGED <<Phases, Spans, Wholes>>
      BY <3>1, <3>3, SocketKeepsView DEF Phases
    <3> QED
      BY <3>1, <3>4 DEF Terminal!vars, Phases, Spans, Wholes
  <2>3. CASE s \in Sockets /\ subscribe_with_snapshot(s)
    BY <2>3, JoinMaps DEF Terminal!Next
  <2>4. CASE s \in Sockets /\ Recv(s)
    BY <2>4, RecvMaps DEF Terminal!Next
  <2>5. CASE s \in Sockets /\ (RecvLagged(s) \/ Leave(s))
    BY <2>5, LagAndLeaveMap DEF Terminal!Next
  <2>6. CASE s \in Sockets /\ Resend(s)
    BY <1>3, <2>6, SubscriberFacts, StreamAssumption DEF Resend, ViewMatches
  <2> QED
    BY <1>3, <2>1, <2>2, <2>3, <2>4, <2>5, <2>6
<1> QED
  BY <1>1, <1>2, <1>3 DEF Next

(* The drain task, the ring, the broadcast channel and the stream loops      *)
(* together give a socket what TerminalStream promises, for any number of    *)
(* sockets and phones and any capacities.                                    *)
THEOREM ImplementsTerminalStream == Spec => IsTerminalStream
<1>1. StreamInv /\ [Next]_vars => [Terminal!Next]_(Terminal!vars)
  BY StepMaps
<1> QED
  BY TerminalInit, StreamInvAlways, <1>1, PTL DEF Spec, IsTerminalStream, Terminal!Spec
=============================================================================
