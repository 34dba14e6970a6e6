------------------------ MODULE SerialDevice_proofs ------------------------
(***************************************************************************)
(* Proofs about SerialDevice, for any settings, sizes and delays.          *)
(***************************************************************************)
EXTENDS SerialDevice, TLAPS, SequenceTheorems

\* Types and sizes of a device, without its clock.
Sound(d) ==
    d \in Devices /\ Len(d.queue) <= QueueSize /\ Len(d.pending) <= RoomSize

\* The emitter never rests before a queue that is not empty.
Drained(d) == d.frame = Still => d.queue = <<>>

\* What is asked of a device between two of its steps: a frame in progress is
\* not over.
Running(d) == d.frame # Still => d.left > 0

\* What a call leaves: nothing that is due.
Nothing(d) ==
    /\ Drained(d) /\ Running(d)
    /\ d.armed => d.wait > 0
    /\ setting.period > 0 => d.next > 0

\* The wake is ahead of the clock and not behind a deadline.
Awaited == ~toCall => \A t \in Deadlines(device) : wake \in 1..t

IInv == DeviceTypeOK /\ Drained(device) /\ Awaited

-----------------------------------------------------------------------------
(* Bytes and buffers.                                                       *)

LEMMA SizeFacts ==
    /\ QueueSize \in Nat \ {0} /\ RoomSize \in Nat \ {0} /\ Frame \in Nat \ {0}
    /\ Sizes \subseteq Nat /\ LastTick \in Nat
    /\ \A s \in Settings : s.delay \in Nat /\ s.period \in Nat /\ s.echo \in BOOLEAN
BY DeviceAssumption

LEMMA StillIsNoVoice == Still \notin Voice
<1>1. \A v \in Voice : v[1] \in Kinds
  BY DEF Voice
<1>2. "nothing" \notin Kinds
  BY DEF Kinds
<1> QED BY <1>1, <1>2 DEF Still

LEMMA UptoType ==
    ASSUME NEW S, NEW s \in Seq(S), NEW n \in Nat
    PROVE  Upto(s, n) \in Seq(S) /\ Len(Upto(s, n)) <= n
<1>1. CASE Len(s) <= n
  BY <1>1 DEF Upto
<1>2. CASE ~(Len(s) <= n)
  <2>1. \A i \in 1..n : s[i] \in S
    BY <1>2, LenProperties
  <2>2. SubSeq(s, 1, n) \in Seq(S) /\ Len(SubSeq(s, 1, n)) = IF 1 <= n THEN n - 1 + 1 ELSE 0
    BY <2>1, SubSeqProperties
  <2> QED BY <1>2, <2>2 DEF Upto
<1> QED BY <1>1, <1>2

LEMMA SpokenType ==
    ASSUME NEW kind \in Kinds, NEW n \in Nat, made \in [Kinds -> Nat]
    PROVE  Spoken(kind, n) \in Seq(Voice) /\ Len(Spoken(kind, n)) = n
<1>1. \A i \in 1..n : <<kind, made[kind] + i>> \in Voice
  BY DEF Voice
<1>2. [i \in 1..n |-> <<kind, made[kind] + i>>] \in [1..n -> Voice]
  BY <1>1
<1> QED BY <1>2 DEF Spoken

-----------------------------------------------------------------------------
(* The steps of a call.                                                     *)

\* Nothing but the queue, which stays within its size.
LEMMA QueuesFacts ==
    ASSUME NEW d, Sound(d), NEW bytes \in Seq(Voice)
    PROVE  /\ Sound(Queues(d, bytes))
           /\ Queues(d, bytes).frame = d.frame /\ Queues(d, bytes).left = d.left
           /\ Queues(d, bytes).armed = d.armed /\ Queues(d, bytes).wait = d.wait
           /\ Queues(d, bytes).next = d.next
<1>1. Room(d) \in Nat /\ Room(d) = QueueSize - Len(d.queue)
  BY SizeFacts DEF Room, Sound, Devices
<1>2. Upto(bytes, Room(d)) \in Seq(Voice) /\ Len(Upto(bytes, Room(d))) <= Room(d)
  BY <1>1, UptoType
<1>3. d.queue \in Seq(Voice)
  BY DEF Sound, Devices
<1> DEFINE u == Upto(bytes, Room(d))
           q == d.queue \o u
<1>4. q \in Seq(Voice) /\ Len(q) <= QueueSize
  <2> HIDE DEF u
  <2>1. q \in Seq(Voice) /\ Len(q) = Len(d.queue) + Len(u)
    BY <1>2, <1>3, ConcatProperties DEF u
  <2>2. Len(u) \in Nat /\ Len(d.queue) \in Nat /\ Len(u) <= QueueSize - Len(d.queue)
    BY <1>1, <1>2, <1>3, LenProperties DEF u
  <2> HIDE DEF q
  <2> QED BY <2>1, <2>2, SizeFacts
<1>5. Queues(d, bytes) = [d EXCEPT !.queue = q]
  BY DEF Queues
<1> HIDE DEF q
<1> QED BY <1>4, <1>5 DEF Sound, Devices

\* A frame begins if none is in progress and a byte waits.
LEMMA KicksFacts ==
    ASSUME NEW d, Sound(d), Running(d)
    PROVE  /\ Sound(Kicks(d)) /\ Running(Kicks(d)) /\ Drained(Kicks(d))
           /\ Kicks(d).armed = d.armed /\ Kicks(d).pending = d.pending
           /\ Kicks(d).wait = d.wait /\ Kicks(d).next = d.next
<1>1. CASE d.frame # Still \/ d.queue = <<>>
  BY <1>1 DEF Kicks, Drained
<1>2. CASE ~(d.frame # Still \/ d.queue = <<>>)
  <2> DEFINE b == Head(d.queue)
             q == Tail(d.queue)
  <2>1. b \in Voice /\ q \in Seq(Voice) /\ Len(q) = Len(d.queue) - 1
    BY <1>2, HeadTailProperties DEF Sound, Devices
  <2>2. Kicks(d) = [d EXCEPT !.frame = b, !.left = Frame, !.queue = q]
    BY <1>2 DEF Kicks
  <2> HIDE DEF b, q
  <2>3. Len(q) <= QueueSize
    BY <2>1, SizeFacts, LenProperties DEF Sound, Devices
  <2>4. b # Still
    BY <2>1, StillIsNoVoice
  <2>5. /\ Kicks(d).frame = b /\ Kicks(d).left = Frame /\ Kicks(d).queue = q
        /\ Kicks(d).armed = d.armed /\ Kicks(d).pending = d.pending
        /\ Kicks(d).wait = d.wait /\ Kicks(d).next = d.next
    BY <2>2 DEF Sound, Devices
  <2>6. Kicks(d) \in Devices
    <3>1. Frame \in 0..Frame
      BY SizeFacts
    <3> QED BY <2>1, <2>2, <3>1 DEF Sound, Devices
  <2> QED BY <2>3, <2>4, <2>5, <2>6, SizeFacts DEF Sound, Running, Drained
<1> QED BY <1>1, <1>2

\* A frame that is over gives way to the next.
LEMMA AdvancesFacts ==
    ASSUME NEW d, Sound(d), Drained(d)
    PROVE  Sound(Advances(d)) /\ Running(Advances(d)) /\ Drained(Advances(d))
<1>1. CASE d.frame = Still \/ d.left > 0
  BY <1>1 DEF Advances, Running
<1>2. CASE ~(d.frame = Still \/ d.left > 0)
  <2> DEFINE e == [d EXCEPT !.frame = Still]
  <2>1. Sound(e) /\ Running(e)
    BY DEF Sound, Devices, Running
  <2>2. Advances(d) = Kicks(e)
    BY <1>2 DEF Advances
  <2> HIDE DEF e
  <2> QED BY <2>1, <2>2, KicksFacts
<1> QED BY <1>1, <1>2

\* Only the answer that waits is touched.
LEMMA ArmsFacts ==
    ASSUME NEW d, Sound(d), NEW reply \in Seq(Voice), setting \in Settings
    PROVE  /\ Sound(Arms(d, reply))
           /\ Arms(d, reply).frame = d.frame /\ Arms(d, reply).left = d.left
           /\ Arms(d, reply).queue = d.queue /\ Arms(d, reply).next = d.next
<1>1. d.pending \o reply \in Seq(Voice)
  BY ConcatProperties DEF Sound, Devices
<1> DEFINE more == Upto(d.pending \o reply, RoomSize)
           first == Upto(reply, RoomSize)
<1>2. /\ more \in Seq(Voice) /\ Len(more) <= RoomSize
      /\ first \in Seq(Voice) /\ Len(first) <= RoomSize
  BY <1>1, UptoType, SizeFacts
<1>3. \/ Arms(d, reply) = d
      \/ Arms(d, reply) = [d EXCEPT !.pending = more]
      \/ Arms(d, reply) = [d EXCEPT !.armed = TRUE, !.wait = setting.delay, !.pending = first]
  BY DEF Arms
<1> HIDE DEF more, first
<1> QED BY <1>2, <1>3, SizeFacts DEF Sound, Devices

LEMMA HearsFacts ==
    ASSUME NEW d, Sound(d), Running(d), setting \in Settings,
           NEW echo \in Seq(Voice), NEW reply \in Seq(Voice)
    PROVE  LET h == Hears(d, echo, reply) IN Sound(h) /\ Running(h) /\ Drained(h)
<1> DEFINE e == Queues(d, echo)
           f == Arms(e, reply)
<1>1. Sound(e) /\ Running(e)
  BY QueuesFacts DEF Running
<1>2. Sound(f) /\ Running(f)
  <2> HIDE DEF e
  <2> QED BY <1>1, ArmsFacts DEF Running
<1>3. Hears(d, echo, reply) = Kicks(f)
  BY DEF Hears
<1> HIDE DEF e, f
<1> QED BY <1>2, <1>3, KicksFacts

\* What is sent goes into the queue; the clock of the other sources stays.
LEMMA EmitFacts ==
    ASSUME NEW d, Sound(d), Running(d), NEW bytes \in Seq(Voice)
    PROVE  LET k == Kicks(Queues(d, bytes))
           IN  /\ Sound(k) /\ Running(k) /\ Drained(k)
               /\ k.armed = d.armed /\ k.wait = d.wait /\ k.next = d.next
<1> DEFINE e == Queues(d, bytes)
<1>1. /\ Sound(e) /\ Running(e)
      /\ e.armed = d.armed /\ e.wait = d.wait /\ e.next = d.next
  BY QueuesFacts DEF Running
<1> HIDE DEF e
<1>2. /\ Sound(Kicks(e)) /\ Running(Kicks(e)) /\ Drained(Kicks(e))
      /\ Kicks(e).armed = e.armed /\ Kicks(e).wait = e.wait /\ Kicks(e).next = e.next
  BY <1>1, KicksFacts
<1> QED BY <1>1, <1>2 DEF e

LEMMA AnswersFacts ==
    ASSUME NEW d, Sound(d), Running(d), Drained(d)
    PROVE  LET a == Answers(d)
           IN  Sound(a) /\ Running(a) /\ Drained(a) /\ (a.armed => a.wait > 0)
<1>1. CASE d.armed /\ d.wait = 0
  <2> DEFINE k == Kicks(Queues(d, d.pending))
  <2>1. Sound(k) /\ Running(k) /\ Drained(k)
    BY EmitFacts DEF Sound, Devices
  <2>2. Answers(d) = [k EXCEPT !.armed = FALSE, !.pending = <<>>]
    BY <1>1 DEF Answers
  <2> HIDE DEF k
  <2>3. /\ Answers(d).frame = k.frame /\ Answers(d).left = k.left
        /\ Answers(d).queue = k.queue /\ ~Answers(d).armed
        /\ Answers(d).pending = <<>>
    BY <2>1, <2>2 DEF Sound, Devices
  <2>4. Answers(d) \in Devices
    <3>1. <<>> \in Seq(Voice) /\ FALSE \in BOOLEAN
      OBVIOUS
    <3>2. k \in Devices
      BY <2>1 DEF Sound
    <3> QED BY <2>2, <3>1, <3>2 DEF Devices
  <2> QED BY <2>1, <2>3, <2>4, SizeFacts DEF Sound, Running, Drained
<1>2. CASE ~(d.armed /\ d.wait = 0)
  BY <1>2 DEF Answers, Sound, Devices
<1> QED BY <1>1, <1>2

LEMMA SpeaksFacts ==
    ASSUME NEW d, Sound(d), Running(d), Drained(d), d.armed => d.wait > 0,
           setting \in Settings, NEW spoken \in Seq(Voice)
    PROVE  Sound(Speaks(d, spoken)) /\ Nothing(Speaks(d, spoken))
<1>1. CASE Due(d)
  <2> DEFINE k == Kicks(Queues(d, spoken))
  <2>1. /\ Sound(k) /\ Running(k) /\ Drained(k)
        /\ k.armed = d.armed /\ k.wait = d.wait
    BY EmitFacts
  <2>2. Speaks(d, spoken) = [k EXCEPT !.next = setting.period]
    BY <1>1 DEF Speaks
  <2> HIDE DEF k
  <2> QED BY <2>1, <2>2, SizeFacts DEF Sound, Devices, Running, Drained, Nothing
<1>2. CASE ~Due(d)
  BY <1>2 DEF Speaks, Due, Sound, Devices, Nothing
<1> QED BY <1>1, <1>2

\* A call leaves nothing due, whatever it receives and says.
LEMMA SyncedFacts ==
    ASSUME NEW d, Sound(d), Drained(d), setting \in Settings,
           NEW echo \in Seq(Voice), NEW reply \in Seq(Voice), NEW spoken \in Seq(Voice)
    PROVE  LET s == Synced(d, echo, reply, spoken) IN Sound(s) /\ Nothing(s)
<1> DEFINE a == Advances(d)
           h == Hears(a, echo, reply)
           r == Answers(h)
<1>1. Sound(a) /\ Running(a) /\ Drained(a)
  BY AdvancesFacts
<1>2. Sound(h) /\ Running(h) /\ Drained(h)
  <2> HIDE DEF a
  <2> QED BY <1>1, HearsFacts
<1>3. Sound(r) /\ Running(r) /\ Drained(r) /\ (r.armed => r.wait > 0)
  <2> HIDE DEF h
  <2> QED BY <1>2, AnswersFacts
<1>4. Synced(d, echo, reply, spoken) = Speaks(r, spoken)
  BY DEF Synced
<1> HIDE DEF a, h, r
<1> QED BY <1>3, <1>4, SpeaksFacts

\* A call that receives nothing and finds nothing due changes nothing.
LEMMA NothingChanges ==
    ASSUME Sound(device), Nothing(device), NEW spoken
    PROVE  Synced(device, <<>>, <<>>, spoken) = device
<1>1. Advances(device) = device
  BY DEF Advances, Nothing, Running, Sound, Devices
<1>2. Room(device) \in Nat /\ Upto(<<>>, Room(device)) = <<>>
  <2>1. Room(device) \in Nat
    BY SizeFacts, LenProperties DEF Room, Sound, Devices
  <2> QED BY <2>1 DEF Upto
<1>3. Queues(device, <<>>) = device
  <2>1. device.queue \o <<>> = device.queue
    BY ConcatEmptySeq DEF Sound, Devices
  <2> QED BY <1>2, <2>1 DEF Queues, Sound, Devices
<1>4. Hears(device, <<>>, <<>>) = device
  BY <1>3 DEF Hears, Arms, Kicks, Nothing, Drained
<1>5. Answers(device) = device
  BY DEF Answers, Nothing, Sound, Devices
<1>6. Speaks(device, spoken) = device
  BY SizeFacts DEF Speaks, Due, Nothing, Sound, Devices
<1> QED BY <1>1, <1>4, <1>5, <1>6 DEF Synced

-----------------------------------------------------------------------------
(* The invariant.                                                           *)

\* The deadlines of a device of which nothing is due are ahead, and there is an
\* earliest one.
LEMMA EarliestFacts ==
    ASSUME NEW d, Sound(d), Nothing(d), setting \in Settings, Deadlines(d) # {}
    PROVE  LET w == CHOOSE t \in Deadlines(d) : \A u \in Deadlines(d) : t <= u
           IN  w \in Deadlines(d) /\ w \in Nat /\ \A u \in Deadlines(d) : w \in 1..u
<1>1. Deadlines(d) \subseteq Nat \ {0}
  BY SizeFacts DEF Deadlines, Nothing, Running, Sound, Devices
<1>2. \E t \in Deadlines(d) : \A u \in Deadlines(d) : t <= u
  BY <1>1 DEF Deadlines
<1> QED BY <1>1, <1>2

LEMMA InitInvariant == DeviceInit => IInv
<1> SUFFICES ASSUME DeviceInit PROVE IInv
  OBVIOUS
<1>1. setting.period \in Nat /\ 0 \in 0..Frame /\ 0 \in 0..LastTick
  BY SizeFacts DEF DeviceInit
<1>2. device \in Devices /\ Len(device.queue) = 0 /\ Len(device.pending) = 0
  BY <1>1 DEF DeviceInit, Devices
<1>3. made \in [Kinds -> Nat] /\ begun \in [Kinds -> Nat]
  BY DEF DeviceInit
<1>4. DeviceTypeOK
  BY <1>1, <1>2, <1>3, SizeFacts DEF DeviceInit, DeviceTypeOK
<1>5. Drained(device) /\ Awaited
  BY DEF DeviceInit, Drained, Awaited
<1> QED BY <1>4, <1>5 DEF IInv

LEMMA CalledInvariant == IInv /\ Called => IInv'
<1> SUFFICES ASSUME IInv, Called PROVE IInv'
  OBVIOUS
<1>1. PICK byte \in {"none"} \cup (IF silence = 0 THEN {"char", "end"} ELSE {}),
            answer \in Sizes, says \in Sizes :
        LET echo == Spoken("echo", IF setting.echo /\ byte # "none" THEN 1 ELSE 0)
            reply == Spoken("reply", answer)
            spoken == Spoken("tick", says)
        IN /\ device' = Synced(device, echo, reply, spoken)
           /\ made' = [made EXCEPT !["echo"] = @ + Len(echo), !["reply"] = @ + answer,
                                   !["tick"] = @ + says]
           /\ begun' = IF device'.frame \in {device.frame, Still} THEN begun
                       ELSE [begun EXCEPT ![device'.frame[1]] = device'.frame[2]]
           /\ cut' = cut \cup Refused(echo, reply, spoken)
           /\ silence' = IF byte = "none" THEN silence ELSE Frame
           /\ wake' = IF Deadlines(device') = {} THEN 0
                      ELSE CHOOSE t \in Deadlines(device') : \A u \in Deadlines(device') : t <= u
           /\ toCall' = FALSE /\ UNCHANGED <<setting, tick>>
  BY DEF Called
<1> DEFINE echo == Spoken("echo", IF setting.echo /\ byte # "none" THEN 1 ELSE 0)
           reply == Spoken("reply", answer)
           spoken == Spoken("tick", says)
<1>2. answer \in Nat /\ says \in Nat /\ setting \in Settings /\ made \in [Kinds -> Nat]
  BY SizeFacts DEF IInv, DeviceTypeOK
<1>3. /\ echo \in Seq(Voice) /\ Len(echo) \in Nat
      /\ reply \in Seq(Voice) /\ spoken \in Seq(Voice)
  BY <1>2, SpokenType DEF Kinds
<1>4. Sound(device) /\ Drained(device)
  BY DEF IInv, DeviceTypeOK, Sound
<1>5. device' = Synced(device, echo, reply, spoken)
  BY <1>1
<1>6. Refused(echo, reply, spoken) \subseteq Kinds
  BY DEF Refused, Kinds
<1>7. made' = [made EXCEPT !["echo"] = @ + Len(echo), !["reply"] = @ + answer,
                          !["tick"] = @ + says]
  BY <1>1
<1>8. cut' = cut \cup Refused(echo, reply, spoken)
  BY <1>1
<1> HIDE DEF echo, reply, spoken
<1>9. Sound(device') /\ Nothing(device')
  BY <1>2, <1>3, <1>4, <1>5, SyncedFacts
<1>10. made' \in [Kinds -> Nat]
  <2>1. /\ made["echo"] + Len(echo) \in Nat /\ made["reply"] + answer \in Nat
        /\ made["tick"] + says \in Nat
    BY <1>2, <1>3 DEF Kinds
  <2>2. \A k \in Kinds : made'[k] = CASE k = "echo" -> made["echo"] + Len(echo)
                                      [] k = "reply" -> made["reply"] + answer
                                      [] k = "tick" -> made["tick"] + says
    BY <1>2, <1>7 DEF Kinds
  <2> QED BY <1>2, <1>7, <2>1, <2>2 DEF Kinds
<1>11. begun' \in [Kinds -> Nat]
  <2>1. device'.frame \in Voice \cup {Still} /\ begun \in [Kinds -> Nat]
    BY <1>9 DEF Sound, Devices, IInv, DeviceTypeOK
  <2>2. CASE device'.frame \in {device.frame, Still}
    BY <1>1, <2>1, <2>2
  <2>3. CASE device'.frame \notin {device.frame, Still}
    <3>1. device'.frame[1] \in Kinds /\ device'.frame[2] \in Nat
      BY <2>1, <2>3 DEF Voice
    <3> QED BY <1>1, <2>1, <2>3, <3>1
  <2> QED BY <2>2, <2>3
<1>12. wake' \in Nat /\ \A t \in Deadlines(device') : wake' \in 1..t
  <2>1. CASE Deadlines(device') = {}
    BY <1>1, <2>1
  <2>2. CASE Deadlines(device') # {}
    <3> DEFINE w == CHOOSE t \in Deadlines(device') : \A u \in Deadlines(device') : t <= u
    <3>1. wake' = w
      BY <1>1, <2>2
    <3>2. w \in Nat /\ \A u \in Deadlines(device') : w \in 1..u
      BY <1>2, <1>9, <2>2, EarliestFacts
    <3> QED BY <3>1, <3>2
  <2> QED BY <2>1, <2>2
<1>13. silence' \in 0..Frame
  BY <1>1, SizeFacts DEF IInv, DeviceTypeOK
<1>14. setting' = setting /\ tick' = tick /\ toCall' = FALSE
  BY <1>1
<1>15. Deadlines(device)' = Deadlines(device')
  BY <1>14 DEF Deadlines
<1>16. DeviceTypeOK'
  BY <1>6, <1>8, <1>9, <1>10, <1>11, <1>12, <1>13, <1>14 DEF IInv, DeviceTypeOK, Sound, Devices
<1> QED BY <1>9, <1>12, <1>14, <1>15, <1>16 DEF IInv, Awaited, Nothing, Drained

LEMMA ElapsesInvariant == IInv /\ Elapses => IInv'
<1> SUFFICES ASSUME IInv, Elapses PROVE IInv'
  OBVIOUS
<1>1. \A n \in Nat : Before(n) \in Nat /\ Before(n) <= n /\ (n > 0 => Before(n) = n - 1)
  BY DEF Before
<1>2. device \in Devices /\ setting \in Settings /\ wake \in Nat /\ silence \in 0..Frame
  BY DEF IInv, DeviceTypeOK
<1>3. device' = [device EXCEPT !.left = Before(@), !.wait = Before(@), !.next = Before(@)]
  BY DEF Elapses
<1>4. /\ device'.left = Before(device.left) /\ device'.wait = Before(device.wait)
      /\ device'.next = Before(device.next) /\ device'.frame = device.frame
      /\ device'.queue = device.queue /\ device'.pending = device.pending
      /\ device'.armed = device.armed
  BY <1>2, <1>3 DEF Devices
<1>5. device' \in Devices
  <2>1. /\ Before(device.left) \in 0..Frame /\ Before(device.wait) \in Nat
        /\ Before(device.next) \in Nat
    BY <1>1, <1>2, SizeFacts DEF Devices
  <2> QED BY <1>2, <1>3, <2>1 DEF Devices
<1>6. Before(silence) \in 0..Frame
  BY <1>1, <1>2, SizeFacts
<1>7. tick' \in 0..LastTick
  BY SizeFacts DEF Elapses, IInv, DeviceTypeOK
<1>8. DeviceTypeOK'
  BY <1>1, <1>2, <1>4, <1>5, <1>6, <1>7 DEF IInv, DeviceTypeOK, Elapses
<1>9. Drained(device')
  BY <1>4 DEF IInv, Drained
<1>10. Awaited'
  <2> SUFFICES ASSUME ~toCall', NEW t \in Deadlines(device)' PROVE wake' \in 1..t
    BY DEF Awaited
  <2>1. ~toCall /\ wake # 1 /\ wake' = Before(wake) /\ setting' = setting
    BY DEF Elapses
  <2>2. PICK u \in Deadlines(device) : t = Before(u)
    BY <1>4, <2>1 DEF Deadlines
  <2>3. wake \in 1..u /\ u \in Nat
    BY <2>1, <1>2, SizeFacts DEF IInv, Awaited, Deadlines, Devices
  <2> QED BY <1>1, <1>2, <2>1, <2>2, <2>3
<1> QED BY <1>8, <1>9, <1>10 DEF IInv, Drained

LEMMA Invariant == DeviceSpec => []IInv
<1>1. IInv /\ [DeviceNext]_deviceVars => IInv'
  <2>1. IInv /\ UNCHANGED deviceVars => IInv'
    BY DEF IInv, DeviceTypeOK, Drained, Awaited, Deadlines, deviceVars
  <2> QED BY <2>1, CalledInvariant, ElapsesInvariant DEF DeviceNext
<1> QED BY <1>1, InitInvariant, PTL DEF DeviceSpec

-----------------------------------------------------------------------------
(* The theorems.                                                            *)

\* The state of a device is well typed, and its queue and its answer never
\* outgrow their buffers (uartcore_tx_push, uartdev_arm_response).
THEOREM DeviceTypes == DeviceSpec => []DeviceTypeOK
<1>1. IInv => DeviceTypeOK
  BY DEF IInv
<1> QED BY <1>1, Invariant, PTL

\* The one wake that a device asks for is enough, and a call more at an instant
\* already served does nothing (UartDevice_sync, uartdev_deadline).
THEOREM NothingTwice == DeviceSpec => []Settled
<1>1. IInv => Settled
  <2> SUFFICES ASSUME IInv, ~toCall, NEW n \in Sizes
               PROVE  Synced(device, <<>>, <<>>, Spoken("tick", n)) = device
    BY DEF Settled
  <2>1. Sound(device) /\ setting \in Settings
    BY DEF IInv, DeviceTypeOK, Sound
  <2>2. \A t \in Deadlines(device) : t # 0
    BY SizeFacts DEF IInv, Awaited
  <2>3. Nothing(device)
    BY <2>1, <2>2, SizeFacts DEF IInv, Nothing, Running, Deadlines, Sound, Devices
  <2> QED BY <2>1, <2>3, NothingChanges
<1> QED BY <1>1, Invariant, PTL

-----------------------------------------------------------------------------
(* Every byte once.                                                         *)

LEMMA PlacesFacts ==
    ASSUME NEW s \in Seq(Voice)
    PROVE  /\ Len(s) \in Nat /\ DOMAIN s = 1..Len(s)
           /\ \A i \in DOMAIN s : s[i][1] \in Kinds /\ s[i][2] \in Nat /\ s[i][2] > 0
<1>1. Len(s) \in Nat /\ DOMAIN s = 1..Len(s) /\ \A i \in 1..Len(s) : s[i] \in Voice
  BY LenProperties, ElementOfSeq
<1> QED BY <1>1 DEF Voice

LEMMA ConcatPlaces ==
    ASSUME NEW s \in Seq(Voice), NEW t \in Seq(Voice)
    PROVE  /\ s \o t \in Seq(Voice) /\ Len(s \o t) = Len(s) + Len(t)
           /\ DOMAIN (s \o t) = 1..(Len(s) + Len(t))
           /\ \A i \in 1..Len(s) : (s \o t)[i] = s[i]
           /\ \A i \in 1..Len(t) : (s \o t)[Len(s) + i] = t[i]
<1>1. /\ s \o t \in Seq(Voice) /\ Len(s \o t) = Len(s) + Len(t)
      /\ \A i \in 1..(Len(s) + Len(t)) :
           (s \o t)[i] = IF i <= Len(s) THEN s[i] ELSE t[i - Len(s)]
  BY ConcatProperties
<1>2. DOMAIN (s \o t) = 1..(Len(s) + Len(t))
  BY <1>1, LenProperties
<1> DEFINE m == Len(s)
           n == Len(t)
           u == s \o t
<1>3. m \in Nat /\ n \in Nat
  BY LenProperties
<1>4. \A i \in 1..(m + n) : u[i] = IF i <= m THEN s[i] ELSE t[i - m]
  BY <1>1
<1>5. (\A i \in 1..m : u[i] = s[i]) /\ (\A i \in 1..n : u[m + i] = t[i])
  <2> HIDE DEF m, n, u
  <2>1. \A i \in 1..m : u[i] = s[i]
    BY <1>3, <1>4
  <2>2. ASSUME NEW i \in 1..n PROVE u[m + i] = t[i]
    <3>1. m + i \in 1..(m + n) /\ ~(m + i <= m) /\ (m + i) - m = i
      BY <1>3
    <3>2. u[m + i] = t[(m + i) - m]
      BY <3>1, <1>4
    <3> QED BY <3>1, <3>2
  <2> QED BY <2>1, <2>2
<1> QED BY <1>1, <1>2, <1>5

LEMMA ConcatRanks ==
    ASSUME NEW s \in Seq(Voice), NEW t \in Seq(Voice), NEW kind
    PROVE  Ranks(s \o t, kind) = Ranks(s, kind) \cup Ranks(t, kind)
<1> DEFINE m == Len(s)
           n == Len(t)
           u == s \o t
<1>1. /\ m \in Nat /\ n \in Nat /\ DOMAIN s = 1..m /\ DOMAIN t = 1..n
      /\ DOMAIN u = 1..(m + n)
      /\ \A i \in 1..m : u[i] = s[i]
      /\ \A i \in 1..n : u[m + i] = t[i]
  BY ConcatPlaces, PlacesFacts
<1> HIDE DEF m, n, u
<1>2. \A i \in 1..(m + n) : i \in 1..m \/ \E j \in 1..n : i = m + j
  <2>1. \A i \in 1..(m + n) : i \in 1..m \/ (i - m \in 1..n /\ i = m + (i - m))
    BY <1>1
  <2> QED BY <2>1
<1>3. (\A i \in 1..m : i \in 1..(m + n)) /\ \A i \in 1..n : m + i \in 1..(m + n)
  BY <1>1
<1>4. Ranks(u, kind) \subseteq Ranks(s, kind) \cup Ranks(t, kind)
  <2> SUFFICES ASSUME NEW i \in 1..(m + n), u[i][1] = kind
               PROVE  u[i][2] \in Ranks(s, kind) \cup Ranks(t, kind)
    BY <1>1 DEF Ranks
  <2>1. CASE i \in 1..m
    BY <2>1, <1>1 DEF Ranks
  <2>2. CASE \E j \in 1..n : i = m + j
    BY <2>2, <1>1 DEF Ranks
  <2> QED BY <2>1, <2>2, <1>2
<1>5. Ranks(s, kind) \subseteq Ranks(u, kind)
  BY <1>1, <1>3 DEF Ranks
<1>6. Ranks(t, kind) \subseteq Ranks(u, kind)
  BY <1>1, <1>3 DEF Ranks
<1> QED BY <1>4, <1>5, <1>6 DEF u

LEMMA ConcatRising ==
    ASSUME NEW s \in Seq(Voice), NEW t \in Seq(Voice), NEW kind,
           Rising(s, kind), Rising(t, kind),
           \A x \in Ranks(s, kind), y \in Ranks(t, kind) : x < y
    PROVE  Rising(s \o t, kind)
<1> DEFINE m == Len(s)
           n == Len(t)
           u == s \o t
<1>1. /\ m \in Nat /\ n \in Nat /\ DOMAIN s = 1..m /\ DOMAIN t = 1..n
      /\ DOMAIN u = 1..(m + n)
      /\ \A i \in 1..m : u[i] = s[i]
      /\ \A i \in 1..n : u[m + i] = t[i]
  BY ConcatPlaces, PlacesFacts
<1> HIDE DEF m, n, u
<1> SUFFICES ASSUME NEW i \in 1..(m + n), NEW j \in 1..(m + n), i < j,
                    u[i][1] = kind, u[j][1] = kind
             PROVE  u[i][2] < u[j][2]
  BY <1>1 DEF Rising, u
<1>2. \A k \in 1..(m + n) : k \in 1..m \/ (k - m \in 1..n /\ k = m + (k - m))
  BY <1>1
<1>3. CASE j \in 1..m
  <2>1. i \in 1..m
    BY <1>1, <1>3
  <2> QED BY <2>1, <1>3, <1>1 DEF Rising
<1>4. CASE i \in 1..m /\ j \notin 1..m
  <2>1. PICK k \in 1..n : j = m + k
    BY <1>2, <1>4
  <2>2. u[i] = s[i] /\ u[j] = t[k]
    BY <1>1, <1>4, <2>1
  <2>3. s[i][2] \in Ranks(s, kind) /\ t[k][2] \in Ranks(t, kind)
    BY <1>1, <1>4, <2>1, <2>2 DEF Ranks
  <2> QED BY <2>2, <2>3
<1>5. CASE i \notin 1..m /\ j \notin 1..m
  <2>1. PICK k \in 1..n : i = m + k
    BY <1>2, <1>5
  <2>2. PICK l \in 1..n : j = m + l
    BY <1>2, <1>5
  <2>3. u[i] = t[k] /\ u[j] = t[l] /\ k < l
    BY <1>1, <2>1, <2>2
  <2>4. \A a, b \in 1..n : a < b /\ t[a][1] = kind /\ t[b][1] = kind => t[a][2] < t[b][2]
    BY <1>1 DEF Rising
  <2> QED BY <2>3, <2>4
<1> QED BY <1>3, <1>4, <1>5

\* What is left of a sequence is in order as the whole was.
LEMMA UptoRanks ==
    ASSUME NEW s \in Seq(Voice), NEW n \in Nat, NEW kind
    PROVE  /\ Ranks(Upto(s, n), kind) \subseteq Ranks(s, kind)
           /\ Rising(s, kind) => Rising(Upto(s, n), kind)
           /\ Len(s) <= n => Upto(s, n) = s
<1>1. CASE Len(s) <= n
  BY <1>1 DEF Upto
<1>2. CASE ~(Len(s) <= n)
  <2>1. /\ Upto(s, n) = SubSeq(s, 1, n) /\ Len(s) \in Nat /\ DOMAIN s = 1..Len(s)
        /\ \A i \in 1..n : s[i] \in Voice /\ i \in 1..Len(s)
    BY <1>2, PlacesFacts, LenProperties DEF Upto
  <2>2. /\ SubSeq(s, 1, n) \in Seq(Voice)
        /\ Len(SubSeq(s, 1, n)) = IF 1 <= n THEN n - 1 + 1 ELSE 0
        /\ \A i \in 1..(n - 1 + 1) : SubSeq(s, 1, n)[i] = s[1 + i - 1]
    BY <2>1, SubSeqProperties
  <2> DEFINE u == SubSeq(s, 1, n)
  <2>3. DOMAIN u = 1..n /\ \A i \in 1..n : u[i] = s[i]
    <3>1. DOMAIN u = 1..Len(u) /\ Len(u) = n
      BY <2>2, LenProperties
    <3>2. \A i \in 1..n : i \in 1..(n - 1 + 1) /\ 1 + i - 1 = i
      OBVIOUS
    <3> QED BY <2>2, <3>1, <3>2
  <2> HIDE DEF u
  <2>4. Ranks(u, kind) \subseteq Ranks(s, kind)
    BY <2>1, <2>3 DEF Ranks
  <2>5. Rising(s, kind) => Rising(u, kind)
    BY <2>1, <2>3 DEF Rising
  <2> QED BY <2>1, <2>4, <2>5, <1>2 DEF u
<1> QED BY <1>1, <1>2

LEMMA SpokenRanks ==
    ASSUME NEW kind \in Kinds, NEW other \in Kinds, NEW n \in Nat, made \in [Kinds -> Nat]
    PROVE  /\ Rising(Spoken(kind, n), other)
           /\ Ranks(Spoken(kind, n), other)
                = IF other = kind THEN (made[kind] + 1)..(made[kind] + n) ELSE {}
<1> DEFINE m == made[kind]
           s == [i \in 1..n |-> <<kind, m + i>>]
<1>1. m \in Nat /\ Spoken(kind, n) = s
  BY DEF Spoken
<1>2. DOMAIN s = 1..n /\ \A i \in 1..n : s[i][1] = kind /\ s[i][2] = m + i
  OBVIOUS
<1> HIDE DEF m, s
<1>3. Rising(s, other)
  BY <1>1, <1>2 DEF Rising
<1>4. CASE other = kind
  <2>1. Ranks(s, kind) \subseteq (m + 1)..(m + n)
    BY <1>1, <1>2 DEF Ranks
  <2>2. ASSUME NEW r \in (m + 1)..(m + n) PROVE r \in Ranks(s, kind)
    <3>1. r - m \in 1..n /\ m + (r - m) = r
      BY <1>1
    <3>2. s[r - m][1] = kind /\ s[r - m][2] = r
      BY <3>1, <1>2
    <3> QED BY <3>1, <3>2, <1>2 DEF Ranks
  <2> QED BY <1>1, <1>3, <1>4, <2>1, <2>2 DEF m
<1>5. CASE other # kind
  <2>1. Ranks(s, other) = {}
    BY <1>2, <1>5 DEF Ranks
  <2> QED BY <1>1, <1>3, <1>5, <2>1
<1> QED BY <1>4, <1>5

\* The first byte leaves: the others of its kind follow it.
LEMMA HeadRanks ==
    ASSUME NEW s \in Seq(Voice), s # <<>>, NEW kind, Rising(s, kind)
    PROVE  /\ Rising(Tail(s), kind)
           /\ Head(s)[1] # kind => Ranks(s, kind) = Ranks(Tail(s), kind)
           /\ Head(s)[1] = kind =>
                /\ Ranks(s, kind) = Ranks(Tail(s), kind) \cup {Head(s)[2]}
                /\ \A x \in Ranks(Tail(s), kind) : Head(s)[2] < x
<1> DEFINE m == Len(s)
           t == Tail(s)
           h == Head(s)
<1>1. m \in Nat /\ m > 0 /\ DOMAIN s = 1..m
  BY PlacesFacts, EmptySeq
<1>2. DOMAIN t = 1..(m - 1) /\ \A i \in 1..(m - 1) : t[i] = s[i + 1]
  <2>1. t \in Seq(Voice) /\ Len(t) = Len(s) - 1 /\ \A i \in 1..Len(t) : t[i] = s[i + 1]
    BY HeadTailProperties
  <2> QED BY <2>1, PlacesFacts
<1>3. h = s[1]
  BY HeadTailProperties
<1> HIDE DEF m, t, h
<1>4. \A i \in 1..(m - 1) : i + 1 \in 1..m /\ 1 < i + 1
  BY <1>1
<1>5. Rising(t, kind)
  <2> SUFFICES ASSUME NEW i \in 1..(m - 1), NEW j \in 1..(m - 1), i < j,
                      t[i][1] = kind, t[j][1] = kind
               PROVE  t[i][2] < t[j][2]
    BY <1>2 DEF Rising
  <2>1. i + 1 < j + 1
    BY <1>1
  <2>2. \A a, b \in 1..m : a < b /\ s[a][1] = kind /\ s[b][1] = kind => s[a][2] < s[b][2]
    BY <1>1 DEF Rising
  <2>3. t[i] = s[i + 1] /\ t[j] = s[j + 1] /\ i + 1 \in 1..m /\ j + 1 \in 1..m
    BY <1>2, <1>4
  <2> QED BY <2>1, <2>2, <2>3
<1>6. ASSUME h[1] = kind, NEW x \in Ranks(t, kind) PROVE h[2] < x
  <2>1. PICK i \in 1..(m - 1) : t[i][1] = kind /\ x = t[i][2]
    BY <1>2 DEF Ranks
  <2>2. 1 \in 1..m
    BY <1>1
  <2> QED BY <2>1, <2>2, <1>1, <1>2, <1>3, <1>4, <1>6 DEF Rising
<1>7. Ranks(t, kind) \subseteq Ranks(s, kind)
  BY <1>1, <1>2, <1>4 DEF Ranks
<1>8. h[1] = kind => h[2] \in Ranks(s, kind)
  <2>1. 1 \in 1..m
    BY <1>1
  <2> QED BY <2>1, <1>1, <1>3 DEF Ranks
<1>9. ASSUME NEW x \in Ranks(s, kind) PROVE x \in Ranks(t, kind) \/ (h[1] = kind /\ x = h[2])
  <2>1. PICK i \in 1..m : s[i][1] = kind /\ x = s[i][2]
    BY <1>1 DEF Ranks
  <2>2. CASE i = 1
    BY <2>1, <2>2, <1>3
  <2>3. CASE i # 1
    <3>1. i - 1 \in 1..(m - 1) /\ (i - 1) + 1 = i
      BY <1>1, <2>3
    <3>2. t[i - 1] = s[i]
      BY <3>1, <1>2
    <3> QED BY <3>1, <3>2, <2>1, <1>2 DEF Ranks
  <2> QED BY <2>2, <2>3
<1> QED BY <1>5, <1>6, <1>7, <1>8, <1>9 DEF t, h

\* The last byte of a kind whose frame has begun, of a device that found b begun.
Reached(d, kind, b) == IF d.frame # Still /\ d.frame[1] = kind THEN d.frame[2] ELSE b

\* What a device still owes of a kind of which m bytes were made: they wait in
\* their order, in the queue and then in the answer, and none is missing if the
\* kind is whole.
Owed(d, kind, b, m, whole) ==
    LET queued == Ranks(d.queue, kind)
        held == Ranks(d.pending, kind)
        toCome == (Reached(d, kind, b) + 1)..m
    IN /\ Rising(d.queue, kind) /\ Rising(d.pending, kind)
       /\ \A x \in queued, y \in held : x < y
       /\ Reached(d, kind, b) \in Nat /\ Reached(d, kind, b) <= m
       /\ queued \cup held \subseteq toCome
       /\ whole => toCome \subseteq queued \cup held
       /\ kind # "reply" => held = {}

LEMMA EmptyRanks == \A kind : Ranks(<<>>, kind) = {} /\ Rising(<<>>, kind)
BY DEF Ranks, Rising

\* Bytes join the queue, before an answer that waits.
LEMMA QueuesOwed ==
    ASSUME NEW d, Sound(d), NEW bytes \in Seq(Voice), NEW kind \in Kinds, NEW b \in Nat,
           NEW m \in Nat, NEW n \in Nat, NEW whole, NEW still,
           Owed(d, kind, b, m, whole), Rising(bytes, kind),
           Ranks(bytes, kind) = (m + 1)..(m + n), n > 0 => kind # "reply",
           still => whole /\ (n > 0 => Len(bytes) <= Room(d))
    PROVE  /\ Owed(Queues(d, bytes), kind, b, m + n, still)
           /\ Queues(d, bytes).pending = d.pending
<1> DEFINE u == Upto(bytes, Room(d))
           q == d.queue \o u
           e == Queues(d, bytes)
<1>1. Room(d) \in Nat /\ d.queue \in Seq(Voice) /\ u \in Seq(Voice)
  <2>1. Room(d) \in Nat
    BY SizeFacts DEF Room, Sound, Devices
  <2> QED BY <2>1, UptoType DEF Sound, Devices
<1>2. /\ Ranks(u, kind) \subseteq (m + 1)..(m + n) /\ Rising(u, kind)
      /\ Len(bytes) <= Room(d) => Ranks(u, kind) = (m + 1)..(m + n)
  BY <1>1, UptoRanks
<1>3. e.queue = q /\ e.pending = d.pending /\ e.frame = d.frame
  <2>1. e = [d EXCEPT !.queue = q]
    BY DEF Queues
  <2> HIDE DEF q, e
  <2> QED BY <2>1 DEF Sound, Devices
<1> HIDE DEF u
<1>4. Ranks(q, kind) = Ranks(d.queue, kind) \cup Ranks(u, kind)
  BY <1>1, ConcatRanks
<1> DEFINE queued == Ranks(d.queue, kind)
           held == Ranks(d.pending, kind)
           added == Ranks(u, kind)
           low == Reached(d, kind, b)
<1>5. /\ Rising(d.queue, kind) /\ Rising(d.pending, kind)
      /\ \A x \in queued, y \in held : x < y
      /\ low \in Nat /\ low <= m
      /\ queued \cup held \subseteq (low + 1)..m
      /\ whole => (low + 1)..m \subseteq queued \cup held
      /\ kind # "reply" => held = {}
  BY DEF Owed
<1>6. Reached(e, kind, b) = low
  BY <1>3 DEF Reached
<1>7. Rising(q, kind)
  <2> HIDE DEF added, queued, held, low
  <2>1. \A x \in queued, y \in added : x < y
    BY <1>2, <1>5 DEF added
  <2> QED BY <2>1, <1>1, <1>2, <1>5, ConcatRising DEF queued, added
<1>8. \A x \in queued \cup added, y \in held : x < y
  <2> HIDE DEF queued, held, low
  <2> QED BY <1>2, <1>5
<1>9. (queued \cup added) \cup held \subseteq (low + 1)..(m + n) /\ low <= m + n
  <2> HIDE DEF queued, held, low
  <2> QED BY <1>2, <1>5
<1>10. still => (low + 1)..(m + n) \subseteq (queued \cup added) \cup held
  <2> HIDE DEF queued, held, low, added
  <2>1. CASE n = 0
    BY <2>1, <1>5
  <2>2. CASE n > 0
    BY <2>2, <1>2, <1>5 DEF added
  <2> QED BY <2>1, <2>2
<1>11. Owed(e, kind, b, m + n, still)
  <2> HIDE DEF e, q, queued, held, added, low
  <2>1. Ranks(e.queue, kind) = queued \cup added /\ Ranks(e.pending, kind) = held
    BY <1>3, <1>4 DEF queued, added, held
  <2> QED BY <1>3, <1>5, <1>6, <1>7, <1>8, <1>9, <1>10, <2>1 DEF Owed
<1> QED BY <1>3, <1>11

\* A byte whose frame begins is the next of its kind.
LEMMA KicksOwed ==
    ASSUME NEW d, Sound(d), NEW kind \in Kinds, NEW b \in Nat, NEW m \in Nat, NEW whole,
           Owed(d, kind, b, m, whole)
    PROVE  Owed(Kicks(d), kind, b, m, whole)
<1>1. CASE d.frame # Still \/ d.queue = <<>>
  BY <1>1 DEF Kicks
<1>2. CASE d.frame = Still /\ d.queue # <<>>
  <2> DEFINE h == Head(d.queue)
             q == Tail(d.queue)
             e == Kicks(d)
  <2>1. d.queue \in Seq(Voice) /\ h \in Voice
    BY <1>2, HeadTailProperties DEF Sound, Devices
  <2>2. e.frame = h /\ e.queue = q /\ e.pending = d.pending
    <3>1. e = [d EXCEPT !.frame = h, !.left = Frame, !.queue = q]
      BY <1>2 DEF Kicks
    <3> HIDE DEF e, h, q
    <3> QED BY <3>1 DEF Sound, Devices
  <2>3. h # Still /\ h[2] \in Nat
    BY <2>1, StillIsNoVoice DEF Voice
  <2>4. Reached(d, kind, b) = b
    BY <1>2 DEF Reached
  <2> DEFINE queued == Ranks(d.queue, kind)
             rest == Ranks(q, kind)
             held == Ranks(d.pending, kind)
  <2>5. /\ Rising(d.queue, kind) /\ Rising(d.pending, kind)
        /\ \A x \in queued, y \in held : x < y
        /\ b <= m
        /\ queued \cup held \subseteq (b + 1)..m
        /\ whole => (b + 1)..m \subseteq queued \cup held
        /\ kind # "reply" => held = {}
    BY <2>4 DEF Owed
  <2>6. /\ Rising(q, kind)
        /\ h[1] # kind => queued = rest
        /\ h[1] = kind => queued = rest \cup {h[2]} /\ \A x \in rest : h[2] < x
    BY <1>2, <2>1, <2>5, HeadRanks
  <2> HIDE DEF queued, rest, held
  <2>7. CASE h[1] # kind
    <3>1. Reached(e, kind, b) = b
      BY <2>2, <2>7 DEF Reached
    <3>2. Owed(e, kind, b, m, whole)
      <4> HIDE DEF e, h, q
      <4>1. Ranks(e.queue, kind) = rest /\ Ranks(e.pending, kind) = held
        BY <2>2 DEF rest, held
      <4> QED BY <2>2, <2>5, <2>6, <2>7, <3>1, <4>1 DEF Owed
    <3> QED BY <3>2
  <2>8. CASE h[1] = kind
    <3>1. Reached(e, kind, b) = h[2]
      BY <2>2, <2>3, <2>8 DEF Reached
    <3> DEFINE low == h[2]
    <3>2. /\ queued = rest \cup {low} /\ low \in Nat
          /\ \A x \in rest : low < x
          /\ \A y \in held : low < y
      BY <2>3, <2>5, <2>6, <2>8
    <3> HIDE DEF e, h, q, low
    <3>3. low <= m /\ rest \cup held \subseteq (low + 1)..m
      BY <2>5, <3>2
    <3>4. whole => (low + 1)..m \subseteq rest \cup held
      BY <2>5, <3>2
    <3>5. \A x \in rest, y \in held : x < y
      BY <2>5, <3>2
    <3>6. Ranks(e.queue, kind) = rest /\ Ranks(e.pending, kind) = held
      BY <2>2 DEF rest, held
    <3>7. Reached(e, kind, b) = low
      BY <3>1 DEF low
    <3>8. Owed(e, kind, b, m, whole)
      BY <2>2, <2>5, <2>6, <3>2, <3>3, <3>4, <3>5, <3>6, <3>7 DEF Owed
    <3> QED BY <3>8 DEF e
  <2> QED BY <2>7, <2>8
<1> QED BY <1>1, <1>2

LEMMA AdvancesOwed ==
    ASSUME NEW d, Sound(d), NEW kind \in Kinds, NEW b \in Nat, NEW m \in Nat, NEW whole,
           Owed(d, kind, b, m, whole), d.frame # Still /\ d.frame[1] = kind => d.frame[2] = b
    PROVE  /\ Owed(Advances(d), kind, b, m, whole)
           /\ Advances(d).armed = d.armed /\ Advances(d).pending = d.pending
           /\ Advances(d).next = d.next
<1>1. CASE d.frame = Still \/ d.left > 0
  BY <1>1 DEF Advances
<1>2. CASE ~(d.frame = Still \/ d.left > 0)
  <2> DEFINE e == [d EXCEPT !.frame = Still]
  <2>1. /\ Sound(e) /\ Running(e) /\ e.frame = Still /\ e.queue = d.queue
        /\ e.pending = d.pending /\ e.armed = d.armed /\ e.next = d.next
    BY DEF Sound, Devices, Running
  <2>2. Advances(d) = Kicks(e)
    BY <1>2 DEF Advances
  <2> HIDE DEF e
  <2>3. Reached(e, kind, b) = Reached(d, kind, b)
    BY <2>1 DEF Reached
  <2>4. Owed(e, kind, b, m, whole)
    BY <2>1, <2>3 DEF Owed
  <2> QED BY <2>1, <2>2, <2>4, KicksOwed, KicksFacts
<1> QED BY <1>1, <1>2

\* A second answer follows the first, within the size of the buffer.
LEMMA ArmsOwed ==
    ASSUME NEW d, Sound(d), NEW reply \in Seq(Voice), NEW kind \in Kinds, NEW b \in Nat,
           NEW m \in Nat, NEW n \in Nat, NEW whole, NEW still, setting \in Settings,
           Owed(d, kind, b, m, whole), Rising(reply, kind),
           Ranks(reply, kind) = (m + 1)..(m + n), kind # "reply" => n = 0,
           ~d.armed => d.pending = <<>>,
           still => whole
                    /\ (n > 0 => (IF d.armed THEN Len(d.pending) ELSE 0) + Len(reply) <= RoomSize),
           kind = "reply" => n = Len(reply)
    PROVE  /\ Owed(Arms(d, reply), kind, b, m + n, still)
           /\ ~Arms(d, reply).armed => Arms(d, reply).pending = <<>>
<1> DEFINE e == Arms(d, reply)
           p == d.pending \o reply
           u == Upto(p, RoomSize)
<1>1. d.pending \in Seq(Voice) /\ p \in Seq(Voice) /\ u \in Seq(Voice)
  <2>1. d.pending \in Seq(Voice) /\ p \in Seq(Voice)
    BY ConcatProperties DEF Sound, Devices
  <2> QED BY <2>1, UptoType, SizeFacts
<1>2. Ranks(p, kind) = Ranks(d.pending, kind) \cup Ranks(reply, kind)
  BY <1>1, ConcatRanks
<1>3. Len(p) = Len(d.pending) + Len(reply) /\ Len(reply) \in Nat /\ Len(d.pending) \in Nat
  BY <1>1, ConcatProperties, LenProperties
<1> DEFINE queued == Ranks(d.queue, kind)
           held == Ranks(d.pending, kind)
           low == Reached(d, kind, b)
<1>4. /\ Rising(d.queue, kind) /\ Rising(d.pending, kind)
      /\ \A x \in queued, y \in held : x < y
      /\ low \in Nat /\ low <= m
      /\ queued \cup held \subseteq (low + 1)..m
      /\ whole => (low + 1)..m \subseteq queued \cup held
      /\ kind # "reply" => held = {}
  BY DEF Owed
<1>5. Rising(p, kind)
  <2>1. \A x \in held, y \in Ranks(reply, kind) : x < y
    <3> HIDE DEF queued, held, low
    <3> QED BY <1>4
  <2> QED BY <2>1, <1>1, <1>4, ConcatRising
<1>6. /\ Ranks(u, kind) \subseteq held \cup (m + 1)..(m + n)
      /\ Rising(u, kind)
      /\ Len(p) <= RoomSize => Ranks(u, kind) = held \cup (m + 1)..(m + n)
  BY <1>1, <1>2, <1>5, UptoRanks, SizeFacts
<1>7. e.queue = d.queue /\ e.frame = d.frame
  BY ArmsFacts
<1>8. Reached(e, kind, b) = low
  BY <1>7 DEF Reached
<1>9. CASE reply = <<>>
  <2>1. e = d /\ Ranks(reply, kind) = {}
    BY <1>9, EmptyRanks DEF Arms
  <2>2. m + 1 \notin (m + 1)..(m + n)
    BY <2>1
  <2>3. n = 0 /\ m + n = m
    BY <2>2
  <2>4. Owed(d, kind, b, m, still)
    BY DEF Owed
  <2> QED BY <2>1, <2>3, <2>4
<1>10. CASE reply # <<>>
  <2>1. e.pending = u /\ e.armed
    <3>1. CASE d.armed
      <4>1. e = [d EXCEPT !.pending = u]
        BY <1>10, <3>1 DEF Arms
      <4> HIDE DEF e, u
      <4> QED BY <3>1, <4>1 DEF Sound, Devices
    <3>2. CASE ~d.armed
      <4>1. p = reply
        BY <3>2, ConcatEmptySeq
      <4>2. e = [d EXCEPT !.armed = TRUE, !.wait = setting.delay, !.pending = u]
        BY <1>10, <3>2, <4>1 DEF Arms
      <4> HIDE DEF e, u
      <4> QED BY <4>2 DEF Sound, Devices
    <3> QED BY <3>1, <3>2
  <2> DEFINE added == Ranks(u, kind)
  <2>2. n > 0 /\ still => Len(p) <= RoomSize
    <3>1. CASE d.armed
      BY <3>1, <1>3
    <3>2. CASE ~d.armed
      <4>1. Len(d.pending) = 0
        BY <3>2
      <4> QED BY <3>2, <4>1, <1>3
    <3> QED BY <3>1, <3>2
  <2>3. kind = "reply" => n > 0
    BY <1>10, <1>3, EmptySeq
  <2> HIDE DEF queued, held, low, added, u, p
  <2>4. kind # "reply" => added = {}
    BY <1>4, <1>6 DEF added
  <2>5. \A x \in queued, y \in added : x < y
    BY <1>4, <1>6 DEF added
  <2>6. queued \cup added \subseteq (low + 1)..(m + n) /\ low <= m + n
    BY <1>4, <1>6 DEF added
  <2>7. still => (low + 1)..(m + n) \subseteq queued \cup added
    <3>1. CASE n > 0
      BY <3>1, <1>4, <1>6, <2>2 DEF added
    <3>2. CASE n = 0
      <4>1. kind # "reply" /\ held = {}
        BY <3>2, <2>3, <1>4
      <4> QED BY <3>2, <4>1, <1>4
    <3> QED BY <3>1, <3>2
  <2>8. Ranks(e.queue, kind) = queued /\ Ranks(e.pending, kind) = added
    BY <1>7, <2>1 DEF queued, added
  <2>9. Rising(e.queue, kind) /\ Rising(e.pending, kind) /\ Reached(e, kind, b) = low
    BY <1>4, <1>6, <1>7, <1>8, <2>1 DEF low
  <2>10. Owed(e, kind, b, m + n, still)
    <3> HIDE DEF e
    <3> QED BY <1>4, <2>4, <2>5, <2>6, <2>7, <2>8, <2>9 DEF Owed
  <2> QED BY <2>1, <2>10
<1> QED BY <1>9, <1>10

\* The answer leaves for the queue, behind what was there.
LEMMA AnswersOwed ==
    ASSUME NEW d, Sound(d), Running(d), NEW kind \in Kinds, NEW b \in Nat, NEW m \in Nat,
           NEW whole, NEW still,
           Owed(d, kind, b, m, whole), ~d.armed => d.pending = <<>>,
           still => whole,
           still /\ kind = "reply" /\ d.armed /\ d.wait = 0 => Len(d.pending) <= Room(d)
    PROVE  /\ Owed(Answers(d), kind, b, m, still)
           /\ ~Answers(d).armed => Answers(d).pending = <<>>
           /\ Answers(d).next = d.next
<1>1. CASE ~(d.armed /\ d.wait = 0)
  <2>1. Answers(d) = d
    BY <1>1 DEF Answers
  <2>2. Owed(d, kind, b, m, still)
    BY DEF Owed
  <2> QED BY <2>1, <2>2
<1>2. CASE d.armed /\ d.wait = 0
  <2> DEFINE u == Upto(d.pending, Room(d))
             q == d.queue \o u
             e == [d EXCEPT !.queue = q, !.armed = FALSE, !.pending = <<>>]
             g == Queues(d, d.pending)
             k == Kicks(g)
             queued == Ranks(d.queue, kind)
             held == Ranks(d.pending, kind)
             moved == Ranks(u, kind)
             low == Reached(d, kind, b)
  <2>1. /\ Room(d) \in Nat /\ d.queue \in Seq(Voice) /\ d.pending \in Seq(Voice)
        /\ u \in Seq(Voice)
    <3>1. Room(d) \in Nat /\ d.pending \in Seq(Voice)
      BY SizeFacts DEF Room, Sound, Devices
    <3> QED BY <3>1, UptoType DEF Sound, Devices
  <2>2. /\ moved \subseteq held
        /\ Rising(d.pending, kind) => Rising(u, kind)
        /\ Len(d.pending) <= Room(d) => moved = held
    BY <2>1, UptoRanks
  <2>3. /\ Rising(d.queue, kind) /\ Rising(d.pending, kind)
        /\ \A x \in queued, y \in held : x < y
        /\ low \in Nat /\ low <= m
        /\ queued \cup held \subseteq (low + 1)..m
        /\ whole => (low + 1)..m \subseteq queued \cup held
        /\ kind # "reply" => held = {}
    BY DEF Owed
  <2>4. /\ Ranks(q, kind) = queued \cup moved
        /\ Rising(q, kind)
    <3>1. \A x \in queued, y \in moved : x < y
      BY <2>2, <2>3
    <3>2. Rising(u, kind)
      BY <2>2, <2>3
    <3> HIDE DEF u
    <3> QED BY <2>1, <2>3, <3>1, <3>2, ConcatRanks, ConcatRising
  <2>5. Sound(g) /\ Running(g)
    BY <2>1, QueuesFacts DEF Running
  <2>6. g = [d EXCEPT !.queue = q]
    BY DEF Queues
  <2>7. /\ e.queue = q /\ e.pending = <<>> /\ e.frame = d.frame /\ e.left = d.left
        /\ e \in Devices /\ Len(q) <= QueueSize
    <3>1. q \in Seq(Voice) /\ Len(q) <= QueueSize
      <4>1. g.queue = q
        BY <2>6 DEF Sound, Devices
      <4> HIDE DEF g, q
      <4> QED BY <2>5, <4>1 DEF Sound, Devices
    <3>2. <<>> \in Seq(Voice) /\ FALSE \in BOOLEAN
      OBVIOUS
    <3> HIDE DEF q
    <3> QED BY <3>1, <3>2 DEF Sound, Devices
  <2>8. Sound(e)
    <3> HIDE DEF e, q
    <3>1. Len(e.pending) <= RoomSize
      BY <2>7, SizeFacts
    <3> QED BY <2>7, <3>1 DEF Sound
  <2>9. Reached(e, kind, b) = low
    BY <2>7 DEF Reached
  <2>10. Owed(e, kind, b, m, still)
    <3> HIDE DEF e, q, u
    <3>1. Ranks(e.queue, kind) = queued \cup moved /\ Ranks(e.pending, kind) = {}
      BY <2>4, <2>7, EmptyRanks
    <3>2. Rising(e.queue, kind) /\ Rising(e.pending, kind)
      BY <2>4, <2>7, EmptyRanks
    <3> HIDE DEF queued, held, moved, low
    <3>3. still => moved = held
      <4>1. CASE kind = "reply"
        BY <1>2, <2>2, <4>1
      <4>2. CASE kind # "reply"
        BY <2>2, <2>3, <4>2
      <4> QED BY <4>1, <4>2
    <3> QED BY <2>2, <2>3, <2>9, <3>1, <3>2, <3>3 DEF Owed
  <2>11. Answers(d) = Kicks(e) /\ Kicks(e).pending = <<>> /\ Kicks(e).next = d.next
    <3>1. Answers(d) = [k EXCEPT !.armed = FALSE, !.pending = <<>>]
      BY <1>2 DEF Answers
    <3>2. /\ g.frame = d.frame /\ g.queue = q /\ e.frame = d.frame /\ e.queue = q
          /\ e = [g EXCEPT !.armed = FALSE, !.pending = <<>>]
          /\ e.next = d.next
      <4> HIDE DEF g, q
      <4> QED BY <2>6 DEF Sound, Devices
    <3>3. CASE d.frame # Still \/ q = <<>>
      <4>1. k = g /\ Kicks(e) = e
        BY <3>2, <3>3 DEF Kicks
      <4> HIDE DEF e, g, q
      <4> QED BY <2>7, <3>1, <3>2, <4>1
    <3>4. CASE ~(d.frame # Still \/ q = <<>>)
      <4> DEFINE h == Head(q)
                 t == Tail(q)
      <4>1. /\ k = [g EXCEPT !.frame = h, !.left = Frame, !.queue = t]
            /\ Kicks(e) = [e EXCEPT !.frame = h, !.left = Frame, !.queue = t]
        BY <3>2, <3>4 DEF Kicks
      <4> HIDE DEF h, t, e, g, q, k
      <4>2. g \in Devices /\ e \in Devices
        BY <2>5, <2>7 DEF Sound
      <4>3. [k EXCEPT !.armed = FALSE, !.pending = <<>>]
              = [e EXCEPT !.frame = h, !.left = Frame, !.queue = t]
        BY <3>2, <4>1, <4>2 DEF Devices
      <4>4. Kicks(e).pending = e.pending /\ Kicks(e).next = e.next
        BY <4>1, <4>2 DEF Devices
      <4> QED BY <2>7, <3>1, <3>2, <4>1, <4>3, <4>4
    <3> QED BY <3>3, <3>4
  <2> HIDE DEF e
  <2> QED BY <2>8, <2>10, <2>11, KicksOwed
<1> QED BY <1>1, <1>2

\* A period that nobody waits for says nothing.
LEMMA SpeaksOwed ==
    ASSUME NEW d, Sound(d), Running(d), NEW spoken \in Seq(Voice), NEW kind \in Kinds,
           NEW b \in Nat, NEW m \in Nat, NEW n \in Nat, NEW whole, NEW still,
           setting \in Settings,
           Owed(d, kind, b, m, whole), ~d.armed => d.pending = <<>>,
           Rising(spoken, kind), Ranks(spoken, kind) = (m + 1)..(m + n),
           n > 0 => kind # "reply" /\ Due(d),
           still => whole /\ (n > 0 => Len(spoken) <= Room(d))
    PROVE  /\ Owed(Speaks(d, spoken), kind, b, m + n, still)
           /\ ~Speaks(d, spoken).armed => Speaks(d, spoken).pending = <<>>
<1>1. CASE ~Due(d)
  <2>1. Speaks(d, spoken) = d /\ n = 0 /\ m + n = m
    BY <1>1 DEF Speaks
  <2>2. Owed(d, kind, b, m, still)
    BY DEF Owed
  <2> QED BY <2>1, <2>2
<1>2. CASE Due(d)
  <2> DEFINE e == Queues(d, spoken)
             k == Kicks(e)
             s == Speaks(d, spoken)
  <2>1. Sound(e) /\ Running(e) /\ e.armed = d.armed
    BY QueuesFacts DEF Running
  <2>2. Owed(e, kind, b, m + n, still) /\ e.pending = d.pending
    BY QueuesOwed
  <2> HIDE DEF e
  <2>3. Owed(k, kind, b, m + n, still)
    BY <2>1, <2>2, KicksOwed
  <2>4. Sound(k) /\ k.armed = d.armed /\ k.pending = d.pending
    BY <2>1, <2>2, KicksFacts
  <2>5. s = [k EXCEPT !.next = setting.period]
    BY <1>2 DEF Speaks, e
  <2> HIDE DEF k, s
  <2>6. /\ s.queue = k.queue /\ s.pending = k.pending /\ s.frame = k.frame
        /\ s.armed = k.armed
    BY <2>4, <2>5 DEF Sound, Devices
  <2>7. Reached(s, kind, b) = Reached(k, kind, b)
    BY <2>6 DEF Reached
  <2>8. Owed(s, kind, b, m + n, still)
    BY <2>3, <2>6, <2>7 DEF Owed
  <2> QED BY <2>4, <2>6, <2>8 DEF s
<1> QED BY <1>1, <1>2

\* A frame in progress is the last that has begun of its kind, an answer that
\* waits is armed, and every kind is owed what was made of it and has not left.
Once ==
    /\ device.frame # Still => begun[device.frame[1]] = device.frame[2]
    /\ ~device.armed => device.pending = <<>>
    /\ \A kind \in Kinds : Owed(device, kind, begun[kind], made[kind], kind \notin cut)

OnceInv == IInv /\ Once

LEMMA OwedOnce ==
    ASSUME NEW d, Sound(d), NEW kind, NEW b \in Nat, NEW m \in Nat, NEW whole,
           Owed(d, kind, b, m, whole), Reached(d, kind, b) = b
    PROVE  LET waiting == d.queue \o d.pending
           IN  /\ Rising(waiting, kind) /\ b <= m
               /\ Ranks(waiting, kind) \subseteq (b + 1)..m
               /\ whole => Ranks(waiting, kind) = (b + 1)..m
<1>1. d.queue \in Seq(Voice) /\ d.pending \in Seq(Voice)
  BY DEF Sound, Devices
<1> DEFINE w == d.queue \o d.pending
<1>2. /\ Rising(d.queue, kind) /\ Rising(d.pending, kind)
      /\ \A x \in Ranks(d.queue, kind), y \in Ranks(d.pending, kind) : x < y
      /\ b <= m
      /\ Ranks(d.queue, kind) \cup Ranks(d.pending, kind) \subseteq (b + 1)..m
      /\ whole => (b + 1)..m \subseteq Ranks(d.queue, kind) \cup Ranks(d.pending, kind)
  BY DEF Owed
<1>3. Ranks(w, kind) = Ranks(d.queue, kind) \cup Ranks(d.pending, kind)
  BY <1>1, ConcatRanks
<1>4. Rising(w, kind)
  BY <1>1, <1>2, ConcatRising
<1> HIDE DEF w
<1>5. whole => Ranks(w, kind) = (b + 1)..m
  BY <1>2, <1>3
<1> QED BY <1>2, <1>3, <1>4, <1>5 DEF w

LEMMA OnceEach == OnceInv => EachOnce
<1> SUFFICES ASSUME OnceInv, NEW kind \in Kinds
             PROVE  LET waiting == device.queue \o device.pending
                        toCome == (begun[kind] + 1)..made[kind]
                    IN /\ Rising(waiting, kind) /\ begun[kind] <= made[kind]
                       /\ Ranks(waiting, kind) \subseteq toCome
                       /\ kind \notin cut => Ranks(waiting, kind) = toCome
  BY DEF EachOnce
<1> DEFINE b == begun[kind]
           m == made[kind]
           whole == kind \notin cut
<1>1. b \in Nat /\ m \in Nat /\ Sound(device)
  BY DEF OnceInv, IInv, DeviceTypeOK, Sound
<1>2. Owed(device, kind, b, m, whole) /\ Reached(device, kind, b) = b
  BY DEF OnceInv, Once, Reached
<1> HIDE DEF b, m, whole
<1>3. LET waiting == device.queue \o device.pending
      IN  /\ Rising(waiting, kind) /\ b <= m
          /\ Ranks(waiting, kind) \subseteq (b + 1)..m
          /\ whole => Ranks(waiting, kind) = (b + 1)..m
  BY <1>1, <1>2, OwedOnce
<1> QED BY <1>3 DEF b, m, whole

LEMMA InitOnce == DeviceInit => OnceInv
<1> SUFFICES ASSUME DeviceInit PROVE Once
  BY InitInvariant DEF OnceInv
<1>1. device.frame = Still /\ device.queue = <<>> /\ device.pending = <<>>
  BY DEF DeviceInit
<1>2. ASSUME NEW kind \in Kinds
      PROVE  Owed(device, kind, begun[kind], made[kind], kind \notin cut)
  <2>1. begun[kind] = 0 /\ made[kind] = 0 /\ Reached(device, kind, 0) = 0
    BY <1>1 DEF DeviceInit, Reached
  <2>2. Ranks(device.queue, kind) = {} /\ Ranks(device.pending, kind) = {}
        /\ Rising(device.queue, kind) /\ Rising(device.pending, kind)
    BY <1>1, EmptyRanks
  <2> QED BY <2>1, <2>2 DEF Owed
<1> QED BY <1>1, <1>2 DEF Once

\* A call adds to what is owed of a kind what it makes of it, unless the call
\* says that it had no room.
LEMMA SyncedOwed ==
    ASSUME IInv, Once, NEW kind \in Kinds, NEW answer \in Nat, NEW says \in Nat, NEW heard \in Nat,
           says > 0 => Due(device), NEW n \in Nat,
           n = IF kind = "echo" THEN heard ELSE IF kind = "reply" THEN answer ELSE says
    PROVE  LET echo == Spoken("echo", heard)
               reply == Spoken("reply", answer)
               spoken == Spoken("tick", says)
               s == Synced(device, echo, reply, spoken)
           IN  /\ Owed(s, kind, begun[kind], made[kind] + n,
                       kind \notin cut \cup Refused(echo, reply, spoken))
               /\ ~s.armed => s.pending = <<>>
<1> DEFINE echo == Spoken("echo", heard)
           reply == Spoken("reply", answer)
           spoken == Spoken("tick", says)
           a == Advances(device)
           h == Hears(a, echo, reply)
           r == Answers(h)
           s == Synced(device, echo, reply, spoken)
           b == begun[kind]
           m == made[kind]
           whole == kind \notin cut
           still == kind \notin cut \cup Refused(echo, reply, spoken)
           ne == IF kind = "echo" THEN heard ELSE 0
           nr == IF kind = "reply" THEN answer ELSE 0
           nt == IF kind = "tick" THEN says ELSE 0
<1>1. /\ setting \in Settings /\ made \in [Kinds -> Nat] /\ b \in Nat /\ m \in Nat
      /\ Sound(device) /\ Drained(device)
  BY DEF IInv, DeviceTypeOK, Sound
<1>2. ne \in Nat /\ nr \in Nat /\ nt \in Nat /\ m + n = m + ne + nr + nt
  BY <1>1 DEF Kinds
<1>3. {"echo", "reply", "tick"} = Kinds
  BY DEF Kinds
<1>4. /\ echo \in Seq(Voice) /\ Len(echo) = heard
      /\ reply \in Seq(Voice) /\ Len(reply) = answer
      /\ spoken \in Seq(Voice) /\ Len(spoken) = says
  BY <1>1, <1>3, SpokenType
<1>5. /\ Rising(echo, kind) /\ Ranks(echo, kind) = (m + 1)..(m + ne)
      /\ Rising(reply, kind) /\ Ranks(reply, kind) = (m + ne + 1)..(m + ne + nr)
      /\ Rising(spoken, kind) /\ Ranks(spoken, kind) = (m + ne + nr + 1)..(m + ne + nr + nt)
  <2>1. /\ Rising(echo, kind)
        /\ Ranks(echo, kind) = IF kind = "echo" THEN (made["echo"] + 1)..(made["echo"] + heard) ELSE {}
    BY <1>1, <1>3, SpokenRanks
  <2>2. /\ Rising(reply, kind)
        /\ Ranks(reply, kind)
             = IF kind = "reply" THEN (made["reply"] + 1)..(made["reply"] + answer) ELSE {}
    BY <1>1, <1>3, SpokenRanks
  <2>3. /\ Rising(spoken, kind)
        /\ Ranks(spoken, kind) = IF kind = "tick" THEN (made["tick"] + 1)..(made["tick"] + says) ELSE {}
    BY <1>1, <1>3, SpokenRanks
  <2> HIDE DEF echo, reply, spoken
  <2>4. CASE kind = "echo"
    BY <1>1, <2>1, <2>2, <2>3, <2>4
  <2>5. CASE kind = "reply"
    BY <1>1, <2>1, <2>2, <2>3, <2>5
  <2>6. CASE kind = "tick"
    BY <1>1, <2>1, <2>2, <2>3, <2>6
  <2> QED BY <1>3, <2>4, <2>5, <2>6
<1>6. /\ Sound(a) /\ Running(a) /\ Drained(a)
      /\ Owed(a, kind, b, m, whole)
      /\ a.armed = device.armed /\ a.pending = device.pending /\ a.next = device.next
      /\ ~a.armed => a.pending = <<>>
  <2>1. /\ Owed(device, kind, b, m, whole) /\ (~device.armed => device.pending = <<>>)
        /\ device.frame # Still /\ device.frame[1] = kind => device.frame[2] = b
    BY DEF Once
  <2>2. Sound(a) /\ Running(a) /\ Drained(a)
    BY <1>1, AdvancesFacts
  <2> HIDE DEF b, m, whole
  <2>3. /\ Owed(Advances(device), kind, b, m, whole)
        /\ Advances(device).armed = device.armed /\ Advances(device).pending = device.pending
        /\ Advances(device).next = device.next
    BY <1>1, <2>1, AdvancesOwed
  <2> QED BY <2>1, <2>2, <2>3
<1>7. /\ still => whole
      /\ still /\ kind = "echo" => Len(echo) <= Room(a)
      /\ still /\ kind = "reply" =>
           (IF a.armed THEN Len(a.pending) ELSE 0) + Len(reply) <= RoomSize
      /\ still /\ kind = "reply" /\ h.armed /\ h.wait = 0 => Len(h.pending) <= Room(h)
      /\ still /\ kind = "tick" => Len(spoken) <= Room(r)
  <2> DEFINE R == Refused(echo, reply, spoken)
             waiting == IF a.armed THEN Len(a.pending) ELSE 0
  <2>1. R = (IF Len(echo) > Room(a) THEN {"echo"} ELSE {})
            \cup (IF waiting + Len(reply) > RoomSize THEN {"reply"} ELSE {})
            \cup (IF h.armed /\ h.wait = 0 /\ Len(h.pending) > Room(h) THEN {"reply"} ELSE {})
            \cup (IF Len(spoken) > Room(r) THEN {"tick"} ELSE {})
    BY DEF Refused
  <2>2. /\ Len(echo) \in Nat /\ Room(a) \in Int /\ waiting + Len(reply) \in Int /\ RoomSize \in Int
        /\ Len(h.pending) \in Int /\ Room(h) \in Int /\ Len(spoken) \in Nat /\ Room(r) \in Int
    <3>1. /\ Room(a) \in Int /\ Len(a.pending) \in Int
      BY <1>6, SizeFacts DEF Room, Sound, Devices
    <3> HIDE DEF a
    <3>2. /\ Sound(h) /\ Running(h) /\ Drained(h)
      BY <1>1, <1>4, <1>6, HearsFacts
    <3> HIDE DEF h
    <3>3. Sound(r)
      BY <3>2, AnswersFacts
    <3> HIDE DEF r
    <3>4. Room(h) \in Int /\ Len(h.pending) \in Int /\ Room(r) \in Int
      BY <3>2, <3>3, SizeFacts DEF Room, Sound, Devices
    <3> QED BY <1>4, <3>1, <3>4, SizeFacts
  <2>3. still => kind \notin R /\ whole
    OBVIOUS
  <2> HIDE DEF R, waiting, echo, reply, spoken, a, h, r, still, whole
  <2>4. /\ Len(echo) > Room(a) => "echo" \in R
        /\ waiting + Len(reply) > RoomSize => "reply" \in R
        /\ h.armed /\ h.wait = 0 /\ Len(h.pending) > Room(h) => "reply" \in R
        /\ Len(spoken) > Room(r) => "tick" \in R
    BY <2>1
  <2>5. still /\ kind = "reply" => waiting + Len(reply) <= RoomSize
    BY <2>2, <2>3, <2>4
  <2> QED BY <2>2, <2>3, <2>4, <2>5 DEF waiting
<1> HIDE DEF echo, reply, spoken, a, b, m, whole, still
<1>8. /\ ne > 0 => kind # "reply"
      /\ kind # "reply" => nr = 0
      /\ kind = "reply" => nr = Len(reply)
  BY <1>4, <1>7
<1>9. /\ still => whole /\ (ne > 0 => Len(echo) <= Room(a))
      /\ still => (nr > 0 => (IF a.armed THEN Len(a.pending) ELSE 0) + Len(reply) <= RoomSize)
      /\ still => (nt > 0 => Len(spoken) <= Room(r))
      /\ nt > 0 => kind # "reply" /\ Due(device)
  BY <1>7
<1> HIDE DEF ne, nr, nt
<1>10. /\ Owed(h, kind, b, m + ne + nr, still)
       /\ ~h.armed => h.pending = <<>>
       /\ h.next = a.next
       /\ Sound(h) /\ Running(h) /\ Drained(h)
  <2> DEFINE e == Queues(a, echo)
             f == Arms(e, reply)
             k == m + ne
  <2>1. Sound(e) /\ Running(e) /\ e.armed = a.armed /\ e.next = a.next
    BY <1>4, <1>6, QueuesFacts DEF Running
  <2>2. Owed(e, kind, b, k, still) /\ e.pending = a.pending
    BY <1>1, <1>2, <1>4, <1>5, <1>6, <1>8, <1>9, QueuesOwed
  <2>3. k \in Nat /\ Ranks(reply, kind) = (k + 1)..(k + nr) /\ m + ne + nr = k + nr
    BY <1>1, <1>2, <1>5
  <2> HIDE DEF e, k
  <2>4. Sound(f) /\ Running(f) /\ f.next = e.next
    BY <1>1, <1>4, <2>1, ArmsFacts DEF Running
  <2>5. /\ ~e.armed => e.pending = <<>>
        /\ still => still
                    /\ (nr > 0 => (IF e.armed THEN Len(e.pending) ELSE 0) + Len(reply) <= RoomSize)
    BY <1>6, <1>9, <2>1, <2>2
  <2>6. Owed(f, kind, b, k + nr, still) /\ (~f.armed => f.pending = <<>>)
    BY <1>1, <1>2, <1>4, <1>5, <1>8, <2>1, <2>2, <2>3, <2>5, ArmsOwed
  <2> HIDE DEF f
  <2>7. /\ Owed(Kicks(f), kind, b, k + nr, still)
        /\ Kicks(f).armed = f.armed /\ Kicks(f).pending = f.pending /\ Kicks(f).next = f.next
        /\ Sound(Kicks(f)) /\ Running(Kicks(f)) /\ Drained(Kicks(f))
    BY <1>1, <1>2, <2>3, <2>4, <2>6, KicksOwed, KicksFacts
  <2>8. h = Kicks(f)
    BY DEF h, Hears, f, e
  <2> HIDE DEF h
  <2> QED BY <2>1, <2>3, <2>4, <2>6, <2>7, <2>8
<1> DEFINE l == m + ne + nr
<1>11. l \in Nat /\ Ranks(spoken, kind) = (l + 1)..(l + nt) /\ m + ne + nr + nt = l + nt
  BY <1>1, <1>2, <1>5
<1>12. Owed(h, kind, b, l, still)
  BY <1>10
<1> HIDE DEF h, l
<1>13. /\ Owed(r, kind, b, l, still)
       /\ ~r.armed => r.pending = <<>>
       /\ r.next = h.next
       /\ Sound(r) /\ Running(r)
  <2>1. /\ Owed(Answers(h), kind, b, l, still)
        /\ ~Answers(h).armed => Answers(h).pending = <<>>
        /\ Answers(h).next = h.next
    BY <1>1, <1>7, <1>10, <1>11, <1>12, AnswersOwed
  <2>2. Sound(r) /\ Running(r)
    BY <1>10, AnswersFacts
  <2> QED BY <2>1, <2>2
<1>14. nt > 0 => kind # "reply" /\ Due(r)
  <2> HIDE DEF r
  <2> QED BY <1>6, <1>9, <1>10, <1>13 DEF Due
<1> HIDE DEF r
<1>15. /\ Owed(Speaks(r, spoken), kind, b, l + nt, still)
       /\ ~Speaks(r, spoken).armed => Speaks(r, spoken).pending = <<>>
  BY <1>1, <1>2, <1>4, <1>5, <1>9, <1>11, <1>13, <1>14, SpeaksOwed
<1>16. s = Speaks(r, spoken)
  BY DEF Synced, r, h, a
<1> HIDE DEF s
<1>17. Owed(s, kind, b, m + n, still) /\ (~s.armed => s.pending = <<>>)
  BY <1>2, <1>11, <1>15, <1>16
<1> QED BY <1>17 DEF s, b, m, still, echo, reply, spoken

LEMMA CalledOnce == OnceInv /\ Called => Once'
<1> SUFFICES ASSUME IInv, Once, Called PROVE Once'
  BY DEF OnceInv
<1>1. PICK byte \in {"none"} \cup (IF silence = 0 THEN {"char", "end"} ELSE {}),
            answer \in Sizes, says \in Sizes :
        LET echo == Spoken("echo", IF setting.echo /\ byte # "none" THEN 1 ELSE 0)
            reply == Spoken("reply", answer)
            spoken == Spoken("tick", says)
        IN /\ says > 0 => Due(device)
           /\ device' = Synced(device, echo, reply, spoken)
           /\ made' = [made EXCEPT !["echo"] = @ + Len(echo), !["reply"] = @ + answer,
                                   !["tick"] = @ + says]
           /\ begun' = IF device'.frame \in {device.frame, Still} THEN begun
                       ELSE [begun EXCEPT ![device'.frame[1]] = device'.frame[2]]
           /\ cut' = cut \cup Refused(echo, reply, spoken)
  BY DEF Called
<1> DEFINE heard == IF setting.echo /\ byte # "none" THEN 1 ELSE 0
           echo == Spoken("echo", heard)
           reply == Spoken("reply", answer)
           spoken == Spoken("tick", says)
<1>2. /\ answer \in Nat /\ says \in Nat /\ heard \in Nat /\ made \in [Kinds -> Nat]
      /\ begun \in [Kinds -> Nat]
  BY SizeFacts DEF IInv, DeviceTypeOK
<1>3. says > 0 => Due(device)
  BY <1>1
<1>4. /\ device' = Synced(device, echo, reply, spoken)
      /\ cut' = cut \cup Refused(echo, reply, spoken)
  BY <1>1
<1>5. begun' = IF device'.frame \in {device.frame, Still} THEN begun
               ELSE [begun EXCEPT ![device'.frame[1]] = device'.frame[2]]
  BY <1>1
<1>6. made' = [made EXCEPT !["echo"] = @ + heard, !["reply"] = @ + answer, !["tick"] = @ + says]
  <2>1. Len(echo) = heard
    BY <1>2, SpokenType DEF Kinds
  <2> QED BY <1>1, <2>1
<1> HIDE DEF heard
<1>7. ASSUME NEW kind \in Kinds
      PROVE  /\ Owed(device', kind, begun[kind], made'[kind], kind \notin cut')
             /\ ~device'.armed => device'.pending = <<>>
  <2> DEFINE n == IF kind = "echo" THEN heard ELSE IF kind = "reply" THEN answer ELSE says
  <2>1. n \in Nat /\ made'[kind] = made[kind] + n
    BY <1>2, <1>6 DEF Kinds
  <2>2. n = IF kind = "echo" THEN heard ELSE IF kind = "reply" THEN answer ELSE says
    OBVIOUS
  <2> HIDE DEF n
  <2>3. LET u == Spoken("echo", heard)
            v == Spoken("reply", answer)
            w == Spoken("tick", says)
            s == Synced(device, u, v, w)
        IN  /\ Owed(s, kind, begun[kind], made[kind] + n, kind \notin cut \cup Refused(u, v, w))
            /\ ~s.armed => s.pending = <<>>
    BY <1>2, <1>3, <2>1, <2>2, SyncedOwed
  <2>4. /\ Owed(Synced(device, echo, reply, spoken), kind, begun[kind], made[kind] + n,
                kind \notin cut \cup Refused(echo, reply, spoken))
        /\ LET s == Synced(device, echo, reply, spoken) IN ~s.armed => s.pending = <<>>
    BY <2>3
  <2> HIDE DEF echo, reply, spoken
  <2> QED BY <1>4, <2>1, <2>4
<1> HIDE DEF echo, reply, spoken
<1>8. device'.frame \in Voice \cup {Still}
  BY CalledInvariant DEF IInv, DeviceTypeOK, Devices
<1>9. device'.frame # Still => begun'[device'.frame[1]] = device'.frame[2]
  <2> SUFFICES ASSUME device'.frame # Still PROVE begun'[device'.frame[1]] = device'.frame[2]
    OBVIOUS
  <2>1. device'.frame[1] \in Kinds
    BY <1>8 DEF Voice
  <2>2. CASE device'.frame = device.frame
    BY <1>5, <2>2 DEF Once
  <2>3. CASE device'.frame # device.frame
    BY <1>2, <1>5, <2>1, <2>3
  <2> QED BY <2>2, <2>3
<1>10. ASSUME NEW kind \in Kinds
       PROVE  Owed(device', kind, begun'[kind], made'[kind], kind \notin cut')
  <2>1. Reached(device', kind, begun'[kind]) = Reached(device', kind, begun[kind])
    <3>1. CASE device'.frame # Still /\ device'.frame[1] = kind
      BY <3>1 DEF Reached
    <3>2. CASE ~(device'.frame # Still /\ device'.frame[1] = kind)
      <4>1. begun'[kind] = begun[kind]
        BY <1>2, <1>5, <3>2
      <4> QED BY <4>1
    <3> QED BY <3>1, <3>2
  <2>2. Owed(device', kind, begun[kind], made'[kind], kind \notin cut')
    BY <1>7
  <2> QED BY <2>1, <2>2 DEF Owed
<1>11. ~device'.armed => device'.pending = <<>>
  BY <1>7 DEF Kinds
<1> QED BY <1>9, <1>10, <1>11 DEF Once

LEMMA SameOnce ==
    ASSUME Once, device'.frame = device.frame, device'.queue = device.queue,
           device'.pending = device.pending, device'.armed = device.armed,
           UNCHANGED <<made, begun, cut>>
    PROVE  Once'
<1>1. ASSUME NEW kind \in Kinds
      PROVE  Owed(device', kind, begun'[kind], made'[kind], kind \notin cut')
  <2>1. Reached(device', kind, begun'[kind]) = Reached(device, kind, begun[kind])
    BY DEF Reached
  <2>2. Owed(device, kind, begun[kind], made[kind], kind \notin cut)
    BY DEF Once
  <2> QED BY <2>1, <2>2 DEF Owed
<1>2. /\ device'.frame # Still => begun'[device'.frame[1]] = device'.frame[2]
      /\ ~device'.armed => device'.pending = <<>>
  BY DEF Once
<1> QED BY <1>1, <1>2 DEF Once

LEMMA ElapsesOnce == OnceInv /\ Elapses => Once'
<1> SUFFICES ASSUME OnceInv, Elapses PROVE Once'
  OBVIOUS
<1>1. device \in Devices
  BY DEF OnceInv, IInv, DeviceTypeOK
<1>2. device' = [device EXCEPT !.left = Before(@), !.wait = Before(@), !.next = Before(@)]
  BY DEF Elapses
<1>3. /\ device'.frame = device.frame /\ device'.queue = device.queue
      /\ device'.pending = device.pending /\ device'.armed = device.armed
  BY <1>1, <1>2 DEF Devices
<1> QED BY <1>3, SameOnce DEF Elapses, OnceInv

\* Each byte is echoed once, each line answered once and each period served once,
\* in their order, whatever the settings and the delays (uartdev_on_line,
\* uartdev_on_tick, uartdev_arm_response).
THEOREM OnceOfEach == DeviceSpec => []EachOnce
<1>1. OnceInv /\ [DeviceNext]_deviceVars => OnceInv'
  <2> SUFFICES ASSUME OnceInv, [DeviceNext]_deviceVars PROVE OnceInv'
    OBVIOUS
  <2>1. IInv
    BY DEF OnceInv
  <2>2. CASE Called
    BY <2>1, <2>2, CalledInvariant, CalledOnce DEF OnceInv
  <2>3. CASE Elapses
    BY <2>1, <2>3, ElapsesInvariant, ElapsesOnce DEF OnceInv
  <2>4. CASE UNCHANGED deviceVars
    <3>1. IInv'
      BY <2>1, <2>4 DEF IInv, DeviceTypeOK, Drained, Awaited, Deadlines, deviceVars
    <3>2. Once'
      BY <2>4, SameOnce DEF OnceInv, deviceVars
    <3> QED BY <3>1, <3>2 DEF OnceInv
  <2> QED BY <2>2, <2>3, <2>4 DEF DeviceNext
<1> QED BY <1>1, InitOnce, OnceEach, PTL DEF DeviceSpec
=============================================================================
