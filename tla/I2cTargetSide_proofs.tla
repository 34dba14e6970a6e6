------------------------ MODULE I2cTargetSide_proofs ------------------------
(***************************************************************************)
(* Proofs about I2cTargetSide, for any sizes of the memory, of the buffers *)
(* and of the address within the memory, any handler and any program, any  *)
(* order of calls and any depth of callbacks.                              *)
(*                                                                         *)
(* DInv says what the host still owes to the controller: the side, the     *)
(* engine and the pledge written down at the match (prefix) agree on the   *)
(* next byte, at each place where a call may stop.  TInv adds what the     *)
(* program was not told yet: an event that is pending is untold, and what  *)
(* keeps it untold is on the stack of calls, or masked, or over.           *)
(***************************************************************************)
EXTENDS I2cTargetSide, TLAPS, SequenceTheorems

\* Types and sizes of a side.
Sides ==
    [on : BOOLEAN, width : Nat, mem : Seq(Values), memaddr : Nat, seen : Nat, wrote : BOOLEAN,
     rx : Seq(Values), tx : Seq(Values), pos : Nat, handler : BOOLEAN,
     trigger : SUBSET Events, pending : SUBSET Events, flags : SUBSET Events]
Sized(s) ==
    /\ s \in Sides /\ s.seen <= s.width
    /\ Len(s.rx) <= BufMax /\ Len(s.tx) <= BufMax /\ s.pos <= Len(s.tx)

Engines == [phase : {"idle", "matched", "write", "read"}, reads : BOOLEAN,
            deferred : BOOLEAN, out : Values]
Kinds == {"main", "handler", "other"}
Dues == {"handler", "other"}
CallsInProgress == [kind : Kinds, state : {"runs", "waits"}, due : Seq(Dues), back : BOOLEAN]

\* The program is at the bottom, callbacks above; only the last call may run,
\* it has nothing left to call, and it waits when the turn is over.
Nested(cs) ==
    /\ cs \in Seq(CallsInProgress) /\ cs # <<>>
    /\ \A i \in 1..Len(cs) : cs[i].kind = "main" <=> i = 1
    /\ \A i \in 1..Len(cs) : cs[i].state = "runs" => i = Len(cs) /\ cs[i].due = <<>>
Rests == at # "turn" /\ ~over => Innermost.state = "waits"

Pledges ==
    [cells : Seq(Values), next : SUBSET Nat, prefix : [bytes : Nat, value : Nat],
     queue : Seq(Values), byte : SUBSET Values, untold : SUBSET Events, held : BOOLEAN]

Typed ==
    /\ Sized(side) /\ engine \in Engines
    /\ at \in {"idle", "turn", "finish"} /\ masked \in BOOLEAN /\ over \in BOOLEAN
    /\ budget \in [bus : Nat, calls : Nat, depth : Nat, setup : [cells : Nat, width : Nat]]
    /\ Nested(calls) /\ Rests

-----------------------------------------------------------------------------
(* Bytes, events and sides.                                                 *)

LEMMA ValueFacts ==
    /\ Base \in Nat \ {0} /\ BufMax \in Nat \ {0} /\ High \in Values /\ 0 \in Values
    /\ Values \subseteq Nat
BY TargetAssumption DEF High, Values

LEMMA OffSized == Sized(Off) /\ Silent \in Engines
<1>1. <<>> \in Seq(Values) /\ Len(<<>>) = 0
  BY EmptySeq
<1> QED BY <1>1, ValueFacts DEF Off, Sides, Sized, Silent, Engines

\* What a flag leaves as it was: everything but what is pending.
SameData(s, t) ==
    /\ t.on = s.on /\ t.width = s.width /\ t.mem = s.mem /\ t.memaddr = s.memaddr
    /\ t.seen = s.seen /\ t.tx = s.tx /\ t.pos = s.pos

LEMMA FlaggedFacts ==
    ASSUME NEW s, Sized(s), NEW e \in Events
    PROVE  Sized(Flagged(s, e)) /\ SameData(s, Flagged(s, e))
BY DEF Flagged, Sized, Sides, SameData

LEMMA CollectedFacts ==
    ASSUME NEW s, Sized(s), NEW open \in BOOLEAN
    PROVE  Sized(Collected(open, s)) /\ SameData(s, Collected(open, s))
BY DEF Collected, Sized, Sides, SameData

LEMMA AddrMatchFacts ==
    ASSUME NEW s, Sized(s), NEW reads \in BOOLEAN
    PROVE  LET t == AddrMatch(s, reads)
           IN  /\ Sized(t) /\ t.on = s.on /\ t.width = s.width /\ t.mem = s.mem
               /\ t.memaddr = s.memaddr /\ t.tx = s.tx /\ t.pos = s.pos
               /\ t.seen = IF reads THEN s.seen ELSE 0
<1> DEFINE u == [s EXCEPT !.seen = 0, !.wrote = FALSE]
<1>1. Sized(u) /\ u.seen = 0 /\ u.on = s.on /\ u.width = s.width /\ u.mem = s.mem
      /\ u.memaddr = s.memaddr /\ u.tx = s.tx /\ u.pos = s.pos
  <2>1. /\ u \in Sides /\ u.seen = 0 /\ u.on = s.on /\ u.width = s.width /\ u.mem = s.mem
        /\ u.memaddr = s.memaddr /\ u.tx = s.tx /\ u.pos = s.pos /\ u.rx = s.rx
    BY DEF Sized, Sides
  <2> HIDE DEF u
  <2>2. s.width \in Nat
    BY DEF Sized, Sides
  <2> QED BY <2>1, <2>2 DEF Sized
<1>2. "match_read" \in Events /\ "match_write" \in Events
  BY DEF Events
<1>3. AddrMatch(s, reads) = Flagged(IF reads THEN s ELSE u,
                                    IF reads THEN "match_read" ELSE "match_write")
  BY DEF AddrMatch
<1> HIDE DEF u
<1>4. CASE reads
  BY <1>2, <1>3, <1>4, FlaggedFacts DEF SameData
<1>5. CASE ~reads
  <2>1. SameData(u, Flagged(u, "match_write")) /\ Sized(Flagged(u, "match_write"))
    BY <1>1, <1>2, FlaggedFacts
  <2> QED BY <1>1, <1>3, <1>5, <2>1 DEF SameData
<1> QED BY <1>4, <1>5

LEMMA SizeType == ASSUME NEW s, Sized(s) PROVE Size(s) \in Nat
BY DEF Sized, Sides, Size

\* A remainder is less than what divides.
LEMMA Remainder ==
    ASSUME NEW n \in Nat, NEW d \in Nat, d > 0
    PROVE  n % d \in 0..(d - 1)
OBVIOUS

LEMMA MovedFacts ==
    ASSUME NEW s, Sized(s), Size(s) > 0
    PROVE  /\ Sized(Moved(s)) /\ Moved(s).memaddr = (s.memaddr + 1) % Size(s)
           /\ Moved(s).on = s.on /\ Moved(s).width = s.width /\ Moved(s).mem = s.mem
           /\ Moved(s).seen = s.seen /\ Moved(s).tx = s.tx /\ Moved(s).pos = s.pos
<1>1. (s.memaddr + 1) % Size(s) \in Nat
  <2>1. Size(s) \in Nat
    BY SizeType
  <2>2. s.memaddr + 1 \in Nat
    BY DEF Sized, Sides
  <2> QED BY <2>1, <2>2, Remainder
<1> DEFINE a == (s.memaddr + 1) % Size(s)
<1>2. Moved(s) = [s EXCEPT !.memaddr = a]
  BY DEF Moved
<1> HIDE DEF a
<1>3. a \in Nat
  BY <1>1 DEF a
<1> QED BY <1>2, <1>3 DEF Sized, Sides, a

LEMMA MemoryAddressedFacts ==
    ASSUME NEW s, Sized(s), Size(s) > 0, s.seen < s.width, NEW b \in Values
    PROVE  LET t == MemoryAddressed(s, b)
               n == (IF s.seen = 0 THEN 0 ELSE s.memaddr * Base) + b
           IN  /\ Sized(t) /\ t.seen = s.seen + 1
               /\ t.memaddr = IF s.seen + 1 = s.width THEN n % Size(s) ELSE n
               /\ t.on = s.on /\ t.width = s.width /\ t.mem = s.mem
               /\ t.tx = s.tx /\ t.pos = s.pos
<1> DEFINE n == (IF s.seen = 0 THEN 0 ELSE s.memaddr * Base) + b
           a == IF s.seen + 1 = s.width THEN n % Size(s) ELSE n
<1>1. s.memaddr * Base \in Nat
  BY ValueFacts DEF Sized, Sides
<1>2. n \in Nat
  BY <1>1, ValueFacts
<1>3. MemoryAddressed(s, b) = [s EXCEPT !.seen = s.seen + 1, !.memaddr = a]
  BY DEF MemoryAddressed, Sized, Sides
<1> HIDE DEF n
<1>4. a \in Nat
  BY <1>2, SizeType, Remainder
<1> HIDE DEF a
<1> DEFINE t == [s EXCEPT !.seen = s.seen + 1, !.memaddr = a]
<1>5. s.seen + 1 \in Nat /\ s.seen + 1 <= s.width
  BY DEF Sized, Sides
<1>6. /\ t \in Sides /\ t.seen = s.seen + 1 /\ t.memaddr = a /\ t.rx = s.rx
      /\ t.on = s.on /\ t.width = s.width /\ t.mem = s.mem /\ t.tx = s.tx /\ t.pos = s.pos
  BY <1>4, <1>5 DEF Sized, Sides
<1>7. MemoryAddressed(s, b) = t
  BY <1>3
<1> HIDE DEF t
<1>8. Sized(t)
  BY <1>5, <1>6 DEF Sized
<1> QED BY <1>6, <1>7, <1>8 DEF a, n

\* A byte in a memory.
LEMMA StoredFacts ==
    ASSUME NEW s, Sized(s), NEW i \in Nat, NEW b \in Values,
           NEW c, NEW t, c = [s.mem EXCEPT ![i] = b], t = [s EXCEPT !.mem = c]
    PROVE  /\ Sized(t) /\ t.mem = c /\ Size(t) = Size(s)
           /\ t.on = s.on /\ t.width = s.width /\ t.memaddr = s.memaddr
           /\ t.seen = s.seen /\ t.tx = s.tx /\ t.pos = s.pos
<1>1. s.mem \in Seq(Values)
  BY DEF Sized, Sides
<1>2. c \in Seq(Values) /\ Len(c) = Len(s.mem)
  <2>1. CASE i \in 1..Len(s.mem)
    BY <1>1, <2>1, ExceptSeq
  <2>2. CASE i \notin 1..Len(s.mem)
    <3>1. c = s.mem
      BY <1>1, <2>2, LenProperties
    <3> QED BY <1>1, <3>1
  <2> QED BY <2>1, <2>2
<1>3. /\ t \in Sides /\ t.mem = c /\ t.rx = s.rx
      /\ t.on = s.on /\ t.width = s.width /\ t.memaddr = s.memaddr
      /\ t.seen = s.seen /\ t.tx = s.tx /\ t.pos = s.pos
  BY <1>2 DEF Sized, Sides
<1>4. Size(t) = Size(s)
  BY <1>2, <1>3 DEF Size
<1> QED BY <1>3, <1>4 DEF Sized

LEMMA WroteFacts ==
    ASSUME NEW s, Sized(s)
    PROVE  LET t == [s EXCEPT !.wrote = TRUE] IN Sized(t) /\ SameData(s, t)
<1> DEFINE t == [s EXCEPT !.wrote = TRUE]
<1>1. t \in Sides /\ t.rx = s.rx /\ SameData(s, t)
  BY DEF Sized, Sides, SameData
<1> HIDE DEF t
<1>2. Sized(t)
  BY <1>1 DEF Sized, SameData
<1> QED BY <1>1, <1>2 DEF t

LEMMA Quotients ==
    ASSUME NEW n \in Nat, NEW d \in Nat, d > 0
    PROVE  \E q \in Nat, r \in 0..(d - 1) : n = d * q + r
<1> DEFINE q == n \div d
<1>1. q \in Nat /\ q * d <= n /\ n < q * d + d
  OBVIOUS
<1> HIDE DEF q
<1>2. n - q * d \in 0..(d - 1) /\ n = d * q + (n - q * d)
  BY <1>1
<1> QED BY <1>1, <1>2

LEMMA RemainderIs ==
    ASSUME NEW d \in Nat, d > 0, NEW q \in Nat, NEW r \in 0..(d - 1)
    PROVE  (d * q + r) % d = r
OBVIOUS

LEMMA RemainderOfSmall ==
    ASSUME NEW d \in Nat, NEW r \in 0..(d - 1)
    PROVE  r % d = r
<1>1. d > 0 /\ d * 0 + r = r
  OBVIOUS
<1>2. (d * 0 + r) % d = r
  BY <1>1, RemainderIs
<1> QED BY <1>1, <1>2

LEMMA NextRemainder ==
    ASSUME NEW n \in Nat, NEW d \in Nat, d > 0
    PROVE  ((n % d) + 1) % d = (n + 1) % d
<1>1. PICK q \in Nat, r \in 0..(d - 1) : n = d * q + r
  BY Quotients
<1>2. n % d = r
  BY <1>1, RemainderIs
<1>3. CASE r + 1 < d
  <2>1. r + 1 \in 0..(d - 1) /\ n + 1 = d * q + (r + 1)
    BY <1>1, <1>3
  <2>2. (n + 1) % d = r + 1
    BY <2>1, RemainderIs
  <2>3. (r + 1) % d = r + 1
    BY <2>1, RemainderOfSmall
  <2> QED BY <1>2, <2>2, <2>3
<1>4. CASE r + 1 = d
  <2>1. n + 1 = d * (q + 1) + 0 /\ d = d * 1 + 0 /\ 0 \in 0..(d - 1) /\ q + 1 \in Nat
    BY <1>1, <1>4
  <2>2. (n + 1) % d = 0
    BY <2>1, RemainderIs
  <2>3. d % d = 0
    BY <2>1, RemainderIs
  <2> QED BY <1>2, <1>4, <2>2, <2>3
<1> QED BY <1>1, <1>3, <1>4

-----------------------------------------------------------------------------
(* What side and controller agree on.                                       *)

Clean(next) == next = {} \/ \E n \in Nat : next = {n}

\* Of a memory: the cells, and the place of the next one, of which nothing is
\* said when the address was cut short.
Points(s, e, p) ==
    /\ p.cells = s.mem
    /\ p.prefix.bytes = s.seen
    /\ s.seen = 0 => p.prefix.value = 0
    /\ e.phase = "write" /\ 0 < s.seen /\ s.seen < s.width
          => s.memaddr = p.prefix.value /\ p.next = {}
    /\ e.phase = "matched" /\ ~e.reads => s.seen = 0
    /\ \/ p.next = {} /\ s.seen < s.width
       \/ \E n \in Nat : p.next = {n} /\ s.memaddr = n % Size(s)

\* A byte is owed only by a side without memory; the byte on the bus is the one
\* promised; what was queued and not sent is what write() accepted.
Agrees(s, e, p) ==
    /\ e.deferred => s.on /\ e.phase = "read" /\ Size(s) = 0
    /\ e.phase = "read" /\ ~e.deferred => p.byte \subseteq {e.out}
    /\ Size(s) = 0 => p.queue = SubSeq(s.tx, s.pos + 1, Len(s.tx))
    /\ Size(s) > 0 => Points(s, e, p)

SamePledge(p, q) ==
    /\ q.cells = p.cells /\ q.next = p.next /\ q.prefix = p.prefix
    /\ q.queue = p.queue /\ q.byte = p.byte

LEMMA AgreesSame ==
    ASSUME NEW s, NEW t, NEW e, NEW p, NEW q,
           SameData(s, t), SamePledge(p, q), Agrees(s, e, p)
    PROVE  Agrees(t, e, q)
<1>1. Size(t) = Size(s)
  BY DEF SameData, Size
<1> QED BY <1>1 DEF SameData, SamePledge, Agrees, Points

\* Another step of the engine that reads nothing.
LEMMA AgreesSilent ==
    ASSUME NEW s, NEW e, NEW p, Agrees(s, e, p)
    PROVE  Agrees(s, Silent, p)
BY DEF Agrees, Points, Silent

LEMMA MatchAgrees ==
    ASSUME NEW s, Sized(s), NEW e \in Engines, NEW p \in Pledges, Agrees(s, e, p),
           e.phase = "idle", NEW reads \in BOOLEAN
    PROVE  LET q == IF reads THEN p ELSE [p EXCEPT !.prefix = NoPrefix]
               f == [e EXCEPT !.phase = "matched", !.reads = reads]
           IN  f \in Engines /\ q \in Pledges /\ Agrees(AddrMatch(s, reads), f, q)
<1> DEFINE q == IF reads THEN p ELSE [p EXCEPT !.prefix = NoPrefix]
           f == [e EXCEPT !.phase = "matched", !.reads = reads]
           t == AddrMatch(s, reads)
<1>1. f \in Engines /\ f.phase = "matched" /\ f.reads = reads /\ f.deferred = e.deferred
  BY DEF Engines
<1>2. /\ q \in Pledges /\ q.cells = p.cells /\ q.next = p.next /\ q.queue = p.queue
      /\ q.prefix = IF reads THEN p.prefix ELSE NoPrefix
  BY DEF Pledges, NoPrefix
<1>3. /\ t.on = s.on /\ t.width = s.width /\ t.mem = s.mem
      /\ t.memaddr = s.memaddr /\ t.tx = s.tx /\ t.pos = s.pos
      /\ t.seen = IF reads THEN s.seen ELSE 0
  BY AddrMatchFacts
<1> HIDE DEF q, f, t
<1>4. Size(t) = Size(s)
  BY <1>3 DEF Size
<1>5. s.seen \in Nat /\ s.width \in Nat /\ s.seen <= s.width
  BY DEF Sized, Sides
<1>6. ~e.deferred
  BY DEF Agrees
<1>7. Size(s) > 0 => Points(t, f, q)
  <2>1. SUFFICES ASSUME Points(s, e, p) PROVE Points(t, f, q)
    BY DEF Agrees
  <2> QED BY <1>1, <1>2, <1>3, <1>4, <1>5, <2>1 DEF Points, NoPrefix
<1>8. Agrees(t, f, q)
  BY <1>1, <1>2, <1>3, <1>4, <1>6, <1>7 DEF Agrees
<1> QED BY <1>1, <1>2, <1>8 DEF q, f, t

\* The phase of writing begins with no byte of an address.
LEMMA WriteOpenAgrees ==
    ASSUME NEW s, Sized(s), NEW e \in Engines, NEW p, Agrees(s, e, p),
           e.phase = "matched", ~e.reads
    PROVE  LET f == [e EXCEPT !.phase = "write"] IN f \in Engines /\ Agrees(s, f, p)
<1> DEFINE f == [e EXCEPT !.phase = "write"]
<1>1. f \in Engines /\ f.phase = "write" /\ f.deferred = e.deferred
  BY DEF Engines
<1> HIDE DEF f
<1>2. ~f.deferred
  BY <1>1 DEF Agrees
<1>3. Agrees(s, f, p)
  BY <1>1, <1>2 DEF Agrees, Points
<1> QED BY <1>1, <1>3 DEF f

-----------------------------------------------------------------------------
(* A byte written.                                                          *)

\* A byte of the address.
LEMMA AddressAgrees ==
    ASSUME NEW s, Sized(s), NEW e, NEW p \in Pledges, Agrees(s, e, p),
           Size(s) > 0, e.phase = "write", s.seen < s.width, NEW b \in Values
    PROVE  Addressed(s, p, b) \in Pledges /\ Agrees(MemoryAddressed(s, b), e, Addressed(s, p, b))
<1> DEFINE t == MemoryAddressed(s, b)
           q == Addressed(s, p, b)
           n == (IF s.seen = 0 THEN 0 ELSE s.memaddr * Base) + b
           v == p.prefix.value * Base + b
<1>1. /\ t.seen = s.seen + 1
      /\ t.memaddr = IF s.seen + 1 = s.width THEN n % Size(s) ELSE n
      /\ t.on = s.on /\ t.width = s.width /\ t.mem = s.mem
  BY MemoryAddressedFacts
<1>2. Points(s, e, p) /\ ~e.deferred
  BY DEF Agrees
<1>3. s.seen \in Nat /\ s.width \in Nat /\ s.memaddr \in Nat /\ b \in Nat /\ Base \in Nat
  BY ValueFacts DEF Sized, Sides
<1>4. p.prefix \in [bytes : Nat, value : Nat]
  BY DEF Pledges
<1>5. n = v
  <2>1. CASE s.seen = 0
    BY <1>2, <1>3, <2>1 DEF Points
  <2>2. CASE s.seen # 0
    <3>1. s.memaddr = p.prefix.value
      BY <1>2, <1>3, <2>2 DEF Points
    <3> QED BY <2>2, <3>1
  <2> QED BY <2>1, <2>2
<1>6. v \in Nat
  <2>1. p.prefix.value \in Nat
    BY <1>4
  <2> QED BY <1>3, <2>1
<1>7. p.prefix.bytes = s.seen
  BY <1>2 DEF Points
<1> HIDE DEF n
<1> DEFINE next == IF s.seen + 1 = s.width THEN {v} ELSE {}
           prefix == [bytes |-> s.seen + 1, value |-> v]
<1>8. q = [p EXCEPT !.prefix = prefix, !.next = next]
  BY <1>7 DEF Addressed
<1> HIDE DEF v, t
<1>9. prefix \in [bytes : Nat, value : Nat] /\ next \in SUBSET Nat
      /\ prefix.bytes = s.seen + 1 /\ prefix.value = v
  BY <1>3, <1>6
<1> HIDE DEF next, prefix, q
<1>10. q \in Pledges /\ q.prefix = prefix /\ q.next = next /\ q.cells = p.cells
  BY <1>8, <1>9 DEF Pledges
<1>11. Size(t) = Size(s) /\ Size(s) \in Nat
  BY <1>1, SizeType DEF Size
<1>12. Points(t, e, q)
  <2>1. q.cells = t.mem /\ q.prefix.bytes = t.seen /\ t.seen > 0
    BY <1>1, <1>2, <1>3, <1>9, <1>10 DEF Points
  <2>2. CASE s.seen + 1 = s.width
    <3>1. q.next = {v} /\ t.memaddr = v % Size(t) /\ t.seen = t.width
      BY <1>1, <1>5, <1>10, <1>11, <2>2 DEF next
    <3>2. t.seen \in Nat /\ ~(t.seen < t.width)
      BY <1>1, <1>3, <3>1
    <3>3. \E k \in Nat : q.next = {k} /\ t.memaddr = k % Size(t)
      BY <1>6, <3>1
    <3> QED BY <2>1, <3>2, <3>3 DEF Points
  <2>3. CASE s.seen + 1 # s.width
    <3>1. q.next = {} /\ t.memaddr = v /\ q.prefix.value = v /\ t.seen < t.width
      BY <1>1, <1>3, <1>5, <1>9, <1>10, <2>3 DEF next
    <3> QED BY <2>1, <3>1 DEF Points
  <2> QED BY <2>2, <2>3
<1>13. Agrees(t, e, q)
  BY <1>2, <1>11, <1>12 DEF Agrees
<1> QED BY <1>10, <1>13 DEF t, q

\* A byte in a cell.
LEMMA StoreAgrees ==
    ASSUME NEW s, Sized(s), NEW e, NEW p \in Pledges, Agrees(s, e, p),
           Size(s) > 0, e.phase = "write", ~(s.seen < s.width), NEW b \in Values
    PROVE  LET u == [s EXCEPT !.mem[s.memaddr + 1] = b, !.wrote = TRUE]
               q == [p EXCEPT !.cells[(Cell(p) % Size(s)) + 1] = b,
                              !.next = {n + 1 : n \in @}]
           IN  Sized(Moved(u)) /\ q \in Pledges /\ Agrees(Moved(u), e, q)
<1> DEFINE u == [s EXCEPT !.mem[s.memaddr + 1] = b, !.wrote = TRUE]
           q == [p EXCEPT !.cells[(Cell(p) % Size(s)) + 1] = b, !.next = {n + 1 : n \in @}]
           t == Moved(u)
<1>1. Points(s, e, p) /\ ~e.deferred
  BY DEF Agrees
<1>2. s.seen \in Nat /\ s.width \in Nat /\ s.memaddr \in Nat /\ s.memaddr + 1 \in Nat
  BY DEF Sized, Sides
<1>3. /\ Sized(u) /\ u.mem = [s.mem EXCEPT ![s.memaddr + 1] = b] /\ Size(u) = Size(s)
      /\ u.on = s.on /\ u.width = s.width /\ u.memaddr = s.memaddr
      /\ u.seen = s.seen /\ u.tx = s.tx /\ u.pos = s.pos
  <2> DEFINE i == s.memaddr + 1
             d == [s.mem EXCEPT ![i] = b]
             v == [s EXCEPT !.mem = d]
  <2>1. u = [v EXCEPT !.wrote = TRUE]
    BY DEF Sized, Sides
  <2> HIDE DEF u
  <2>2. i \in Nat
    BY <1>2
  <2> HIDE DEF i
  <2>3. d = [s.mem EXCEPT ![i] = b]
    OBVIOUS
  <2> HIDE DEF d
  <2>4. v = [s EXCEPT !.mem = d]
    OBVIOUS
  <2> HIDE DEF v
  <2>5. /\ Sized(v) /\ v.mem = d /\ Size(v) = Size(s)
        /\ v.on = s.on /\ v.width = s.width /\ v.memaddr = s.memaddr
        /\ v.seen = s.seen /\ v.tx = s.tx /\ v.pos = s.pos
    BY <2>2, <2>3, <2>4, StoredFacts
  <2>6. Sized(u) /\ SameData(v, u)
    BY <2>1, <2>5, WroteFacts
  <2> QED BY <2>3, <2>5, <2>6 DEF i, SameData, Size
<1> HIDE DEF u
<1>4. /\ Sized(t) /\ t.memaddr = (u.memaddr + 1) % Size(u)
      /\ t.on = u.on /\ t.width = u.width /\ t.mem = u.mem
      /\ t.seen = u.seen /\ t.tx = u.tx /\ t.pos = u.pos
  BY <1>3, MovedFacts
<1> HIDE DEF t
<1>5. PICK n \in Nat : p.next = {n} /\ s.memaddr = n % Size(s)
  BY <1>1 DEF Points
<1>6. Cell(p) = n
  BY <1>5 DEF Cell
<1>7. Size(s) \in Nat
  BY SizeType
<1>8. n % Size(s) = s.memaddr
  BY <1>5
<1> DEFINE c == [p.cells EXCEPT ![s.memaddr + 1] = b]
           next == {n + 1}
<1>9. q = [p EXCEPT !.cells = c, !.next = next]
  <2>1. (Cell(p) % Size(s)) + 1 = s.memaddr + 1
    BY <1>6, <1>8
  <2>2. {k + 1 : k \in p.next} = next
    BY <1>5
  <2>3. q = [p EXCEPT !.cells = [p.cells EXCEPT ![(Cell(p) % Size(s)) + 1] = b],
                      !.next = {k + 1 : k \in p.next}]
    BY DEF Pledges
  <2> QED BY <2>1, <2>2, <2>3
<1>10. c = t.mem
  BY <1>1, <1>3, <1>4 DEF Points
<1>11. t.mem \in Seq(Values) /\ next \in SUBSET Nat
  BY <1>4 DEF Sized, Sides
<1> HIDE DEF c, q
<1>12. q \in Pledges /\ q.cells = c /\ q.next = next /\ q.prefix = p.prefix
  BY <1>9, <1>10, <1>11 DEF Pledges
<1>13. Size(t) = Size(s)
  BY <1>3, <1>4 DEF Size
<1>14. t.memaddr = (n + 1) % Size(t)
  BY <1>3, <1>4, <1>5, <1>7, <1>13, NextRemainder
<1>15. Points(t, e, q)
  <2>1. \E k \in Nat : q.next = {k} /\ t.memaddr = k % Size(t)
    BY <1>12, <1>14
  <2>2. t.seen = s.seen /\ t.width = s.width
    BY <1>3, <1>4
  <2> QED BY <1>1, <1>2, <1>10, <1>12, <2>1, <2>2 DEF Points
<1>16. Agrees(t, e, q)
  BY <1>1, <1>13, <1>15 DEF Agrees
<1> QED BY <1>4, <1>12, <1>16 DEF t, q, u

\* A byte for the program.
LEMMA GotFacts ==
    ASSUME NEW s, Sized(s), NEW b \in Values
    PROVE  LET t == IF Len(s.rx) < BufMax THEN [s EXCEPT !.rx = Append(@, b)] ELSE s
           IN  Sized(t) /\ SameData(s, t)
<1>1. CASE Len(s.rx) < BufMax
  <2> DEFINE r == Append(s.rx, b)
             t == [s EXCEPT !.rx = r]
  <2>1. s.rx \in Seq(Values)
    BY DEF Sized, Sides
  <2>2. r \in Seq(Values) /\ Len(r) = Len(s.rx) + 1 /\ Len(s.rx) \in Nat
    BY <2>1, AppendProperties, LenProperties
  <2>3. Len(r) <= BufMax
    BY <1>1, <2>2, ValueFacts
  <2>4. [s EXCEPT !.rx = Append(@, b)] = t
    BY DEF Sized, Sides
  <2> HIDE DEF r
  <2>5. /\ t \in Sides /\ t.rx = r /\ SameData(s, t)
    BY <2>2 DEF Sized, Sides, SameData
  <2> HIDE DEF t
  <2>6. Sized(t)
    BY <2>3, <2>5 DEF Sized, SameData
  <2> QED BY <1>1, <2>4, <2>5, <2>6
<1>2. CASE ~(Len(s.rx) < BufMax)
  BY <1>2 DEF SameData
<1> QED BY <1>1, <1>2

LEMMA WriteAgrees ==
    ASSUME NEW s, Sized(s), NEW e, NEW p \in Pledges, Agrees(s, e, p),
           e.phase = "write", NEW b \in Values
    PROVE  Sized(WriteByte(s, b)) /\ Heard(s, p, b) \in Pledges
           /\ Agrees(WriteByte(s, b), e, Heard(s, p, b))
<1>1. CASE Size(s) = 0
  <2> DEFINE t == IF Len(s.rx) < BufMax THEN [s EXCEPT !.rx = Append(@, b)] ELSE s
             f == Flagged(t, "write_req")
  <2>1. Sized(t) /\ SameData(s, t)
    BY GotFacts
  <2>2. "write_req" \in Events
    BY DEF Events
  <2>3. WriteByte(s, b) = f /\ Heard(s, p, b) = p
    BY <1>1 DEF WriteByte, Heard
  <2> HIDE DEF t
  <2>4. Sized(f) /\ SameData(t, f)
    BY <2>1, <2>2, FlaggedFacts
  <2> HIDE DEF f
  <2>5. SameData(s, f) /\ SamePledge(p, p)
    BY <2>1, <2>4 DEF SameData, SamePledge
  <2>6. Agrees(f, e, p)
    BY <2>5, AgreesSame
  <2> QED BY <2>3, <2>4, <2>6
<1>2. CASE Size(s) # 0 /\ s.seen < s.width
  <2>1. Size(s) > 0
    BY <1>2, SizeType
  <2>2. p.prefix.bytes = s.seen
    BY <2>1 DEF Agrees, Points
  <2>3. WriteByte(s, b) = MemoryAddressed(s, b) /\ Heard(s, p, b) = Addressed(s, p, b)
    BY <1>2, <2>2 DEF WriteByte, Heard
  <2>4. Sized(MemoryAddressed(s, b))
    BY <1>2, <2>1, MemoryAddressedFacts
  <2>5. /\ Addressed(s, p, b) \in Pledges
        /\ Agrees(MemoryAddressed(s, b), e, Addressed(s, p, b))
    BY <1>2, <2>1, AddressAgrees
  <2> QED BY <2>3, <2>4, <2>5
<1>3. CASE Size(s) # 0 /\ ~(s.seen < s.width)
  <2> DEFINE t == Moved([s EXCEPT !.mem[s.memaddr + 1] = b, !.wrote = TRUE])
             q == [p EXCEPT !.cells[(Cell(p) % Size(s)) + 1] = b,
                            !.next = {n + 1 : n \in @}]
  <2>1. Size(s) > 0
    BY <1>3, SizeType
  <2>2. p.prefix.bytes = s.seen
    BY <2>1 DEF Agrees, Points
  <2>3. WriteByte(s, b) = t /\ Heard(s, p, b) = q
    BY <1>3, <2>2 DEF WriteByte, Heard
  <2>4. Sized(t) /\ q \in Pledges /\ Agrees(t, e, q)
    BY <1>3, <2>1, StoreAgrees
  <2> QED BY <2>3, <2>4
<1> QED BY <1>1, <1>2, <1>3

-----------------------------------------------------------------------------
(* A byte read.                                                             *)

\* What is left of a queue from a place on.
LEMMA RestFacts ==
    ASSUME NEW q \in Seq(Values), NEW i \in 1..(Len(q) + 1)
    PROVE  /\ SubSeq(q, i, Len(q)) \in Seq(Values)
           /\ i <= Len(q) => /\ SubSeq(q, i, Len(q)) # <<>>
                             /\ Head(SubSeq(q, i, Len(q))) = q[i]
                             /\ Tail(SubSeq(q, i, Len(q))) = SubSeq(q, i + 1, Len(q))
           /\ i = Len(q) + 1 => SubSeq(q, i, Len(q)) = <<>>
<1>1. Len(q) \in Nat
  BY LenProperties
<1>2. \A k \in i..Len(q) : q[k] \in Values
  BY <1>1, LenProperties
<1>3. SubSeq(q, i, Len(q)) \in Seq(Values)
  BY <1>1, <1>2, SubSeqProperties
<1>4. ASSUME i <= Len(q)
      PROVE  /\ SubSeq(q, i, Len(q)) # <<>>
             /\ Head(SubSeq(q, i, Len(q))) = q[i]
             /\ Tail(SubSeq(q, i, Len(q))) = SubSeq(q, i + 1, Len(q))
  <2>1. Len(SubSeq(q, i, Len(q))) = Len(q) - i + 1
    BY <1>1, <1>2, <1>4, SubSeqProperties
  <2>2. SubSeq(q, i, Len(q)) # <<>>
    BY <1>1, <1>4, <2>1, EmptySeq
  <2>3. Head(SubSeq(q, i, Len(q))) = q[i] /\ Tail(SubSeq(q, i, Len(q))) = SubSeq(q, i + 1, Len(q))
    BY <1>1, <1>4, HeadTailOfSubSeq
  <2> QED BY <2>2, <2>3
<1>5. i = Len(q) + 1 => SubSeq(q, i, Len(q)) = <<>>
  BY <1>1, SubSeqEmpty
<1> QED BY <1>3, <1>4, <1>5

LEMMA TakenFacts ==
    ASSUME NEW s, Sized(s), s.pos < Len(s.tx)
    PROVE  LET t == Taken(s)
           IN  /\ Sized(t) /\ t.on = s.on /\ t.width = s.width /\ t.mem = s.mem
               /\ t.pending = s.pending /\ t.flags = s.flags
               /\ SubSeq(t.tx, t.pos + 1, Len(t.tx)) = SubSeq(s.tx, s.pos + 2, Len(s.tx))
<1>1. s.tx \in Seq(Values) /\ s.pos \in Nat /\ Len(s.tx) \in Nat
  BY LenProperties DEF Sized, Sides
<1>2. CASE s.pos + 1 >= Len(s.tx)
  <2> DEFINE t == [s EXCEPT !.tx = <<>>, !.pos = 0]
  <2>1. t \in Sides /\ t.on = s.on /\ t.width = s.width /\ t.mem = s.mem
        /\ t.pending = s.pending /\ t.flags = s.flags /\ t.rx = s.rx /\ t.seen = s.seen
        /\ t.tx = <<>> /\ t.pos = 0
    BY EmptySeq DEF Sized, Sides
  <2>2. Taken(s) = t
    BY <1>2 DEF Taken
  <2> HIDE DEF t
  <2>3. Len(t.tx) = 0 /\ t.tx \in Seq(Values)
    BY <2>1, EmptySeq
  <2>4. Sized(t)
    BY <2>1, <2>3, ValueFacts DEF Sized
  <2>5. SubSeq(t.tx, t.pos + 1, Len(t.tx)) = <<>>
    BY <2>1, <2>3, RestFacts
  <2>6. s.pos + 2 = Len(s.tx) + 1
    BY <1>1, <1>2
  <2>7. SubSeq(s.tx, s.pos + 2, Len(s.tx)) = <<>>
    BY <1>1, <2>6, RestFacts
  <2> QED BY <2>1, <2>2, <2>4, <2>5, <2>7
<1>3. CASE ~(s.pos + 1 >= Len(s.tx))
  <2> DEFINE n == s.pos + 1
             t == [s EXCEPT !.pos = n]
  <2>1. n \in Nat
    BY <1>1
  <2>2. Taken(s) = t
    BY <1>3 DEF Taken, Sized, Sides
  <2>3. n <= Len(s.tx) /\ n + 1 = s.pos + 2
    BY <1>1, <1>3
  <2> HIDE DEF n
  <2>4. t \in Sides /\ t.on = s.on /\ t.width = s.width /\ t.mem = s.mem
        /\ t.pending = s.pending /\ t.flags = s.flags /\ t.rx = s.rx /\ t.seen = s.seen
        /\ t.tx = s.tx /\ t.pos = n
    BY <2>1 DEF Sized, Sides
  <2> HIDE DEF t
  <2>5. Sized(t)
    BY <2>3, <2>4 DEF Sized
  <2> QED BY <2>2, <2>3, <2>4, <2>5
<1> QED BY <1>2, <1>3

\* What a controller is told of a memory is what the side reads in it.
LEMMA CellAgrees ==
    ASSUME NEW s, Sized(s), NEW e, NEW p \in Pledges, Agrees(s, e, p), Size(s) > 0,
           NEW b \in CellsRead(s), NEW f \in Engines, f.phase = "read", ~f.deferred, f.out = b
    PROVE  /\ b \in Values /\ Sized(Moved(s)) /\ Expected(s, p) \in Pledges
           /\ Agrees(Moved(s), f, Expected(s, p))
<1> DEFINE t == Moved(s)
           byte == {p.cells[(n % Size(s)) + 1] : n \in p.next}
           next == {n + 1 : n \in p.next}
           q == Expected(s, p)
<1>1. Points(s, e, p)
  BY DEF Agrees
<1>2. Size(s) \in Nat /\ s.mem \in Seq(Values) /\ Size(s) = Len(s.mem) /\ s.memaddr \in Nat
  BY SizeType DEF Sized, Sides, Size
<1>3. /\ Sized(t) /\ t.memaddr = (s.memaddr + 1) % Size(s)
      /\ t.on = s.on /\ t.width = s.width /\ t.mem = s.mem /\ t.seen = s.seen
  BY MovedFacts
<1>4. Size(t) = Size(s)
  BY <1>3 DEF Size
<1>5. b \in Values
  <2>1. CASE s.memaddr < Size(s)
    <3>1. s.memaddr + 1 \in 1..Len(s.mem)
      BY <1>2, <2>1
    <3>2. s.mem[s.memaddr + 1] \in Values
      BY <1>2, <3>1, LenProperties
    <3> QED BY <2>1, <3>2 DEF CellsRead
  <2>2. CASE ~(s.memaddr < Size(s))
    BY <2>2 DEF CellsRead
  <2> QED BY <2>1, <2>2
<1>6. q = [p EXCEPT !.byte = byte, !.next = next]
  BY DEF Expected
<1> HIDE DEF t, q
<1>7. CASE p.next = {} /\ s.seen < s.width
  <2>1. byte = {} /\ next = {}
    BY <1>7
  <2> HIDE DEF byte, next
  <2>2. q \in Pledges /\ q.byte = {} /\ q.next = {} /\ q.cells = p.cells /\ q.prefix = p.prefix
    BY <1>6, <2>1 DEF Pledges
  <2>3. Points(t, f, q)
    BY <1>1, <1>3, <1>7, <2>2 DEF Points
  <2>4. Agrees(t, f, q)
    BY <1>4, <2>2, <2>3 DEF Agrees
  <2> QED BY <1>3, <1>5, <2>2, <2>4 DEF t, q
<1>8. CASE \E n \in Nat : p.next = {n} /\ s.memaddr = n % Size(s)
  <2>1. PICK n \in Nat : p.next = {n} /\ s.memaddr = n % Size(s)
    BY <1>8
  <2>2. s.memaddr \in 0..(Size(s) - 1)
    BY <1>2, <2>1, Remainder
  <2>3. b = s.mem[s.memaddr + 1]
    BY <1>2, <2>2 DEF CellsRead
  <2>4. p.cells = s.mem
    BY <1>1 DEF Points
  <2>5. byte = {b}
    BY <2>1, <2>3, <2>4
  <2>6. next = {n + 1}
    BY <2>1
  <2> HIDE DEF byte, next
  <2>7. byte \in SUBSET Values /\ next \in SUBSET Nat
    BY <1>5, <2>5, <2>6
  <2>8. q \in Pledges /\ q.byte = byte /\ q.next = next /\ q.cells = p.cells /\ q.prefix = p.prefix
    BY <1>6, <2>7 DEF Pledges
  <2>9. t.memaddr = (n + 1) % Size(t)
    BY <1>2, <1>3, <1>4, <2>1, NextRemainder
  <2>10. \E k \in Nat : q.next = {k} /\ t.memaddr = k % Size(t)
    BY <2>6, <2>8, <2>9
  <2>11. Points(t, f, q)
    BY <1>1, <1>3, <2>8, <2>10 DEF Points
  <2>12. Agrees(t, f, q)
    BY <1>4, <2>5, <2>8, <2>11 DEF Agrees
  <2> QED BY <1>3, <1>5, <2>8, <2>12 DEF t, q
<1> QED BY <1>1, <1>7, <1>8 DEF Points

LEMMA QueueAgrees ==
    ASSUME NEW s, Sized(s), NEW e, NEW p \in Pledges, Agrees(s, e, p), Size(s) = 0,
           NEW b, NEW t,
           \/ s.pos < Len(s.tx) /\ b = s.tx[s.pos + 1] /\ t = Taken(s)
           \/ ~(s.pos < Len(s.tx)) /\ b = High /\ t = s,
           NEW f \in Engines, f.phase = "read", ~f.deferred, f.out = b
    PROVE  /\ b \in Values /\ Sized(t) /\ Expected(s, p) \in Pledges
           /\ t.pending = s.pending /\ t.flags = s.flags /\ t.on = s.on
           /\ Agrees(t, f, Expected(s, p))
<1> DEFINE byte == {IF p.queue = <<>> THEN High ELSE Head(p.queue)}
           queue == IF p.queue = <<>> THEN <<>> ELSE Tail(p.queue)
           q == Expected(s, p)
<1>1. p.queue = SubSeq(s.tx, s.pos + 1, Len(s.tx))
  BY DEF Agrees
<1>2. s.tx \in Seq(Values) /\ s.pos \in Nat /\ Len(s.tx) \in Nat /\ s.pos <= Len(s.tx)
  BY LenProperties DEF Sized, Sides
<1>3. q = [p EXCEPT !.byte = byte, !.queue = queue]
  BY DEF Expected
<1> HIDE DEF q
<1>4. CASE s.pos < Len(s.tx)
  <2>1. s.pos + 1 \in 1..(Len(s.tx) + 1) /\ s.pos + 1 <= Len(s.tx) /\ s.pos + 1 + 1 = s.pos + 2
    BY <1>2, <1>4
  <2>2. /\ p.queue # <<>> /\ Head(p.queue) = s.tx[s.pos + 1]
        /\ Tail(p.queue) = SubSeq(s.tx, s.pos + 2, Len(s.tx))
    <3> DEFINE i == s.pos + 1
    <3>1. i \in 1..(Len(s.tx) + 1) /\ i <= Len(s.tx) /\ i + 1 = s.pos + 2
      BY <2>1
    <3>2. p.queue = SubSeq(s.tx, i, Len(s.tx))
      BY <1>1
    <3> HIDE DEF i
    <3>3. /\ p.queue # <<>> /\ Head(p.queue) = s.tx[i]
          /\ Tail(p.queue) = SubSeq(s.tx, i + 1, Len(s.tx))
      BY <1>2, <3>1, <3>2, RestFacts
    <3> QED BY <3>1, <3>3 DEF i
  <2>3. s.tx[s.pos + 1] \in Values
    BY <1>2, <2>1, LenProperties
  <2>4. b = s.tx[s.pos + 1] /\ t = Taken(s)
    BY <1>4
  <2>5. byte = {b} /\ queue = SubSeq(s.tx, s.pos + 2, Len(s.tx))
    BY <2>2, <2>4
  <2>6. s.pos + 2 \in 1..(Len(s.tx) + 1)
    BY <2>1
  <2>7. SubSeq(s.tx, s.pos + 2, Len(s.tx)) \in Seq(Values)
    BY <1>2, <2>6, RestFacts
  <2> HIDE DEF byte, queue
  <2>8. q \in Pledges /\ q.byte = byte /\ q.queue = queue
    BY <1>3, <2>3, <2>4, <2>5, <2>7 DEF Pledges
  <2>9. /\ Sized(t) /\ t.on = s.on /\ t.mem = s.mem
        /\ t.pending = s.pending /\ t.flags = s.flags
        /\ SubSeq(t.tx, t.pos + 1, Len(t.tx)) = SubSeq(s.tx, s.pos + 2, Len(s.tx))
    BY <1>4, <2>4, TakenFacts
  <2>10. Size(t) = 0
    BY <2>9 DEF Size
  <2>11. Agrees(t, f, q)
    <3>1. q.queue = SubSeq(t.tx, t.pos + 1, Len(t.tx)) /\ q.byte \subseteq {f.out}
      BY <2>5, <2>8, <2>9
    <3> QED BY <2>10, <3>1 DEF Agrees
  <2> QED BY <2>3, <2>4, <2>8, <2>9, <2>11 DEF q
<1>5. CASE ~(s.pos < Len(s.tx))
  <2>1. s.pos + 1 \in 1..(Len(s.tx) + 1) /\ s.pos + 1 = Len(s.tx) + 1
    BY <1>2, <1>5
  <2>2. p.queue = <<>>
    BY <1>1, <1>2, <2>1, RestFacts
  <2>3. b = High /\ t = s
    BY <1>5
  <2>4. byte = {b} /\ queue = p.queue /\ b \in Values
    BY <2>2, <2>3, ValueFacts
  <2> HIDE DEF byte, queue
  <2>5. q \in Pledges /\ q.byte = byte /\ q.queue = p.queue
    BY <1>3, <2>4 DEF Pledges
  <2>6. Agrees(s, f, q)
    BY <1>1, <2>4, <2>5 DEF Agrees
  <2> QED BY <2>3, <2>4, <2>5, <2>6 DEF q
<1> QED BY <1>4, <1>5

LEMMA ReadTypes ==
    ASSUME NEW s, Sized(s), NEW mayDefer \in BOOLEAN, NEW r \in ReadByte(s, mayDefer)
    PROVE  r.byte \in Values /\ r.deferred \in BOOLEAN /\ (~mayDefer => ~r.deferred)
<1>1. CASE Size(s) > 0
  <2>1. PICK b \in CellsRead(s) : r = [byte |-> b, left |-> Moved(s), deferred |-> FALSE]
    BY <1>1 DEF ReadByte
  <2>2. b \in Values
    <3>1. CASE s.memaddr < Size(s)
      <4>1. s.mem \in Seq(Values) /\ s.memaddr \in Nat /\ Size(s) = Len(s.mem)
        BY DEF Sized, Sides, Size
      <4>2. s.memaddr + 1 \in 1..Len(s.mem)
        BY <3>1, <4>1, LenProperties
      <4> QED BY <3>1, <4>1, <4>2, LenProperties DEF CellsRead
    <3>2. CASE ~(s.memaddr < Size(s))
      BY <3>2 DEF CellsRead
    <3> QED BY <3>1, <3>2
  <2> QED BY <2>1, <2>2
<1>2. CASE ~(Size(s) > 0) /\ s.pos < Len(s.tx)
  <2>1. r = [byte |-> s.tx[s.pos + 1], left |-> Taken(s), deferred |-> FALSE]
    BY <1>2 DEF ReadByte
  <2>2. s.tx \in Seq(Values) /\ s.pos \in Nat /\ Len(s.tx) \in Nat
    BY LenProperties DEF Sized, Sides
  <2>3. s.pos + 1 \in 1..Len(s.tx)
    BY <1>2, <2>2
  <2>4. s.tx[s.pos + 1] \in Values
    BY <2>2, <2>3, LenProperties
  <2> QED BY <2>1, <2>4
<1>3. CASE ~(Size(s) > 0) /\ ~(s.pos < Len(s.tx)) /\ mayDefer /\ CanDefer(s)
  <2>1. r = [byte |-> High, left |-> Flagged(s, "read_req"), deferred |-> TRUE]
    BY <1>3 DEF ReadByte
  <2> QED BY <1>3, <2>1, ValueFacts
<1>4. CASE ~(Size(s) > 0) /\ ~(s.pos < Len(s.tx)) /\ ~(mayDefer /\ CanDefer(s))
  <2>1. r = [byte |-> High, left |-> s, deferred |-> FALSE]
    BY <1>4 DEF ReadByte
  <2> QED BY <2>1, ValueFacts
<1> QED BY <1>1, <1>2, <1>3, <1>4

\* Whatever the byte comes from, or if it is owed.
LEMMA ReadAgrees ==
    ASSUME NEW s, Sized(s), s.on, NEW e, NEW p \in Pledges, Agrees(s, e, p),
           NEW mayDefer \in BOOLEAN, NEW r \in ReadByte(s, mayDefer), NEW f \in Engines,
           f.phase = "read", f.deferred = r.deferred, f.out = r.byte
    PROVE  LET q == IF r.deferred THEN [p EXCEPT !.byte = {}] ELSE Expected(s, p)
           IN  /\ r.byte \in Values /\ Sized(r.left) /\ q \in Pledges
               /\ r.left.on /\ Agrees(r.left, f, q)
               /\ ~mayDefer => ~r.deferred
               /\ ~r.deferred => r.left.pending = s.pending /\ r.left.flags = s.flags
<1>1. CASE Size(s) > 0
  <2>1. PICK b \in CellsRead(s) : r = [byte |-> b, left |-> Moved(s), deferred |-> FALSE]
    BY <1>1 DEF ReadByte
  <2>2. r.byte = b /\ r.left = Moved(s) /\ r.deferred = FALSE
    BY <2>1
  <2>3. /\ b \in Values /\ Sized(Moved(s)) /\ Expected(s, p) \in Pledges
        /\ Agrees(Moved(s), f, Expected(s, p))
    BY <1>1, <2>2, CellAgrees
  <2>4. Moved(s).on = s.on /\ Moved(s).pending = s.pending /\ Moved(s).flags = s.flags
    BY DEF Moved, Sized, Sides
  <2> QED BY <2>2, <2>3, <2>4
<1>2. CASE Size(s) = 0 /\ s.pos < Len(s.tx)
  <2>1. r = [byte |-> s.tx[s.pos + 1], left |-> Taken(s), deferred |-> FALSE]
    BY <1>2 DEF ReadByte
  <2>2. r.byte = s.tx[s.pos + 1] /\ r.left = Taken(s) /\ r.deferred = FALSE
    BY <2>1
  <2> HIDE DEF Pledges
  <2> QED BY <1>2, <2>2, QueueAgrees
<1>3. CASE Size(s) = 0 /\ ~(s.pos < Len(s.tx)) /\ mayDefer /\ CanDefer(s)
  <2> DEFINE t == Flagged(s, "read_req")
             q == [p EXCEPT !.byte = {}]
  <2>1. r = [byte |-> High, left |-> t, deferred |-> TRUE]
    BY <1>3 DEF ReadByte
  <2>2. r.byte = High /\ r.left = t /\ r.deferred = TRUE
    BY <2>1
  <2>3. "read_req" \in Events
    BY DEF Events
  <2>4. Sized(t) /\ SameData(s, t)
    BY <2>3, FlaggedFacts
  <2>5. q \in Pledges /\ q.queue = p.queue
    BY DEF Pledges
  <2> HIDE DEF t, q
  <2>6. Size(t) = 0 /\ t.on
    BY <1>3, <2>4 DEF Size, SameData
  <2>7. Agrees(t, f, q)
    <3>1. f.deferred
      BY <2>2
    <3>2. q.queue = SubSeq(t.tx, t.pos + 1, Len(t.tx))
      BY <1>3, <2>4, <2>5 DEF Agrees, SameData
    <3> QED BY <2>6, <3>1, <3>2 DEF Agrees
  <2> QED BY <1>3, <2>2, <2>4, <2>5, <2>6, <2>7, ValueFacts DEF q
<1>4. CASE Size(s) = 0 /\ ~(s.pos < Len(s.tx)) /\ ~(mayDefer /\ CanDefer(s))
  <2>1. r = [byte |-> High, left |-> s, deferred |-> FALSE]
    BY <1>4 DEF ReadByte
  <2>2. r.byte = High /\ r.left = s /\ r.deferred = FALSE
    BY <2>1
  <2> QED BY <1>4, <2>2, QueueAgrees
<1>5. Size(s) \in Nat
  BY SizeType
<1> QED BY <1>1, <1>2, <1>3, <1>4, <1>5

-----------------------------------------------------------------------------
(* What the program does to its side.                                       *)

\* write: what was sent makes room, and the byte is queued if it fits.
LEMMA CompactedFacts ==
    ASSUME NEW s, Sized(s)
    PROVE  LET t == Compacted(s)
           IN  /\ Sized(t) /\ t.on = s.on /\ t.width = s.width /\ t.mem = s.mem
               /\ t.pending = s.pending /\ t.flags = s.flags
               /\ t.pos = 0 /\ t.tx = SubSeq(s.tx, s.pos + 1, Len(s.tx))
<1> DEFINE u == SubSeq(s.tx, s.pos + 1, Len(s.tx))
           t == [s EXCEPT !.tx = u, !.pos = 0]
<1>1. s.tx \in Seq(Values) /\ s.pos \in Nat /\ Len(s.tx) \in Nat /\ s.pos <= Len(s.tx)
  BY LenProperties DEF Sized, Sides
<1>2. s.pos + 1 \in 1..(Len(s.tx) + 1)
  BY <1>1
<1>3. u \in Seq(Values)
  BY <1>1, <1>2, RestFacts
<1>4. Len(u) <= BufMax /\ Len(u) \in Nat
  <2>1. \A k \in (s.pos + 1)..Len(s.tx) : s.tx[k] \in Values
    BY <1>1, LenProperties
  <2>2. Len(u) = IF s.pos + 1 <= Len(s.tx) THEN Len(s.tx) - (s.pos + 1) + 1 ELSE 0
    BY <1>1, <2>1, SubSeqProperties
  <2>3. Len(s.tx) <= BufMax
    BY DEF Sized
  <2> QED BY <1>1, <2>2, <2>3, ValueFacts
<1>5. Compacted(s) = t
  BY DEF Compacted, Sized, Sides
<1> HIDE DEF u
<1>6. /\ t \in Sides /\ t.on = s.on /\ t.width = s.width /\ t.mem = s.mem
      /\ t.pending = s.pending /\ t.flags = s.flags /\ t.rx = s.rx /\ t.seen = s.seen
      /\ t.pos = 0 /\ t.tx = u
  BY <1>3 DEF Sized, Sides
<1> HIDE DEF t
<1>7. Sized(t)
  BY <1>4, <1>6 DEF Sized
<1> QED BY <1>5, <1>6, <1>7 DEF u

LEMMA QueuedFacts ==
    ASSUME NEW s, Sized(s), Len(s.tx) < BufMax, s.pos = 0, NEW b \in Values
    PROVE  LET t == [s EXCEPT !.tx = Append(@, b)]
           IN  /\ Sized(t) /\ t.on = s.on /\ t.width = s.width /\ t.mem = s.mem
               /\ t.pending = s.pending /\ t.flags = s.flags
               /\ t.pos = 0 /\ t.tx = Append(s.tx, b)
<1> DEFINE u == Append(s.tx, b)
           t == [s EXCEPT !.tx = u]
<1>1. s.tx \in Seq(Values) /\ Len(s.tx) \in Nat
  BY LenProperties DEF Sized, Sides
<1>2. u \in Seq(Values) /\ Len(u) = Len(s.tx) + 1
  BY <1>1, AppendProperties
<1>3. [s EXCEPT !.tx = Append(@, b)] = t
  BY DEF Sized, Sides
<1>4. Len(u) <= BufMax /\ 0 <= Len(u)
  BY <1>1, <1>2, ValueFacts
<1> HIDE DEF u
<1>5. /\ t \in Sides /\ t.on = s.on /\ t.width = s.width /\ t.mem = s.mem
      /\ t.pending = s.pending /\ t.flags = s.flags /\ t.rx = s.rx /\ t.seen = s.seen
      /\ t.pos = 0 /\ t.tx = u
  BY <1>2 DEF Sized, Sides
<1> HIDE DEF t
<1>6. Sized(t)
  BY <1>4, <1>5 DEF Sized
<1> QED BY <1>3, <1>5, <1>6 DEF u

-----------------------------------------------------------------------------
(* The calls in progress.                                                   *)

LEMMA CallFacts ==
    ASSUME NEW kind \in Kinds, NEW state \in {"runs", "waits"}, NEW due \in Seq(Dues),
           NEW back \in BOOLEAN
    PROVE  /\ Call(kind, state, due, back) \in CallsInProgress
           /\ Call(kind, state, due, back).kind = kind
           /\ Call(kind, state, due, back).state = state
           /\ Call(kind, state, due, back).due = due
           /\ Call(kind, state, due, back).back = back
BY DEF Call, CallsInProgress

LEMMA FrontFields ==
    ASSUME NEW cs \in Seq(CallsInProgress), Len(cs) \in Nat \ {0}
    PROVE  /\ Front(cs) \in Seq(CallsInProgress) /\ Len(Front(cs)) = Len(cs) - 1
           /\ \A i \in 1..(Len(cs) - 1) : Front(cs)[i] = cs[i]
<1> DEFINE m == Len(cs) - 1
           f == SubSeq(cs, 1, m)
<1>1. m \in Nat /\ m \in Int /\ 1 \in Int
  OBVIOUS
<1>2. \A i \in 1..m : cs[i] \in CallsInProgress
  BY LenProperties
<1> HIDE DEF m
<1>3. /\ f \in Seq(CallsInProgress)
      /\ Len(f) = IF 1 <= m THEN m - 1 + 1 ELSE 0
      /\ \A i \in 1..(m - 1 + 1) : f[i] = cs[1 + i - 1]
  BY <1>1, <1>2, SubSeqProperties
<1> HIDE DEF f
<1>4. Len(f) = m
  BY <1>1, <1>3
<1>5. \A i \in 1..m : f[i] = cs[i]
  BY <1>1, <1>3
<1>6. Front(cs) = f
  BY DEF Front, f, m
<1> QED BY <1>3, <1>4, <1>5, <1>6 DEF m

LEMMA InnermostFacts ==
    ASSUME Nested(calls)
    PROVE  /\ Len(calls) \in Nat \ {0} /\ Innermost = calls[Len(calls)]
           /\ Innermost \in CallsInProgress
           /\ Innermost.kind = "main" <=> Len(calls) = 1
           /\ Innermost.state = "runs" => Innermost.due = <<>>
<1>1. Len(calls) \in Nat \ {0}
  BY LenProperties, EmptySeq DEF Nested
<1>2. Innermost = calls[Len(calls)]
  BY DEF Innermost, Last
<1> DEFINE n == Len(calls)
<1>3. n \in 1..Len(calls) /\ calls \in Seq(CallsInProgress)
  BY <1>1 DEF Nested
<1>4. calls[n] \in CallsInProgress
  BY <1>3, LenProperties
<1>5. calls[n].kind = "main" <=> n = 1
  BY <1>3 DEF Nested
<1>6. calls[n].state = "runs" => calls[n].due = <<>>
  BY <1>3 DEF Nested
<1> QED BY <1>1, <1>2, <1>4, <1>5, <1>6

\* The innermost call becomes another; nothing else changes.
LEMMA UnderFacts ==
    ASSUME Nested(calls), NEW c \in CallsInProgress, c.kind = Innermost.kind,
           c.state = "runs" => c.due = <<>>
    PROVE  /\ Nested(Under(c)) /\ Len(Under(c)) = Len(calls)
           /\ Last(Under(c)) = c /\ Under(c)[Len(calls)] = c
           /\ \A i \in 1..(Len(calls) - 1) : Under(c)[i] = calls[i]
<1> DEFINE n == Len(calls)
           f == Front(calls)
           ds == Under(c)
<1>1. n \in Nat \ {0} /\ Innermost = calls[n]
  BY InnermostFacts
<1>2. calls \in Seq(CallsInProgress)
  BY DEF Nested
<1>3. \A i \in 1..n : calls[i] \in CallsInProgress
  BY <1>1, <1>2, LenProperties
<1>4. f \in Seq(CallsInProgress) /\ Len(f) = n - 1 /\ \A i \in 1..(n - 1) : f[i] = calls[i]
  BY <1>1, <1>2, FrontFields
<1>5. ds = Append(f, c)
  BY DEF Under
<1> HIDE DEF f, ds
<1>6. /\ ds \in Seq(CallsInProgress) /\ ds # <<>> /\ Len(ds) = n /\ ds[n] = c
      /\ \A i \in 1..(n - 1) : ds[i] = calls[i]
  BY <1>1, <1>4, <1>5, AppendProperties
<1> HIDE DEF n
<1>7. \A i \in 1..Len(ds) : ds[i].kind = "main" <=> i = 1
  <2>1. \A i \in 1..n : calls[i].kind = "main" <=> i = 1
    BY DEF Nested, n
  <2>2. \A i \in 1..n : ds[i].kind = calls[i].kind
    BY <1>1, <1>6
  <2> QED BY <1>6, <2>1, <2>2
<1>8. \A i \in 1..Len(ds) : ds[i].state = "runs" => i = Len(ds) /\ ds[i].due = <<>>
  <2>1. \A i \in 1..(n - 1) : calls[i].state # "runs"
    BY <1>1 DEF Nested, n
  <2> QED BY <1>1, <1>6, <2>1
<1>9. Last(ds) = c
  BY <1>6 DEF Last
<1> QED BY <1>6, <1>7, <1>8, <1>9 DEF Nested, ds, n

\* A callback begins in a call that waits.
LEMMA CalledFacts ==
    ASSUME NEW cs, Nested(cs), Last(cs).state = "waits", NEW c \in CallsInProgress,
           c.kind # "main", c.due = <<>>
    PROVE  /\ Nested(Append(cs, c)) /\ Len(Append(cs, c)) = Len(cs) + 1
           /\ Append(cs, c)[Len(cs) + 1] = c /\ Last(Append(cs, c)) = c
           /\ \A i \in 1..Len(cs) : Append(cs, c)[i] = cs[i]
<1> DEFINE n == Len(cs)
           ds == Append(cs, c)
<1>1. n \in Nat \ {0} /\ cs \in Seq(CallsInProgress)
  BY LenProperties, EmptySeq DEF Nested
<1>2. /\ ds \in Seq(CallsInProgress) /\ ds # <<>> /\ Len(ds) = n + 1 /\ ds[n + 1] = c
      /\ \A i \in 1..n : ds[i] = cs[i]
  BY <1>1, AppendProperties
<1>3. cs[n].state = "waits"
  BY DEF Last
<1> HIDE DEF ds, n
<1>4. \A i \in 1..Len(ds) : ds[i].kind = "main" <=> i = 1
  <2>1. \A i \in 1..n : cs[i].kind = "main" <=> i = 1
    BY DEF Nested, n
  <2> QED BY <1>1, <1>2, <2>1
<1>5. \A i \in 1..Len(ds) : ds[i].state = "runs" => i = Len(ds) /\ ds[i].due = <<>>
  <2>1. \A i \in 1..n : cs[i].state # "runs"
    BY <1>1, <1>3 DEF Nested, n
  <2> QED BY <1>1, <1>2, <2>1
<1>6. Last(ds) = c
  BY <1>2 DEF Last
<1> QED BY <1>2, <1>4, <1>5, <1>6 DEF Nested, ds, n

\* A callback is over: the call under it waits.
LEMMA FrontFacts ==
    ASSUME Nested(calls), Innermost.kind # "main"
    PROVE  /\ Nested(Front(calls)) /\ Len(Front(calls)) = Len(calls) - 1
           /\ Len(calls) > 1 /\ Last(Front(calls)).state = "waits"
           /\ \A i \in 1..(Len(calls) - 1) : Front(calls)[i] = calls[i]
<1> DEFINE n == Len(calls)
           f == Front(calls)
<1>1. n \in Nat \ {0} /\ Innermost = calls[n] /\ n # 1
  BY InnermostFacts
<1>2. calls \in Seq(CallsInProgress)
  BY DEF Nested
<1>3. \A i \in 1..n : calls[i] \in CallsInProgress
  BY <1>1, <1>2, LenProperties
<1>4. f \in Seq(CallsInProgress) /\ Len(f) = n - 1 /\ \A i \in 1..(n - 1) : f[i] = calls[i]
  BY <1>1, <1>2, FrontFields
<1> HIDE DEF f, n
<1>5. f # <<>>
  BY <1>1, <1>4, EmptySeq
<1>6. \A i \in 1..n : calls[i].kind = "main" <=> i = 1
  BY DEF Nested, n
<1>7. \A i \in 1..(n - 1) : calls[i].state = "waits"
  <2>1. \A i \in 1..(n - 1) : calls[i].state # "runs"
    BY <1>1 DEF Nested, n
  <2>2. TAKE i \in 1..(n - 1)
  <2>3. calls[i] \in CallsInProgress
    BY <1>1, <1>3
  <2>4. calls[i].state \in {"runs", "waits"}
    BY <2>3 DEF CallsInProgress
  <2> QED BY <2>1, <2>4
<1>8. Last(f).state = "waits"
  BY <1>1, <1>4, <1>7 DEF Last
<1>9. Nested(f)
  BY <1>1, <1>4, <1>5, <1>6, <1>7 DEF Nested
<1> QED BY <1>1, <1>4, <1>8, <1>9 DEF f, n

Owes(due) == \E i \in 1..Len(due) : due[i] = "handler"

LEMMA BatchFacts ==
    ASSUME NEW open \in BOOLEAN, NEW s, NEW other \in BOOLEAN
    PROVE  /\ Batch(open, s, other) \in Seq(Dues)
           /\ Owes(Batch(open, s, other)) <=> open /\ s.pending # {}
<1> DEFINE a == IF open /\ other THEN <<"other">> ELSE <<>>
           b == IF open /\ s.pending # {} THEN <<"handler">> ELSE <<>>
           c == a \o b
<1>1. Batch(open, s, other) = c
  BY DEF Batch
<1>2. "other" \in Dues /\ "handler" \in Dues
  BY DEF Dues
<1>3. a \in Seq(Dues) /\ \A i \in 1..Len(a) : a[i] = "other"
  <2>1. CASE open /\ other
    BY <1>2, <2>1
  <2>2. CASE ~(open /\ other)
    BY <2>2, EmptySeq
  <2> QED BY <2>1, <2>2
<1>4. /\ b \in Seq(Dues) /\ \A i \in 1..Len(b) : b[i] = "handler"
      /\ open /\ s.pending # {} => Len(b) = 1 /\ b[1] = "handler"
      /\ ~(open /\ s.pending # {}) => Len(b) = 0
  <2>1. CASE open /\ s.pending # {}
    BY <1>2, <2>1
  <2>2. CASE ~(open /\ s.pending # {})
    BY <2>2, EmptySeq
  <2> QED BY <2>1, <2>2
<1> HIDE DEF a, b
<1>5. c \in Seq(Dues) /\ Len(c) = Len(a) + Len(b)
      /\ \A i \in 1..(Len(a) + Len(b)) : c[i] = IF i <= Len(a) THEN a[i] ELSE b[i - Len(a)]
  BY <1>3, <1>4, ConcatProperties
<1>6. Len(a) \in Nat /\ Len(b) \in Nat
  BY <1>3, <1>4, LenProperties
<1> HIDE DEF c
<1>7. ASSUME Owes(c) PROVE open /\ s.pending # {}
  <2>1. PICK i \in 1..Len(c) : c[i] = "handler"
    BY <1>7 DEF Owes
  <2>2. CASE i <= Len(a)
    BY <1>3, <1>5, <1>6, <2>1, <2>2
  <2>3. CASE ~(i <= Len(a))
    BY <1>4, <1>5, <1>6, <2>1, <2>3
  <2> QED BY <2>2, <2>3
<1>8. ASSUME open /\ s.pending # {} PROVE Owes(c)
  <2>1. Len(b) = 1 /\ b[1] = "handler"
    BY <1>4, <1>8
  <2>2. Len(a) + 1 \in 1..Len(c) /\ c[Len(a) + 1] = b[1]
    BY <1>5, <1>6, <2>1
  <2> QED BY <2>1, <2>2 DEF Owes
<1> QED BY <1>1, <1>5, <1>7, <1>8

LEMMA DueFacts ==
    ASSUME NEW due \in Seq(Dues), due # <<>>
    PROVE  /\ Head(due) \in Dues /\ Tail(due) \in Seq(Dues)
           /\ Owes(due) => Head(due) = "handler" \/ Owes(Tail(due))
<1>1. /\ Head(due) \in Dues /\ Tail(due) \in Seq(Dues) /\ Len(Tail(due)) = Len(due) - 1
      /\ \A i \in 1..Len(Tail(due)) : Tail(due)[i] = due[i + 1]
  BY HeadTailProperties
<1>2. Head(due) = due[1] /\ Len(due) \in Nat
  BY LenProperties
<1>3. ASSUME Owes(due), Head(due) # "handler" PROVE Owes(Tail(due))
  <2>1. PICK i \in 1..Len(due) : due[i] = "handler"
    BY <1>3 DEF Owes
  <2>2. i # 1
    BY <1>2, <1>3, <2>1
  <2>3. i - 1 \in 1..Len(Tail(due)) /\ Tail(due)[i - 1] = "handler"
    BY <1>1, <1>2, <2>1, <2>2
  <2> QED BY <2>3 DEF Owes
<1> QED BY <1>1, <1>3

-----------------------------------------------------------------------------
(* The types and what is agreed on, step by step.                           *)

Budgeted == budget \in [bus : Nat, calls : Nat, depth : Nat, setup : [cells : Nat, width : Nat]]

\* Between two synchronisations no byte is owed.
Settled == at = "idle" => ~engine.deferred

DInv == Typed /\ promised \in Pledges /\ Agrees(side, engine, promised) /\ Settled

LEMMA DInvInit == TargetInit => DInv
<1> SUFFICES ASSUME TargetInit PROVE DInv
  OBVIOUS
<1> DEFINE c == Call("main", "runs", <<>>, FALSE)
<1>1. side = Off /\ engine = Silent /\ at = "turn" /\ calls = <<c>> /\ masked = FALSE
      /\ over = FALSE /\ promised = Nothing /\ budget \in Budgets
  BY DEF TargetInit
<1>2. budget \in [bus : Nat, calls : Nat, depth : Nat, setup : [cells : Nat, width : Nat]]
  BY <1>1, TargetAssumption
<1>3. <<>> \in Seq(Dues) /\ "main" \in Kinds /\ "runs" \in {"runs", "waits"} /\ FALSE \in BOOLEAN
  BY EmptySeq DEF Kinds
<1>4. c \in CallsInProgress /\ c.kind = "main" /\ c.due = <<>>
  BY <1>3 DEF Call, CallsInProgress
<1> HIDE DEF c
<1>5. Nested(calls)
  <2>1. calls \in Seq(CallsInProgress) /\ Len(calls) = 1 /\ calls[1] = c /\ calls # <<>>
    BY <1>1, <1>4
  <2> QED BY <1>4, <2>1 DEF Nested
<1>6. promised \in Pledges
  <2>1. <<>> \in Seq(Values)
    BY EmptySeq
  <2> QED BY <1>1, <2>1 DEF Nothing, NoPrefix, Pledges
<1>7. Agrees(side, engine, promised)
  <2>1. SubSeq(<<>>, 1, 0) = <<>> /\ Len(<<>>) = 0
    BY SubSeqEmpty, EmptySeq
  <2>2. Size(Off) = 0 /\ Off.tx = <<>> /\ Off.pos = 0 /\ Silent.phase = "idle" /\ ~Silent.deferred
        /\ Nothing.queue = <<>> /\ Off.pos + 1 = 1
    BY <2>1 DEF Size, Off, Silent, Nothing
  <2> QED BY <1>1, <2>1, <2>2 DEF Agrees
<1>8. Rests /\ Settled
  BY <1>1 DEF Rests, Settled
<1> QED BY <1>1, <1>2, <1>5, <1>6, <1>7, <1>8, OffSized DEF DInv, Typed

\* What the end of a step of the engine does with the wait on top.
LEMMA GivenFacts ==
    ASSUME Nested(calls), Rests, at = "idle", masked \in BOOLEAN,
           NEW s, Sized(s), NEW p \in Pledges, NEW e, Agrees(s, e, p),
           TurnGiven(s, p, BOOLEAN, BOOLEAN)
    PROVE  /\ Sized(side') /\ SameData(s, side') /\ at' \in {"turn", "finish"}
           /\ promised' \in Pledges /\ Agrees(side', e, promised')
           /\ Nested(calls') /\ (at' # "turn" /\ ~over => Last(calls').state = "waits")
<1>1. promised' \in Pledges /\ SamePledge(p, promised')
  <2>1. s.pending \in SUBSET Events
    BY DEF Sized, Sides
  <2>2. promised' = [p EXCEPT !.untold = s.pending, !.held = FALSE]
    BY DEF TurnGiven
  <2> QED BY <2>1, <2>2 DEF Pledges, SamePledge
<1>2. CASE at' = "turn"
  <2>1. PICK other \in BOOLEAN, back \in BOOLEAN :
           /\ ~over /\ side' = Collected(~masked, s)
           /\ calls' = Under([Innermost EXCEPT !.due = Batch(~masked, s, other), !.back = back])
    BY <1>2 DEF TurnGiven
  <2> DEFINE due == Batch(~masked, s, other)
             c == [Innermost EXCEPT !.due = due, !.back = back]
  <2>2. due \in Seq(Dues)
    BY BatchFacts
  <2>3. Innermost \in CallsInProgress /\ Innermost.state = "waits"
    BY <2>1, InnermostFacts DEF Rests
  <2> HIDE DEF due
  <2>4. c \in CallsInProgress /\ c.kind = Innermost.kind /\ c.state = "waits"
    BY <2>2, <2>3 DEF CallsInProgress
  <2>5. calls' = Under(c)
    BY <2>1 DEF due
  <2> HIDE DEF c
  <2>6. Nested(calls')
    BY <2>4, <2>5, UnderFacts
  <2>7. (~masked) \in BOOLEAN
    OBVIOUS
  <2>8. Sized(side') /\ SameData(s, side')
    BY <2>1, <2>7, CollectedFacts
  <2>9. Agrees(side', e, promised')
    BY <1>1, <2>8, AgreesSame
  <2> QED BY <1>1, <1>2, <2>6, <2>8, <2>9
<1>3. CASE at' # "turn"
  <2>1. at' = "finish" /\ side' = s /\ calls' = calls
    BY <1>3 DEF TurnGiven
  <2>2. SameData(s, side')
    BY <2>1 DEF SameData
  <2>3. Agrees(side', e, promised')
    BY <1>1, <2>2, AgreesSame
  <2>4. ~over => Last(calls').state = "waits"
    <3>1. Innermost = Last(calls)
      BY DEF Innermost
    <3>2. ~over => Innermost.state = "waits"
      BY DEF Rests
    <3> QED BY <2>1, <3>1, <3>2
  <2> QED BY <1>1, <2>1, <2>2, <2>3, <2>4
<1> QED BY <1>2, <1>3

LEMMA SteppedDInv ==
    ASSUME DInv, NEW s, Sized(s), NEW e \in Engines, NEW p \in Pledges, Agrees(s, e, p),
           Stepped(s, e, p)
    PROVE  DInv'
<1>1. /\ at = "idle" /\ budget.bus > 0 /\ budget' = [budget EXCEPT !.bus = budget.bus - 1]
      /\ engine' = e /\ TurnGiven(s, p, {FALSE, TRUE}, {FALSE})
      /\ masked' = masked /\ over' = over
  BY DEF Stepped, DInv, Typed
<1>2. TurnGiven(s, p, BOOLEAN, BOOLEAN)
  BY <1>1 DEF TurnGiven
<1>3. Nested(calls) /\ Rests /\ masked \in BOOLEAN /\ over \in BOOLEAN
  BY DEF DInv, Typed
<1>4. /\ Sized(side') /\ at' \in {"turn", "finish"}
      /\ promised' \in Pledges /\ Agrees(side', e, promised')
      /\ Nested(calls') /\ (at' # "turn" /\ ~over => Last(calls').state = "waits")
  BY <1>1, <1>2, <1>3, GivenFacts
<1>5. budget' \in [bus : Nat, calls : Nat, depth : Nat, setup : [cells : Nat, width : Nat]]
  <2>1. budget \in [bus : Nat, calls : Nat, depth : Nat, setup : [cells : Nat, width : Nat]]
    BY DEF DInv, Typed
  <2>2. budget.bus - 1 \in Nat
    BY <1>1, <2>1
  <2> QED BY <1>1, <2>1, <2>2
<1>6. Rests' /\ Settled'
  BY <1>1, <1>4 DEF Rests, Innermost, Settled
<1> QED BY <1>1, <1>3, <1>4, <1>5, <1>6 DEF DInv, Typed

\* An edge of the bus leaves a side, an engine and a promise that agree.
EngineStep ==
    \E s \in Sides, e \in Engines, p \in Pledges :
        Sized(s) /\ Agrees(s, e, p) /\ Stepped(s, e, p)

LEMMA EngineSteps ==
    ASSUME DInv, Matches \/ Opens \/ Receives \/ ReadsOn \/ EndsPhase
    PROVE  EngineStep
<1>1. /\ Sized(side) /\ engine \in Engines /\ promised \in Pledges
      /\ Agrees(side, engine, promised)
  BY DEF DInv, Typed
<1>2. CASE Matches
  <2>1. PICK reads \in BOOLEAN :
          Stepped(AddrMatch(side, reads), [engine EXCEPT !.phase = "matched", !.reads = reads],
                  IF reads THEN promised ELSE [promised EXCEPT !.prefix = NoPrefix])
    BY <1>2 DEF Matches
  <2> DEFINE e == [engine EXCEPT !.phase = "matched", !.reads = reads]
             p == IF reads THEN promised ELSE [promised EXCEPT !.prefix = NoPrefix]
             s == AddrMatch(side, reads)
  <2>2. engine.phase = "idle"
    BY <1>2 DEF Matches
  <2>3. e \in Engines /\ p \in Pledges /\ Agrees(s, e, p)
    BY <1>1, <2>2, MatchAgrees
  <2>4. Sized(s)
    BY <1>1, AddrMatchFacts
  <2>5. Stepped(s, e, p)
    BY <2>1
  <2> HIDE DEF e, p, s
  <2> QED BY <2>3, <2>4, <2>5 DEF EngineStep, Sized
<1>3. ASSUME engine.phase = "read" \/ engine.phase = "matched", ReadsByte PROVE EngineStep
  <2>1. PICK r \in ReadByte(side, TRUE) :
          Stepped(r.left,
                  [engine EXCEPT !.phase = "read", !.deferred = r.deferred, !.out = r.byte],
                  IF r.deferred THEN [promised EXCEPT !.byte = {}] ELSE Expected(side, promised))
    BY <1>3 DEF ReadsByte
  <2> DEFINE e == [engine EXCEPT !.phase = "read", !.deferred = r.deferred, !.out = r.byte]
             p == IF r.deferred THEN [promised EXCEPT !.byte = {}] ELSE Expected(side, promised)
  <2>2. Stepped(r.left, e, p)
    BY <2>1
  <2>3. side.on
    BY <2>2 DEF Stepped
  <2>4. r.deferred \in BOOLEAN /\ r.byte \in Values
    BY <1>1, ReadTypes
  <2>5. e \in Engines /\ e.phase = "read" /\ e.deferred = r.deferred /\ e.out = r.byte
    BY <1>1, <2>4 DEF Engines
  <2> HIDE DEF e
  <2>6. Sized(r.left) /\ p \in Pledges /\ Agrees(r.left, e, p)
    BY <1>1, <2>3, <2>5, ReadAgrees
  <2> HIDE DEF p
  <2> QED BY <2>2, <2>5, <2>6 DEF EngineStep, Sized
<1>4. CASE Opens
  <2>1. CASE engine.reads
    BY <1>3, <1>4, <2>1 DEF Opens
  <2>2. CASE ~engine.reads
    <3> DEFINE e == [engine EXCEPT !.phase = "write"]
    <3>1. engine.phase = "matched" /\ Stepped(side, e, promised)
      BY <1>4, <2>2 DEF Opens
    <3>2. e \in Engines /\ Agrees(side, e, promised)
      BY <1>1, <2>2, <3>1, WriteOpenAgrees
    <3> HIDE DEF e
    <3> QED BY <1>1, <3>1, <3>2 DEF EngineStep, Sized
  <2> QED BY <2>1, <2>2
<1>5. CASE Receives
  <2>1. PICK b \in Values : Stepped(WriteByte(side, b), engine, Heard(side, promised, b))
    BY <1>5 DEF Receives
  <2>2. engine.phase = "write"
    BY <1>5 DEF Receives
  <2>3. Sized(WriteByte(side, b)) /\ Heard(side, promised, b) \in Pledges
        /\ Agrees(WriteByte(side, b), engine, Heard(side, promised, b))
    BY <1>1, <2>2, WriteAgrees
  <2> QED BY <1>1, <2>1, <2>3 DEF EngineStep, Sized
<1>6. CASE ReadsOn
  BY <1>3, <1>6 DEF ReadsOn
<1>7. CASE EndsPhase
  <2> DEFINE s == CASE engine.phase = "write" -> WriteEnd(side)
                    [] engine.phase = "read" -> Flagged(side, "end_read")
                    [] OTHER -> side
  <2>1. Stepped(s, Silent, promised)
    BY <1>7 DEF EndsPhase
  <2>2. "end_read" \in Events /\ "end_write" \in Events
    BY DEF Events
  <2>3. Sized(s) /\ SameData(side, s)
    <3>1. SameData(side, side)
      BY DEF SameData
    <3>2. /\ Sized(Flagged(side, "end_read")) /\ SameData(side, Flagged(side, "end_read"))
          /\ Sized(Flagged(side, "end_write")) /\ SameData(side, Flagged(side, "end_write"))
      BY <1>1, <2>2, FlaggedFacts
    <3>3. Sized(WriteEnd(side)) /\ SameData(side, WriteEnd(side))
      BY <1>1, <3>1, <3>2 DEF WriteEnd
    <3> HIDE DEF Sized, SameData
    <3>4. CASE engine.phase = "write"
      BY <3>3, <3>4
    <3>5. CASE engine.phase = "read"
      BY <3>2, <3>5
    <3>6. CASE engine.phase \notin {"write", "read"}
      BY <1>1, <3>1, <3>6
    <3> QED BY <3>4, <3>5, <3>6
  <2> HIDE DEF s
  <2>4. SamePledge(promised, promised) /\ Silent \in Engines
    BY OffSized DEF SamePledge
  <2>5. Agrees(s, engine, promised)
    BY <1>1, <2>3, <2>4, AgreesSame
  <2>6. Agrees(s, Silent, promised)
    BY <2>5, AgreesSilent
  <2> QED BY <1>1, <2>1, <2>3, <2>4, <2>6 DEF EngineStep, Sized
<1> QED BY <1>2, <1>4, <1>5, <1>6, <1>7

LEMMA DInvEngine ==
    ASSUME DInv, EngineStep
    PROVE  DInv'
BY SteppedDInv DEF EngineStep

LEMMA DInvElsewhere == ASSUME DInv, Elsewhere PROVE DInv'
<1>1. /\ at = "idle" /\ TurnGiven(side, promised, {FALSE, TRUE}, BOOLEAN)
      /\ engine' = engine /\ masked' = masked /\ over' = over /\ budget' = budget
  BY DEF Elsewhere
<1>2. TurnGiven(side, promised, BOOLEAN, BOOLEAN)
  BY <1>1 DEF TurnGiven
<1>3. /\ Sized(side') /\ at' \in {"turn", "finish"}
      /\ promised' \in Pledges /\ Agrees(side', engine, promised')
      /\ Nested(calls') /\ (at' # "turn" /\ ~over => Last(calls').state = "waits")
  <2>1. /\ Nested(calls) /\ Rests /\ masked \in BOOLEAN /\ Sized(side) /\ promised \in Pledges
        /\ Agrees(side, engine, promised)
    BY DEF DInv, Typed
  <2> QED BY <1>1, <1>2, <2>1, GivenFacts
<1>4. Rests' /\ Settled'
  BY <1>1, <1>3 DEF Rests, Innermost, Settled
<1> QED BY <1>1, <1>3, <1>4 DEF DInv, Typed

LEMMA DInvFinishes == ASSUME DInv, Finishes PROVE DInv'
<1>1. /\ at = "finish" /\ at' = "idle" /\ calls' = calls /\ masked' = masked /\ over' = over
      /\ budget' = budget
  BY DEF Finishes
<1>2. /\ Sized(side) /\ engine \in Engines /\ promised \in Pledges
      /\ Agrees(side, engine, promised) /\ Nested(calls) /\ Rests
  BY DEF DInv, Typed
<1>3. Rests'
  BY <1>1, <1>2 DEF Rests, Innermost
<1>4. /\ Sized(side') /\ engine' \in Engines /\ promised' \in Pledges
      /\ Agrees(side', engine', promised') /\ ~engine'.deferred
  <2>1. CASE side.on /\ engine.deferred
    <3>1. PICK r \in ReadByte(side, FALSE) :
              /\ side' = r.left
              /\ engine' = [engine EXCEPT !.deferred = FALSE, !.out = r.byte]
              /\ promised' = Expected(side, promised)
      BY <2>1 DEF Finishes
    <3> DEFINE f(b) == [engine EXCEPT !.deferred = FALSE, !.out = b]
    <3>2. engine.phase = "read" /\ Size(side) = 0
      BY <1>2, <2>1 DEF Agrees
    <3>3. r.deferred = FALSE /\ r.byte \in Values
      BY <1>2, ReadTypes
    <3>4. /\ engine' \in Engines /\ engine'.phase = "read"
          /\ engine'.deferred = FALSE /\ engine'.out = r.byte
      BY <1>2, <3>1, <3>2, <3>3 DEF Engines
    <3>5. engine'.deferred = r.deferred
      BY <3>3, <3>4
    <3>6. /\ Sized(r.left) /\ Agrees(r.left, engine', Expected(side, promised))
          /\ Expected(side, promised) \in Pledges
      BY <1>2, <2>1, <3>3, <3>4, <3>5, ReadAgrees
    <3> QED BY <3>1, <3>4, <3>6
  <2>2. CASE ~(side.on /\ engine.deferred)
    <3>1. side' = side /\ engine' = engine /\ promised' = promised
      BY <2>2 DEF Finishes
    <3>2. ~engine.deferred
      BY <1>2, <2>2 DEF Agrees
    <3> QED BY <1>2, <3>1, <3>2
  <2> QED BY <2>1, <2>2
<1> QED BY <1>1, <1>2, <1>3, <1>4 DEF DInv, Typed, Settled

\* The innermost call runs: it becomes one that waits, or runs on.
LEMMA WaitFacts ==
    ASSUME Nested(calls), NEW due \in Seq(Dues), NEW back \in BOOLEAN
    PROVE  LET c == [Innermost EXCEPT !.state = "waits", !.due = due, !.back = back]
           IN  /\ c \in CallsInProgress /\ c.kind = Innermost.kind /\ c.state = "waits"
               /\ c.due = due /\ c.back = back /\ Nested(Under(c))
<1> DEFINE c == [Innermost EXCEPT !.state = "waits", !.due = due, !.back = back]
<1>1. Innermost \in CallsInProgress
  BY InnermostFacts
<1>2. /\ c \in CallsInProgress /\ c.kind = Innermost.kind /\ c.state = "waits"
      /\ c.due = due /\ c.back = back
  BY <1>1 DEF CallsInProgress
<1> HIDE DEF c
<1>3. Nested(Under(c))
  BY <1>2, UnderFacts
<1> QED BY <1>2, <1>3 DEF c

LEMMA YieldFacts ==
    ASSUME Nested(calls), masked \in BOOLEAN, NEW s, Sized(s), Yields(s)
    PROVE  Sized(side') /\ SameData(s, side') /\ Nested(calls')
<1> DEFINE due == Batch(~masked, s, FALSE)
<1>1. side' = Collected(~masked, s) /\ (~masked) \in BOOLEAN
  BY DEF Yields
<1>2. due \in Seq(Dues)
  BY BatchFacts
<1>3. calls' = Under([Innermost EXCEPT !.state = "waits", !.due = due, !.back = TRUE])
  <2>1. calls' = Under([Innermost EXCEPT !.state = "waits", !.back = TRUE, !.due = due])
    BY DEF Yields
  <2>2. Innermost \in CallsInProgress
    BY InnermostFacts
  <2> HIDE DEF due
  <2>3. [Innermost EXCEPT !.state = "waits", !.back = TRUE, !.due = due]
          = [Innermost EXCEPT !.state = "waits", !.due = due, !.back = TRUE]
    BY <2>2 DEF CallsInProgress
  <2> QED BY <2>1, <2>3
<1> HIDE DEF due
<1>4. Nested(calls')
  BY <1>2, <1>3, WaitFacts
<1> QED BY <1>1, <1>4, CollectedFacts

LEMMA SpentBudget ==
    ASSUME Typed, Asks
    PROVE  budget' \in [bus : Nat, calls : Nat, depth : Nat, setup : [cells : Nat, width : Nat]]
           /\ at = "turn" /\ at' = "turn" /\ over' = over /\ Innermost.state = "runs"
<1>1. budget \in [bus : Nat, calls : Nat, depth : Nat, setup : [cells : Nat, width : Nat]]
  BY DEF Typed
<1>2. budget' = [budget EXCEPT !.calls = budget.calls - 1] /\ budget.calls > 0
  BY <1>1 DEF Asks
<1>3. budget.calls - 1 \in Nat
  BY <1>1, <1>2
<1> QED BY <1>1, <1>2, <1>3 DEF Asks, InTurn

\* A program that only changes what it wrote or read of the side.
LEMMA AsksDInv ==
    ASSUME DInv, Asks, Sized(side'), promised' \in Pledges, engine' \in Engines,
           Agrees(side', engine', promised'), Nested(calls'), masked' \in BOOLEAN
    PROVE  DInv'
<1>1. /\ budget' \in [bus : Nat, calls : Nat, depth : Nat, setup : [cells : Nat, width : Nat]]
      /\ at' = "turn" /\ over' = over
  BY SpentBudget DEF DInv
<1>2. over \in BOOLEAN
  BY DEF DInv, Typed
<1> QED BY <1>1, <1>2 DEF DInv, Typed, Rests, Settled

\* A new side, with nothing queued and no address, agrees with a new promise.
LEMMA FreshAgrees ==
    ASSUME NEW s, s.tx = <<>>, s.pos = 0, s.memaddr = 0, s.seen = 0, NEW p,
           p.cells = s.mem, p.next = {0}, p.prefix = NoPrefix, p.queue = <<>>,
           Size(s) \in Nat
    PROVE  Agrees(s, Silent, p)
<1>1. Silent.phase = "idle" /\ ~Silent.deferred
  BY DEF Silent
<1>2. SubSeq(s.tx, s.pos + 1, Len(s.tx)) = <<>>
  <2>1. SubSeq(<<>>, 1, 0) = <<>> /\ Len(<<>>) = 0
    BY SubSeqEmpty, EmptySeq
  <2>2. Len(s.tx) = 0 /\ s.pos + 1 = 1
    BY <2>1
  <2> QED BY <2>1, <2>2
<1>3. Size(s) > 0 => Points(s, Silent, p)
  <2>1. SUFFICES ASSUME Size(s) > 0 PROVE Points(s, Silent, p)
    OBVIOUS
  <2>2. 0 % Size(s) = 0
    <3>1. 0 \in 0..(Size(s) - 1)
      BY <2>1
    <3> QED BY <3>1, RemainderOfSmall
  <2>3. \E n \in Nat : p.next = {n} /\ s.memaddr = n % Size(s)
    BY <2>2
  <2>4. p.prefix.bytes = s.seen /\ p.prefix.value = 0
    BY DEF NoPrefix
  <2>5. Silent.phase # "write" /\ Silent.phase # "matched"
    BY <1>1
  <2> QED BY <2>3, <2>4, <2>5 DEF Points
<1> QED BY <1>1, <1>2, <1>3 DEF Agrees

LEMMA DInvInits == ASSUME DInv, Inits PROVE DInv'
<1> DEFINE setup == budget.setup
           cells == [i \in 1..setup.cells |-> 0]
           s == [Off EXCEPT !.on = TRUE, !.width = setup.width, !.mem = cells]
<1>1. /\ Asks /\ engine' = Silent /\ Yields(s) /\ masked' = masked
      /\ promised' = [Nothing EXCEPT !.cells = cells, !.held = promised.held]
  BY DEF Inits
<1>2. setup.cells \in Nat /\ setup.width \in Nat
  BY DEF DInv, Typed
<1>3. cells \in Seq(Values)
  BY <1>2, ValueFacts, IsASeq
<1>4. Nested(calls) /\ masked \in BOOLEAN /\ promised.held \in BOOLEAN
  BY DEF DInv, Typed, Pledges
<1> HIDE DEF cells, setup
<1>5. /\ s \in Sides /\ s.tx = <<>> /\ s.pos = 0 /\ s.memaddr = 0 /\ s.seen = 0
      /\ s.mem = cells /\ s.width = setup.width /\ s.rx = <<>>
  BY <1>2, <1>3, OffSized DEF Off, Sized, Sides
<1> HIDE DEF s
<1>6. Sized(s)
  <2>1. Len(<<>>) = 0
    BY EmptySeq
  <2> QED BY <1>2, <1>5, <2>1, ValueFacts DEF Sized
<1>7. Sized(side') /\ SameData(s, side') /\ Nested(calls')
  BY <1>1, <1>4, <1>6, YieldFacts
<1>8. /\ promised' \in Pledges /\ promised'.cells = cells /\ promised'.next = {0}
      /\ promised'.prefix = NoPrefix /\ promised'.queue = <<>>
  <2>1. Nothing = [cells |-> <<>>, next |-> {0}, prefix |-> NoPrefix, queue |-> <<>>,
                   byte |-> {}, untold |-> {}, held |-> FALSE]
    BY DEF Nothing
  <2>2. promised' = [cells |-> cells, next |-> {0}, prefix |-> NoPrefix, queue |-> <<>>,
                     byte |-> {}, untold |-> {}, held |-> promised.held]
    BY <1>1, <2>1
  <2>3. <<>> \in Seq(Values) /\ NoPrefix \in [bytes : Nat, value : Nat]
    BY EmptySeq DEF NoPrefix
  <2> QED BY <1>3, <1>4, <2>2, <2>3 DEF Pledges
<1>9. Agrees(side', Silent, promised')
  <2>1. Size(side') \in Nat
    BY <1>7, SizeType
  <2> QED BY <1>5, <1>7, <1>8, <2>1, FreshAgrees DEF SameData
<1> QED BY <1>1, <1>4, <1>7, <1>8, <1>9, AsksDInv, OffSized

LEMMA DInvDeinits == ASSUME DInv, Deinits PROVE DInv'
<1>1. /\ Asks /\ engine' = Silent /\ Yields(Off) /\ masked' = masked
      /\ promised' = [Nothing EXCEPT !.held = promised.held]
  BY DEF Deinits
<1>2. Nested(calls) /\ masked \in BOOLEAN /\ promised.held \in BOOLEAN
  BY DEF DInv, Typed, Pledges
<1>3. Sized(side') /\ SameData(Off, side') /\ Nested(calls')
  BY <1>1, <1>2, YieldFacts, OffSized
<1>4. /\ promised' \in Pledges /\ promised'.cells = <<>> /\ promised'.next = {0}
      /\ promised'.prefix = NoPrefix /\ promised'.queue = <<>>
  <2>1. promised' = [cells |-> <<>>, next |-> {0}, prefix |-> NoPrefix, queue |-> <<>>,
                     byte |-> {}, untold |-> {}, held |-> promised.held]
    BY <1>1 DEF Nothing
  <2>2. <<>> \in Seq(Values) /\ NoPrefix \in [bytes : Nat, value : Nat]
    BY EmptySeq DEF NoPrefix
  <2> QED BY <1>2, <2>1, <2>2 DEF Pledges
<1>5. Off.tx = <<>> /\ Off.pos = 0 /\ Off.memaddr = 0 /\ Off.seen = 0 /\ Off.mem = <<>>
  BY DEF Off
<1>6. Agrees(side', Silent, promised')
  <2>1. Size(side') \in Nat
    BY <1>3, SizeType
  <2> QED BY <1>3, <1>4, <1>5, <2>1, FreshAgrees DEF SameData
<1> QED BY <1>1, <1>2, <1>3, <1>4, <1>6, AsksDInv, OffSized

LEMMA DInvSetsIrq == ASSUME DInv, SetsIrq PROVE DInv'
<1>1. /\ Asks /\ engine' = engine /\ calls' = calls /\ masked' = masked
      /\ promised' = [promised EXCEPT !.untold = @ \ side.pending]
  BY DEF SetsIrq
<1>2. PICK t \in Triggers, handler \in BOOLEAN :
          side' = [side EXCEPT !.handler = handler, !.trigger = t, !.pending = {}]
  BY DEF SetsIrq
<1>3. /\ Nested(calls) /\ masked \in BOOLEAN /\ Sized(side) /\ engine \in Engines
      /\ promised \in Pledges /\ Agrees(side, engine, promised)
  BY DEF DInv, Typed
<1>4. t \in SUBSET Events
  BY TargetAssumption
<1>5. side' \in Sides /\ SameData(side, side') /\ side'.rx = side.rx
  BY <1>2, <1>3, <1>4 DEF Sized, Sides, SameData
<1>6. Sized(side')
  BY <1>3, <1>5 DEF Sized, SameData
<1>7. promised' \in Pledges /\ SamePledge(promised, promised')
  BY <1>1, <1>3 DEF Pledges, SamePledge
<1>8. Agrees(side', engine', promised')
  BY <1>1, <1>3, <1>5, <1>7, AgreesSame
<1> QED BY <1>1, <1>3, <1>6, <1>7, <1>8, AsksDInv

\* What is queued starts at the first byte that was not sent.
LEMMA QueuedAgrees ==
    ASSUME NEW s, NEW e, NEW p, Agrees(s, e, p), Size(s) = 0,
           NEW t, t.on = s.on, t.mem = s.mem, t.pos = 0, t.tx \in Seq(Values),
           NEW q, q.queue = t.tx, q.byte = p.byte
    PROVE  Agrees(t, e, q)
<1>1. Size(t) = 0
  BY DEF Size
<1>2. SubSeq(t.tx, 1, Len(t.tx)) = t.tx
  BY SubSeqFull
<1>3. t.pos + 1 = 1
  OBVIOUS
<1>4. q.queue = SubSeq(t.tx, t.pos + 1, Len(t.tx))
  BY <1>2, <1>3
<1>5. e.deferred => t.on /\ e.phase = "read"
  BY DEF Agrees
<1>6. e.phase = "read" /\ ~e.deferred => q.byte \subseteq {e.out}
  BY DEF Agrees
<1> QED BY <1>1, <1>4, <1>5, <1>6 DEF Agrees

LEMMA DInvWrites == ASSUME DInv, Writes PROVE DInv'
<1> DEFINE s == Compacted(side)
<1>1. Asks /\ Size(side) = 0 /\ engine' = engine /\ calls' = calls /\ masked' = masked
  BY DEF Writes
<1>2. PICK b \in Values :
          IF Len(s.tx) < BufMax
          THEN /\ side' = [s EXCEPT !.tx = Append(@, b)]
               /\ promised' = [promised EXCEPT !.queue = Append(@, b)]
          ELSE side' = s /\ promised' = promised
  BY DEF Writes
<1>3. /\ Nested(calls) /\ masked \in BOOLEAN /\ Sized(side) /\ engine \in Engines
      /\ promised \in Pledges /\ Agrees(side, engine, promised)
  BY DEF DInv, Typed
<1>4. /\ Sized(s) /\ s.on = side.on /\ s.width = side.width /\ s.mem = side.mem
      /\ s.pos = 0 /\ s.tx = SubSeq(side.tx, side.pos + 1, Len(side.tx))
  BY <1>3, CompactedFacts
<1>5. promised.queue = s.tx
  BY <1>1, <1>3, <1>4 DEF Agrees
<1> HIDE DEF s
<1>6. s.tx \in Seq(Values)
  BY <1>4 DEF Sized, Sides
<1>7. CASE Len(s.tx) < BufMax
  <2>1. side' = [s EXCEPT !.tx = Append(@, b)]
        /\ promised' = [promised EXCEPT !.queue = Append(@, b)]
    BY <1>2, <1>7
  <2>2. /\ Sized(side') /\ side'.on = s.on /\ side'.mem = s.mem
        /\ side'.pos = 0 /\ side'.tx = Append(s.tx, b)
    BY <1>4, <1>7, <2>1, QueuedFacts
  <2> DEFINE u == Append(s.tx, b)
  <2>3. u \in Seq(Values)
    BY <1>6, AppendProperties
  <2>4. promised' = [promised EXCEPT !.queue = u]
    BY <1>3, <1>5, <2>1 DEF Pledges
  <2> HIDE DEF u
  <2>5. promised' \in Pledges /\ promised'.queue = u /\ promised'.byte = promised.byte
    BY <1>3, <2>3, <2>4 DEF Pledges
  <2>6. side'.tx = u
    BY <2>2 DEF u
  <2>7. side'.on = side.on /\ side'.mem = side.mem
    BY <1>4, <2>2
  <2>8. Agrees(side', engine', promised')
    BY <1>1, <1>3, <2>2, <2>3, <2>5, <2>6, <2>7, QueuedAgrees
  <2> QED BY <1>1, <1>3, <2>2, <2>5, <2>8, AsksDInv
<1>8. CASE ~(Len(s.tx) < BufMax)
  <2>1. side' = s /\ promised' = promised
    BY <1>2, <1>8
  <2>2. Agrees(side', engine', promised')
    BY <1>1, <1>3, <1>4, <1>5, <1>6, <2>1, QueuedAgrees
  <2> QED BY <1>1, <1>3, <1>4, <2>1, <2>2, AsksDInv
<1> QED BY <1>7, <1>8

LEMMA DInvReadsInto == ASSUME DInv, ReadsInto PROVE DInv'
<1>1. /\ Asks /\ side.rx # <<>> /\ engine' = engine /\ calls' = calls /\ masked' = masked
      /\ promised' = promised
  BY DEF ReadsInto
<1>2. PICK n \in 1..Len(side.rx) : side' = [side EXCEPT !.rx = SubSeq(@, n + 1, Len(@))]
  BY DEF ReadsInto
<1>3. /\ Nested(calls) /\ masked \in BOOLEAN /\ Sized(side) /\ engine \in Engines
      /\ promised \in Pledges /\ Agrees(side, engine, promised)
  BY DEF DInv, Typed
<1> DEFINE m == n + 1
           r == SubSeq(side.rx, m, Len(side.rx))
<1>4. side.rx \in Seq(Values) /\ Len(side.rx) \in Nat
  BY <1>3, LenProperties DEF Sized, Sides
<1>5. m \in 1..(Len(side.rx) + 1) /\ m \in Int /\ Len(side.rx) \in Int
  BY <1>4
<1>6. side' = [side EXCEPT !.rx = r]
  BY <1>2, <1>3 DEF Sized, Sides
<1>7. r \in Seq(Values) /\ Len(r) <= BufMax
  <2> HIDE DEF m
  <2>1. \A k \in m..Len(side.rx) : side.rx[k] \in Values
    BY <1>4, <1>5, LenProperties
  <2>2. /\ r \in Seq(Values)
        /\ Len(r) = IF m <= Len(side.rx) THEN Len(side.rx) - m + 1 ELSE 0
    BY <1>5, <2>1, SubSeqProperties
  <2>3. Len(side.rx) <= BufMax
    BY <1>3 DEF Sized
  <2> HIDE DEF r
  <2> QED BY <1>4, <1>5, <2>2, <2>3, ValueFacts
<1> HIDE DEF r
<1>8. side' \in Sides /\ SameData(side, side') /\ side'.rx = r
  BY <1>3, <1>6, <1>7 DEF Sized, Sides, SameData
<1>9. Sized(side')
  BY <1>3, <1>7, <1>8 DEF Sized, SameData
<1>10. SamePledge(promised, promised)
  BY DEF SamePledge
<1>11. Agrees(side', engine', promised')
  BY <1>1, <1>3, <1>8, <1>10, AgreesSame
<1> QED BY <1>1, <1>3, <1>9, <1>11, AsksDInv

LEMMA DInvStores == ASSUME DInv, Stores PROVE DInv'
<1>1. Asks /\ engine' = engine /\ calls' = calls /\ masked' = masked
  BY DEF Stores
<1>2. PICK i \in 1..Size(side), b \in Values :
          /\ side' = [side EXCEPT !.mem[i] = b]
          /\ promised' = [promised EXCEPT !.cells[i] = b]
  BY DEF Stores
<1>3. /\ Nested(calls) /\ masked \in BOOLEAN /\ Sized(side) /\ engine \in Engines
      /\ promised \in Pledges /\ Agrees(side, engine, promised)
  BY DEF DInv, Typed
<1>4. Size(side) \in Nat
  BY <1>3, SizeType
<1>5. i \in Nat /\ Size(side) > 0
  BY <1>4
<1>6. Points(side, engine, promised) /\ promised.cells = side.mem
  BY <1>3, <1>5 DEF Agrees, Points
<1> DEFINE c == [side.mem EXCEPT ![i] = b]
<1>7. side' = [side EXCEPT !.mem = c] /\ promised' = [promised EXCEPT !.cells = c]
  BY <1>2, <1>3, <1>6 DEF Sized, Sides, Pledges
<1>8. c = [side.mem EXCEPT ![i] = b]
  OBVIOUS
<1> HIDE DEF c
<1>9. /\ Sized(side') /\ side'.mem = c /\ Size(side') = Size(side)
      /\ side'.on = side.on /\ side'.width = side.width /\ side'.memaddr = side.memaddr
      /\ side'.seen = side.seen /\ side'.tx = side.tx /\ side'.pos = side.pos
  BY <1>3, <1>5, <1>7, <1>8, StoredFacts
<1>10. c \in Seq(Values)
  BY <1>9 DEF Sized, Sides
<1>11. /\ promised' \in Pledges /\ promised'.cells = c /\ promised'.next = promised.next
       /\ promised'.prefix = promised.prefix /\ promised'.byte = promised.byte
  BY <1>3, <1>7, <1>10 DEF Pledges
<1>12. Points(side', engine', promised')
  BY <1>1, <1>6, <1>9, <1>11 DEF Points
<1>13. Agrees(side', engine', promised')
  BY <1>1, <1>3, <1>4, <1>5, <1>9, <1>11, <1>12 DEF Agrees
<1> QED BY <1>1, <1>3, <1>9, <1>11, <1>13, AsksDInv

LEMMA DInvIrqs == ASSUME DInv, DisablesIrq \/ EnablesIrq PROVE DInv'
<1>1. /\ Nested(calls) /\ Sized(side) /\ engine \in Engines
      /\ promised \in Pledges /\ Agrees(side, engine, promised)
  BY DEF DInv, Typed
<1>2. CASE DisablesIrq
  <2>1. /\ Asks /\ masked' = TRUE /\ side' = side /\ engine' = engine /\ calls' = calls
        /\ promised' = promised
    BY <1>2 DEF DisablesIrq
  <2> QED BY <1>1, <2>1, AsksDInv
<1>3. CASE EnablesIrq
  <2>1. /\ Asks /\ masked' = FALSE /\ side' = Collected(TRUE, side) /\ engine' = engine
        /\ promised' = promised
    BY <1>3 DEF EnablesIrq
  <2>2. PICK other \in BOOLEAN :
          calls' = Under([Innermost EXCEPT !.state = "waits", !.due = Batch(TRUE, side, other),
                                           !.back = TRUE])
    BY <1>3 DEF EnablesIrq
  <2> DEFINE due == Batch(TRUE, side, other)
  <2>3. due \in Seq(Dues) /\ TRUE \in BOOLEAN
    BY BatchFacts
  <2>4. calls' = Under([Innermost EXCEPT !.state = "waits", !.due = due, !.back = TRUE])
    BY <2>2
  <2> HIDE DEF due
  <2>5. Nested(calls')
    BY <1>1, <2>3, <2>4, WaitFacts
  <2>6. Sized(side') /\ SameData(side, side')
    BY <1>1, <2>1, <2>3, CollectedFacts
  <2>7. SamePledge(promised, promised)
    BY DEF SamePledge
  <2>8. Agrees(side', engine', promised')
    BY <1>1, <2>1, <2>6, <2>7, AgreesSame
  <2> QED BY <1>1, <2>1, <2>5, <2>6, <2>8, AsksDInv
<1> QED BY <1>2, <1>3

\* A callback raised: the call under it runs on.
LEMMA RaisedFacts ==
    ASSUME NEW cs, Nested(cs)
    PROVE  Nested(Append(Front(cs), [Last(cs) EXCEPT !.state = "runs", !.due = <<>>, !.back = FALSE]))
<1> DEFINE n == Len(cs)
           f == Front(cs)
           c == [Last(cs) EXCEPT !.state = "runs", !.due = <<>>, !.back = FALSE]
           ds == Append(f, c)
<1>1. cs \in Seq(CallsInProgress) /\ n \in Nat \ {0}
  BY LenProperties, EmptySeq DEF Nested
<1>2. f \in Seq(CallsInProgress) /\ Len(f) = n - 1 /\ \A i \in 1..(n - 1) : f[i] = cs[i]
  BY <1>1, FrontFields
<1>3. cs[n] \in CallsInProgress /\ Last(cs) = cs[n]
  BY <1>1, LenProperties DEF Last
<1>4. c \in CallsInProgress /\ c.kind = cs[n].kind /\ c.due = <<>>
  <2>1. <<>> \in Seq(Dues)
    BY EmptySeq
  <2> DEFINE l == Last(cs)
  <2>2. l \in CallsInProgress /\ l.kind = cs[n].kind
    BY <1>3
  <2>3. c = [l EXCEPT !.state = "runs", !.due = <<>>, !.back = FALSE]
    OBVIOUS
  <2> HIDE DEF l, c
  <2>4. c \in CallsInProgress /\ c.kind = l.kind /\ c.due = <<>>
    BY <2>1, <2>2, <2>3 DEF CallsInProgress
  <2> QED BY <2>2, <2>4
<1> HIDE DEF c, f
<1>5. /\ ds \in Seq(CallsInProgress) /\ ds # <<>> /\ Len(ds) = n /\ ds[n] = c
      /\ \A i \in 1..(n - 1) : ds[i] = f[i]
  BY <1>1, <1>2, <1>4, AppendProperties
<1> HIDE DEF ds, n
<1>6. \A i \in 1..n : cs[i].kind = "main" <=> i = 1
  BY DEF Nested, n
<1>7. \A i \in 1..Len(ds) : ds[i].kind = "main" <=> i = 1
  BY <1>1, <1>2, <1>4, <1>5, <1>6
<1>8. \A i \in 1..(n - 1) : cs[i].state # "runs"
  BY <1>1 DEF Nested, n
<1>9. \A i \in 1..Len(ds) : ds[i].state = "runs" => i = Len(ds) /\ ds[i].due = <<>>
  BY <1>1, <1>2, <1>4, <1>5, <1>8
<1>10. Nested(ds)
  BY <1>5, <1>7, <1>9 DEF Nested
<1> QED BY <1>10 DEF ds, c, f

\* The steps of the calls leave side and engine alone.
LEMMA CallsDInv ==
    ASSUME DInv, side' = side, engine' = engine, masked' = masked, budget' = budget,
           over' \in BOOLEAN, at = "turn", at' \in {"turn", "finish"},
           promised' \in Pledges, SamePledge(promised, promised'), Nested(calls'), Rests'
    PROVE  DInv'
<1>1. /\ Sized(side) /\ engine \in Engines /\ masked \in BOOLEAN
      /\ Agrees(side, engine, promised)
      /\ budget \in [bus : Nat, calls : Nat, depth : Nat, setup : [cells : Nat, width : Nat]]
  BY DEF DInv, Typed
<1>2. SameData(side, side)
  BY DEF SameData
<1>3. Agrees(side, engine, promised')
  BY <1>1, <1>2, AgreesSame
<1> QED BY <1>1, <1>3 DEF DInv, Typed, Settled

LEMMA DInvCalls ==
    ASSUME DInv, CallsBack \/ WaitGoesOn \/ Sleeps \/ Ends \/ Raises
    PROVE  DInv'
<1>1. /\ Nested(calls) /\ promised \in Pledges /\ over \in BOOLEAN /\ Sized(side)
  BY DEF DInv, Typed
<1>2. SamePledge(promised, promised)
  BY DEF SamePledge
<1>3. /\ Innermost \in CallsInProgress /\ Last(calls) = Innermost
  BY <1>1, InnermostFacts DEF Innermost
<1>4. CASE CallsBack
  <2>1. /\ at = "turn" /\ at' = at /\ Innermost.state = "waits" /\ Innermost.due # <<>>
        /\ calls' = Append(Under([Innermost EXCEPT !.due = Tail(@)]),
                           Call(Head(Innermost.due), "runs", <<>>, FALSE))
        /\ promised' = IF Head(Innermost.due) = "handler"
                       THEN [promised EXCEPT !.untold = @ \ side.flags] ELSE promised
        /\ side' = side /\ engine' = engine /\ masked' = masked /\ over' = over
        /\ budget' = budget
    BY <1>4 DEF CallsBack, Waiting
  <2> DEFINE h == Head(Innermost.due)
             t == Tail(Innermost.due)
             c == [Innermost EXCEPT !.due = t]
             d == Call(h, "runs", <<>>, FALSE)
  <2>2. Innermost.due \in Seq(Dues)
    BY <1>3 DEF CallsInProgress
  <2>3. h \in Dues /\ t \in Seq(Dues)
    BY <2>1, <2>2, DueFacts
  <2>4. calls' = Append(Under(c), d)
    BY <1>3, <2>1 DEF CallsInProgress
  <2> HIDE DEF h, t
  <2>5. c \in CallsInProgress /\ c.kind = Innermost.kind /\ c.state = "waits"
    BY <1>3, <2>1, <2>3 DEF CallsInProgress
  <2>6. d \in CallsInProgress /\ d.kind # "main" /\ d.due = <<>>
    <3>1. <<>> \in Seq(Dues) /\ h \in Kinds /\ h # "main"
      BY <2>3, EmptySeq DEF Dues, Kinds
    <3> QED BY <3>1 DEF Call, CallsInProgress
  <2> HIDE DEF c, d
  <2>7. Nested(Under(c)) /\ Last(Under(c)) = c
    BY <1>1, <2>5, UnderFacts
  <2>8. Nested(calls')
    BY <2>4, <2>5, <2>6, <2>7, CalledFacts
  <2>9. promised' \in Pledges /\ SamePledge(promised, promised')
    BY <1>1, <1>2, <2>1 DEF Pledges, SamePledge
  <2>10. Rests'
    BY <2>1 DEF Rests
  <2> QED BY <1>1, <2>1, <2>8, <2>9, <2>10, CallsDInv
<1>5. CASE WaitGoesOn
  <2>1. /\ at = "turn" /\ Innermost.state = "waits" /\ Innermost.due = <<>>
        /\ side' = side /\ engine' = engine /\ masked' = masked /\ over' = over
        /\ budget' = budget /\ promised' = promised
    BY <1>5 DEF WaitGoesOn, Waiting
  <2>2. CASE Innermost.back
    <3> DEFINE c == [Innermost EXCEPT !.state = "runs", !.back = FALSE]
    <3>1. at' = at /\ calls' = Under(c)
      BY <1>5, <2>2 DEF WaitGoesOn
    <3>2. c \in CallsInProgress /\ c.kind = Innermost.kind /\ c.due = <<>>
      BY <1>3, <2>1 DEF CallsInProgress
    <3> HIDE DEF c
    <3>3. Nested(calls')
      BY <1>1, <3>1, <3>2, UnderFacts
    <3>4. Rests'
      BY <2>1, <3>1 DEF Rests
    <3> QED BY <1>1, <1>2, <2>1, <3>1, <3>3, <3>4, CallsDInv
  <2>3. CASE ~Innermost.back
    <3>1. at' = "finish" /\ calls' = calls
      BY <1>5, <2>3 DEF WaitGoesOn
    <3>2. Rests'
      BY <2>1, <3>1 DEF Rests, Innermost
    <3> QED BY <1>1, <1>2, <2>1, <3>1, <3>2, CallsDInv
  <2> QED BY <2>2, <2>3
<1>6. CASE Sleeps
  <2> DEFINE c == [Innermost EXCEPT !.state = "waits"]
  <2>1. /\ at = "turn" /\ Innermost.state = "runs" /\ at' = "finish" /\ calls' = Under(c)
        /\ promised' = [promised EXCEPT !.held = @ \/ Innermost.kind # "main"]
        /\ side' = side /\ engine' = engine /\ masked' = masked /\ over' = over
        /\ budget' = budget
    BY <1>6 DEF Sleeps, InTurn
  <2>2. c \in CallsInProgress /\ c.kind = Innermost.kind /\ c.state = "waits"
    BY <1>3 DEF CallsInProgress
  <2> HIDE DEF c
  <2>3. Nested(calls') /\ Last(calls') = c
    BY <1>1, <2>1, <2>2, UnderFacts
  <2>4. promised' \in Pledges /\ SamePledge(promised, promised')
    BY <1>1, <2>1 DEF Pledges, SamePledge
  <2>5. Rests'
    BY <2>2, <2>3 DEF Rests, Innermost
  <2> QED BY <1>1, <2>1, <2>3, <2>4, <2>5, CallsDInv
<1>7. CASE Ends
  <2>1. /\ at = "turn" /\ Innermost.state = "runs"
        /\ side' = side /\ engine' = engine /\ masked' = masked /\ promised' = promised
        /\ budget' = budget
    BY <1>7 DEF Ends, InTurn
  <2>2. CASE Innermost.kind = "main"
    <3>1. over' = TRUE /\ at' = "finish" /\ calls' = calls
      BY <1>7, <2>2 DEF Ends
    <3>2. Rests'
      BY <3>1 DEF Rests
    <3> QED BY <1>1, <1>2, <2>1, <3>1, <3>2, CallsDInv
  <2>3. CASE Innermost.kind # "main"
    <3>1. over' = over /\ at' = at /\ calls' = Front(calls)
      BY <1>7, <2>3 DEF Ends
    <3>2. Nested(calls')
      BY <1>1, <2>3, <3>1, FrontFacts
    <3>3. Rests'
      BY <2>1, <3>1 DEF Rests
    <3> QED BY <1>1, <1>2, <2>1, <3>1, <3>2, <3>3, CallsDInv
  <2> QED BY <2>2, <2>3
<1>8. CASE Raises
  <2> DEFINE below == Front(calls)
             c == [Last(below) EXCEPT !.state = "runs", !.due = <<>>, !.back = FALSE]
  <2>1. /\ at = "turn" /\ at' = at /\ Innermost.kind # "main"
        /\ calls' = Append(Front(below), c)
        /\ promised' = [promised EXCEPT !.held = TRUE]
        /\ side' = side /\ engine' = engine /\ masked' = masked /\ over' = over
        /\ budget' = budget
    BY <1>8 DEF Raises, InTurn
  <2>2. Nested(below)
    BY <1>1, <2>1, FrontFacts
  <2>3. Nested(calls')
    BY <2>1, <2>2, RaisedFacts
  <2>4. promised' \in Pledges /\ SamePledge(promised, promised')
    BY <1>1, <2>1 DEF Pledges, SamePledge
  <2>5. Rests'
    BY <2>1 DEF Rests
  <2> QED BY <1>1, <2>1, <2>3, <2>4, <2>5, CallsDInv
<1> QED BY <1>4, <1>5, <1>6, <1>7, <1>8

LEMMA DInvPower == ASSUME DInv, PowerLost PROVE DInv'
<1>1. /\ at = "idle" /\ side' = [side EXCEPT !.on = FALSE] /\ over' = TRUE
      /\ engine' = engine /\ at' = at /\ calls' = calls /\ masked' = masked
      /\ promised' = promised /\ budget' = budget
  BY DEF PowerLost
<1>2. /\ Sized(side) /\ engine \in Engines /\ ~engine.deferred /\ Agrees(side, engine, promised)
  BY <1>1 DEF DInv, Typed, Settled
<1>3. /\ side' \in Sides /\ side'.width = side.width /\ side'.mem = side.mem
      /\ side'.memaddr = side.memaddr /\ side'.seen = side.seen /\ side'.tx = side.tx
      /\ side'.pos = side.pos /\ side'.rx = side.rx
  BY <1>1, <1>2 DEF Sized, Sides
<1>4. Sized(side')
  BY <1>2, <1>3 DEF Sized
<1>5. Size(side') = Size(side)
  BY <1>3 DEF Size
<1>6. Agrees(side', engine, promised)
  BY <1>2, <1>3, <1>5 DEF Agrees, Points
<1>7. Rests' /\ Settled'
  BY <1>1, <1>2 DEF Rests, Settled
<1> QED BY <1>1, <1>4, <1>6, <1>7 DEF DInv, Typed

LEMMA DInvNext == ASSUME DInv, [TargetNext]_sideVars PROVE DInv'
<1>1. CASE UNCHANGED sideVars
  BY <1>1 DEF sideVars, DInv, Typed, Rests, Innermost, Settled
<1>2. CASE Controller
  BY <1>2, EngineSteps, DInvEngine, DInvElsewhere, DInvFinishes DEF Controller
<1>3. CASE Program
  BY <1>3, DInvCalls, DInvSetsIrq, DInvWrites, DInvReadsInto, DInvStores, DInvIrqs,
     DInvInits, DInvDeinits DEF Program
<1>4. CASE PowerLost
  BY <1>4, DInvPower
<1>5. CASE BusRests
  BY <1>1, <1>5 DEF BusRests
<1> QED BY <1>1, <1>2, <1>3, <1>4, <1>5 DEF TargetNext

\* At every place where a call may stop, the side, the engine and the pledge
\* agree on the next byte.
THEOREM DInvHolds == TargetSpec => []DInv
BY DInvInit, DInvNext, PTL DEF TargetSpec

\* The state of a target is well typed, its buffers within their sizes.
THEOREM TargetTypes == TargetSpec => []TargetTypeOK
<1>1. DInv => TargetTypeOK
  BY DEF DInv, Typed, Sized, Sides, Engines, Nested, CallsInProgress, Kinds, Dues, TargetTypeOK
<1> QED BY <1>1, DInvHolds, PTL

\* Whatever memory, queue, handler and program: a controller reads what it was
\* promised, and no byte is owed between two synchronisations.
THEOREM PromiseKept == TargetSpec => []ReadsRight
<1>1. DInv => ReadsRight
  BY DEF DInv, Agrees, Settled, ReadsRight
<1> QED BY <1>1, DInvHolds, PTL

-----------------------------------------------------------------------------
(* Events are told at once.                                                 *)

\* What is pending is handed over unless callbacks are masked.
Held == ~over /\ ~masked => side.pending = {}

\* The call q is to run the handler, for all that was not told, and every wait
\* above it comes back by itself.
Tells(q) ==
    /\ Owes(calls[q].due) /\ promised.untold \subseteq side.flags
    /\ \A r \in 1..Len(calls) : r > q /\ calls[r].state = "waits" => calls[r].back

\* What was not told is pending still, or such a call is in progress.
Teller == at = "turn" /\ \E q \in 1..Len(calls) : Tells(q)
Told ==
    ~promised.held /\ ~over =>
        /\ side.pending = {} \/ promised.untold \subseteq side.pending
        /\ promised.untold \subseteq side.pending \/ Teller

TInv == Held /\ Told

LEMMA CollectedPending ==
    ASSUME NEW s, Sized(s), NEW open \in BOOLEAN
    PROVE  /\ Collected(open, s).pending = IF open THEN {} ELSE s.pending
           /\ open /\ s.pending # {} => Collected(open, s).flags = s.pending
           /\ ~open \/ s.pending = {} => Collected(open, s) = s
BY DEF Collected, Sized, Sides

LEMMA GivenTold ==
    ASSUME Nested(calls), Rests, at = "idle", masked \in BOOLEAN,
           NEW s, Sized(s), NEW p \in Pledges,
           TurnGiven(s, p, BOOLEAN, BOOLEAN), masked' = masked, over' = over
    PROVE  TInv'
<1>1. promised'.untold = s.pending
  <2>1. promised' = [p EXCEPT !.untold = s.pending, !.held = FALSE]
    BY DEF TurnGiven
  <2> QED BY <2>1 DEF Pledges
<1>2. CASE at' = "turn"
  <2>1. PICK other \in BOOLEAN, back \in BOOLEAN :
           /\ ~over /\ side' = Collected(~masked, s)
           /\ calls' = Under([Innermost EXCEPT !.due = Batch(~masked, s, other), !.back = back])
    BY <1>2 DEF TurnGiven
  <2> DEFINE due == Batch(~masked, s, other)
             c == [Innermost EXCEPT !.due = due, !.back = back]
             n == Len(calls)
  <2>2. due \in Seq(Dues) /\ (Owes(due) <=> ~masked /\ s.pending # {})
    BY BatchFacts
  <2>3. Innermost \in CallsInProgress /\ Innermost.state = "waits" /\ n \in Nat \ {0}
    BY <2>1, InnermostFacts DEF Rests
  <2>4. calls' = Under(c)
    BY <2>1
  <2> HIDE DEF due, n
  <2>5. c \in CallsInProgress /\ c.kind = Innermost.kind /\ c.state = "waits" /\ c.due = due
    BY <2>2, <2>3 DEF CallsInProgress
  <2> HIDE DEF c
  <2>6. Len(calls') = n /\ calls'[n] = c
    BY <2>4, <2>5, UnderFacts DEF n
  <2>7. /\ side'.pending = IF ~masked THEN {} ELSE s.pending
        /\ ~masked /\ s.pending # {} => side'.flags = s.pending
    BY <2>1, CollectedPending
  <2>8. ASSUME ~masked, s.pending # {} PROVE Teller'
    <3>0. PICK k \in Nat : k = n
      BY <2>3
    <3>1. k \in 1..Len(calls') /\ \A r \in 1..Len(calls') : ~(r > k)
      BY <2>3, <2>6, <3>0
    <3>2. Owes(calls'[k].due)
      BY <2>2, <2>5, <2>6, <2>8, <3>0
    <3>3. promised'.untold \subseteq side'.flags
      BY <1>1, <2>7, <2>8
    <3>4. Tells(k)'
      BY <3>1, <3>2, <3>3 DEF Tells
    <3> QED BY <1>2, <3>1, <3>4 DEF Teller
  <2>9. Held'
    BY <2>7 DEF Held
  <2>10. Told'
    BY <1>1, <2>7, <2>8 DEF Told
  <2> QED BY <2>9, <2>10 DEF TInv
<1>3. CASE at' # "turn"
  <2>1. side' = s /\ (over \/ ~TargetDue(s))
    BY <1>3 DEF TurnGiven
  <2>2. Held'
    BY <2>1 DEF Held, TargetDue
  <2>3. Told'
    BY <1>1, <2>1 DEF Told
  <2> QED BY <2>2, <2>3 DEF TInv
<1> QED BY <1>2, <1>3

LEMMA ToldEngine == ASSUME DInv, EngineStep PROVE TInv'
<1>1. PICK s \in Sides, e \in Engines, p \in Pledges : Sized(s) /\ Stepped(s, e, p)
  BY DEF EngineStep
<1>2. at = "idle" /\ TurnGiven(s, p, {FALSE, TRUE}, {FALSE}) /\ masked' = masked /\ over' = over
  BY <1>1 DEF Stepped
<1>3. TurnGiven(s, p, BOOLEAN, BOOLEAN)
  BY <1>2 DEF TurnGiven
<1>4. Nested(calls) /\ Rests /\ masked \in BOOLEAN
  BY DEF DInv, Typed
<1> QED BY <1>1, <1>2, <1>3, <1>4, GivenTold

LEMMA ToldElsewhere == ASSUME DInv, Elsewhere PROVE TInv'
<1>1. /\ at = "idle" /\ TurnGiven(side, promised, {FALSE, TRUE}, BOOLEAN)
      /\ masked' = masked /\ over' = over
  BY DEF Elsewhere
<1>2. TurnGiven(side, promised, BOOLEAN, BOOLEAN)
  BY <1>1 DEF TurnGiven
<1>3. Nested(calls) /\ Rests /\ masked \in BOOLEAN /\ Sized(side) /\ promised \in Pledges
  BY DEF DInv, Typed
<1> QED BY <1>1, <1>2, <1>3, GivenTold

LEMMA ToldFinishes == ASSUME DInv, TInv, Finishes PROVE TInv'
<1>1. /\ at = "finish" /\ at' = "idle" /\ calls' = calls /\ masked' = masked /\ over' = over
  BY DEF Finishes
<1>2. side'.pending = side.pending
  <2>1. CASE side.on /\ engine.deferred
    <3>1. PICK r \in ReadByte(side, FALSE) : side' = r.left
      BY <2>1 DEF Finishes
    <3>2. Size(side) = 0 /\ Sized(side)
      BY <2>1 DEF DInv, Typed, Agrees
    <3>3. CASE side.pos < Len(side.tx)
      <4>1. r.left = Taken(side)
        BY <3>2, <3>3 DEF ReadByte
      <4>2. Taken(side).pending = side.pending
        BY <3>2, <3>3, TakenFacts
      <4> QED BY <3>1, <4>1, <4>2
    <3>4. CASE ~(side.pos < Len(side.tx))
      <4>1. r.left = side
        BY <3>2, <3>4 DEF ReadByte
      <4> QED BY <3>1, <4>1
    <3> QED BY <3>3, <3>4
  <2>2. CASE ~(side.on /\ engine.deferred)
    BY <2>2 DEF Finishes
  <2> QED BY <2>1, <2>2
<1>3. promised'.untold = promised.untold /\ promised'.held = promised.held
  <2>1. CASE promised' = promised
    BY <2>1
  <2>2. CASE promised' = Expected(side, promised)
    BY <2>2 DEF Expected, DInv, Pledges
  <2> QED BY <2>1, <2>2 DEF Finishes
<1>4. Held'
  BY <1>1, <1>2 DEF TInv, Held
<1>5. Told'
  BY <1>1, <1>2, <1>3 DEF TInv, Told, Teller
<1> QED BY <1>4, <1>5 DEF TInv

\* What does not touch events, callbacks or calls.
LEMMA ToldSame ==
    ASSUME TInv, side'.pending = side.pending, side'.flags = side.flags, at' = at,
           calls' = calls, over' = over, masked' = masked \/ masked' = TRUE,
           promised'.untold = promised.untold, promised'.held = promised.held
    PROVE  TInv'
<1>1. Held'
  BY DEF TInv, Held
<1>2. \A q : Tells(q) => Tells(q)'
  BY DEF Tells
<1>3. Told'
  BY <1>2 DEF TInv, Told, Teller
<1> QED BY <1>1, <1>3 DEF TInv

LEMMA ToldAsks ==
    ASSUME DInv, TInv, Writes \/ ReadsInto \/ Stores \/ DisablesIrq
    PROVE  TInv'
<1>1. Sized(side) /\ promised \in Pledges
  BY DEF DInv, Typed
<1>2. at' = at /\ over' = over /\ calls' = calls
  BY DEF Writes, ReadsInto, Stores, DisablesIrq, Asks
<1>3. masked' = masked \/ masked' = TRUE
  BY DEF Writes, ReadsInto, Stores, DisablesIrq
<1>4. promised'.untold = promised.untold /\ promised'.held = promised.held
  <2>1. CASE promised' = promised
    BY <2>1
  <2>2. CASE \E b \in Values : promised' = [promised EXCEPT !.queue = Append(@, b)]
    BY <1>1, <2>2 DEF Pledges
  <2>3. CASE \E i \in 1..Size(side), b \in Values : promised' = [promised EXCEPT !.cells[i] = b]
    BY <1>1, <2>3 DEF Pledges
  <2> QED BY <2>1, <2>2, <2>3 DEF Writes, ReadsInto, Stores, DisablesIrq
<1>5. side'.pending = side.pending /\ side'.flags = side.flags
  <2>1. CASE side' = side
    BY <2>1
  <2>2. CASE ReadsInto \/ Stores
    BY <1>1, <2>2 DEF ReadsInto, Stores, Sized, Sides
  <2>3. CASE Writes
    <3> DEFINE s == Compacted(side)
    <3>1. PICK b \in Values : side' = s \/ (Len(s.tx) < BufMax /\ side' = [s EXCEPT !.tx = Append(@, b)])
      BY <2>3 DEF Writes
    <3>2. Sized(s) /\ s.pending = side.pending /\ s.flags = side.flags
      BY <1>1, CompactedFacts
    <3> HIDE DEF s
    <3> QED BY <3>1, <3>2 DEF Sized, Sides
  <2> QED BY <2>1, <2>2, <2>3 DEF DisablesIrq
<1> QED BY <1>2, <1>3, <1>4, <1>5, ToldSame

LEMMA ToldSetsIrq == ASSUME DInv, TInv, SetsIrq PROVE TInv'
<1>1. Sized(side) /\ promised \in Pledges
  BY DEF DInv, Typed
<1>2. PICK t \in Triggers, handler \in BOOLEAN :
          side' = [side EXCEPT !.handler = handler, !.trigger = t, !.pending = {}]
  BY DEF SetsIrq
<1>3. side'.pending = {} /\ side'.flags = side.flags
  BY <1>1, <1>2 DEF Sized, Sides
<1>4. promised'.untold = promised.untold \ side.pending /\ promised'.held = promised.held
  BY <1>1 DEF SetsIrq, Pledges
<1>5. at' = at /\ over' = over /\ calls' = calls
  BY DEF SetsIrq, Asks
<1>6. \A q : Tells(q) => Tells(q)'
  BY <1>3, <1>4, <1>5 DEF Tells
<1>7. Teller => Teller'
  BY <1>5, <1>6 DEF Teller
<1>8. promised.untold \subseteq side.pending => promised'.untold \subseteq side'.pending
  BY <1>4
<1>9. Told'
  BY <1>3, <1>4, <1>5, <1>7, <1>8 DEF TInv, Told
<1> QED BY <1>3, <1>9 DEF TInv, Held

LEMMA ToldInits == ASSUME DInv, Inits \/ Deinits PROVE TInv'
<1>1. masked \in BOOLEAN
  BY DEF DInv, Typed
<1>2. promised'.untold = {}
  BY DEF Inits, Deinits, Nothing
<1>3. PICK s : s.pending = {} /\ side' = Collected(~masked, s)
  <2> DEFINE t == [Off EXCEPT !.on = TRUE, !.width = budget.setup.width,
                              !.mem = [i \in 1..budget.setup.cells |-> 0]]
  <2>1. Off.pending = {} /\ t.pending = {}
    BY DEF Off
  <2>2. side' = Collected(~masked, Off) \/ side' = Collected(~masked, t)
    BY DEF Inits, Deinits, Yields
  <2> HIDE DEF t
  <2> QED BY <2>1, <2>2
<1>4. side'.pending = {}
  BY <1>3 DEF Collected
<1> QED BY <1>2, <1>4 DEF TInv, Held, Told

\* A call above q takes another shape: it runs, or it comes back by itself.
LEMMA StillTells ==
    ASSUME NEW q \in Nat, NEW n \in Nat, n = Len(calls), q \in 1..(n - 1), Tells(q),
           Len(calls') \in {n - 1, n}, \A i \in 1..(n - 1) : calls'[i] = calls[i],
           Len(calls') = n => calls'[n].state # "waits" \/ calls'[n].back,
           promised'.untold \subseteq promised.untold, side'.flags = side.flags, at' = "turn"
    PROVE  Teller'
<1>1. Owes(calls[q].due) /\ promised.untold \subseteq side.flags
      /\ \A r \in 1..n : r > q /\ calls[r].state = "waits" => calls[r].back
  BY DEF Tells
<1>2. q \in 1..Len(calls')
  OBVIOUS
<1>3. Owes(calls'[q].due) /\ promised'.untold \subseteq side'.flags
  BY <1>1
<1>4. \A r \in 1..Len(calls') : r > q /\ calls'[r].state = "waits" => calls'[r].back
  <2>1. SUFFICES ASSUME NEW r \in 1..Len(calls'), r > q, calls'[r].state = "waits"
                 PROVE  calls'[r].back
    OBVIOUS
  <2>2. CASE r \in 1..(n - 1)
    BY <1>1, <2>1, <2>2
  <2>3. CASE r \notin 1..(n - 1)
    <3>1. Len(calls') = n /\ r = n
      BY <2>1, <2>3
    <3> QED BY <2>1, <3>1
  <2> QED BY <2>2, <2>3
<1>5. Tells(q)'
  BY <1>3, <1>4 DEF Tells
<1> QED BY <1>2, <1>5 DEF Teller

LEMMA ToldCallsBack == ASSUME DInv, TInv, CallsBack PROVE TInv'
<1>1. /\ Nested(calls) /\ promised \in Pledges
  BY DEF DInv, Typed
<1>2. /\ at = "turn" /\ at' = at /\ Innermost.state = "waits" /\ Innermost.due # <<>>
      /\ calls' = Append(Under([Innermost EXCEPT !.due = Tail(@)]),
                         Call(Head(Innermost.due), "runs", <<>>, FALSE))
      /\ promised' = IF Head(Innermost.due) = "handler"
                     THEN [promised EXCEPT !.untold = @ \ side.flags] ELSE promised
      /\ side' = side /\ masked' = masked /\ over' = over
  BY DEF CallsBack, Waiting
<1> DEFINE h == Head(Innermost.due)
           t == Tail(Innermost.due)
           c == [Innermost EXCEPT !.due = t]
           d == Call(h, "runs", <<>>, FALSE)
<1>3. PICK n \in Nat : n = Len(calls) /\ n > 0
  BY <1>1, InnermostFacts
<1>4. /\ Innermost \in CallsInProgress /\ Innermost = calls[n]
  BY <1>1, <1>3, InnermostFacts
<1>5. Innermost.due \in Seq(Dues)
  BY <1>4 DEF CallsInProgress
<1>6. h \in Dues /\ t \in Seq(Dues) /\ (Owes(Innermost.due) => h = "handler" \/ Owes(t))
  BY <1>2, <1>5, DueFacts
<1>7. calls' = Append(Under(c), d)
  BY <1>2, <1>4 DEF CallsInProgress
<1>8. /\ promised'.untold = IF h = "handler" THEN promised.untold \ side.flags
                                             ELSE promised.untold
      /\ promised'.held = promised.held
  BY <1>1, <1>2 DEF Pledges
<1> HIDE DEF h, t
<1>9. /\ c \in CallsInProgress /\ c.kind = Innermost.kind /\ c.state = "waits" /\ c.due = t
      /\ c.back = Innermost.back
  BY <1>2, <1>4, <1>6 DEF CallsInProgress
<1>10. d \in CallsInProgress /\ d.kind # "main" /\ d.due = <<>> /\ d.state = "runs"
  <2>1. <<>> \in Seq(Dues) /\ h \in Kinds /\ h # "main"
    BY <1>6, EmptySeq DEF Dues, Kinds
  <2> QED BY <2>1 DEF Call, CallsInProgress
<1> HIDE DEF c, d
<1>11. /\ Nested(Under(c)) /\ Last(Under(c)) = c /\ Len(Under(c)) = n /\ Under(c)[n] = c
       /\ \A i \in 1..(n - 1) : Under(c)[i] = calls[i]
  BY <1>1, <1>3, <1>9, UnderFacts
<1>12. /\ Len(calls') = n + 1 /\ calls'[n + 1] = d /\ calls'[n] = c
       /\ \A i \in 1..(n - 1) : calls'[i] = calls[i]
  BY <1>3, <1>7, <1>9, <1>10, <1>11, CalledFacts
<1>13. Held'
  BY <1>2 DEF TInv, Held
<1>14. promised'.untold \subseteq promised.untold
  BY <1>8
<1>15. ASSUME ~promised.held, ~over, ~(promised'.untold \subseteq side.pending) PROVE Teller'
  <2>1. ~(promised.untold \subseteq side.pending)
    BY <1>14, <1>15
  <2>2. PICK q \in 1..Len(calls) : Tells(q)
    BY <1>15, <2>1 DEF TInv, Told, Teller
  <2>3. /\ q \in 1..n /\ Owes(calls[q].due) /\ promised.untold \subseteq side.flags
        /\ \A r \in 1..n : r > q /\ calls[r].state = "waits" => calls[r].back
    BY <1>3, <2>2 DEF Tells
  <2>4. h # "handler"
    BY <1>8, <1>15, <2>3
  <2>5. Owes(calls'[q].due)
    <3>1. CASE q = n
      BY <1>4, <1>6, <1>9, <1>12, <2>3, <2>4, <3>1
    <3>2. CASE q # n
      BY <1>3, <1>12, <2>3, <3>2
    <3> QED BY <3>1, <3>2
  <2>6. \A r \in 1..Len(calls') : r > q /\ calls'[r].state = "waits" => calls'[r].back
    <3>1. SUFFICES ASSUME NEW r \in 1..(n + 1), r > q, calls'[r].state = "waits"
                   PROVE  calls'[r].back
      BY <1>12
    <3>2. r # n + 1
      BY <1>10, <1>12, <3>1
    <3>3. CASE r = n
      <4>1. n > q /\ calls[n].state = "waits" /\ n \in 1..n
        BY <1>2, <1>3, <1>4, <3>1, <3>3
      <4>2. calls[n].back
        BY <2>3, <4>1
      <4>3. calls'[r].back = Innermost.back
        BY <1>9, <1>12, <3>3
      <4> QED BY <1>4, <4>2, <4>3
    <3>4. CASE r # n
      <4>1. r \in 1..(n - 1) /\ r \in 1..n
        BY <1>3, <3>1, <3>2, <3>4
      <4>2. calls'[r] = calls[r]
        BY <1>12, <4>1
      <4> QED BY <2>3, <3>1, <4>1, <4>2
    <3> QED BY <3>3, <3>4
  <2>7. Tells(q)'
    BY <1>2, <1>14, <2>3, <2>5, <2>6 DEF Tells
  <2>8. q \in 1..Len(calls')
    BY <1>3, <1>12, <2>3
  <2> QED BY <1>2, <2>7, <2>8 DEF Teller
<1>16. Told'
  BY <1>2, <1>8, <1>14, <1>15 DEF TInv, Told
<1> QED BY <1>13, <1>16 DEF TInv

LEMMA ToldCalls == ASSUME DInv, TInv, WaitGoesOn \/ Sleeps \/ Ends \/ Raises PROVE TInv'
<1>1. /\ Nested(calls) /\ promised \in Pledges
  BY DEF DInv, Typed
<1>2. at = "turn" /\ side' = side /\ masked' = masked
  BY DEF WaitGoesOn, Sleeps, Ends, Raises, Waiting, InTurn
<1>3. PICK n \in Nat : n = Len(calls) /\ n > 0
  BY <1>1, InnermostFacts
<1>4. /\ Innermost \in CallsInProgress /\ Innermost = calls[n]
      /\ (Innermost.kind = "main" <=> n = 1)
      /\ (Innermost.state = "runs" => Innermost.due = <<>>)
  BY <1>1, <1>3, InnermostFacts
<1>5. ~Owes(<<>>)
  BY EmptySeq DEF Owes
\* A call with nothing to do is not the one that tells.
<1>6. ASSUME Innermost.due = <<>>, Teller
      PROVE  \E q \in Nat : q \in 1..(n - 1) /\ Tells(q)
  <2>1. PICK q \in 1..n : Tells(q)
    BY <1>3, <1>6 DEF Teller
  <2>2. q # n
    BY <1>4, <1>5, <1>6, <2>1 DEF Tells
  <2> QED BY <1>3, <2>1, <2>2
<1>7. ASSUME over' = over PROVE Held'
  BY <1>2, <1>7 DEF TInv, Held
<1>8. CASE WaitGoesOn
  <2>1. /\ Innermost.state = "waits" /\ Innermost.due = <<>> /\ over' = over
        /\ promised' = promised
    BY <1>8 DEF WaitGoesOn, Waiting
  <2>2. CASE Innermost.back
    <3> DEFINE c == [Innermost EXCEPT !.state = "runs", !.back = FALSE]
    <3>1. at' = at /\ calls' = Under(c)
      BY <1>8, <2>2 DEF WaitGoesOn
    <3>2. c \in CallsInProgress /\ c.kind = Innermost.kind /\ c.due = <<>> /\ c.state = "runs"
      BY <1>4, <2>1 DEF CallsInProgress
    <3> HIDE DEF c
    <3>3. Len(calls') = n /\ calls'[n] = c /\ \A i \in 1..(n - 1) : calls'[i] = calls[i]
      BY <1>1, <1>3, <3>1, <3>2, UnderFacts
    <3>4. Teller => Teller'
      <4>1. SUFFICES ASSUME Teller PROVE Teller'
        OBVIOUS
      <4>2. PICK q \in Nat : q \in 1..(n - 1) /\ Tells(q)
        BY <1>6, <2>1, <4>1
      <4>3. calls'[n].state # "waits" /\ at' = "turn" /\ side'.flags = side.flags
            /\ promised'.untold \subseteq promised.untold
        BY <1>2, <2>1, <3>1, <3>2, <3>3
      <4> QED BY <1>3, <3>3, <4>2, <4>3, StillTells
    <3>5. Told'
      BY <1>2, <2>1, <3>4 DEF TInv, Told
    <3> QED BY <1>7, <2>1, <3>5 DEF TInv
  <2>3. CASE ~Innermost.back
    <3>1. ~Teller
      <4>1. SUFFICES ASSUME Teller PROVE FALSE
        OBVIOUS
      <4>2. PICK q \in Nat : q \in 1..(n - 1) /\ Tells(q)
        BY <1>6, <2>1, <4>1
      <4>3. calls[n].back
        BY <1>3, <1>4, <2>1, <4>2 DEF Tells
      <4> QED BY <1>4, <2>3, <4>3
    <3>2. Told'
      BY <1>2, <2>1, <3>1 DEF TInv, Told
    <3> QED BY <1>7, <2>1, <3>2 DEF TInv
  <2> QED BY <2>2, <2>3
<1>9. CASE Sleeps
  <2>1. /\ Innermost.state = "runs" /\ over' = over
        /\ promised' = [promised EXCEPT !.held = @ \/ Innermost.kind # "main"]
    BY <1>9 DEF Sleeps, InTurn
  <2>2. promised'.held = (promised.held \/ Innermost.kind # "main")
        /\ promised'.untold = promised.untold
    BY <1>1, <2>1 DEF Pledges
  <2>3. Innermost.kind = "main" => ~Teller
    <3>1. SUFFICES ASSUME Innermost.kind = "main", Teller PROVE FALSE
      OBVIOUS
    <3>2. n = 1
      BY <1>4, <3>1
    <3>3. \E q \in Nat : q \in 1..(n - 1)
      BY <1>4, <1>6, <2>1, <3>1
    <3> QED BY <3>2, <3>3
  <2>4. Told'
    BY <1>2, <2>1, <2>2, <2>3 DEF TInv, Told
  <2> QED BY <1>7, <2>1, <2>4 DEF TInv
<1>10. CASE Ends
  <2>1. Innermost.state = "runs" /\ promised' = promised
    BY <1>10 DEF Ends, InTurn
  <2>2. CASE Innermost.kind = "main"
    <3>1. over' = TRUE
      BY <1>10, <2>2 DEF Ends
    <3> QED BY <3>1 DEF TInv, Held, Told
  <2>3. CASE Innermost.kind # "main"
    <3>1. over' = over /\ at' = at /\ calls' = Front(calls)
      BY <1>10, <2>3 DEF Ends
    <3>2. Len(calls') = n - 1 /\ \A i \in 1..(n - 1) : calls'[i] = calls[i]
      BY <1>1, <1>3, <2>3, <3>1, FrontFacts
    <3>3. Teller => Teller'
      <4>1. SUFFICES ASSUME Teller PROVE Teller'
        OBVIOUS
      <4>2. PICK q \in Nat : q \in 1..(n - 1) /\ Tells(q)
        BY <1>4, <1>6, <2>1, <4>1
      <4>3. at' = "turn" /\ side'.flags = side.flags
            /\ promised'.untold \subseteq promised.untold /\ Len(calls') # n
        BY <1>2, <2>1, <3>1, <3>2
      <4> QED BY <1>3, <3>2, <4>2, <4>3, StillTells
    <3>4. Told'
      BY <1>2, <2>1, <3>1, <3>3 DEF TInv, Told
    <3> QED BY <1>7, <3>1, <3>4 DEF TInv
  <2> QED BY <2>2, <2>3
<1>11. CASE Raises
  <2>1. promised' = [promised EXCEPT !.held = TRUE] /\ over' = over
    BY <1>11 DEF Raises
  <2>2. promised'.held
    BY <1>1, <2>1 DEF Pledges
  <2> QED BY <1>7, <2>1, <2>2 DEF TInv, Told
<1> QED BY <1>8, <1>9, <1>10, <1>11

LEMMA ToldEnables == ASSUME DInv, TInv, EnablesIrq PROVE TInv'
<1>1. /\ Nested(calls) /\ Sized(side)
  BY DEF DInv, Typed
<1>2. /\ at = "turn" /\ at' = at /\ over' = over /\ masked' = FALSE /\ promised' = promised
      /\ side' = Collected(TRUE, side) /\ Innermost.state = "runs"
  BY DEF EnablesIrq, Asks, InTurn
<1>3. PICK other \in BOOLEAN :
        calls' = Under([Innermost EXCEPT !.state = "waits", !.due = Batch(TRUE, side, other),
                                         !.back = TRUE])
  BY DEF EnablesIrq
<1> DEFINE due == Batch(TRUE, side, other)
           c == [Innermost EXCEPT !.state = "waits", !.due = due, !.back = TRUE]
<1>4. due \in Seq(Dues) /\ TRUE \in BOOLEAN /\ (Owes(due) <=> side.pending # {})
  BY BatchFacts
<1>5. calls' = Under(c)
  BY <1>3
<1> HIDE DEF due
<1>6. c \in CallsInProgress /\ c.kind = Innermost.kind /\ c.state = "waits" /\ c.due = due
      /\ c.back = TRUE
  BY <1>1, <1>4, WaitFacts
<1> HIDE DEF c
<1>7. PICK n \in Nat : n = Len(calls) /\ n > 0
  BY <1>1, InnermostFacts
<1>8. Len(calls') = n /\ calls'[n] = c /\ \A i \in 1..(n - 1) : calls'[i] = calls[i]
  BY <1>1, <1>5, <1>6, <1>7, UnderFacts
<1>9. Innermost = calls[n] /\ Innermost.due = <<>>
  BY <1>1, <1>2, <1>7, InnermostFacts
<1>10. /\ side'.pending = {}
       /\ side.pending # {} => side'.flags = side.pending
       /\ side.pending = {} => side' = side
  BY <1>1, <1>2, <1>4, CollectedPending
<1>11. Held'
  BY <1>10 DEF Held
<1>12. ASSUME ~promised.held, ~over, ~(promised.untold \subseteq {}) PROVE Teller'
  <2>1. CASE side.pending # {}
    <3>1. promised.untold \subseteq side.pending
      BY <1>12, <2>1 DEF TInv, Told
    <3>2. n \in 1..Len(calls') /\ \A r \in 1..Len(calls') : ~(r > n)
      BY <1>7, <1>8
    <3>3. Owes(calls'[n].due) /\ promised'.untold \subseteq side'.flags
      BY <1>2, <1>4, <1>6, <1>8, <1>10, <2>1, <3>1
    <3>4. Tells(n)'
      BY <3>2, <3>3 DEF Tells
    <3> QED BY <1>2, <3>2, <3>4 DEF Teller
  <2>2. CASE side.pending = {}
    <3>1. PICK q \in 1..n : Tells(q)
      BY <1>7, <1>12, <2>2 DEF TInv, Told, Teller
    <3>2. ~Owes(<<>>)
      BY EmptySeq DEF Owes
    <3>3. q # n
      BY <1>9, <3>1, <3>2 DEF Tells
    <3>4. q \in Nat /\ q \in 1..(n - 1)
      BY <1>7, <3>1, <3>3
    <3>5. calls'[n].back /\ at' = "turn" /\ side'.flags = side.flags
          /\ promised'.untold \subseteq promised.untold
      BY <1>2, <1>6, <1>8, <1>10, <2>2
    <3> QED BY <1>7, <1>8, <3>1, <3>4, <3>5, StillTells
  <2> QED BY <2>1, <2>2
<1>13. Told'
  BY <1>2, <1>10, <1>12 DEF Told
<1> QED BY <1>11, <1>13 DEF TInv

LEMMA TInvInit == TargetInit => TInv
<1> SUFFICES ASSUME TargetInit PROVE TInv
  OBVIOUS
<1>1. side.pending = {} /\ promised.untold = {}
  BY DEF TargetInit, Off, Nothing
<1> QED BY <1>1 DEF TInv, Held, Told

LEMMA TInvNext == ASSUME DInv, TInv, [TargetNext]_sideVars PROVE TInv'
<1>1. CASE UNCHANGED sideVars
  BY <1>1, ToldSame DEF sideVars
<1>2. CASE Controller
  BY <1>2, EngineSteps, ToldEngine, ToldElsewhere, ToldFinishes DEF Controller
<1>3. CASE Program
  BY <1>3, ToldCallsBack, ToldCalls, ToldSetsIrq, ToldAsks, ToldEnables, ToldInits DEF Program
<1>4. CASE PowerLost
  BY <1>4 DEF PowerLost, TInv, Held, Told
<1>5. CASE BusRests
  BY <1>1, <1>5 DEF BusRests
<1> QED BY <1>1, <1>2, <1>3, <1>4, <1>5 DEF TargetNext

\* For any handler, mask and nesting of callbacks: when a synchronisation ends,
\* every event asked for was told, or something of the program held it back.
THEOREM EventsTold == TargetSpec => []ToldAtOnce
<1>1. TargetSpec => []TInv
  BY TInvInit, TInvNext, DInvHolds, PTL DEF TargetSpec
<1>2. TInv => ToldAtOnce
  BY DEF TInv, Held, Told, Teller, ToldAtOnce
<1> QED BY <1>1, <1>2, PTL
=============================================================================
