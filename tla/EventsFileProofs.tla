-------------------------- MODULE EventsFileProofs --------------------------
(***************************************************************************)
(* The events file and the clients that follow it, proved for any number   *)
(* of progress events, every buffer limit, every set of faults and any     *)
(* number of them.  The inductive invariant is EventsIInv: a writer knows  *)
(* whether the file is torn and which seq comes next, whoever appends a    *)
(* done event repeats the outcome that is told or stored already, and a    *)
(* stream has passed nothing that its client has not got.                  *)
(***************************************************************************)
EXTENDS EventsFile, TLAPS

-----------------------------------------------------------------------------
(* Lines and files.                                                        *)

\* A set of positions of the file has a greatest one.  The induction over the length
\* of the file is that over the steps that lengthen it.
Bounded(n) == \A S \in SUBSET (1 .. n) : S # {} => \E i \in S : \A k \in S : k <= i

LEMMA BoundedZero == Bounded(0)
<1>1. \A S \in SUBSET (1 .. 0) : S = {}
  OBVIOUS
<1> QED BY <1>1, Zenon DEF Bounded

LEMMA BoundedLess ==
  ASSUME NEW n \in Nat, NEW m \in Nat, m <= n, Bounded(n)
  PROVE  Bounded(m)
<1> SUFFICES ASSUME NEW S \in SUBSET (1 .. m), S # {} PROVE \E i \in S : \A k \in S : k <= i
  BY Zenon DEF Bounded
<1>1. S \in SUBSET (1 .. n) OBVIOUS
<1> QED BY <1>1, Zenon DEF Bounded

LEMMA BoundedNext ==
  ASSUME NEW n \in Nat, Bounded(n)
  PROVE  Bounded(n + 1)
<1> SUFFICES ASSUME NEW S \in SUBSET (1 .. n + 1), S # {} PROVE \E i \in S : \A k \in S : k <= i
  BY Zenon DEF Bounded
<1>1. CASE n + 1 \in S
  BY <1>1
<1>2. CASE n + 1 \notin S
  <2>1. S \in SUBSET (1 .. n) BY <1>2
  <2> QED BY <2>1, Zenon DEF Bounded
<1> QED BY <1>1, <1>2, Zenon

LEMMA BoundedStep ==
  ASSUME NEW n \in Nat, NEW m \in Nat, m <= n + 1, Bounded(n)
  PROVE  Bounded(m)
BY BoundedNext, BoundedLess

\* What a line is made of.
LEMMA LineFacts ==
  ASSUME NEW l \in Line
  PROVE  /\ l.seq \in Nat /\ l.ended \in BOOLEAN /\ l.kind \in Kinds \cup {"junk"}
         /\ l.outcome \in Outcomes \cup {None}
         /\ l = [kind |-> l.kind, seq |-> l.seq, outcome |-> l.outcome, ended |-> l.ended]
         /\ Parseable(l) <=> l.seq # 0
         /\ l.kind = "done" => Parseable(l) /\ l.outcome \in Outcomes
         /\ ~Parseable(l) => l.kind = "junk" /\ l.seq = 0
<1>1. CASE l \in [kind : {"junk"}, seq : {0}, outcome : {None}, ended : BOOLEAN]
  BY <1>1 DEF Parseable, Kinds
<1>2. CASE l \in [kind : Kinds \ {"done"}, seq : Seqs, outcome : {None}, ended : BOOLEAN]
  BY <1>2, Zenon DEF Parseable, Kinds, Seqs
<1>3. CASE l \in [kind : {"done"}, seq : Seqs, outcome : Outcomes, ended : BOOLEAN]
  BY <1>3, Zenon DEF Parseable, Kinds, Seqs
<1> QED BY <1>1, <1>2, <1>3, Zenon DEF Line

LEMMA JunkFacts ==
  /\ Junk \in Line /\ ~Junk.ended /\ Junk.kind = "junk" /\ Junk.seq = 0 /\ ~Parseable(Junk)
BY Zenon DEF Junk, Line, Parseable

LEMMA EventFacts ==
  ASSUME NEW n \in Seqs
  PROVE  /\ \A k \in Kinds \ {"done"} : Event(k, n, None) \in Line
         /\ \A o \in Outcomes : Event("done", n, o) \in Line
         /\ \A o : \A k \in Kinds : /\ Readable(Event(k, n, o)) /\ Event(k, n, o).seq = n
                                         /\ Event(k, n, o).kind = k /\ Event(k, n, o).outcome = o
BY Zenon DEF Event, Line, Kinds, Readable, Parseable

\* Setting or taking away the newline of a line.
LEMMA NewlineFacts ==
  ASSUME NEW l \in Line, NEW b \in BOOLEAN
  PROVE  LET m == [l EXCEPT !.ended = b]
         IN m \in Line /\ m.ended = b /\ m.kind = l.kind /\ m.seq = l.seq /\ m.outcome = l.outcome
<1>1. CASE l \in [kind : {"junk"}, seq : {0}, outcome : {None}, ended : BOOLEAN]
  BY <1>1, Zenon DEF Line
<1>2. CASE l \in [kind : Kinds \ {"done"}, seq : Seqs, outcome : {None}, ended : BOOLEAN]
  BY <1>2, Zenon DEF Line
<1>3. CASE l \in [kind : {"done"}, seq : Seqs, outcome : Outcomes, ended : BOOLEAN]
  BY <1>3, Zenon DEF Line
<1> QED BY <1>1, <1>2, <1>3, Zenon DEF Line

-----------------------------------------------------------------------------
(* What the operations on files leave.                                     *)

Keeps(f, g) == \A i \in DOMAIN f : f[i].ended => i \in DOMAIN g /\ g[i] = f[i]

LEMMA SeqFacts ==
  ASSUME NEW f \in Seq(Line)
  PROVE  /\ Len(f) \in Nat /\ DOMAIN f = 1 .. Len(f) /\ \A i \in 1 .. Len(f) : f[i] \in Line
         /\ f = <<>> <=> Len(f) = 0
OBVIOUS

LEMMA TornFacts ==
  ASSUME NEW f \in Seq(Line), InOrder(f)
  PROVE  /\ Torn(f) => Len(f) \in DOMAIN f /\ ~f[Len(f)].ended
         /\ ~Torn(f) => \A i \in DOMAIN f : f[i].ended
BY SeqFacts DEF Torn, InOrder

\* The last line is replaced.
LEMMA Replaced ==
  ASSUME NEW f \in Seq(Line), InOrder(f), Torn(f), NEW l \in Line,
         Parseable(l) => \A i \in DOMAIN f : i < Len(f) => f[i].seq < l.seq
  PROVE  LET g == [f EXCEPT ![Len(f)] = l]
         IN /\ g \in Seq(Line) /\ InOrder(g) /\ Len(g) = Len(f) /\ DOMAIN g = DOMAIN f /\ Keeps(f, g)
            /\ g[Len(f)] = l /\ \A i \in DOMAIN f : i # Len(f) => g[i] = f[i]
            /\ Torn(g) <=> ~l.ended
<1> DEFINE g == [f EXCEPT ![Len(f)] = l]
<1>1. Len(f) \in DOMAIN f /\ ~f[Len(f)].ended /\ Len(f) \in Nat /\ DOMAIN f = 1 .. Len(f)
  BY TornFacts, SeqFacts, Zenon
<1>2. /\ g \in Seq(Line) /\ Len(g) = Len(f) /\ DOMAIN g = DOMAIN f
      /\ g[Len(f)] = l /\ \A i \in DOMAIN f : i # Len(f) => g[i] = f[i]
  BY <1>1
<1>3. Keeps(f, g)
  BY <1>1, <1>2, Zenon DEF Keeps
<1>4. InOrder(g)
  <2>1. \A i \in DOMAIN g : i < Len(g) => g[i].ended
    BY <1>1, <1>2, Zenon DEF InOrder
  <2>2. ASSUME NEW i \in DOMAIN g, NEW k \in DOMAIN g, i < k, Parseable(g[i]), Parseable(g[k])
        PROVE  g[i].seq < g[k].seq
    <3>1. i < Len(f) /\ g[i] = f[i] /\ i \in DOMAIN f /\ k \in DOMAIN f
      BY <1>1, <1>2, <2>2
    <3>2. CASE k = Len(f)
      BY <1>2, <2>2, <3>1, <3>2, Zenon
    <3>3. CASE k # Len(f)
      BY <1>2, <2>2, <3>1, <3>3, Zenon DEF InOrder
    <3> QED BY <3>2, <3>3, Zenon
  <2> QED BY <2>1, <2>2, Zenon DEF InOrder
<1>5. Torn(g) <=> ~l.ended
  BY <1>1, <1>2, SeqFacts, Zenon DEF Torn
<1> QED BY <1>2, <1>3, <1>4, <1>5, Zenon

\* A line is added.
LEMMA Appended ==
  ASSUME NEW f \in Seq(Line), InOrder(f), ~Torn(f), NEW l \in Line,
         Parseable(l) => \A i \in DOMAIN f : f[i].seq < l.seq
  PROVE  LET g == Append(f, l)
         IN /\ g \in Seq(Line) /\ InOrder(g) /\ Len(g) = Len(f) + 1 /\ DOMAIN g = 1 .. Len(f) + 1
            /\ Keeps(f, g) /\ g[Len(f) + 1] = l /\ \A i \in DOMAIN f : g[i] = f[i]
            /\ Torn(g) <=> ~l.ended
<1> DEFINE g == Append(f, l)
<1>1. Len(f) \in Nat /\ DOMAIN f = 1 .. Len(f) /\ \A i \in DOMAIN f : f[i].ended
  BY TornFacts, SeqFacts, Zenon
<1>2. /\ g \in Seq(Line) /\ Len(g) = Len(f) + 1 /\ DOMAIN g = 1 .. Len(f) + 1
      /\ g[Len(f) + 1] = l /\ \A i \in DOMAIN f : g[i] = f[i]
  BY <1>1
<1>3. Keeps(f, g)
  BY <1>1, <1>2 DEF Keeps
<1>4. InOrder(g)
  <2>1. \A i \in DOMAIN g : i < Len(g) => g[i].ended
    BY <1>1, <1>2
  <2>2. ASSUME NEW i \in DOMAIN g, NEW k \in DOMAIN g, i < k, Parseable(g[i]), Parseable(g[k])
        PROVE  g[i].seq < g[k].seq
    <3>1. i \in DOMAIN f /\ g[i] = f[i]
      BY <1>1, <1>2, <2>2
    <3>2. CASE k = Len(f) + 1
      BY <1>2, <2>2, <3>1, <3>2, Zenon
    <3>3. CASE k \in DOMAIN f
      BY <1>2, <2>2, <3>1, <3>3, Zenon DEF InOrder
    <3> QED BY <1>1, <1>2, <3>2, <3>3
  <2> QED BY <2>1, <2>2, Zenon DEF InOrder
<1>5. Torn(g) <=> ~l.ended
  BY <1>1, <1>2, SeqFacts DEF Torn
<1> QED BY <1>2, <1>3, <1>4, <1>5, Zenon

\* A torn tail gets its newline.
LEMMA OpenedFacts ==
  ASSUME NEW f \in Seq(Line), InOrder(f)
  PROVE  LET g == Opened(f)
         IN /\ g \in Seq(Line) /\ InOrder(g) /\ Len(g) = Len(f) /\ DOMAIN g = DOMAIN f
            /\ Keeps(f, g) /\ ~Torn(g)
            /\ \A i \in DOMAIN f : /\ g[i].kind = f[i].kind /\ g[i].seq = f[i].seq
                                   /\ g[i].outcome = f[i].outcome /\ g[i].ended
<1> DEFINE g == Opened(f)
<1>1. CASE ~Torn(f)
  <2>1. g = f BY <1>1, Zenon DEF Opened
  <2>2. \A i \in DOMAIN f : f[i].ended BY <1>1, TornFacts, Zenon
  <2> QED BY <1>1, <2>1, <2>2, Zenon DEF Keeps
<1>2. CASE Torn(f)
  <2> DEFINE l == [f[Len(f)] EXCEPT !.ended = TRUE]
  <2>1. Len(f) \in DOMAIN f /\ f[Len(f)] \in Line /\ DOMAIN f = 1 .. Len(f) /\ Len(f) \in Nat
    BY <1>2, TornFacts, SeqFacts, Zenon
  <2>2. l \in Line /\ l.ended /\ l.kind = f[Len(f)].kind /\ l.seq = f[Len(f)].seq /\ l.outcome = f[Len(f)].outcome
    BY <2>1, NewlineFacts, Zenon
  <2>3. g = [f EXCEPT ![Len(f)] = l]
    BY <1>2, <2>1, Zenon DEF Opened, Newline
  <2>4. Parseable(l) => \A i \in DOMAIN f : i < Len(f) => f[i].seq < l.seq
    <3> SUFFICES ASSUME Parseable(l), NEW i \in DOMAIN f, i < Len(f) PROVE f[i].seq < l.seq
      BY Zenon
    <3>1. f[i] \in Line /\ f[Len(f)].kind # "junk" /\ f[Len(f)].seq # 0
      BY <2>1, <2>2, LineFacts, SeqFacts, Zenon DEF Parseable
    <3>2. CASE Parseable(f[i])
      BY <2>1, <2>2, <3>1, <3>2, Zenon DEF InOrder, Parseable
    <3>3. CASE ~Parseable(f[i])
      BY <2>1, <2>2, <3>1, <3>3, LineFacts
    <3> QED BY <3>2, <3>3, Zenon
  <2> HIDE DEF l, g
  <2>5. /\ g \in Seq(Line) /\ InOrder(g) /\ Len(g) = Len(f) /\ DOMAIN g = DOMAIN f /\ Keeps(f, g)
        /\ g[Len(f)] = l /\ (\A i \in DOMAIN f : i # Len(f) => g[i] = f[i]) /\ ~Torn(g)
    BY <1>2, <2>2, <2>3, <2>4, Replaced, Zenon
  <2>6. \A i \in DOMAIN f : i # Len(f) => f[i].ended
    BY <2>1 DEF InOrder
  <2> QED BY <2>1, <2>2, <2>5, <2>6, Zenon DEF g
<1> QED BY <1>1, <1>2, Zenon

\* scanLastSeq finds the highest seq.
LEMMA LastSeqFacts ==
  ASSUME NEW f \in Seq(Line), InOrder(f), Bounded(Len(f))
  PROVE  LastSeqOf(f) \in Nat /\ \A i \in DOMAIN f : f[i].seq <= LastSeqOf(f)
<1> DEFINE seqs == {f[i].seq : i \in DOMAIN f} \cup {0}
           S == {i \in DOMAIN f : Parseable(f[i])}
<1>1. \A i \in DOMAIN f : f[i] \in Line /\ f[i].seq \in Nat /\ (i \notin S => f[i].seq = 0)
  BY SeqFacts, LineFacts, Zenon
<1>2. \E n \in seqs : \A k \in seqs : k <= n
  <2>1. CASE S = {}
    BY <1>1, <2>1
  <2>2. CASE S # {}
    <3>1. S \in SUBSET (1 .. Len(f))
      BY SeqFacts, Zenon
    <3>2. PICK i \in S : \A k \in S : k <= i
      BY <2>2, <3>1, Zenon DEF Bounded
    <3>3. \A k \in S : f[k].seq <= f[i].seq
      <4> TAKE k \in S
      <4>1. k = i \/ k < i BY <3>1, <3>2
      <4> QED BY <1>1, <4>1 DEF InOrder
    <3>4. \A k \in DOMAIN f : f[k].seq <= f[i].seq
      BY <1>1, <3>3
    <3> WITNESS f[i].seq \in seqs
    <3> QED BY <1>1, <3>4
  <2> QED BY <2>1, <2>2, Zenon
<1>3. LastSeqOf(f) = CHOOSE n \in seqs : \A k \in seqs : k <= n
  BY Zenon DEF LastSeqOf
<1>4. LastSeqOf(f) \in seqs /\ \A k \in seqs : k <= LastSeqOf(f)
  <2> HIDE DEF seqs
  <2> QED BY <1>2, <1>3, Zenon
<1> QED BY <1>1, <1>4

\* A power loss leaves the first k lines, the last of them perhaps torn.
Cut(f, g, k) ==
    \/ g = SubSeq(f, 1, k)
    \/ k > 0 /\ \E l \in {Junk, [f[k] EXCEPT !.ended = FALSE]} : g = [SubSeq(f, 1, k) EXCEPT ![k] = l]

LEMMA CutFacts ==
  ASSUME NEW f \in Seq(Line), InOrder(f), NEW k \in 0 .. Len(f), NEW g, Cut(f, g, k)
  PROVE  /\ g \in Seq(Line) /\ InOrder(g) /\ Len(g) = k /\ DOMAIN g = 1 .. k
         /\ \A i \in 1 .. k : g[i].kind # "junk" => g[i].kind = f[i].kind /\ g[i].outcome = f[i].outcome
<1> DEFINE c == SubSeq(f, 1, k)
<1>1. Len(f) \in Nat /\ DOMAIN f = 1 .. Len(f) /\ \A i \in 1 .. Len(f) : f[i] \in Line
  BY SeqFacts, Zenon
<1>2. c \in Seq(Line) /\ Len(c) = k /\ DOMAIN c = 1 .. k /\ \A i \in 1 .. k : c[i] = f[i]
  BY <1>1
<1>3. InOrder(c)
  BY <1>1, <1>2 DEF InOrder
<1> HIDE DEF c
<1>4. CASE g = c
  BY <1>2, <1>3, <1>4, Zenon
<1>5. ASSUME k > 0, NEW l \in {Junk, [f[k] EXCEPT !.ended = FALSE]}, g = [c EXCEPT ![k] = l]
      PROVE  /\ g \in Seq(Line) /\ InOrder(g) /\ Len(g) = k /\ DOMAIN g = 1 .. k
             /\ \A i \in 1 .. k : g[i].kind # "junk" => g[i].kind = f[i].kind /\ g[i].outcome = f[i].outcome
  <2>1. k \in 1 .. k /\ f[k] \in Line
    BY <1>1, <1>5
  <2>2. /\ l \in Line /\ ~l.ended
        /\ l.kind # "junk" => l.kind = f[k].kind /\ l.outcome = f[k].outcome /\ l.seq = f[k].seq
    BY <1>5, <2>1, NewlineFacts, JunkFacts, Zenon
  <2>3. g \in Seq(Line) /\ Len(g) = k /\ DOMAIN g = 1 .. k /\ g[k] = l /\ \A i \in 1 .. k : i # k => g[i] = f[i]
    BY <1>2, <1>5, <2>1, <2>2
  <2>4. \A i \in 1 .. k : i < k => g[i].ended
    BY <1>1, <2>3 DEF InOrder
  <2>5. ASSUME NEW i \in 1 .. k, NEW j \in 1 .. k, i < j, Parseable(g[i]), Parseable(g[j])
        PROVE  g[i].seq < g[j].seq
    <3>1. g[i] = f[i] /\ i # k
      BY <2>3, <2>5
    <3>2. g[j].seq = f[j].seq /\ Parseable(f[j])
      BY <2>2, <2>3, <2>5, Zenon DEF Parseable
    <3>3. i \in DOMAIN f /\ j \in DOMAIN f
      BY <1>1
    <3> QED BY <2>5, <3>1, <3>2, <3>3, Zenon DEF InOrder
  <2>6. InOrder(g)
    BY <2>3, <2>4, <2>5, Zenon DEF InOrder
  <2> QED BY <2>2, <2>3, <2>6, Zenon
<1> QED BY <1>4, <1>5, Zenon DEF Cut, c

-----------------------------------------------------------------------------
(* The writers' half of the invariant, and the clients'.                   *)

Written ==
    /\ TypeOK /\ InOrder(file) /\ OneDone /\ WriterInOrder /\ JobAlive /\ JobInOrder /\ RowInOrder
    /\ NothingMissing
Followed == Delivery /\ StreamInOrder /\ CursorInOrder /\ AlarmInOrder

LEMMA BothHalves == EventsIInv <=> Written /\ Followed
<1>1. EventsIInv => Written /\ Followed
  BY Zenon DEF EventsIInv, EventsInv, Written, Followed
<1>2. ASSUME Written PROVE SeqsIncrease
  BY <1>2, Zenon DEF Written, InOrder, SeqsIncrease, Readable
<1>3. ASSUME Written PROVE DoneIsReadable
  <2>1. db.row = "done" => db.outcome # None
    BY <1>3, EventsConstantsOK, Zenon DEF Written, TypeOK, Database
  <2> QED BY <1>3, <2>1, Zenon DEF Written, NothingMissing, DoneIsReadable, TailHasDoneEvent, Final
<1> QED BY <1>1, <1>2, <1>3, Zenon DEF EventsIInv, EventsInv, Written, Followed

\* Finished lines stay, and new events come after them: a client that has got all up to
\* its cursor still has.
LEMMA GotAllStays ==
  ASSUME file \in Seq(Line), file' \in Seq(Line), InOrder(file), InOrder(file'), Keeps(file, file'),
         Intact, GotAll, CursorInOrder, client.cursor \in Nat, client.from \in Nat,
         client'.got = client.got, client'.from = client.from, client'.cursor = client.cursor
  PROVE  GotAll' /\ CursorInOrder'
<1>1. /\ DOMAIN file = 1 .. Len(file) /\ DOMAIN file' = 1 .. Len(file')
      /\ Len(file) \in Nat /\ Len(file') \in Nat
      /\ \A i \in DOMAIN file : file[i].seq \in Nat /\ file[i].ended \in BOOLEAN
      /\ \A i \in DOMAIN file' : file'[i].seq \in Nat
  BY SeqFacts, LineFacts, Zenon
<1>2. CursorInOrder'
  <2>1. client.cursor = client.from
        \/ \E i \in DOMAIN file' : Readable(file'[i]) /\ file'[i].seq = client.cursor
    BY Zenon DEF CursorInOrder, Keeps, Readable
  <2> QED BY <2>1, Zenon DEF CursorInOrder
<1> DEFINE Sent(l) == Readable(l) /\ client.from < l.seq /\ l.seq <= client.cursor
<1>3. ASSUME NEW j \in DOMAIN file', Sent(file'[j]) PROVE j \in DOMAIN file /\ file[j] = file'[j]
  <2>1. client.cursor # client.from
    BY <1>1, <1>3
  <2>2. PICK i \in DOMAIN file : Readable(file[i]) /\ file[i].seq = client.cursor
    BY <2>1, Zenon DEF CursorInOrder
  <2>3. i \in DOMAIN file' /\ file'[i] = file[i]
    BY <2>2, Zenon DEF Keeps, Readable
  <2>4. j <= i
    BY <1>1, <1>3, <2>2, <2>3 DEF InOrder, Readable
  <2>5. CASE j = i BY <2>3, <2>5, Zenon
  <2>6. CASE j < i
    <3>1. j \in DOMAIN file /\ file[j].ended BY <1>1, <2>6 DEF InOrder
    <3> QED BY <3>1, Zenon DEF Keeps
  <2> QED BY <1>1, <2>4, <2>5, <2>6
<1>4. ASSUME NEW j \in DOMAIN file, Sent(file[j]) PROVE j \in DOMAIN file' /\ file[j] = file'[j]
  BY <1>4, Zenon DEF Keeps, Readable
<1>5. {l \in {file[i] : i \in DOMAIN file} : Sent(l)} = {l \in {file'[i] : i \in DOMAIN file'} : Sent(l)}
  <2> HIDE DEF Sent
  <2> QED BY <1>3, <1>4, Zenon
<1>6. GotAll'
  BY <1>5, Zenon DEF GotAll
<1> QED BY <1>2, <1>6, Zenon

\* A step of a writer, of the repair or of the machine, to the clients.
Elsewhere ==
    \/ /\ stream' = stream /\ client' = client
       /\ stream.open => /\ daemon' = "up" /\ Keeps(file, file')
                         /\ linked' \/ db'.row \in {"deleting", "gone"}
    \/ /\ stream' = NoStream
       /\ client' = client \/ \E p \in {"broken", "decode"} : client' = [client EXCEPT !.pc = p]

LEMMA FollowedElsewhere ==
  ASSUME EventsIInv, Elsewhere, file' \in Seq(Line), InOrder(file'), Intact' => Intact,
         Intact' => Keeps(file, file') /\ (Final => Final' /\ file' = file)
  PROVE  Followed'
<1>0. TypeOK /\ InOrder(file) /\ Followed
  BY BothHalves, Zenon DEF Written
<1>1. /\ client.cursor \in Nat /\ client.from \in Nat /\ client.got \in Seq(Line) /\ file \in Seq(Line)
      /\ client \in Client /\ stream \in Stream
  BY <1>0, EventsConstantsOK, Zenon DEF TypeOK, Client
<1>2. /\ client'.got = client.got /\ client'.from = client.from /\ client'.cursor = client.cursor
      /\ client'.sawDone = client.sawDone /\ (client'.pc = client.pc \/ client'.pc \in {"broken", "decode"})
  BY <1>1, Zenon DEF Elsewhere, Client
<1>3. GotAll' /\ CursorInOrder'
  <2>1. CASE Intact'
    BY <1>0, <1>1, <1>2, <2>1, GotAllStays, Zenon DEF Followed, Delivery
  <2>2. CASE ~Intact'
    BY <1>0, <1>2, <2>2, Zenon DEF Followed, Delivery, GotAll, CursorInOrder
  <2> QED BY <2>1, <2>2, Zenon
<1>4. GotInOrder'
  BY <1>0, <1>2, Zenon DEF Followed, Delivery, GotInOrder
<1>5. StreamInOrder'
  <2>1. CASE stream' = NoStream
    BY <2>1, Zenon DEF StreamInOrder, NoStream
  <2>2. CASE /\ stream' = stream /\ client' = client /\ stream.open
             /\ daemon' = "up" /\ Keeps(file, file') /\ (linked' \/ db'.row \in {"deleting", "gone"})
    <3>1. \A i \in 1 .. stream.pos : i \in DOMAIN file /\ i \in DOMAIN file' /\ file'[i] = file[i]
      BY <1>0, <1>1, <2>2, SeqFacts DEF Followed, StreamInOrder, Keeps, Stream
    <3>2. stream.pos <= Len(file')
      <4>1. stream.pos \in Nat BY <1>1, Zenon DEF Stream
      <4>2. stream.pos = 0 \/ stream.pos \in DOMAIN file' BY <3>1, <4>1
      <4> QED BY <4>1, <4>2, SeqFacts
    <3> QED BY <1>0, <2>2, <3>1, <3>2, Zenon DEF Followed, StreamInOrder
  <2>3. CASE stream' = stream /\ ~stream.open
    BY <2>3, Zenon DEF StreamInOrder
  <2> QED BY <2>1, <2>2, <2>3, Zenon DEF Elsewhere
<1>6. AlarmInOrder'
  <2>0. client'.pc = "noDone" => client'.sawDone
    BY <1>0, <1>2, Zenon DEF Followed, AlarmInOrder
  <2> SUFFICES ASSUME Intact', client'.sawDone PROVE AlarmInOrder'
    BY <2>0, Zenon DEF AlarmInOrder
  <2>1. Intact /\ client.sawDone /\ Final /\ Final' /\ file' = file
    BY <1>0, <1>2, Zenon DEF Followed, AlarmInOrder
  <2>2. stream'.open => ~stream'.follow
    BY <1>0, <2>1 DEF Elsewhere, NoStream, Followed, AlarmInOrder
  <2> QED BY <1>0, <1>2, <2>1, <2>2, Zenon DEF Followed, AlarmInOrder, DoneLines
<1> QED BY <1>3, <1>4, <1>5, <1>6, Zenon DEF Followed, Delivery

-----------------------------------------------------------------------------
(* Rows and writers.                                                       *)

LEMMA DatabaseFacts ==
  ASSUME NEW d \in Database
  PROVE  /\ d.row \in {"queued", "running", "done", "deleting", "gone"}
         /\ d.intent \in Intent \cup {None} /\ d.outcome \in Outcomes \cup {None}
         /\ d = [row |-> d.row, outcome |-> d.outcome, intent |-> d.intent]
         /\ d.intent # None => d.intent \in Intent /\ d.row = "running"
         /\ d.outcome # None => d.row \in {"done", "deleting", "gone"}
         /\ d.row = "done" => d.outcome # None
         /\ d.row \in {"deleting", "gone"} => d.intent = None
         /\ d.outcome # None => d.intent = None /\ Verdict(d) = d.outcome
         /\ d.outcome = None /\ d.intent = None => Verdict(d) = None
         /\ d.intent # None => Verdict(d) = d.intent.outcome /\ Verdict(d) \in Outcomes
         /\ Verdict(d) # None => Verdict(d) \in Outcomes
<1>0. None \notin Intent /\ None \notin Outcomes
  BY EventsConstantsOK, Zenon
<1>1. CASE d \in [row : {"queued"}, outcome : {None}, intent : {None}]
  BY <1>0, <1>1, Zenon DEF Verdict
<1>2. CASE d \in [row : {"running"}, outcome : {None}, intent : Intent \cup {None}]
  BY <1>0, <1>2, Zenon DEF Verdict, Intent
<1>3. CASE d \in [row : {"done", "deleting", "gone"}, outcome : Outcomes, intent : {None}]
  BY <1>0, <1>3, Zenon DEF Verdict
<1>4. CASE d \in [row : {"deleting", "gone"}, outcome : {None}, intent : {None}]
  BY <1>0, <1>4, Zenon DEF Verdict
<1> QED BY <1>1, <1>2, <1>3, <1>4, Zenon DEF Database

Jobs == {"none", "run", "finalize", "repair", "terminal"}
PCs == {"idle", "open", "announce", "ready", "writing", "intend", "append", "commit"}
Landings == {"nothing", "fragment", "bare"}

LEMMA WriterFacts ==
  ASSUME NEW v \in Writer
  PROVE  /\ v.job \in Jobs /\ v.pc \in PCs /\ v.seq \in Nat /\ v.pending \in BOOLEAN /\ v.buffered \in Nat
         /\ v.emitted \in 0 .. MaxProgress /\ v.line \in Line \cup {None} /\ v.landed \in Landings
         /\ v.outcome \in Outcomes
BY Zenon DEF Writer, Jobs, PCs, Landings

LEMMA IdleFacts ==
  /\ Idle \in Writer /\ Idle.job = "none" /\ Idle.pc = "idle" /\ ~Idle.pending /\ Idle.landed = "nothing"
<1>1. 0 \in 0 .. MaxProgress BY EventsConstantsOK
<1>2. Idle \in Writer BY <1>1, Zenon DEF Idle, Writer, Outcomes
<1> QED BY <1>2, Zenon DEF Idle

\* A job starts with a fresh writer.
LEMMA JobFacts ==
  ASSUME NEW j \in Jobs, NEW p \in PCs, NEW n \in Nat, NEW o \in Outcomes
  PROVE  /\ [Idle EXCEPT !.job = j, !.pc = p] \in Writer
         /\ [Idle EXCEPT !.job = j, !.pc = p, !.seq = n] \in Writer
         /\ [Idle EXCEPT !.job = j, !.pc = p, !.outcome = o] \in Writer
<1>1. 0 \in 0 .. MaxProgress BY EventsConstantsOK
<1>2. [Idle EXCEPT !.job = j, !.pc = p] \in Writer
  BY <1>1, IdleFacts, Zenon DEF Writer, Jobs, PCs
<1>3. [Idle EXCEPT !.job = j, !.pc = p, !.seq = n] \in Writer
  BY <1>1, IdleFacts, Zenon DEF Writer, Jobs, PCs
<1>4. [Idle EXCEPT !.job = j, !.pc = p, !.outcome = o] \in Writer
  BY <1>1, IdleFacts, Zenon DEF Writer, Jobs, PCs
<1> QED BY <1>2, <1>3, <1>4, Zenon

\* A writer that is gone, or has just been made, is in order.
LEMMA FreshWriter ==
  ASSUME \/ w' = Idle
         \/ /\ w'.job \in {"run", "finalize"} /\ w'.pc = "open" /\ ~w'.pending
            /\ db'.row = "running" /\ db'.intent = None
  PROVE  WriterInOrder' /\ JobInOrder'
<1>1. CASE w' = Idle
  BY <1>1, IdleFacts, Zenon DEF WriterInOrder, JobInOrder
<1>2. CASE /\ w'.job \in {"run", "finalize"} /\ w'.pc = "open" /\ ~w'.pending
           /\ db'.row = "running" /\ db'.intent = None
  BY <1>2, Zenon DEF WriterInOrder, JobInOrder
<1> QED BY <1>1, <1>2, Zenon

\* A step that leaves file and rows alone.
LEMMA SameRows ==
  ASSUME Written, file' = file, linked' = linked, synced' = synced, db' = db, wal' = wal
  PROVE  /\ InOrder(file)' /\ RowInOrder'
         /\ (Intact' => Intact) => OneDone' /\ (w'.job # "terminal" => NothingMissing')
<1>1. InOrder(file)' /\ RowInOrder'
  BY Zenon DEF Written, RowInOrder, DoneLines
<1>2. ASSUME Intact' => Intact PROVE OneDone'
  BY <1>2 DEF Written, OneDone, DoneLines
<1>3. ASSUME Intact' => Intact, w'.job # "terminal" PROVE NothingMissing'
  BY <1>3, Zenon DEF Written, NothingMissing, DoneLines, Final
<1> QED BY <1>1, <1>2, <1>3, Zenon

-----------------------------------------------------------------------------
(* Appending a line.                                                       *)

\* The healing newline is what the next Open would write.
LEMMA HealedFacts ==
  ASSUME NEW f \in Seq(Line), NEW p \in BOOLEAN, p <=> Torn(f)
  PROVE  (IF p THEN Newline(f) ELSE f) = Opened(f)
BY Zenon DEF Opened

\* How far the line l of a write that is under way has landed at the end of f.
Lands(f, l, landed) ==
    /\ \A i \in DOMAIN f : i < Len(f) \/ landed = "nothing" => f[i].seq < l.seq
    /\ landed = "nothing" => ~Torn(f)
    /\ landed = "fragment" => f # <<>> /\ f[Len(f)] = Junk
    /\ landed = "bare" => f # <<>> /\ f[Len(f)] = [l EXCEPT !.ended = FALSE]

\* The part of the line l that has landed behind the lines of f, and the whole of it.
Part(f, l, landed) == CASE landed = "nothing"  -> f
                        [] landed = "fragment" -> Put(f, Junk)
                        [] landed = "bare"     -> Put(f, [l EXCEPT !.ended = FALSE])
Whole(f, l, landed) == IF landed = "nothing" THEN Put(f, l) ELSE [f EXCEPT ![Len(f)] = l]

\* A part of the line lands.
LEMMA PartFacts ==
  ASSUME NEW f \in Seq(Line), InOrder(f), ~Torn(f), NEW l \in Line, Readable(l),
         \A i \in DOMAIN f : f[i].seq < l.seq, NEW landed \in Landings, NEW g, g = Part(f, l, landed)
  PROVE  /\ g \in Seq(Line) /\ InOrder(g) /\ Keeps(f, g) /\ Len(f) <= Len(g) /\ Len(g) <= Len(f) + 1
         /\ Lands(g, l, landed)
         /\ \A i \in DOMAIN f : i \in DOMAIN g /\ g[i] = f[i]
         /\ \A i \in DOMAIN g : i \in DOMAIN f \/
               /\ i = Len(g) /\ i = Len(f) + 1 /\ ~g[i].ended
               /\ g[i].kind = "done" => landed = "bare" /\ l.kind = "done" /\ g[i].outcome = l.outcome
<1>0. DOMAIN f = 1 .. Len(f) /\ Len(f) \in Nat /\ \A i \in DOMAIN f : f[i].ended
  BY SeqFacts, TornFacts, Zenon
<1>1. CASE landed = "nothing"
  <2>1. g = f BY <1>1, Zenon DEF Part
  <2> QED BY <1>0, <1>1, <2>1 DEF Keeps, Lands
<1>2. ASSUME NEW m \in Line, g = Append(f, m), ~m.ended, Parseable(m) => m.seq = l.seq
      PROVE  /\ g \in Seq(Line) /\ InOrder(g) /\ Keeps(f, g) /\ Len(g) = Len(f) + 1 /\ DOMAIN g = 1 .. Len(f) + 1
             /\ g[Len(f) + 1] = m /\ \A i \in DOMAIN f : i \in DOMAIN g /\ g[i] = f[i]
  <2>1. Parseable(m) => \A i \in DOMAIN f : f[i].seq < m.seq
    BY <1>2, Zenon
  <2>2. LET h == Append(f, m)
        IN /\ h \in Seq(Line) /\ InOrder(h) /\ Len(h) = Len(f) + 1 /\ DOMAIN h = 1 .. Len(f) + 1
           /\ Keeps(f, h) /\ h[Len(f) + 1] = m /\ \A i \in DOMAIN f : h[i] = f[i]
    BY <2>1, Appended, Zenon
  <2> QED BY <1>0, <1>2, <2>2
<1>3. CASE landed = "fragment"
  <2>1. g = Append(f, Junk) BY <1>3, Zenon DEF Part, Put
  <2>2. /\ g \in Seq(Line) /\ InOrder(g) /\ Keeps(f, g) /\ Len(g) = Len(f) + 1 /\ DOMAIN g = 1 .. Len(f) + 1
        /\ g[Len(f) + 1] = Junk /\ \A i \in DOMAIN f : i \in DOMAIN g /\ g[i] = f[i]
    BY <1>2, <2>1, JunkFacts, Zenon
  <2>3. g # <<>> /\ \A i \in DOMAIN g : i < Len(g) => i \in DOMAIN f
    BY <1>0, <2>2
  <2>4. Lands(g, l, landed)
    BY <1>0, <1>3, <2>2, <2>3, Zenon DEF Lands
  <2> QED BY <1>0, <2>2, <2>4, JunkFacts
<1>4. CASE landed = "bare"
  <2> DEFINE m == [l EXCEPT !.ended = FALSE]
  <2>1. g = Append(f, m) BY <1>4, Zenon DEF Part, Put
  <2>2. m \in Line /\ ~m.ended /\ m.kind = l.kind /\ m.seq = l.seq /\ m.outcome = l.outcome
    BY NewlineFacts, Zenon
  <2> HIDE DEF m
  <2>3. /\ g \in Seq(Line) /\ InOrder(g) /\ Keeps(f, g) /\ Len(g) = Len(f) + 1 /\ DOMAIN g = 1 .. Len(f) + 1
        /\ g[Len(f) + 1] = m /\ \A i \in DOMAIN f : i \in DOMAIN g /\ g[i] = f[i]
    BY <1>2, <2>1, <2>2, Zenon
  <2>4. g # <<>> /\ \A i \in DOMAIN g : i < Len(g) => i \in DOMAIN f
    BY <1>0, <2>3
  <2>5. Lands(g, l, landed)
    BY <1>0, <1>4, <2>3, <2>4, Zenon DEF Lands, m
  <2> QED BY <1>0, <1>4, <2>2, <2>3, <2>5
<1> QED BY <1>1, <1>3, <1>4, Zenon DEF Landings

\* Append begins: the line before it is finished first.
LEMMA BeginFacts ==
  ASSUME file \in Seq(Line), InOrder(file), w \in Writer, w.pending <=> Torn(file),
         NEW l \in Line, Readable(l), \A i \in DOMAIN file : file[i].seq < l.seq,
         l.kind = "progress" => w.emitted < MaxProgress, AppendBegins(l)
  PROVE  /\ file' \in Seq(Line) /\ InOrder(file') /\ Keeps(file, file')
         /\ Len(file) <= Len(file') /\ Len(file') <= Len(file) + 1
         /\ w' \in Writer /\ w'.job = w.job /\ w'.pc = "writing" /\ w'.seq = w.seq /\ ~w'.pending
         /\ w'.line = l /\ w'.landed \in Landings /\ Lands(file', l, w'.landed)
         /\ \A i \in DOMAIN file : /\ i \in DOMAIN file' /\ file'[i].kind = file[i].kind
                                   /\ file'[i].outcome = file[i].outcome
         /\ \A i \in DOMAIN file' : i \in DOMAIN file \/
               /\ i = Len(file') /\ i = Len(file) + 1 /\ ~file'[i].ended
               /\ file'[i].kind = "done" => w'.landed = "bare" /\ l.kind = "done" /\ file'[i].outcome = l.outcome
<1> DEFINE f == Opened(file)
<1>0. w.pending \in BOOLEAN /\ (IF w.pending THEN Newline(file) ELSE file) = f
  BY WriterFacts, HealedFacts, Zenon
<1>1. /\ f \in Seq(Line) /\ InOrder(f) /\ Len(f) = Len(file) /\ DOMAIN f = DOMAIN file
      /\ Keeps(file, f) /\ ~Torn(f)
      /\ \A i \in DOMAIN file : /\ f[i].kind = file[i].kind /\ f[i].seq = file[i].seq
                                /\ f[i].outcome = file[i].outcome /\ f[i].ended
  BY OpenedFacts, Zenon
<1> HIDE DEF f
<1>2. PICK landed \in Landings :
        /\ w' = [w EXCEPT !.pc = "writing", !.line = l, !.landed = landed, !.pending = FALSE,
                          !.emitted = IF l.kind = "progress" THEN @ + 1 ELSE @]
        /\ file' = Part(f, l, landed)
  BY <1>0, <1>1, Zenon DEF AppendBegins, Landings, Part
<1>3. /\ file' \in Seq(Line) /\ InOrder(file') /\ Keeps(f, file') /\ Len(f) <= Len(file') /\ Len(file') <= Len(f) + 1
      /\ Lands(file', l, landed)
      /\ \A i \in DOMAIN f : i \in DOMAIN file' /\ file'[i] = f[i]
      /\ \A i \in DOMAIN file' : i \in DOMAIN f \/
            /\ i = Len(file') /\ i = Len(f) + 1 /\ ~file'[i].ended
            /\ file'[i].kind = "done" => landed = "bare" /\ l.kind = "done" /\ file'[i].outcome = l.outcome
  <2>1. \A i \in DOMAIN f : f[i].seq < l.seq
    BY <1>1, Zenon
  <2>2. PICK g : g = Part(f, l, landed)
    BY Zenon
  <2>3. f \in Seq(Line) /\ InOrder(f) /\ ~Torn(f) /\ file' = g
    BY <1>1, <1>2, <2>2, Zenon
  <2>4. /\ g \in Seq(Line) /\ InOrder(g) /\ Keeps(f, g) /\ Len(f) <= Len(g) /\ Len(g) <= Len(f) + 1
        /\ Lands(g, l, landed)
        /\ \A i \in DOMAIN f : i \in DOMAIN g /\ g[i] = f[i]
        /\ \A i \in DOMAIN g : i \in DOMAIN f \/
               /\ i = Len(g) /\ i = Len(f) + 1 /\ ~g[i].ended
               /\ g[i].kind = "done" => landed = "bare" /\ l.kind = "done" /\ g[i].outcome = l.outcome
    BY <2>1, <2>2, <2>3, PartFacts
  <2> QED BY <2>3, <2>4, Zenon
<1>4. Keeps(file, file')
  BY <1>1, <1>3, Zenon DEF Keeps
<1>5. (IF l.kind = "progress" THEN w.emitted + 1 ELSE w.emitted) \in 0 .. MaxProgress
  BY WriterFacts, EventsConstantsOK
<1>6. /\ w' \in Writer /\ w'.job = w.job /\ w'.pc = "writing" /\ w'.seq = w.seq /\ ~w'.pending
      /\ w'.line = l /\ w'.landed = landed
  BY <1>2, <1>5, Zenon DEF Writer, Landings
<1> QED BY <1>1, <1>3, <1>4, <1>6

\* The write returns: the whole line is the last one.
LEMMA EndFacts ==
  ASSUME NEW f \in Seq(Line), InOrder(f), NEW l \in Line, Readable(l), NEW landed \in Landings,
         Lands(f, l, landed), NEW g, g = Whole(f, l, landed)
  PROVE  /\ g \in Seq(Line) /\ InOrder(g) /\ Keeps(f, g) /\ ~Torn(g)
         /\ Len(f) <= Len(g) /\ Len(g) <= Len(f) + 1
         /\ Len(g) \in DOMAIN g /\ g[Len(g)] = l /\ \A i \in DOMAIN g : g[i].seq <= l.seq
         /\ \A i \in DOMAIN g : i # Len(g) => i \in DOMAIN f /\ g[i] = f[i] /\ (landed = "bare" => i < Len(f))
<1>0. /\ DOMAIN f = 1 .. Len(f) /\ Len(f) \in Nat /\ l.seq \in Nat /\ l.ended
      /\ \A i \in DOMAIN f : f[i].seq \in Nat
  BY SeqFacts, LineFacts, ZenonT(60) DEF Readable
<1>1. CASE landed = "nothing"
  <2>1. g = Append(f, l) /\ ~Torn(f) /\ \A i \in DOMAIN f : f[i].seq < l.seq
    BY <1>1, Zenon DEF Whole, Put, Lands
  <2>2. LET h == Append(f, l)
        IN /\ h \in Seq(Line) /\ InOrder(h) /\ Len(h) = Len(f) + 1 /\ DOMAIN h = 1 .. Len(f) + 1
           /\ Keeps(f, h) /\ h[Len(f) + 1] = l /\ (\A i \in DOMAIN f : h[i] = f[i])
           /\ Torn(h) <=> ~l.ended
    BY <2>1, Appended, Zenon
  <2>3. /\ g \in Seq(Line) /\ InOrder(g) /\ Len(g) = Len(f) + 1 /\ DOMAIN g = 1 .. Len(f) + 1
        /\ Keeps(f, g) /\ g[Len(f) + 1] = l /\ (\A i \in DOMAIN f : g[i] = f[i]) /\ ~Torn(g)
    BY <1>0, <2>1, <2>2, Zenon
  <2>4. \A i \in DOMAIN g : i # Len(g) => i \in DOMAIN f
    BY <1>0, <2>3
  <2>5. \A i \in DOMAIN g : g[i].seq <= l.seq
    BY <1>0, <2>1, <2>3, <2>4
  <2> QED BY <1>0, <1>1, <2>3, <2>4, <2>5
<1>2. CASE landed # "nothing"
  <2>1. Torn(f) /\ g = [f EXCEPT ![Len(f)] = l] /\ \A i \in DOMAIN f : i < Len(f) => f[i].seq < l.seq
    <3>1. CASE landed = "fragment"
      BY <3>1, JunkFacts, Zenon DEF Whole, Lands, Torn
    <3>2. CASE landed = "bare"
      BY <3>2, NewlineFacts, Zenon DEF Whole, Lands, Torn
    <3> QED BY <1>2, <3>1, <3>2, Zenon DEF Landings
  <2>2. LET h == [f EXCEPT ![Len(f)] = l]
        IN /\ h \in Seq(Line) /\ InOrder(h) /\ Len(h) = Len(f) /\ DOMAIN h = DOMAIN f /\ Keeps(f, h)
           /\ h[Len(f)] = l /\ (\A i \in DOMAIN f : i # Len(f) => h[i] = f[i])
           /\ Torn(h) <=> ~l.ended
    BY <2>1, Replaced, Zenon
  <2>3. /\ g \in Seq(Line) /\ InOrder(g) /\ Len(g) = Len(f) /\ DOMAIN g = DOMAIN f /\ Keeps(f, g)
        /\ g[Len(f)] = l /\ (\A i \in DOMAIN f : i # Len(f) => g[i] = f[i]) /\ ~Torn(g)
    BY <1>0, <2>1, <2>2, Zenon
  <2>4. \A i \in DOMAIN g : g[i].seq <= l.seq
    BY <1>0, <2>1, <2>3
  <2>5. Len(f) \in DOMAIN f
    BY <2>1, TornFacts, Zenon
  <2> QED BY <1>0, <2>3, <2>4, <2>5
<1> QED BY <1>1, <1>2, Zenon

-----------------------------------------------------------------------------
(* Steps of the writers, of the repair and of the machine.                 *)

\* What such a step has to show.
Passes ==
    /\ Written' /\ Len(file') <= Len(file) + 1 /\ Elsewhere
    /\ Intact' => Intact /\ Keeps(file, file') /\ (Final => Final' /\ file' = file)

LEMMA PassesKeeps ==
  ASSUME EventsIInv, Passes
  PROVE  EventsIInv' /\ Len(file') <= Len(file) + 1
<1>1. TypeOK' /\ InOrder(file') /\ Written'
  BY Zenon DEF Passes, Written
<1>2. file' \in Seq(Line)
  BY <1>1, Zenon DEF TypeOK
<1>3. Followed'
  BY <1>1, <1>2, FollowedElsewhere, Zenon DEF Passes
<1>4. EventsIInv'
  BY <1>1, <1>3, BothHalves, PTL
<1> QED BY <1>4, Zenon DEF Passes

LEMMA Types ==
  ASSUME EventsIInv
  PROVE  /\ Written /\ Followed
         /\ file \in Seq(Line) /\ InOrder(file) /\ linked \in BOOLEAN /\ synced \in 0 .. Len(file) /\ Len(file) \in Nat
         /\ db \in Database /\ wal \subseteq Database /\ w \in Writer /\ stream \in Stream /\ client \in Client
         /\ faults \in 0 .. MaxFaults /\ MaxFaults \in Nat
BY BothHalves, SeqFacts, EventsConstantsOK, Zenon DEF Written, TypeOK

\* Only the fault counter counts.
Counts == may' = may /\ (faults' = faults \/ (faults' = faults + 1 /\ faults < MaxFaults))

LEMMA CountsFacts ==
  ASSUME EventsIInv, Counts
  PROVE  may' \in FaultSets /\ faults' \in 0 .. MaxFaults /\ (Intact' => Intact)
<1>1. may \in FaultSets /\ faults \in 0 .. MaxFaults /\ MaxFaults \in Nat
  BY Types, Zenon DEF Written, TypeOK
<1> QED BY <1>1 DEF Counts, Intact

\* The clients are left alone, or cut off by a death of the daemon.
LEMMA CutOff ==
  ASSUME NEW c \in Client
  PROVE  /\ NoStream \in Stream
         /\ \A p \in {"broken", "decode"} : [c EXCEPT !.pc = p] \in Client
BY Zenon DEF Client, Returned, NoStream, Stream

LEMMA ElsewhereTypes ==
  ASSUME EventsIInv, Elsewhere
  PROVE  stream' \in Stream /\ client' \in Client
BY Types, CutOff, Zenon DEF Elsewhere

\* The lines and the rows are left alone.
LEMMA Quiet ==
  ASSUME EventsIInv, UNCHANGED <<file, linked, synced, db, wal>>, Counts, Elsewhere,
         daemon' \in {"down", "intents", "terminal", "lost", "repaired", "up"},
         w' \in Writer, WriterInOrder', JobAlive', JobInOrder', w'.job = "terminal" => w.job = "terminal"
  PROVE  Passes
<1>1. Written /\ TypeOK /\ (Intact' => Intact) /\ Len(file) \in Nat
  BY Types, CountsFacts, Zenon DEF Written
<1>2. TypeOK'
  BY <1>1, CountsFacts, ElsewhereTypes, Zenon DEF TypeOK
<1>3. InOrder(file)' /\ RowInOrder' /\ OneDone'
  BY <1>1, SameRows, Zenon
<1>4. NothingMissing'
  <2>1. CASE w'.job # "terminal"
    BY <1>1, <2>1, SameRows, Zenon
  <2>2. CASE w'.job = "terminal"
    BY <1>1, <2>2, Zenon DEF Written, NothingMissing
  <2> QED BY <2>1, <2>2, Zenon
<1>5. Written'
  BY <1>2, <1>3, <1>4, Zenon DEF Written
<1>6. Keeps(file, file') /\ (Final => Final')
  BY Zenon DEF Keeps, Final
<1> QED BY <1>1, <1>5, <1>6 DEF Passes

\* The rows stay, and what done lines there are tell what was told before or what the row
\* and its intent say.
LEMMA StoryStays ==
  ASSUME EventsIInv, UNCHANGED <<db, wal>>, ~linked' => synced' = 0,
         \A i \in DoneLines(file') :
            \/ \E k \in DoneLines(file) : file'[i].outcome = file[k].outcome
            \/ /\ file'[i].outcome = Verdict(db)
               /\ \A k \in DoneLines(file) : file[k].outcome = Verdict(db)
  PROVE  RowInOrder' /\ \A i, k \in DoneLines(file') : file'[i].outcome = file'[k].outcome
<1>1. /\ db \in Database /\ wal \subseteq Database /\ RowInOrder
      /\ \A i, k \in DoneLines(file) : file[i].outcome = file[k].outcome
  BY Types, Zenon DEF Written, OneDone
<1>2. \A d \in wal \cup {db} : d.outcome # None => Verdict(db) = d.outcome
  <2> SUFFICES ASSUME NEW d \in wal \cup {db}, d.outcome # None PROVE Verdict(db) = d.outcome
    BY Zenon
  <2>1. d \in Database /\ Verdict(d) = d.outcome
    BY <1>1, DatabaseFacts, Zenon
  <2> QED BY <1>1, <2>1, Zenon DEF RowInOrder
<1>3. \A d \in wal \cup {db} : d.outcome # None => \A i \in DoneLines(file) : file[i].outcome = d.outcome
  BY <1>1, Zenon DEF RowInOrder
<1>4. \A d \in wal \cup {db} : d.outcome # None => \A i \in DoneLines(file') : file'[i].outcome = d.outcome
  BY <1>2, <1>3, Zenon
<1>5. \A d \in wal : Verdict(d) \in {None, Verdict(db)}
  BY <1>1, Zenon DEF RowInOrder
<1>6. RowInOrder'
  BY <1>4, <1>5, Zenon DEF RowInOrder, Verdict
<1>7. \A i, k \in DoneLines(file') : file'[i].outcome = file'[k].outcome
  BY <1>1, Zenon
<1> QED BY <1>6, <1>7, Zenon

\* A step that the clients do not notice.
LEMMA Unnoticed ==
  ASSUME EventsIInv, UNCHANGED <<stream, client, db>>, daemon' = daemon \/ daemon # "up",
         linked /\ linked' => Keeps(file, file'),
         linked => linked', db.row \in {"deleting", "gone"} => file' = file
  PROVE  Elsewhere
<1>1. StreamInOrder
  BY Types, Zenon DEF Followed
<1>2. file' = file => Keeps(file, file')
  BY Zenon DEF Keeps
<1> QED BY <1>1, <1>2, Zenon DEF StreamInOrder, Elsewhere

LEMMA DaemonType ==
  ASSUME EventsIInv
  PROVE  daemon \in {"down", "intents", "terminal", "lost", "repaired", "up"}
BY Types, Zenon DEF Written, TypeOK

\* A job ends, or the next one begins.
LEMMA JobChanges ==
  ASSUME EventsIInv, UNCHANGED <<may, file, linked, synced, db, wal, daemon, stream, client>>,
         faults' = faults \/ (faults' = faults + 1 /\ faults < MaxFaults),
         \/ w' = Idle
         \/ /\ w' = [Idle EXCEPT !.job = "finalize", !.pc = "open"] /\ w.job = "run"
  PROVE  Passes
<1>1. Counts /\ Elsewhere
  <2>1. Keeps(file, file') BY Zenon DEF Keeps
  <2> QED BY <2>1, Unnoticed, Zenon DEF Counts
<1>2. /\ w' \in Writer /\ w'.job # "terminal"
      /\ \/ w' = Idle
         \/ /\ w'.job \in {"run", "finalize"} /\ w'.pc = "open" /\ ~w'.pending
            /\ db'.row = "running" /\ db'.intent = None
  <2>1. CASE w' = Idle
    BY <2>1, IdleFacts, Zenon
  <2>2. CASE w' = [Idle EXCEPT !.job = "finalize", !.pc = "open"] /\ w.job = "run"
    <3>1. w' \in Writer BY <2>2, JobFacts, Zenon DEF Jobs, PCs, Outcomes
    <3>2. w'.job = "finalize" /\ w'.pc = "open" /\ ~w'.pending BY <2>2, Zenon DEF Idle
    <3>3. db.row = "running" /\ db.intent = None BY <2>2, Types, Zenon DEF Written, JobInOrder
    <3> QED BY <3>1, <3>2, <3>3, Zenon
  <2> QED BY <2>1, <2>2, Zenon
<1>3. WriterInOrder' /\ JobInOrder'
  BY <1>2, FreshWriter, Zenon
<1>4. JobAlive'
  BY IdleFacts, Types, Zenon DEF Written, JobAlive
<1> QED BY <1>1, <1>2, <1>3, <1>4, Quiet, DaemonType, Zenon

LEMMA RunCrashesPasses == ASSUME EventsIInv, UNCHANGED may, RunCrashes PROVE Passes
BY JobChanges, Zenon DEF RunCrashes

LEMMA RunClosesPasses == ASSUME EventsIInv, UNCHANGED may, RunCloses PROVE Passes
BY JobChanges, Zenon DEF RunCloses

LEMMA TxFailsPasses == ASSUME EventsIInv, UNCHANGED may, TxFails PROVE Passes
BY JobChanges, Zenon DEF TxFails

\* The seqs of a file at whose end a line has landed.
LEMMA LandedSeqs ==
  ASSUME NEW f \in Seq(Line), NEW l \in Line, Readable(l), NEW landed \in Landings, Lands(f, l, landed)
  PROVE  /\ landed # "nothing" <=> Torn(f)
         /\ landed # "nothing" => \A i \in DOMAIN f : f[i].seq <= l.seq
         /\ landed = "nothing" => \A i \in DOMAIN f : f[i].seq < l.seq
<1>0. /\ DOMAIN f = 1 .. Len(f) /\ Len(f) \in Nat /\ l.seq \in Nat
      /\ \A i \in DOMAIN f : f[i].seq \in Nat
  BY SeqFacts, LineFacts, Zenon
<1>1. CASE landed = "nothing"
  BY <1>1, Zenon DEF Lands
<1>2. CASE landed = "fragment"
  <2>1. f # <<>> /\ f[Len(f)].seq = 0 /\ ~f[Len(f)].ended /\ \A i \in DOMAIN f : i < Len(f) => f[i].seq < l.seq
    BY <1>2, JunkFacts, Zenon DEF Lands
  <2>2. \A i \in DOMAIN f : i < Len(f) \/ i = Len(f)
    BY <1>0
  <2> QED BY <1>0, <1>2, <2>1, <2>2 DEF Torn
<1>3. CASE landed = "bare"
  <2>1. f # <<>> /\ f[Len(f)].seq = l.seq /\ ~f[Len(f)].ended /\ \A i \in DOMAIN f : i < Len(f) => f[i].seq < l.seq
    BY <1>3, NewlineFacts, Zenon DEF Lands
  <2>2. \A i \in DOMAIN f : i < Len(f) \/ i = Len(f)
    BY <1>0
  <2> QED BY <1>0, <1>3, <2>1, <2>2 DEF Torn
<1> QED BY <1>1, <1>2, <1>3, Zenon DEF Landings

LEMMA WritingFacts ==
  ASSUME EventsIInv, w.pc = "writing"
  PROVE  /\ w.line \in Line /\ Readable(w.line) /\ w.landed \in Landings /\ Lands(file, w.line, w.landed)
         /\ w.job \in {"run", "finalize", "repair", "terminal"} /\ linked /\ w.seq \in Nat
         /\ IF w.job = "run" THEN w.line.kind # "done" /\ w.line.seq = w.seq + 1 ELSE w.line.kind = "done"
<1>1. WriterInOrder /\ LineInOrder /\ w \in Writer
  BY Types, Zenon DEF Written, WriterInOrder
<1>2. w.landed \in Landings /\ w.seq \in Nat /\ w.job \in Jobs
  BY <1>1, WriterFacts, Zenon
<1>3. w.job # "none"
  BY <1>1, IdleFacts, Zenon DEF WriterInOrder
<1>4. Lands(file, w.line, w.landed)
  BY <1>1, Zenon DEF LineInOrder, Lands
<1>5. linked
  BY <1>1, <1>3, Zenon DEF WriterInOrder
<1> QED BY <1>1, <1>2, <1>3, <1>4, <1>5, Zenon DEF LineInOrder, Jobs

LEMMA AppendFailsPasses == ASSUME EventsIInv, UNCHANGED may, AppendFails PROVE Passes
<1>1. CASE w.job # "run"
  BY <1>1, JobChanges, Zenon DEF AppendFails
<1>2. CASE w.job = "run"
  <2> DEFINE n == IF w.landed # "nothing" THEN w.seq + 1 ELSE w.seq
             p == w.landed # "nothing"
  <2>1. w' = [w EXCEPT !.pc = "ready", !.pending = p, !.seq = n, !.line = None, !.landed = "nothing"]
    BY <1>2, Zenon DEF AppendFails
  <2>2. w.pc = "writing" /\ w \in Writer /\ file \in Seq(Line)
    BY Types, Zenon DEF AppendFails
  <2>3. /\ w.line \in Line /\ Readable(w.line) /\ w.landed \in Landings /\ Lands(file, w.line, w.landed)
        /\ linked /\ w.seq \in Nat /\ w.line.seq = w.seq + 1
    BY <1>2, <2>2, WritingFacts, Zenon
  <2>4. /\ p <=> Torn(file)
        /\ p => \A i \in DOMAIN file : file[i].seq <= w.seq + 1
        /\ ~p => \A i \in DOMAIN file : file[i].seq < w.seq + 1
    BY <2>2, <2>3, LandedSeqs, Zenon
  <2>5. n \in Nat /\ p \in BOOLEAN /\ \A i \in DOMAIN file : file[i].seq <= n
    <3>1. \A i \in DOMAIN file : file[i].seq \in Nat BY <2>2, SeqFacts, LineFacts, Zenon
    <3> QED BY <2>3, <2>4, <3>1
  <2> HIDE DEF n, p
  <2>6. w' \in Writer /\ w'.job = "run" /\ w'.pc = "ready" /\ w'.pending = p /\ w'.seq = n
    BY <1>2, <2>1, <2>2, <2>5, Zenon DEF Writer
  <2>7. UNCHANGED <<file, linked, synced, db, wal, daemon, stream, client>> /\ Counts
    BY Zenon DEF AppendFails, Counts
  <2>8. WriterInOrder'
    BY <2>3, <2>4, <2>5, <2>6, <2>7, Zenon DEF WriterInOrder, Torn
  <2>9. JobInOrder'
    BY <1>2, <2>6, <2>7, Types, Zenon DEF Written, JobInOrder
  <2>10. Elsewhere
    <3>1. Keeps(file, file') BY <2>7, Zenon DEF Keeps
    <3> QED BY <2>7, <3>1, Unnoticed, Zenon
  <2>11. JobAlive'
    BY <1>2, <2>7, Types, Zenon DEF Written, JobAlive
  <2> QED BY <2>6, <2>7, <2>8, <2>9, <2>10, <2>11, Quiet, DaemonType, Zenon
<1> QED BY <1>1, <1>2, Zenon

LEMMA HealFailsPasses == ASSUME EventsIInv, UNCHANGED may, HealFails PROVE Passes
<1>1. /\ w.job = "run" /\ w.pc = "ready" /\ w.emitted < MaxProgress /\ w' = [w EXCEPT !.emitted = @ + 1]
      /\ UNCHANGED <<file, linked, synced, db, wal, daemon, stream, client>> /\ Counts
  BY Zenon DEF HealFails, Counts
<1>2. w \in Writer /\ w.emitted + 1 \in 0 .. MaxProgress
  BY <1>1, Types, WriterFacts, EventsConstantsOK
<1>3. w' \in Writer /\ w'.job = w.job /\ w'.pc = w.pc /\ w'.pending = w.pending /\ w'.seq = w.seq
  BY <1>1, <1>2, Zenon DEF Writer
<1>4. WriterInOrder' /\ JobAlive' /\ JobInOrder'
  BY <1>1, <1>3, Types, Zenon DEF Written, WriterInOrder, JobAlive, JobInOrder, Torn
<1>5. Elsewhere
  <2>1. Keeps(file, file') BY <1>1, Zenon DEF Keeps
  <2> QED BY <1>1, <2>1, Unnoticed, Zenon
<1> QED BY <1>1, <1>3, <1>4, <1>5, Quiet, DaemonType, Zenon

\* The daemon starts and the phases of the repair that have nothing to write.
LEMMA PhaseChanges ==
  ASSUME EventsIInv, UNCHANGED <<may, file, linked, synced, db, wal, w, stream, client, faults>>, daemon # "up",
         daemon' \in {"intents", "terminal", "lost", "repaired", "up"}
  PROVE  Passes
<1>1. Counts /\ Elsewhere
  <2>1. Keeps(file, file') BY Zenon DEF Keeps
  <2> QED BY <2>1, Unnoticed, Zenon DEF Counts
<1>2. w' \in Writer /\ WriterInOrder' /\ JobAlive' /\ JobInOrder'
  BY Types DEF Written, WriterInOrder, JobAlive, JobInOrder, LineInOrder, Torn, DoneLines, Verdict
<1> QED BY <1>1, <1>2, Quiet, Zenon

LEMMA StartPasses == ASSUME EventsIInv, UNCHANGED may, Start PROVE Passes
BY PhaseChanges, Zenon DEF Start

LEMMA ServePasses == ASSUME EventsIInv, UNCHANGED may, Serve PROVE Passes
BY PhaseChanges, Zenon DEF Serve

LEMMA SweepPasses == ASSUME EventsIInv, UNCHANGED may, SweepRunningToLost PROVE Passes
<1>1. CASE ~(db.row = "running" /\ db.intent = None)
  BY <1>1, PhaseChanges, Zenon DEF SweepRunningToLost
<1>2. CASE db.row = "running" /\ db.intent = None
  <2>1. /\ daemon = "lost" /\ daemon' = "repaired"
        /\ w' = [Idle EXCEPT !.job = "finalize", !.pc = "open", !.outcome = "lost"]
        /\ UNCHANGED <<file, linked, synced, db, wal, stream, client>> /\ Counts
    BY <1>2, Zenon DEF SweepRunningToLost, Counts
  <2>2. w' \in Writer
    BY <2>1, JobFacts, Zenon DEF Jobs, PCs, Outcomes
  <2>3. w'.job = "finalize" /\ w'.pc = "open" /\ ~w'.pending
    BY <2>1, Zenon DEF Idle
  <2>4. WriterInOrder' /\ JobInOrder'
    BY <1>2, <2>1, <2>3, FreshWriter, Zenon
  <2>5. Elsewhere
    <3>1. Keeps(file, file') BY <2>1, Zenon DEF Keeps
    <3> QED BY <2>1, <3>1, Unnoticed, Zenon
  <2>6. JobAlive'
    BY <2>1, Zenon DEF JobAlive
  <2> QED BY <2>1, <2>2, <2>3, <2>4, <2>5, <2>6, Quiet, Zenon
<1> QED BY <1>1, <1>2, Zenon

LEMMA CrashPasses == ASSUME EventsIInv, UNCHANGED may, Crash PROVE Passes
<1>1. /\ w' = Idle /\ Elsewhere /\ daemon' = "down"
      /\ UNCHANGED <<file, linked, synced, db, wal>> /\ Counts
  BY Zenon DEF Crash, Dies, Counts, Elsewhere, Breaks
<1>2. WriterInOrder' /\ JobAlive' /\ JobInOrder'
  BY <1>1, FreshWriter, IdleFacts, Zenon DEF JobAlive
<1> QED BY <1>1, <1>2, Quiet, IdleFacts, Zenon

-----------------------------------------------------------------------------
(* Jobs that open the file.                                                *)

\* Open of a file that is there, or of one that is made again.
Opens == \/ linked /\ file' = Opened(file)
         \/ ~linked /\ file' \in {<<>>, Opened(<<Event("running", 1, None)>>)}

LEMMA OpensFacts ==
  ASSUME EventsIInv, Bounded(Len(file)), Opens
  PROVE  /\ file' \in Seq(Line) /\ InOrder(file') /\ ~Torn(file') /\ Len(file') <= Len(file) + 1 /\ Len(file') \in Nat
         /\ LastSeqOf(file') \in Nat /\ \A i \in DOMAIN file' : file'[i].seq <= LastSeqOf(file')
         /\ linked => /\ Keeps(file, file') /\ Len(file') = Len(file) /\ DOMAIN file' = DOMAIN file
                      /\ \A i \in DOMAIN file : /\ file'[i].kind = file[i].kind
                                                /\ file'[i].outcome = file[i].outcome /\ file'[i].ended
         /\ ~linked => DoneLines(file') = {}
<1>0. file \in Seq(Line) /\ InOrder(file) /\ Len(file) \in Nat
  BY Types, Zenon
<1>1. PICK g : g = file'
  BY Zenon
<1>2. /\ g \in Seq(Line) /\ InOrder(g) /\ ~Torn(g) /\ Len(g) <= Len(file) + 1
      /\ linked => /\ Keeps(file, g) /\ Len(g) = Len(file) /\ DOMAIN g = DOMAIN file
                   /\ \A i \in DOMAIN file : /\ g[i].kind = file[i].kind
                                             /\ g[i].outcome = file[i].outcome /\ g[i].ended
      /\ ~linked => DoneLines(g) = {}
  <2>1. CASE linked /\ g = Opened(file)
    BY <1>0, <2>1, OpenedFacts
  <2>2. CASE ~linked /\ g = <<>>
    BY <1>0, <2>2 DEF InOrder, Torn, DoneLines
  <2>3. CASE ~linked /\ g = Opened(<<Event("running", 1, None)>>)
    <3> DEFINE l == Event("running", 1, None)
    <3>1. l \in Line /\ l.ended /\ l.kind = "running"
      BY EventFacts DEF Seqs, Kinds, Readable
    <3> HIDE DEF l
    <3>2. <<l>> \in Seq(Line) /\ Len(<<l>>) = 1 /\ DOMAIN <<l>> = {1} /\ <<l>>[1] = l
      BY <3>1
    <3>3. g = <<l>>
      BY <2>3, <3>1, <3>2, Zenon DEF Opened, Torn, l
    <3>4. InOrder(g) /\ ~Torn(g) /\ DoneLines(g) = {}
      BY <3>1, <3>2, <3>3 DEF InOrder, Torn, DoneLines
    <3>5. g \in Seq(Line) /\ Len(g) = 1
      BY <3>2, <3>3, Zenon
    <3>6. Len(g) <= Len(file) + 1
      BY <1>0, <3>5
    <3> QED BY <2>3, <3>4, <3>5, <3>6, Zenon
  <2> QED BY <1>1, <2>1, <2>2, <2>3, Zenon DEF Opens
<1>3. Len(g) \in Nat /\ Bounded(Len(g))
  BY <1>0, <1>2, SeqFacts, BoundedStep, Zenon
<1>4. LastSeqOf(g) \in Nat /\ \A i \in DOMAIN g : g[i].seq <= LastSeqOf(g)
  BY <1>2, <1>3, LastSeqFacts, Zenon
<1> QED BY <1>1, <1>2, <1>3, <1>4, Zenon

LEMMA OpensPasses ==
  ASSUME EventsIInv, Bounded(Len(file)), Opens, linked' = TRUE, db.row \in {"running", "done"},
         UNCHANGED <<may, synced, db, wal, stream, client, faults>>,
         daemon' = daemon \/ daemon # "up",
         daemon' \in {"down", "intents", "terminal", "lost", "repaired", "up"},
         w' \in Writer, WriterInOrder', JobAlive', JobInOrder', Intact => w'.job # "terminal" /\ ~Final
  PROVE  Passes
<1>1. /\ file \in Seq(Line) /\ InOrder(file) /\ synced \in 0 .. Len(file) /\ Written
      /\ Counts /\ (Intact' <=> Intact)
  BY Types, Zenon DEF Counts, Intact
<1>2. /\ file' \in Seq(Line) /\ InOrder(file') /\ Len(file') <= Len(file) + 1 /\ Len(file') \in Nat
      /\ linked => /\ Keeps(file, file') /\ Len(file') = Len(file) /\ DOMAIN file' = DOMAIN file
                   /\ \A i \in DOMAIN file : /\ file'[i].kind = file[i].kind
                                             /\ file'[i].outcome = file[i].outcome /\ file'[i].ended
      /\ ~linked => DoneLines(file') = {}
  BY OpensFacts, Zenon
<1>3. Intact => linked
  BY <1>1, Zenon DEF Written, NothingMissing
<1>4. linked => DoneLines(file') = DoneLines(file) /\ \A i \in DoneLines(file) : file'[i].outcome = file[i].outcome
  BY <1>2, Zenon DEF DoneLines
<1>5. RowInOrder' /\ \A i, k \in DoneLines(file') : file'[i].outcome = file'[k].outcome
  BY <1>2, <1>4, StoryStays, Zenon
<1>6. OneDone'
  BY <1>1, <1>3, <1>4, <1>5, Zenon DEF Written, OneDone, DoneLines
<1>7. NothingMissing'
  BY <1>1, Zenon DEF NothingMissing, Final
<1>8. synced \in 0 .. Len(file')
  <2>1. ~linked => synced = 0 BY <1>1, Zenon DEF Written, RowInOrder
  <2> QED BY <1>1, <1>2, <2>1
<1>9. Elsewhere
  BY <1>2, Unnoticed, Zenon
<1>10. TypeOK'
  BY <1>1, <1>2, <1>8, <1>9, CountsFacts, ElsewhereTypes, Zenon DEF Written, TypeOK
<1>11. Written'
  BY <1>2, <1>5, <1>6, <1>7, <1>10, Zenon DEF Written
<1> QED BY <1>1, <1>2, <1>3, <1>9, <1>11, Zenon DEF Passes

LEMMA RunOpensPasses == ASSUME EventsIInv, Bounded(Len(file)), UNCHANGED may, RunOpens PROVE Passes
<1>1. /\ w.job = "run" /\ w.pc = "open" /\ Opens /\ linked' = TRUE
      /\ w' = [w EXCEPT !.pc = "announce", !.seq = LastSeqOf(file')]
      /\ UNCHANGED <<synced, db, wal, daemon, stream, client, faults>>
  BY Zenon DEF RunOpens, Opens
<1>2. ~Torn(file') /\ LastSeqOf(file') \in Nat /\ \A i \in DOMAIN file' : file'[i].seq <= LastSeqOf(file')
  BY <1>1, OpensFacts, Zenon
<1>3. w \in Writer /\ ~w.pending /\ db.row = "running" /\ db.intent = None
  BY <1>1, Types, Zenon DEF Written, WriterInOrder, JobInOrder
<1>4. w' \in Writer /\ w'.job = "run" /\ w'.pc = "announce" /\ w'.seq = LastSeqOf(file') /\ ~w'.pending
  BY <1>1, <1>2, <1>3, Zenon DEF Writer
<1>5. WriterInOrder'
  BY <1>1, <1>2, <1>4, Zenon DEF WriterInOrder
<1>6. JobInOrder'
  BY <1>1, <1>3, <1>4, Zenon DEF JobInOrder
<1>7. ~Final
  BY <1>3, Zenon DEF Final
<1>8. JobAlive'
  BY <1>1, Types, Zenon DEF Written, JobAlive
<1> QED BY <1>1, <1>3, <1>4, <1>5, <1>6, <1>7, <1>8, OpensPasses, DaemonType, Zenon

LEMMA FinalizeOpensPasses ==
  ASSUME EventsIInv, Bounded(Len(file)), UNCHANGED may, FinalizeOpens PROVE Passes
<1>1. /\ w.job = "finalize" /\ w.pc = "open" /\ Opens /\ linked' = TRUE
      /\ w' = [w EXCEPT !.pc = "intend", !.seq = LastSeqOf(file')]
      /\ UNCHANGED <<synced, db, wal, daemon, stream, client, faults>>
  BY Zenon DEF FinalizeOpens, Opens, Ensured
<1>2. ~Torn(file') /\ LastSeqOf(file') \in Nat
  BY <1>1, OpensFacts, Zenon
<1>3. w \in Writer /\ ~w.pending /\ db.row = "running" /\ db.intent = None
  BY <1>1, Types, Zenon DEF Written, WriterInOrder, JobInOrder
<1>4. w' \in Writer /\ w'.job = "finalize" /\ w'.pc = "intend" /\ ~w'.pending
  BY <1>1, <1>2, <1>3, Zenon DEF Writer
<1>5. WriterInOrder'
  BY <1>1, <1>2, <1>4, Zenon DEF WriterInOrder
<1>6. JobInOrder'
  BY <1>1, <1>3, <1>4, Zenon DEF JobInOrder
<1>7. ~Final
  BY <1>3, Zenon DEF Final
<1>8. JobAlive'
  BY <1>1, Types, Zenon DEF Written, JobAlive
<1> QED BY <1>1, <1>3, <1>4, <1>5, <1>6, <1>7, <1>8, OpensPasses, DaemonType, Zenon

LEMMA RepairIntentPasses ==
  ASSUME EventsIInv, Bounded(Len(file)), UNCHANGED may, RepairIntent PROVE Passes
<1>1. CASE db.intent = None
  BY <1>1, PhaseChanges, Zenon DEF RepairIntent
<1>2. CASE db.intent # None
  <2>1. /\ daemon = "intents" /\ daemon' = "terminal" /\ Opens /\ linked' = TRUE
        /\ w' = [Idle EXCEPT !.job = "repair", !.pc = "append", !.seq = LastSeqOf(file')]
        /\ UNCHANGED <<synced, db, wal, stream, client, faults>>
    BY <1>2, Zenon DEF RepairIntent, Opens, Ensured
  <2>2. ~Torn(file') /\ LastSeqOf(file') \in Nat
    BY <2>1, OpensFacts, Zenon
  <2>3. db.row = "running"
    BY <1>2, Types, DatabaseFacts, Zenon
  <2>4. w' \in Writer
    BY <2>1, <2>2, JobFacts, Zenon DEF Jobs, PCs, Outcomes
  <2>5. w'.job = "repair" /\ w'.pc = "append" /\ ~w'.pending
    BY <2>1, Zenon DEF Idle
  <2>6. WriterInOrder'
    BY <2>1, <2>2, <2>5, Zenon DEF WriterInOrder
  <2>7. JobInOrder'
    BY <1>2, <2>1, <2>5, Zenon DEF JobInOrder
  <2>8. ~Final
    BY <2>3, Zenon DEF Final
  <2>9. JobAlive'
    BY <2>1, Zenon DEF JobAlive
  <2> QED BY <2>1, <2>3, <2>4, <2>5, <2>6, <2>7, <2>8, <2>9, OpensPasses, Zenon
<1> QED BY <1>1, <1>2, Zenon

LEMMA EnsureTerminalPasses ==
  ASSUME EventsIInv, Bounded(Len(file)), UNCHANGED may, EnsureTerminalEvents PROVE Passes
<1>1. CASE ~(db.row = "done" /\ ~TailHasDoneEvent)
  BY <1>1, PhaseChanges, Zenon DEF EnsureTerminalEvents
<1>2. CASE db.row = "done" /\ ~TailHasDoneEvent
  <2>1. /\ daemon = "terminal" /\ daemon' = "lost" /\ Opens /\ linked' = TRUE
        /\ w' = [Idle EXCEPT !.job = "terminal", !.pc = "append", !.seq = LastSeqOf(file')]
        /\ UNCHANGED <<synced, db, wal, stream, client, faults>>
    BY <1>2, Zenon DEF EnsureTerminalEvents, Opens, Ensured
  <2>2. ~Torn(file') /\ LastSeqOf(file') \in Nat /\ \A i \in DOMAIN file' : file'[i].seq <= LastSeqOf(file')
    BY <2>1, OpensFacts, Zenon
  <2>3. w' \in Writer
    BY <2>1, <2>2, JobFacts, Zenon DEF Jobs, PCs, Outcomes
  <2>4. w'.job = "terminal" /\ w'.pc = "append" /\ ~w'.pending /\ w'.seq = LastSeqOf(file')
    BY <2>1, Zenon DEF Idle
  <2>5. WriterInOrder'
    BY <2>1, <2>2, <2>4, Zenon DEF WriterInOrder
  <2>6. JobInOrder'
    BY <1>2, <2>1, <2>4, Zenon DEF JobInOrder
  <2>7. ~Intact
    BY <1>2, Types, DatabaseFacts, Zenon DEF Written, NothingMissing, TailHasDoneEvent, Final
  <2>8. JobAlive'
    BY <2>1, Zenon DEF JobAlive
  <2> QED BY <1>2, <2>1, <2>3, <2>5, <2>6, <2>7, <2>8, OpensPasses, Zenon
<1> QED BY <1>1, <1>2, Zenon

-----------------------------------------------------------------------------
(* Jobs that write a line.                                                 *)

LEMMA JobRow ==
  ASSUME EventsIInv, w.job \in {"run", "finalize", "repair", "terminal"}
  PROVE  /\ db.row \in {"running", "done"} /\ (Intact => w.job # "terminal" /\ ~Final)
         /\ w.job = "run" => db.row = "running" /\ db.intent = None
         /\ w.job = "finalize" /\ w.pc \notin {"open", "intend"} => db.intent # None
         /\ w.job = "repair" => db.intent # None
         /\ w.job = "terminal" => /\ db.row = "done" /\ db.outcome = Verdict(db)
                                  /\ db.outcome \in Outcomes
                                  /\ \A i \in DoneLines(file) : file[i].outcome = Verdict(db)
<1>1. WriterInOrder /\ JobInOrder /\ RowInOrder /\ NothingMissing /\ db \in Database
  BY Types, Zenon DEF Written
<1>2. /\ w.job = "run" => db.row = "running" /\ db.intent = None
      /\ w.job = "finalize" => db.row = "running" /\ (w.pc \notin {"open", "intend"} => db.intent # None)
      /\ w.job = "repair" => db.row = "running" /\ db.intent # None
  BY <1>1, DatabaseFacts, Zenon DEF WriterInOrder, JobInOrder
<1>3. w.job = "terminal" => /\ db.row = "done" /\ db.outcome = Verdict(db) /\ db.outcome # None
                            /\ db.outcome \in Outcomes
  <2> SUFFICES ASSUME w.job = "terminal"
               PROVE  /\ db.row = "done" /\ db.outcome = Verdict(db) /\ db.outcome # None
                      /\ db.outcome \in Outcomes
    BY Zenon
  <2>1. db.row = "done" BY <1>1, Zenon DEF JobInOrder
  <2>2. db.outcome # None /\ Verdict(db) = db.outcome /\ db.outcome \in Outcomes BY <1>1, <2>1, DatabaseFacts, Zenon
  <2> QED BY <2>1, <2>2, Zenon
<1>4. w.job = "terminal" => \A i \in DoneLines(file) : file[i].outcome = Verdict(db)
  BY <1>1, <1>3, Zenon DEF RowInOrder
<1>5. Intact => w.job # "terminal" /\ ~Final
  BY <1>1, <1>2, Zenon DEF NothingMissing, Final
<1> QED BY <1>2, <1>3, <1>4, <1>5, Zenon

LEMMA BeginPasses ==
  ASSUME EventsIInv, UNCHANGED <<may, linked, synced, db, wal, daemon, stream, client, faults>>,
         w.job \in {"run", "finalize", "repair", "terminal"}, w.pc \in {"announce", "ready", "append"},
         w.pending <=> Torn(file), NEW l \in Line, Readable(l), \A i \in DOMAIN file : file[i].seq < l.seq,
         l.kind = "progress" => w.emitted < MaxProgress, AppendBegins(l),
         IF w.job = "run" THEN l.kind # "done" /\ l.seq = w.seq + 1
                          ELSE l.kind = "done" /\ l.outcome = Verdict(db),
         w.job \in {"finalize", "repair"} => DoneLines(file) = {}
  PROVE  Passes
<1>1. /\ file' \in Seq(Line) /\ InOrder(file') /\ Keeps(file, file')
      /\ Len(file) <= Len(file') /\ Len(file') <= Len(file) + 1
      /\ w' \in Writer /\ w'.job = w.job /\ w'.pc = "writing" /\ w'.seq = w.seq /\ ~w'.pending
      /\ w'.line = l /\ w'.landed \in Landings /\ Lands(file', l, w'.landed)
      /\ \A i \in DOMAIN file : /\ i \in DOMAIN file' /\ file'[i].kind = file[i].kind
                                /\ file'[i].outcome = file[i].outcome
      /\ \A i \in DOMAIN file' : i \in DOMAIN file \/
            /\ i = Len(file') /\ i = Len(file) + 1 /\ ~file'[i].ended
            /\ file'[i].kind = "done" => w'.landed = "bare" /\ l.kind = "done" /\ file'[i].outcome = l.outcome
  BY Types, BeginFacts, Zenon
<1>2. Written /\ linked /\ Counts /\ (Intact' <=> Intact) /\ synced \in 0 .. Len(file) /\ Len(file) \in Nat
  BY Types, Zenon DEF Written, WriterInOrder, Counts, Intact
<1>3. WriterInOrder'
  <2>1. LineInOrder'
    BY <1>1, Zenon DEF LineInOrder, Lands
  <2> QED BY <1>1, <1>2, <2>1, Zenon DEF WriterInOrder
<1>4. \A i \in DoneLines(file') :
        \/ i \in DoneLines(file) /\ file'[i].outcome = file[i].outcome
        \/ i = Len(file') /\ w'.landed = "bare" /\ w.job # "run" /\ file'[i].outcome = Verdict(db)
  BY <1>1, Zenon DEF DoneLines
<1>5. JobInOrder'
  <2>1. w.job \in {"finalize", "repair"} => \A i \in DoneLines(file') : i = Len(file') /\ w'.landed = "bare"
    BY <1>4, Zenon
  <2>2. w.job = "finalize" => w.pc \notin {"open", "intend"}
    BY Zenon
  <2>3. Verdict(db)' = Verdict(db)
    BY Zenon DEF Verdict
  <2> QED BY <1>1, <2>1, <2>2, <2>3, JobRow, Zenon DEF JobInOrder
<1>6. RowInOrder' /\ \A i, k \in DoneLines(file') : file'[i].outcome = file'[k].outcome
  <2>1. w.job # "run" => \A k \in DoneLines(file) : file[k].outcome = Verdict(db)
    BY JobRow, Zenon
  <2>2. ~linked' => synced' = 0
    BY <1>2, Zenon
  <2>3. \A i \in DoneLines(file') :
            \/ \E k \in DoneLines(file) : file'[i].outcome = file[k].outcome
            \/ /\ file'[i].outcome = Verdict(db)
               /\ \A k \in DoneLines(file) : file[k].outcome = Verdict(db)
    BY <1>4, <2>1, Zenon
  <2> QED BY <2>2, <2>3, StoryStays, Zenon
<1>7. OneDone'
  <2> SUFFICES ASSUME Intact', NEW i \in DoneLines(file'), NEW k \in DoneLines(file') PROVE i = k
    BY <1>6, Zenon DEF OneDone
  <2>1. w.job # "terminal" /\ \A a, b \in DoneLines(file) : a = b
    BY <1>2, JobRow, Zenon DEF Written, OneDone
  <2>2. CASE w.job = "run"
    BY <1>4, <2>1, <2>2, Zenon
  <2>3. CASE w.job \in {"finalize", "repair"}
    BY <1>4, <2>3, Zenon
  <2> QED BY <2>1, <2>2, <2>3, Zenon
<1>8. NothingMissing'
  BY <1>1, <1>2, JobRow, Zenon DEF NothingMissing, Final
<1>9. Elsewhere
  BY <1>1, JobRow, Unnoticed, Zenon
<1>10. synced \in 0 .. Len(file')
  BY <1>1, <1>2, SeqFacts
<1>11. TypeOK'
  BY <1>1, <1>2, <1>9, <1>10, CountsFacts, ElsewhereTypes, Zenon DEF Written, TypeOK
<1>12. JobAlive'
  BY <1>2, Zenon DEF Written, JobAlive
<1>13. Written'
  BY <1>1, <1>3, <1>5, <1>6, <1>7, <1>8, <1>11, <1>12, Zenon DEF Written
<1> QED BY <1>1, <1>2, <1>9, <1>13, JobRow, Zenon DEF Passes

LEMMA AnnouncePasses == ASSUME EventsIInv, UNCHANGED may, Announce PROVE Passes
<1> DEFINE l == Event("running", w.seq + 1, None)
<1>1. /\ w.pc = "announce" /\ AppendBegins(l)
      /\ UNCHANGED <<linked, synced, db, wal, daemon, stream, client, faults>>
  BY Zenon DEF Announce
<1>2. w.job = "run" /\ ~Torn(file) /\ ~w.pending /\ w.seq \in Nat /\ \A i \in DOMAIN file : file[i].seq <= w.seq
  BY <1>1, Types, WriterFacts, IdleFacts, Zenon DEF Written, WriterInOrder, Jobs
<1>3. w.seq + 1 \in Seqs
  BY <1>2 DEF Seqs
<1>4. l \in Line /\ Readable(l) /\ l.seq = w.seq + 1 /\ l.kind = "running"
  BY <1>3, EventFacts DEF Kinds
<1>5. \A i \in DOMAIN file : file[i].seq < l.seq
  BY <1>2, <1>4, Types, SeqFacts, LineFacts, SMTT(40)
<1> HIDE DEF l
<1> QED BY <1>1, <1>2, <1>4, <1>5, BeginPasses, Zenon

LEMMA ReadyFacts ==
  ASSUME EventsIInv, w.job = "run", w.pc = "ready"
  PROVE  /\ (w.pending <=> Torn(file)) /\ w.seq \in Nat /\ linked /\ w.pending \in BOOLEAN
         /\ \A i \in DOMAIN file : file[i].seq <= w.seq
BY Types, WriterFacts, Zenon DEF Written, WriterInOrder

\* A progress event is dropped: only the torn line is finished.
LEMMA DropPasses ==
  ASSUME EventsIInv, UNCHANGED may, w.job = "run", w.pc = "ready", w.emitted < MaxProgress,
         file' = IF w.pending THEN Newline(file) ELSE file,
         w' = [w EXCEPT !.emitted = @ + 1, !.pending = FALSE],
         UNCHANGED <<linked, synced, db, wal, daemon, stream, client, faults>>
  PROVE  Passes
<1>1. w \in Writer /\ w.emitted + 1 \in 0 .. MaxProgress /\ file \in Seq(Line) /\ InOrder(file) /\ Written
  BY Types, WriterFacts, EventsConstantsOK
<1>2. /\ (w.pending <=> Torn(file)) /\ w.seq \in Nat /\ linked
      /\ \A i \in DOMAIN file : file[i].seq <= w.seq
  BY ReadyFacts, Zenon
<1>3. file' = Opened(file)
  BY <1>1, <1>2, ReadyFacts, HealedFacts, Zenon
<1>4. /\ file' \in Seq(Line) /\ InOrder(file') /\ Len(file') = Len(file) /\ DOMAIN file' = DOMAIN file
      /\ Keeps(file, file') /\ ~Torn(file')
      /\ \A i \in DOMAIN file : /\ file'[i].kind = file[i].kind /\ file'[i].seq = file[i].seq
                                /\ file'[i].outcome = file[i].outcome /\ file'[i].ended
  <2>1. PICK g : g = Opened(file) BY Zenon
  <2>2. /\ g \in Seq(Line) /\ InOrder(g) /\ Len(g) = Len(file) /\ DOMAIN g = DOMAIN file
        /\ Keeps(file, g) /\ ~Torn(g)
        /\ \A i \in DOMAIN file : /\ g[i].kind = file[i].kind /\ g[i].seq = file[i].seq
                                  /\ g[i].outcome = file[i].outcome /\ g[i].ended
    BY <1>1, <2>1, OpenedFacts, Zenon
  <2> QED BY <1>3, <2>1, <2>2, Zenon
<1>5. w' \in Writer /\ w'.job = "run" /\ w'.pc = "ready" /\ w'.seq = w.seq /\ ~w'.pending
  BY <1>1, Zenon DEF Writer
<1>6. WriterInOrder'
  BY <1>2, <1>4, <1>5, Zenon DEF WriterInOrder
<1>7. JobInOrder'
  BY <1>5, JobRow, Zenon DEF JobInOrder
<1>8. DoneLines(file') = DoneLines(file) /\ \A i \in DoneLines(file) : file'[i].outcome = file[i].outcome
  BY <1>4, Zenon DEF DoneLines
<1>9. RowInOrder' /\ \A i, k \in DoneLines(file') : file'[i].outcome = file'[k].outcome
  BY <1>2, <1>8, StoryStays, Zenon
<1>10. Counts /\ (Intact' <=> Intact)
  BY Zenon DEF Counts, Intact
<1>11. OneDone'
  BY <1>1, <1>8, <1>9, <1>10 DEF Written, OneDone
<1>12. NothingMissing'
  BY <1>2, <1>5, <1>10, JobRow, Zenon DEF NothingMissing, Final
<1>13. Elsewhere
  BY <1>4, JobRow, Unnoticed, Zenon
<1>14. TypeOK'
  BY <1>1, <1>4, <1>5, <1>10, <1>13, CountsFacts, ElsewhereTypes, Zenon DEF Written, TypeOK
<1>15. Written'
  <2>1. JobAlive' BY <1>1, Zenon DEF Written, JobAlive
  <2> QED BY <1>4, <1>6, <1>7, <1>9, <1>11, <1>12, <1>14, <2>1, Zenon DEF Written
<1>16. Len(file') <= Len(file) + 1
  BY <1>1, <1>4, SeqFacts
<1> QED BY <1>4, <1>10, <1>13, <1>15, <1>16, JobRow, Zenon DEF Passes

LEMMA ProgressPasses == ASSUME EventsIInv, UNCHANGED may, Progress PROVE Passes
<1> DEFINE l == Event("progress", w.seq + 1, None)
<1>1. /\ w.job = "run" /\ w.pc = "ready" /\ w.emitted < MaxProgress
      /\ UNCHANGED <<linked, synced, db, wal, daemon, stream, client, faults>>
  BY Zenon DEF Progress
<1>2. CASE AppendBegins(l)
  <2>1. (w.pending <=> Torn(file)) /\ w.seq \in Nat /\ \A i \in DOMAIN file : file[i].seq <= w.seq
    BY <1>1, ReadyFacts, Zenon
  <2>2. w.seq + 1 \in Seqs
    BY <2>1 DEF Seqs
  <2>3. l \in Line /\ Readable(l) /\ l.seq = w.seq + 1 /\ l.kind = "progress"
    BY <2>2, EventFacts DEF Kinds
  <2>4. \A i \in DOMAIN file : file[i].seq < l.seq
    BY <2>1, <2>3, Types, SeqFacts, LineFacts, SMTT(40)
  <2> HIDE DEF l
  <2> QED BY <1>1, <1>2, <2>1, <2>3, <2>4, BeginPasses, Zenon
<1>3. CASE /\ file' = IF w.pending THEN Newline(file) ELSE file
           /\ w' = [w EXCEPT !.emitted = @ + 1, !.pending = FALSE]
  BY <1>1, <1>3, DropPasses, Zenon
<1> QED BY <1>2, <1>3, Zenon DEF Progress

\* The done events of a file whose last line has just become whole.
LEMMA EndLines ==
  ASSUME EventsIInv, w.pc = "writing", file' = Whole(file, w.line, w.landed)
  PROVE  /\ file' \in Seq(Line) /\ InOrder(file') /\ Keeps(file, file') /\ ~Torn(file')
         /\ Len(file) <= Len(file') /\ Len(file') <= Len(file) + 1 /\ Len(file') \in Nat
         /\ \A i \in DOMAIN file' : file'[i].seq <= w.line.seq
         /\ \A i \in DoneLines(file') :
               \/ i \in DoneLines(file) /\ file'[i].outcome = file[i].outcome
                  /\ w.job \notin {"finalize", "repair"}
               \/ i = Len(file') /\ w.job # "run" /\ file'[i].outcome = Verdict(db)
         /\ w.job # "run" => Len(file') \in DoneLines(file') /\ file'[Len(file')].ended
<1>1. /\ w.line \in Line /\ Readable(w.line) /\ w.landed \in Landings /\ Lands(file, w.line, w.landed)
      /\ IF w.job = "run" THEN w.line.kind # "done" ELSE w.line.kind = "done"
      /\ file \in Seq(Line) /\ InOrder(file)
  BY WritingFacts, Types, Zenon
<1>2. PICK g : g = Whole(file, w.line, w.landed)
  BY Zenon
<1>3. /\ g \in Seq(Line) /\ InOrder(g) /\ Keeps(file, g) /\ ~Torn(g)
      /\ Len(file) <= Len(g) /\ Len(g) <= Len(file) + 1
      /\ Len(g) \in DOMAIN g /\ g[Len(g)] = w.line /\ (\A i \in DOMAIN g : g[i].seq <= w.line.seq)
      /\ \A i \in DOMAIN g : i # Len(g) => /\ i \in DOMAIN file /\ g[i] = file[i]
                                           /\ (w.landed = "bare" => i < Len(file))
  BY <1>1, <1>2, EndFacts
<1>4. /\ w.job # "run" => w.line.outcome = Verdict(db)
      /\ w.job \in {"finalize", "repair"} => \A i \in DoneLines(file) : i = Len(file) /\ w.landed = "bare"
  BY Types, Zenon DEF Written, JobInOrder
<1>5. ASSUME NEW i \in DoneLines(g)
      PROVE  \/ i \in DoneLines(file) /\ g[i].outcome = file[i].outcome /\ w.job \notin {"finalize", "repair"}
             \/ i = Len(g) /\ w.job # "run" /\ g[i].outcome = Verdict(db)
  <2>1. i \in DOMAIN g /\ g[i].kind = "done"
    BY Zenon DEF DoneLines
  <2>2. CASE i = Len(g)
    BY <1>1, <1>3, <1>4, <2>1, <2>2, Zenon
  <2>3. CASE i # Len(g)
    <3>1. i \in DoneLines(file) /\ g[i] = file[i] /\ (w.landed = "bare" => i < Len(file))
      BY <1>3, <2>1, <2>3, Zenon DEF DoneLines
    <3>2. w.job \notin {"finalize", "repair"}
      BY <1>1, <1>4, <3>1, SeqFacts
    <3> QED BY <3>1, <3>2, Zenon
  <2> QED BY <2>2, <2>3, Zenon
<1>6. w.job # "run" => Len(g) \in DoneLines(g) /\ g[Len(g)].ended
  BY <1>1, <1>3, Zenon DEF DoneLines, Readable
<1>7. Len(g) \in Nat
  BY <1>3, SeqFacts, Zenon
<1> QED BY <1>2, <1>3, <1>5, <1>6, <1>7, Zenon

LEMMA EndPasses ==
  ASSUME EventsIInv, w.pc = "writing", file' = Whole(file, w.line, w.landed),
         synced' = synced \/ synced' = Len(file'),
         UNCHANGED <<may, linked, db, wal, daemon, stream, client>>, Counts,
         w' \in Writer, WriterInOrder', JobInOrder', w'.job \in {w.job, "none"}
  PROVE  Passes
<1>1. /\ file' \in Seq(Line) /\ InOrder(file') /\ Keeps(file, file')
      /\ Len(file) <= Len(file') /\ Len(file') <= Len(file) + 1 /\ Len(file') \in Nat
      /\ \A i \in DoneLines(file') :
            \/ i \in DoneLines(file) /\ file'[i].outcome = file[i].outcome
               /\ w.job \notin {"finalize", "repair"}
            \/ i = Len(file') /\ w.job # "run" /\ file'[i].outcome = Verdict(db)
  BY EndLines, Zenon
<1>2. Written /\ (Intact' => Intact) /\ synced \in 0 .. Len(file) /\ Len(file) \in Nat
  BY Types, CountsFacts, Zenon
<1>3. w.job \in {"run", "finalize", "repair", "terminal"} /\ linked
  BY WritingFacts, Zenon
<1>4. RowInOrder' /\ \A i, k \in DoneLines(file') : file'[i].outcome = file'[k].outcome
  <2>1. w.job = "terminal" => \A k \in DoneLines(file) : file[k].outcome = Verdict(db)
    BY <1>3, JobRow, Zenon
  <2>2. w.job \in {"finalize", "repair"} => \A k \in DoneLines(file) : file[k].outcome = Verdict(db)
    <3> SUFFICES ASSUME w.job \in {"finalize", "repair"}, NEW k \in DoneLines(file)
                 PROVE  file[k].outcome = Verdict(db)
      BY Zenon
    <3>1. k = Len(file) /\ w.landed = "bare" /\ w.line.outcome = Verdict(db)
      BY <1>2, Zenon DEF Written, JobInOrder
    <3>2. file[k] = [w.line EXCEPT !.ended = FALSE] /\ w.line \in Line
      BY <3>1, WritingFacts, Zenon DEF Lands
    <3> QED BY <3>1, <3>2, NewlineFacts, Zenon
  <2>3. \A i \in DoneLines(file') :
            \/ \E k \in DoneLines(file) : file'[i].outcome = file[k].outcome
            \/ /\ file'[i].outcome = Verdict(db)
               /\ \A k \in DoneLines(file) : file[k].outcome = Verdict(db)
    BY <1>1, <1>3, <2>1, <2>2, Zenon
  <2>4. ~linked' => synced' = 0
    BY <1>3, Zenon
  <2> QED BY <2>3, <2>4, StoryStays, Zenon
<1>5. OneDone'
  <2> SUFFICES ASSUME Intact', NEW i \in DoneLines(file'), NEW k \in DoneLines(file') PROVE i = k
    BY <1>4, Zenon DEF OneDone
  <2>1. w.job # "terminal" /\ \A a, b \in DoneLines(file) : a = b
    BY <1>2, <1>3, JobRow, Zenon DEF Written, OneDone
  <2>2. CASE w.job = "run"
    BY <1>1, <2>1, <2>2, Zenon
  <2>3. CASE w.job \in {"finalize", "repair"}
    BY <1>1, <2>3, Zenon
  <2> QED BY <1>3, <2>1, <2>2, <2>3, Zenon
<1>6. NothingMissing'
  BY <1>2, <1>3, JobRow, Zenon DEF NothingMissing, Final
<1>7. Elsewhere
  BY <1>1, <1>3, JobRow, Unnoticed, Zenon
<1>8. synced' \in 0 .. Len(file')
  BY <1>1, <1>2
<1>9. TypeOK'
  BY <1>1, <1>2, <1>7, <1>8, CountsFacts, ElsewhereTypes, Zenon DEF Written, TypeOK
<1>10. JobAlive'
  BY <1>2, <1>3, Zenon DEF Written, JobAlive
<1>11. Written'
  BY <1>1, <1>4, <1>5, <1>6, <1>9, <1>10, Zenon DEF Written
<1> QED BY <1>1, <1>2, <1>3, <1>7, <1>11, JobRow, Zenon DEF Passes

LEMMA SyncFailsPasses == ASSUME EventsIInv, UNCHANGED may, SyncFails PROVE Passes
<1>1. /\ w.pc = "writing" /\ file' = Whole(file, w.line, w.landed) /\ w' = Idle /\ Counts
      /\ UNCHANGED <<linked, synced, db, wal, daemon, stream, client>>
  BY Zenon DEF SyncFails, Whole, Counts
<1>2. WriterInOrder' /\ JobInOrder'
  BY <1>1, FreshWriter, Zenon
<1>3. w' \in Writer /\ w'.job = "none"
  BY <1>1, IdleFacts, Zenon
<1> QED BY <1>1, <1>2, <1>3, EndPasses, Zenon

LEMMA AppendEndsPasses == ASSUME EventsIInv, UNCHANGED may, AppendEnds PROVE Passes
<1> DEFINE p == IF w.job = "run" THEN "ready" ELSE "commit"
           b == IF w.line.kind = "progress" THEN w.buffered + 1 ELSE w.buffered
<1>1. /\ w.pc = "writing" /\ file' = Whole(file, w.line, w.landed)
      /\ w' = [w EXCEPT !.pc = p, !.seq = @ + 1, !.line = None, !.landed = "nothing", !.buffered = b]
      /\ (synced' = synced \/ synced' = Len(file')) /\ Counts
      /\ UNCHANGED <<linked, db, wal, daemon, stream, client>>
  BY Zenon DEF AppendEnds, Whole, Counts
<1>2. w \in Writer /\ b \in Nat /\ p \in PCs /\ w.seq + 1 \in Nat
  BY Types, WriterFacts DEF PCs
<1>3. /\ w.job \in {"run", "finalize", "repair", "terminal"} /\ linked
      /\ w.job = "run" => w.line.seq = w.seq + 1
  BY <1>1, WritingFacts, Zenon
<1>4. ~w.pending
  BY <1>1, Types, Zenon DEF Written, WriterInOrder
<1> HIDE DEF b
<1>5. w' \in Writer /\ w'.job = w.job /\ w'.pc = p /\ w'.seq = w.seq + 1 /\ w'.pending = w.pending
  <2> HIDE DEF p
  <2> QED BY <1>1, <1>2, Zenon DEF Writer, PCs
<1>6. /\ ~Torn(file') /\ \A i \in DOMAIN file' : file'[i].seq <= w.line.seq
      /\ \A i \in DoneLines(file') :
            \/ i \in DoneLines(file) /\ file'[i].outcome = file[i].outcome
               /\ w.job \notin {"finalize", "repair"}
            \/ i = Len(file') /\ w.job # "run" /\ file'[i].outcome = Verdict(db)
      /\ w.job # "run" => Len(file') \in DoneLines(file') /\ file'[Len(file')].ended
  BY <1>1, EndLines, Zenon
<1>7. WriterInOrder'
  BY <1>1, <1>3, <1>4, <1>5, <1>6 DEF WriterInOrder
<1>8. JobInOrder'
  <2>1. Verdict(db)' = Verdict(db)
    BY <1>1, Zenon DEF Verdict
  <2>2. w.job \in {"finalize", "repair"} => /\ \E i \in DoneLines(file') : file'[i].ended
                                            /\ \A i \in DoneLines(file') : file'[i].outcome = Verdict(db)
    BY <1>6, Zenon
  <2> QED BY <1>1, <1>3, <1>5, <2>1, <2>2, JobRow DEF JobInOrder
<1> HIDE DEF p
<1> QED BY <1>1, <1>5, <1>7, <1>8, EndPasses, Zenon

\* A job that is about to append its done event.
LEMMA AppendFacts ==
  ASSUME EventsIInv, w.pc = "append"
  PROVE  /\ w.job \in {"finalize", "repair", "terminal"} /\ linked /\ ~Torn(file) /\ ~w.pending /\ w.seq \in Nat
         /\ w.job = "terminal" => \A i \in DOMAIN file : file[i].seq <= w.seq
         /\ w.job # "terminal" => /\ db.intent # None /\ db.intent.seq \in Seqs /\ db.intent.outcome \in Outcomes
                                  /\ Verdict(db) = db.intent.outcome
<1>1. WriterInOrder /\ w \in Writer /\ db \in Database
  BY Types, Zenon DEF Written
<1>2. w.job \in {"finalize", "repair", "terminal"} /\ w.seq \in Nat
  BY <1>1, WriterFacts, IdleFacts, Zenon DEF WriterInOrder, Jobs
<1>3. linked /\ ~Torn(file) /\ ~w.pending /\ (w.job = "terminal" => \A i \in DOMAIN file : file[i].seq <= w.seq)
  BY <1>1, <1>2, Zenon DEF WriterInOrder
<1>4. w.job # "terminal" => db.intent # None
  BY <1>2, JobRow, Zenon
<1>5. db.intent # None => /\ db.intent.seq \in Seqs /\ db.intent.outcome \in Outcomes
                          /\ Verdict(db) = db.intent.outcome
  BY <1>1, DatabaseFacts, Zenon DEF Intent
<1> QED BY <1>2, <1>3, <1>4, <1>5, Zenon

LEMMA AppendReconstructedDonePasses ==
  ASSUME EventsIInv, UNCHANGED may, AppendReconstructedDone PROVE Passes
<1> DEFINE l == Event("done", w.seq + 1, db.outcome)
<1>1. /\ w.pc = "append" /\ w.job = "terminal" /\ AppendBegins(l)
      /\ UNCHANGED <<linked, synced, db, wal, daemon, stream, client, faults>>
  BY Zenon DEF AppendReconstructedDone
<1>2. ~Torn(file) /\ ~w.pending /\ w.seq \in Nat /\ \A i \in DOMAIN file : file[i].seq <= w.seq
  BY <1>1, AppendFacts, Zenon
<1>3. db.outcome \in Outcomes /\ db.outcome = Verdict(db) /\ w.seq + 1 \in Seqs
  BY <1>1, <1>2, JobRow DEF Seqs
<1>4. l \in Line /\ Readable(l) /\ l.seq = w.seq + 1 /\ l.kind = "done" /\ l.outcome = db.outcome
  BY <1>3, EventFacts DEF Kinds
<1>5. \A i \in DOMAIN file : file[i].seq < l.seq
  BY <1>2, <1>4, Types, SeqFacts, LineFacts, SMTT(40)
<1> HIDE DEF l
<1> QED BY <1>1, <1>2, <1>3, <1>4, <1>5, BeginPasses, Zenon

LEMMA AppendDonePasses ==
  ASSUME EventsIInv, Bounded(Len(file)), UNCHANGED may, AppendDone PROVE Passes
<1> DEFINE n == Larger(db.intent.seq, LastSeqOf(file) + 1)
           l == Event("done", n, db.intent.outcome)
<1>1. /\ w.pc = "append" /\ w.job # "terminal"
      /\ UNCHANGED <<linked, synced, db, wal, daemon, stream, client, faults>>
  BY Zenon DEF AppendDone
<1>2. /\ w.job \in {"finalize", "repair"} /\ linked /\ ~Torn(file) /\ ~w.pending
      /\ db.intent # None /\ db.intent.seq \in Seqs /\ db.intent.outcome \in Outcomes
      /\ Verdict(db) = db.intent.outcome
  BY <1>1, AppendFacts, Zenon
<1>3. CASE DoneLines(file) = {} /\ AppendBegins(l)
  <2>1. LastSeqOf(file) \in Nat /\ \A i \in DOMAIN file : file[i].seq <= LastSeqOf(file)
    BY Types, LastSeqFacts, Zenon
  <2>2. n \in Seqs /\ LastSeqOf(file) < n
    BY <1>2, <2>1, SMTT(40) DEF Larger, Seqs
  <2> HIDE DEF n
  <2>3. l \in Line /\ Readable(l) /\ l.seq = n /\ l.kind = "done" /\ l.outcome = db.intent.outcome
    BY <1>2, <2>2, EventFacts, SMTT(40) DEF Kinds
  <2>4. \A i \in DOMAIN file : file[i].seq < l.seq
    <3>1. n \in Nat /\ \A i \in DOMAIN file : file[i].seq \in Nat BY <2>2, Types, SeqFacts, LineFacts, Zenon DEF Seqs
    <3> QED BY <2>1, <2>2, <2>3, <3>1
  <2> HIDE DEF l
  <2> QED BY <1>1, <1>2, <1>3, <2>3, <2>4, BeginPasses, Zenon
<1>4. CASE DoneLines(file) # {} /\ DoneEventsMatch(file) /\ w' = [w EXCEPT !.pc = "commit"] /\ UNCHANGED file
  <2> DEFINE Last(i) == \A k \in DoneLines(file) : k <= i
             z == CHOOSE i \in DoneLines(file) : Last(i)
  <2>1. DoneLines(file) \in SUBSET (1 .. Len(file))
    BY Types, SeqFacts, Zenon DEF DoneLines
  <2>2. \E i \in DoneLines(file) : Last(i)
    BY <1>4, <2>1, Zenon DEF Bounded
  <2>3. z \in DoneLines(file)
    <3> HIDE DEF Last
    <3> QED BY <2>2, Zenon
  <2>4. file[z].outcome = Verdict(db)
    BY <1>2, <1>4, Zenon DEF DoneEventsMatch
  <2> HIDE DEF z
  <2>5. \A i \in DoneLines(file) : file[i].outcome = Verdict(db) /\ file[i].ended
    <3>1. \A i \in DOMAIN file : file[i].ended BY <1>2, Types, TornFacts, Zenon
    <3> QED BY <2>3, <2>4, <3>1, Types, Zenon DEF Written, OneDone, DoneLines
  <2>6. w \in Writer
    BY Types, Zenon
  <2>7. w' \in Writer /\ w'.job = w.job /\ w'.pc = "commit" /\ ~w'.pending
    BY <1>2, <1>4, <2>6, Zenon DEF Writer
  <2>8. WriterInOrder'
    BY <1>1, <1>2, <2>7, Zenon DEF WriterInOrder
  <2>9. /\ \E i \in DoneLines(file)' : file'[i].ended
        /\ \A i \in DoneLines(file)' : file'[i].outcome = Verdict(db)'
    BY <1>1, <1>4, <2>3, <2>5, Zenon DEF DoneLines, Verdict
  <2>10. JobInOrder'
    BY <1>1, <1>2, <2>7, <2>9, Zenon DEF JobInOrder
  <2>11. JobAlive' /\ Counts
    BY <1>1, <1>2, Types, Zenon DEF Written, JobAlive, Counts
  <2>12. Elsewhere
    <3>1. Keeps(file, file') BY <1>4, Zenon DEF Keeps
    <3> QED BY <1>1, <1>4, <3>1, Unnoticed, Zenon
  <2> QED BY <1>1, <1>4, <2>7, <2>8, <2>10, <2>11, <2>12, Quiet, DaemonType, Zenon
<1>5. CASE w' = Idle /\ UNCHANGED file
  BY <1>1, <1>5, JobChanges, Zenon
<1> QED BY <1>3, <1>4, <1>5, Zenon DEF AppendDone

-----------------------------------------------------------------------------
(* Steps of the row.                                                       *)

LEMMA DatabaseMoves ==
  ASSUME NEW d \in Database
  PROVE  /\ d.row = "queued" => /\ [d EXCEPT !.row = "running"] \in Database
                                /\ [d EXCEPT !.row = "running"].row = "running"
                                /\ [d EXCEPT !.row = "running"].outcome = None
                                /\ [d EXCEPT !.row = "running"].intent = None
         /\ d.row = "running" => \A i \in Intent : /\ [d EXCEPT !.intent = i] \in Database
                                                   /\ [d EXCEPT !.intent = i].row = "running"
                                                   /\ [d EXCEPT !.intent = i].outcome = None
                                                   /\ [d EXCEPT !.intent = i].intent = i
         /\ d.row \in {"queued", "done", "deleting"} =>
               \A r \in {"deleting", "gone"} : /\ [d EXCEPT !.row = r] \in Database
                                               /\ [d EXCEPT !.row = r].row = r
                                               /\ [d EXCEPT !.row = r].outcome = d.outcome
                                               /\ [d EXCEPT !.row = r].intent = None
<1>1. CASE d \in [row : {"queued"}, outcome : {None}, intent : {None}]
  BY <1>1, Zenon DEF Database
<1>2. CASE d \in [row : {"running"}, outcome : {None}, intent : Intent \cup {None}]
  BY <1>2, Zenon DEF Database
<1>3. CASE d \in [row : {"done", "deleting", "gone"}, outcome : Outcomes, intent : {None}]
  BY <1>3, Zenon DEF Database
<1>4. CASE d \in [row : {"deleting", "gone"}, outcome : {None}, intent : {None}]
  BY <1>4, Zenon DEF Database
<1> QED BY <1>1, <1>2, <1>3, <1>4, Zenon DEF Database

\* A commit names the outcome that was named, or the first one.
LEMMA CommitFacts ==
  ASSUME EventsIInv, NEW d \in Database, Commit(d), UNCHANGED <<file, linked, synced>>,
         Verdict(db) \in {None, Verdict(d)},
         d.outcome # None => \A i \in DoneLines(file) : file[i].outcome = d.outcome
  PROVE  RowInOrder' /\ wal' \subseteq Database /\ db' = d
<1>1. RowInOrder /\ wal \subseteq Database /\ db' = d /\ wal' \subseteq wal \cup {d}
  BY Types, Zenon DEF Written, Commit
<1>2. \A e \in wal' : Verdict(e) \in {None, Verdict(d)}
  BY <1>1, Zenon DEF RowInOrder
<1>3. \A e \in wal' \cup {d} : e.outcome # None => \A i \in DoneLines(file) : file[i].outcome = e.outcome
  BY <1>1, Zenon DEF RowInOrder
<1>4. ~linked => synced = 0
  BY <1>1, Zenon DEF RowInOrder
<1>5. Verdict(db)' = Verdict(d) /\ DoneLines(file)' = DoneLines(file)
  BY <1>1, Zenon DEF Verdict, DoneLines
<1>6. RowInOrder'
  BY <1>1, <1>2, <1>3, <1>4, <1>5, Zenon DEF RowInOrder
<1> QED BY <1>1, <1>6, Zenon

\* The row changes, and nothing of the file.
LEMMA RowPasses ==
  ASSUME EventsIInv, NEW d \in Database, Commit(d), UNCHANGED <<may, file, linked, synced, daemon, stream, client, faults>>,
         Verdict(db) \in {None, Verdict(d)},
         d.outcome # None => \A i \in DoneLines(file) : file[i].outcome = d.outcome,
         linked \/ (db.row \in {"deleting", "gone"} /\ d.row \in {"deleting", "gone"}) \/ (~Intact /\ ~stream.open),
         Final => d.row \in {"done", "deleting", "gone"} /\ d.outcome # None,
         d.outcome # None /\ Intact => \E i \in DoneLines(file) : file[i].ended,
         w' \in Writer, WriterInOrder', JobAlive', JobInOrder', w'.job # "terminal"
  PROVE  Passes
<1>1. RowInOrder' /\ wal' \subseteq Database /\ db' = d
  BY CommitFacts, Zenon
<1>2. Counts /\ Written /\ (Intact' <=> Intact) /\ Len(file) \in Nat /\ DoneLines(file)' = DoneLines(file)
  BY Types, Zenon DEF Counts, Intact, DoneLines
<1>3. Elsewhere
  <2>1. Keeps(file, file') BY Zenon DEF Keeps
  <2> QED BY <1>1, <2>1, Types, Zenon DEF Followed, StreamInOrder, Elsewhere
<1>4. TypeOK'
  BY <1>1, <1>2, <1>3, CountsFacts, ElsewhereTypes, Zenon DEF Written, TypeOK
<1>5. OneDone' /\ InOrder(file')
  BY <1>2, Zenon DEF Written, OneDone
<1>6. NothingMissing'
  BY <1>1, <1>2, Zenon DEF NothingMissing, Final
<1>7. Written'
  BY <1>1, <1>4, <1>5, <1>6, Zenon DEF Written
<1>8. Keeps(file, file') /\ (Final => Final')
  BY <1>1, Zenon DEF Keeps, Final
<1> QED BY <1>2, <1>3, <1>7, <1>8 DEF Passes

LEMMA PickUpPasses == ASSUME EventsIInv, UNCHANGED may, PickUp PROVE Passes
<1> DEFINE d == [db EXCEPT !.row = "running"]
<1>1. /\ daemon = "up" /\ db.row = "queued" /\ Commit(d) /\ w' = [Idle EXCEPT !.job = "run", !.pc = "open"]
      /\ UNCHANGED <<file, linked, synced, daemon, stream, client, faults>>
  BY Zenon DEF PickUp
<1>2. d \in Database /\ d.row = "running" /\ d.outcome = None /\ d.intent = None /\ db' = d
  BY <1>1, Types, DatabaseMoves, Zenon DEF Commit
<1> HIDE DEF d
<1>3. Verdict(db) = None
  BY <1>1, Types, DatabaseFacts, Zenon
<1>4. w' \in Writer
  BY <1>1, JobFacts, Zenon DEF Jobs, PCs, Outcomes
<1>5. w'.job = "run" /\ w'.pc = "open" /\ ~w'.pending
  BY <1>1, Zenon DEF Idle
<1>6. WriterInOrder' /\ JobInOrder'
  BY <1>2, <1>5, FreshWriter, Zenon
<1>7. JobAlive'
  BY <1>1, Zenon DEF JobAlive
<1>8. linked \/ (~Intact /\ ~stream.open)
  BY <1>1, Types, Zenon DEF Written, NothingMissing, Followed, StreamInOrder
<1>9. ~Final
  BY <1>1, Zenon DEF Final
<1> QED BY <1>1, <1>2, <1>3, <1>4, <1>5, <1>6, <1>7, <1>8, <1>9, RowPasses, Zenon

LEMMA WriteIntentPasses == ASSUME EventsIInv, UNCHANGED may, WriteIntent PROVE Passes
<1> DEFINE v == [seq |-> w.seq + 1, outcome |-> w.outcome]
           d == [db EXCEPT !.intent = v]
<1>1. /\ w.pc = "intend" /\ Commit(d) /\ w' = [w EXCEPT !.pc = "append"]
      /\ UNCHANGED <<file, linked, synced, daemon, stream, client, faults>>
  BY Zenon DEF WriteIntent
<1>2. w \in Writer /\ w.job = "finalize" /\ linked /\ ~Torn(file) /\ ~w.pending
  BY <1>1, Types, WriterFacts, IdleFacts, Zenon DEF Written, WriterInOrder, Jobs
<1>3. db.row = "running" /\ db.intent = None
  BY <1>1, <1>2, Types, Zenon DEF Written, JobInOrder
<1>4. v \in Intent /\ v # None
  BY <1>2, WriterFacts, EventsConstantsOK DEF Intent, Seqs
<1> HIDE DEF v
<1>5. d \in Database /\ d.row = "running" /\ d.outcome = None /\ d.intent = v /\ db' = d
  BY <1>1, <1>3, <1>4, Types, DatabaseMoves, ZenonT(60) DEF Commit
<1> HIDE DEF d
<1>6. Verdict(db) = None
  BY <1>3, Types, DatabaseFacts, Zenon
<1>7. w' \in Writer /\ w'.job = "finalize" /\ w'.pc = "append" /\ ~w'.pending
  BY <1>1, <1>2, Zenon DEF Writer
<1>8. WriterInOrder'
  BY <1>1, <1>2, <1>7, Zenon DEF WriterInOrder, Torn
<1>9. JobInOrder'
  BY <1>4, <1>5, <1>7, Zenon DEF JobInOrder
<1>10. JobAlive'
  BY <1>1, <1>2, Types, Zenon DEF Written, JobAlive
<1>11. ~Final
  BY <1>3, Zenon DEF Final
<1> QED BY <1>1, <1>2, <1>5, <1>6, <1>7, <1>8, <1>9, <1>10, <1>11, RowPasses, Zenon

LEMMA CommitDonePasses == ASSUME EventsIInv, UNCHANGED may, CommitDone PROVE Passes
<1>1. CASE w.job = "terminal"
  BY <1>1, JobChanges, Zenon DEF CommitDone
<1>2. CASE w.job # "terminal"
  <2> DEFINE d == [row |-> "done", outcome |-> db.intent.outcome, intent |-> None]
  <2>1. /\ w.pc = "commit" /\ Commit(d) /\ w' = Idle
        /\ UNCHANGED <<file, linked, synced, daemon, stream, client, faults>>
    BY <1>2, Zenon DEF CommitDone
  <2>2. w.job \in {"finalize", "repair"} /\ linked
    BY <1>2, <2>1, Types, WriterFacts, IdleFacts, Zenon DEF Written, WriterInOrder, Jobs
  <2>3. db.intent # None /\ db \in Database
    BY <2>1, <2>2, JobRow, Types, Zenon
  <2>4. db.intent.outcome = Verdict(db) /\ db.intent.outcome \in Outcomes /\ None \notin Outcomes
    BY <2>3, DatabaseFacts, EventsConstantsOK, Zenon
  <2>5. d \in Database /\ d.row = "done" /\ d.outcome = Verdict(db) /\ d.outcome # None
    BY <2>4, Zenon DEF Database
  <2>6. Verdict(d) = Verdict(db)
    BY <2>4, Zenon DEF Verdict
  <2> HIDE DEF d
  <2>7. /\ \E i \in DoneLines(file) : file[i].ended
        /\ \A i \in DoneLines(file) : file[i].outcome = d.outcome
    BY <1>2, <2>1, <2>5, Types, Zenon DEF Written, JobInOrder
  <2>8. WriterInOrder' /\ JobInOrder' /\ JobAlive' /\ w' \in Writer /\ w'.job # "terminal"
    BY <2>1, FreshWriter, IdleFacts, Zenon DEF JobAlive
  <2> QED BY <2>1, <2>2, <2>5, <2>6, <2>7, <2>8, RowPasses, Zenon
<1> QED BY <1>1, <1>2, Zenon

LEMMA DeletePasses == ASSUME EventsIInv, UNCHANGED may, Delete PROVE Passes
<1>1. daemon = "up" /\ w' = Idle /\ UNCHANGED <<file, daemon, w, stream, client, faults>> /\ db \in Database
  BY Types, Zenon DEF Delete, MarkMissionDeleting, Written, WriterInOrder
<1>2. WriterInOrder' /\ JobInOrder' /\ JobAlive' /\ w' \in Writer /\ w'.job # "terminal"
  BY <1>1, FreshWriter, IdleFacts, Zenon DEF JobAlive
<1>3. ASSUME NEW r \in {"deleting", "gone"}, db.row \in {"queued", "done", "deleting"}, Commit([db EXCEPT !.row = r]),
             UNCHANGED <<linked, synced>>, linked \/ db.row = "deleting" \/ (~Intact /\ ~stream.open)
      PROVE  Passes
  <2> DEFINE d == [db EXCEPT !.row = r]
  <2>1. d \in Database /\ d.row = r /\ d.outcome = db.outcome
    BY <1>1, <1>3, DatabaseMoves, ZenonT(60)
  <2> HIDE DEF d
  <2>2. Commit(d)
    BY <1>3, Zenon DEF d
  <2>3. /\ Verdict(db) = db.outcome /\ Verdict(d) = d.outcome
        /\ db.row = "queued" => db.outcome = None
    BY <1>1, <1>3, <2>1, DatabaseFacts, Zenon
  <2>4. d.outcome # None => \A i \in DoneLines(file) : file[i].outcome = d.outcome
    BY <2>1, <2>3, Types, Zenon DEF Written, RowInOrder
  <2>5. d.outcome # None /\ Intact => \E i \in DoneLines(file) : file[i].ended
    BY <1>3, <2>1, <2>3, Types, Zenon DEF Written, NothingMissing, Final
  <2>6. linked \/ (db.row \in {"deleting", "gone"} /\ d.row \in {"deleting", "gone"}) \/ (~Intact /\ ~stream.open)
    BY <1>3, <2>1, Zenon
  <2>7. Final => d.row \in {"done", "deleting", "gone"} /\ d.outcome # None
    BY <2>1, Zenon DEF Final
  <2>8. Verdict(db) \in {None, Verdict(d)}
    BY <2>1, <2>3, Zenon
  <2> QED BY <1>1, <1>2, <1>3, <2>1, <2>2, <2>4, <2>5, <2>6, <2>7, <2>8, RowPasses, Zenon
<1>4. CASE db.row \in {"queued", "done"} /\ Commit([db EXCEPT !.row = "deleting"]) /\ UNCHANGED <<linked, synced>>
  <2>1. linked \/ (~Intact /\ ~stream.open)
    BY <1>4, Types, Zenon DEF Written, NothingMissing, Followed, StreamInOrder
  <2> QED BY <1>3, <1>4, <2>1, Zenon
<1>5. CASE db.row = "deleting" /\ ~linked /\ Commit([db EXCEPT !.row = "gone"]) /\ UNCHANGED <<linked, synced>>
  BY <1>3, <1>5, Zenon
<1>6. CASE db.row = "deleting" /\ linked' = FALSE /\ synced' = 0 /\ UNCHANGED <<db, wal>>
  <2>1. Counts /\ Written /\ (Intact' <=> Intact) /\ Len(file) \in Nat /\ DoneLines(file)' = DoneLines(file)
    BY <1>1, Types, Zenon DEF Counts, Intact, DoneLines
  <2>2. Keeps(file, file') /\ (Final => Final')
    BY <1>1, <1>6, Zenon DEF Keeps, Final
  <2>3. Elsewhere
    BY <1>1, <1>6, <2>2, Types, Zenon DEF Followed, StreamInOrder, Elsewhere
  <2>4. TypeOK'
    <3>0. linked' \in BOOLEAN
      BY <1>6, Zenon
    <3>1. synced' \in 0 .. Len(file')
      <4>1. synced' = 0 /\ file' = file BY <1>1, <1>6, Zenon
      <4> QED BY <2>1, <4>1
    <3>2. may' \in FaultSets /\ faults' \in 0 .. MaxFaults /\ stream' \in Stream /\ client' \in Client
      BY <2>1, <2>3, CountsFacts, ElsewhereTypes, Zenon
    <3>3. file' \in Seq(Line) /\ db' \in Database /\ wal' \subseteq Database
      BY <1>1, <1>6, Types, Zenon
    <3> QED BY <1>1, <1>2, <3>0, <3>1, <3>2, <3>3, Zenon DEF TypeOK
  <2>5. OneDone' /\ InOrder(file')
    BY <1>1, <2>1, Zenon DEF Written, OneDone
  <2>6. NothingMissing'
    BY <1>1, <1>2, <1>6, <2>1, Zenon DEF Written, NothingMissing, Final
  <2>7. RowInOrder'
    BY <1>1, <1>6, <2>1, Zenon DEF Written, RowInOrder, Verdict
  <2>8. Written'
    BY <1>2, <2>4, <2>5, <2>6, <2>7, Zenon DEF Written
  <2> QED BY <1>1, <2>1, <2>2, <2>3, <2>8 DEF Passes
<1> QED BY <1>4, <1>5, <1>6, Zenon DEF Delete, MarkMissionDeleting

LEMMA CheckpointPasses == ASSUME EventsIInv, UNCHANGED may, Checkpoint PROVE Passes
<1>1. wal' = {db} /\ UNCHANGED <<file, linked, synced, db, daemon, w, stream, client, faults>>
  BY Zenon DEF Checkpoint
<1>2. Counts /\ Written /\ (Intact' <=> Intact) /\ Len(file) \in Nat /\ DoneLines(file)' = DoneLines(file)
  BY <1>1, Types, Zenon DEF Counts, Intact, DoneLines
<1>3. Keeps(file, file') /\ (Final => Final')
  BY <1>1, Zenon DEF Keeps, Final
<1>4. Elsewhere
  BY <1>1, <1>3, Unnoticed, Zenon
<1>5. TypeOK'
  BY <1>1, <1>2, <1>4, CountsFacts, ElsewhereTypes, Zenon DEF Written, TypeOK
<1>6. WriterInOrder' /\ JobAlive' /\ JobInOrder'
  BY <1>1, <1>2 DEF Written, WriterInOrder, JobAlive, JobInOrder, LineInOrder, Torn, DoneLines, Verdict
<1>7. OneDone' /\ InOrder(file') /\ NothingMissing'
  BY <1>1, <1>2, Zenon DEF Written, OneDone, NothingMissing, Final
<1>8. RowInOrder'
  <2>1. db' = db /\ wal' = {db}
    BY <1>1, Zenon
  <2>2. \A d \in {db} : d.outcome # None => \A i \in DoneLines(file) : file[i].outcome = d.outcome
    BY <1>2, Zenon DEF Written, RowInOrder
  <2>3. ~linked => synced = 0
    BY <1>2, Zenon DEF Written, RowInOrder
  <2> QED BY <1>1, <1>2, <2>1, <2>2, <2>3, Zenon DEF RowInOrder, Verdict
<1>9. Written'
  BY <1>5, <1>6, <1>7, <1>8, Zenon DEF Written
<1> QED BY <1>1, <1>2, <1>3, <1>4, <1>9, SMTT(40) DEF Passes

\* What is left after a loss tells the same story.
LEMMA LossPasses ==
  ASSUME EventsIInv, UNCHANGED may, Counts, Elsewhere, ~Intact', w' = Idle,
         daemon' \in {"down", "intents", "terminal", "lost", "repaired", "up"},
         file' \in Seq(Line), InOrder(file'), Len(file') <= Len(file),
         \A i \in DoneLines(file') : i \in DoneLines(file) /\ file'[i].outcome = file[i].outcome,
         linked' \in BOOLEAN, synced' \in 0 .. Len(file'), ~linked' => synced' = 0,
         db' \in wal \cup {db}, wal' \subseteq Database, (wal' = wal /\ db' = db) \/ wal' = {db'}
  PROVE  Passes
<1>1. Written /\ wal \subseteq Database /\ db \in Database /\ Len(file) \in Nat /\ Len(file') \in Nat
  BY Types, SeqFacts, Zenon
<1>2. TypeOK'
  BY <1>1, CountsFacts, ElsewhereTypes, IdleFacts, Zenon DEF TypeOK
<1>3. OneDone'
  BY <1>1, Zenon DEF Written, OneDone
<1>4. WriterInOrder' /\ JobInOrder' /\ JobAlive'
  BY FreshWriter, IdleFacts, Zenon DEF JobAlive
<1>5. NothingMissing'
  BY Zenon DEF NothingMissing
<1>6. RowInOrder'
  <2>1. \A d \in wal' \cup {db'} : d.outcome # None => \A i \in DoneLines(file') : file'[i].outcome = d.outcome
    BY <1>1 DEF Written, RowInOrder
  <2>2. \A d \in wal' : Verdict(d) \in {None, Verdict(db')}
    BY <1>1, Zenon DEF Written, RowInOrder
  <2> QED BY <2>1, <2>2, Zenon DEF RowInOrder, Verdict
<1>7. Written'
  BY <1>2, <1>3, <1>4, <1>5, <1>6, Zenon DEF Written
<1> QED BY <1>1, <1>7 DEF Passes

LEMMA EventsLostPasses == ASSUME EventsIInv, UNCHANGED may, EventsLost PROVE Passes
<1>1. /\ "eventsLost" \in may /\ faults < MaxFaults /\ daemon = "down" /\ faults' = faults + 1
      /\ linked' = FALSE /\ file' = <<>> /\ synced' = 0 /\ UNCHANGED <<db, wal, daemon, w, stream, client>>
  BY Zenon DEF EventsLost
<1>2. Counts /\ ~Intact'
  BY <1>1, Types DEF Counts, Intact
<1>3. w' = Idle
  BY <1>1, Types, Zenon DEF Written, JobAlive, WriterInOrder
<1>4. Elsewhere
  BY <1>1, Types, Zenon DEF Followed, StreamInOrder, Elsewhere
<1>5. file' \in Seq(Line) /\ InOrder(file') /\ Len(file') = 0 /\ DoneLines(file') = {}
  BY <1>1 DEF InOrder, DoneLines
<1>6. /\ Len(file') <= Len(file) /\ synced' \in 0 .. Len(file')
      /\ db' \in wal \cup {db} /\ wal' \subseteq Database /\ wal' = wal /\ db' = db
  <2>1. synced' = 0 /\ UNCHANGED <<db, wal>> BY <1>1, Zenon
  <2> QED BY <1>5, <2>1, Types
<1>7. daemon' \in {"down", "intents", "terminal", "lost", "repaired", "up"}
  BY <1>1, Zenon
<1>8. linked' \in BOOLEAN
  BY <1>1, Zenon
<1> QED BY <1>1, <1>2, <1>3, <1>4, <1>5, <1>6, <1>7, <1>8, LossPasses, Zenon

LEMMA PowerLossPasses == ASSUME EventsIInv, UNCHANGED may, PowerLoss PROVE Passes
<1>1. /\ "powerLoss" \in may /\ faults < MaxFaults /\ faults' = faults + 1 /\ daemon' = "down" /\ w' = Idle
      /\ stream' = NoStream
      /\ client' = client \/ \E p \in {"broken", "decode"} : client' = [client EXCEPT !.pc = p]
      /\ db' \in wal /\ wal' = {db'} /\ synced' = (IF linked THEN Len(file') ELSE 0) /\ linked' = linked
  BY Zenon DEF PowerLoss, Dies, Breaks
<1>2. Counts /\ ~Intact'
  BY <1>1, Types DEF Counts, Intact
<1>3. Elsewhere
  BY <1>1, Zenon DEF Elsewhere
<1>4. /\ file \in Seq(Line) /\ InOrder(file) /\ Len(file) \in Nat /\ synced \in 0 .. Len(file)
      /\ wal \subseteq Database /\ linked \in BOOLEAN
  BY Types, Zenon
<1>5. PICK k \in synced .. Len(file) :
         \/ file' = SubSeq(file, 1, k)
         \/ /\ k > synced
            /\ \E l \in {Junk, [file[k] EXCEPT !.ended = FALSE]} : file' = [SubSeq(file, 1, k) EXCEPT ![k] = l]
  BY Zenon DEF PowerLoss
<1>6. PICK g : g = file'
  BY Zenon
<1>7. k \in 0 .. Len(file) /\ Cut(file, g, k)
  BY <1>4, <1>5, <1>6 DEF Cut
<1>8. /\ g \in Seq(Line) /\ InOrder(g) /\ Len(g) = k /\ DOMAIN g = 1 .. k
      /\ \A i \in 1 .. k : g[i].kind # "junk" => g[i].kind = file[i].kind /\ g[i].outcome = file[i].outcome
  BY <1>4, <1>7, CutFacts, Zenon
<1>9. \A i \in DoneLines(g) : i \in DoneLines(file) /\ g[i].outcome = file[i].outcome
  BY <1>4, <1>7, <1>8, SeqFacts, SMTT(40) DEF DoneLines
<1>10. /\ file' \in Seq(Line) /\ InOrder(file') /\ Len(file') <= Len(file) /\ Len(file') \in Nat
       /\ \A i \in DoneLines(file') : i \in DoneLines(file) /\ file'[i].outcome = file[i].outcome
  BY <1>4, <1>6, <1>7, <1>8, <1>9, SMTT(40)
<1>11. synced' \in 0 .. Len(file') /\ (~linked' => synced' = 0) /\ linked' \in BOOLEAN
  BY <1>1, <1>4, <1>10
<1>12. db' \in wal \cup {db} /\ wal' \subseteq Database
  BY <1>1, <1>4, Zenon
<1> QED BY <1>1, <1>2, <1>3, <1>10, <1>11, <1>12, LossPasses, Zenon

-----------------------------------------------------------------------------
(* Steps of the handler and of the client.                                 *)

LEMMA WrittenStays ==
  ASSUME EventsIInv, UNCHANGED <<file, linked, synced, db, wal, daemon, w>>, Counts,
         stream' \in Stream, client' \in Client
  PROVE  Written' /\ (Intact' => Intact)
<1>1. Written /\ (Intact' => Intact) /\ may' \in FaultSets /\ faults' \in 0 .. MaxFaults
  BY Types, CountsFacts, Zenon
<1>2. TypeOK'
  BY <1>1, Zenon DEF Written, TypeOK
<1>3. WriterInOrder' /\ JobAlive' /\ JobInOrder' /\ RowInOrder'
  BY <1>1 DEF Written, WriterInOrder, JobAlive, JobInOrder, RowInOrder, LineInOrder, Torn, DoneLines, Verdict
<1>4. InOrder(file') /\ OneDone' /\ NothingMissing'
  BY <1>1 DEF Written, OneDone, NothingMissing, DoneLines, Final
<1> QED BY <1>1, <1>2, <1>3, <1>4, Zenon DEF Written

\* The callback gets nothing.
LEMMA NothingDelivered ==
  ASSUME EventsIInv, UNCHANGED <<file, linked, synced, db, wal, daemon, w>>, Counts,
         stream' \in Stream, client' \in Client,
         client'.got = client.got, client'.from = client.from, client'.cursor = client.cursor,
         StreamInOrder', AlarmInOrder'
  PROVE  EventsIInv'
<1>1. Written' /\ (Intact' => Intact) /\ Followed
  BY WrittenStays, Types, Zenon
<1>2. GotAll' /\ GotInOrder' /\ CursorInOrder'
  BY <1>1 DEF Followed, Delivery, GotAll, GotInOrder, CursorInOrder
<1>3. Followed'
  BY <1>2, Zenon DEF Followed, Delivery
<1> QED BY <1>1, <1>3, BothHalves, PTL

LEMMA ClientFacts ==
  ASSUME NEW c \in Client
  PROVE  /\ c.cursor \in Nat /\ c.from \in Nat /\ c.start \in Nat /\ c.got \in Seq(Line) /\ c.sawDone \in BOOLEAN
         /\ \A p \in {"connect", "reading", "ended", "broken"} \cup Returned :
               LET e == [c EXCEPT !.pc = p]
               IN /\ e \in Client /\ e.pc = p /\ e.got = c.got /\ e.from = c.from /\ e.cursor = c.cursor
                  /\ e.sawDone = c.sawDone
BY EventsConstantsOK, Zenon DEF Client

LEMMA StreamFacts ==
  ASSUME NEW s \in Stream
  PROVE  /\ s.pos \in Nat /\ s.from \in Nat /\ s.open \in BOOLEAN /\ s.follow \in BOOLEAN
         /\ NoStream \in Stream /\ ~NoStream.open
BY Zenon DEF Stream, NoStream

\* The stream is over.
LEMMA EndsPasses ==
  ASSUME EventsIInv, UNCHANGED <<file, linked, synced, db, wal, daemon, w>>, Counts,
         NEW p \in {"connect", "reading", "ended", "broken"} \cup Returned, p # "noDone", StreamEnds(p),
         p = "ended" /\ Intact /\ client.sawDone
            => \A i \in DoneLines(file) : file[i].ended => file[i].seq <= client.cursor
  PROVE  EventsIInv'
<1>1. stream' = NoStream /\ client' = [client EXCEPT !.pc = p]
  BY Zenon DEF StreamEnds
<1>2. /\ client' \in Client /\ client'.pc = p /\ client'.got = client.got /\ client'.from = client.from
      /\ client'.cursor = client.cursor /\ client'.sawDone = client.sawDone
      /\ stream' \in Stream /\ ~stream'.open
  BY <1>1, Types, ClientFacts, StreamFacts, Zenon
<1>3. StreamInOrder'
  BY <1>2, Zenon DEF StreamInOrder
<1>4. Intact' => Intact
  BY CountsFacts, Zenon
<1>5. AlarmInOrder'
  BY <1>2, <1>4, Types, Zenon DEF Followed, AlarmInOrder, DoneLines, Final
<1> QED BY <1>2, <1>3, <1>5, NothingDelivered, Zenon

LEMMA DisconnectKeeps == ASSUME EventsIInv, UNCHANGED may, Disconnect PROVE EventsIInv'
<1>1. /\ stream' = NoStream /\ Counts /\ UNCHANGED <<file, linked, synced, db, wal, daemon, w>>
      /\ \E p \in {"broken", "decode"} : client' = [client EXCEPT !.pc = p]
  BY Zenon DEF Disconnect, Breaks, Counts
<1>2. PICK p \in {"broken", "decode"} : client' = [client EXCEPT !.pc = p]
  BY <1>1, Zenon
<1>3. StreamEnds(p) /\ p \in Returned \cup {"broken"} /\ p \notin {"noDone", "ended"}
  BY <1>1, <1>2, Zenon DEF StreamEnds, Returned
<1> QED BY <1>1, <1>3, EndsPasses, Zenon

LEMMA IdleCutKeeps == ASSUME EventsIInv, UNCHANGED may, IdleCut PROVE EventsIInv'
<1>1. stream.open /\ stream.follow
  BY Zenon DEF IdleCut, AtEnd
<1>2. ~(Intact /\ client.sawDone)
  BY <1>1, Types, Zenon DEF Followed, AlarmInOrder
<1> QED BY <1>2, EndsPasses, Zenon DEF IdleCut, Counts

LEMMA ReadEOFKeeps == ASSUME EventsIInv, UNCHANGED may, ReadEOF PROVE EventsIInv'
<1>1. AtEnd /\ StreamEnds("ended") /\ UNCHANGED <<file, linked, synced, db, wal, daemon, w>> /\ Counts
  BY Zenon DEF ReadEOF, Counts
<1>2. /\ stream.open /\ file \in Seq(Line) /\ stream.pos \in Nat
      /\ \A i \in 1 .. stream.pos : file[i].ended /\ file[i].seq <= client.cursor
  BY <1>1, Types, StreamFacts, Zenon DEF AtEnd, Followed, StreamInOrder
<1>3. \A i \in DoneLines(file) : file[i].ended => file[i].seq <= client.cursor
  <2> SUFFICES ASSUME NEW i \in 1 .. Len(file), file[i].ended PROVE i \in 1 .. stream.pos
    BY <1>2, SeqFacts, Zenon DEF DoneLines
  <2>1. Len(file) \in Nat
    BY <1>2, SeqFacts, Zenon
  <2>2. CASE stream.pos = Len(file)
    BY <2>2, Zenon
  <2>3. CASE stream.pos + 1 = Len(file) /\ Torn(file)
    BY <1>2, <2>1, <2>3 DEF Torn
  <2> QED BY <1>1, <2>2, <2>3, Zenon DEF AtEnd
<1> QED BY <1>1, <1>3, EndsPasses, Zenon

LEMMA ReadPartialKeeps == ASSUME EventsIInv, UNCHANGED may, ReadPartial PROVE EventsIInv'
<1>1. /\ stream' = [stream EXCEPT !.partial = TRUE] /\ Counts
      /\ UNCHANGED <<file, linked, synced, db, wal, daemon, w, client>>
  BY Zenon DEF ReadPartial, Counts
<1>2. stream \in Stream /\ client \in Client
  BY Types, Zenon
<1>3. /\ stream' \in Stream /\ stream'.open = stream.open /\ stream'.pos = stream.pos
      /\ stream'.from = stream.from /\ stream'.follow = stream.follow
  BY <1>1, <1>2, Zenon DEF Stream
<1>4. StreamInOrder' /\ AlarmInOrder'
  BY <1>1, <1>3, Types, CountsFacts, Zenon DEF Followed, StreamInOrder, AlarmInOrder, DoneLines, Final
<1> QED BY <1>1, <1>2, <1>3, <1>4, NothingDelivered, Zenon

LEMMA ConnectKeeps == ASSUME EventsIInv, UNCHANGED may, Connect PROVE EventsIInv'
<1>1. UNCHANGED <<file, linked, synced, db, wal, daemon, w>> /\ Counts
  BY Zenon DEF Connect, Counts
<1>2. CASE StreamEnds("transport")
  BY <1>1, <1>2, EndsPasses, Zenon DEF Returned
<1>3. CASE StreamEnds("refused")
  BY <1>1, <1>3, EndsPasses, Zenon DEF Returned
<1>4. CASE /\ daemon = "up" /\ db.row \notin {"deleting", "gone"} /\ linked
           /\ stream' = [open |-> TRUE, pos |-> 0, partial |-> FALSE, from |-> client.cursor,
                         follow |-> client.follow /\ db.row # "done"]
           /\ client' = [client EXCEPT !.pc = "reading", !.start = client.cursor]
  <2>1. client \in Client /\ client.cursor \in Nat
    BY Types, ClientFacts, Zenon
  <2>2. /\ client' \in Client /\ client'.pc = "reading" /\ client'.got = client.got /\ client'.from = client.from
        /\ client'.cursor = client.cursor /\ client'.sawDone = client.sawDone
    BY <1>4, <2>1, Zenon DEF Client
  <2>3. stream'.open /\ stream'.pos = 0 /\ stream'.from = client.cursor /\ (db.row = "done" => ~stream'.follow)
    BY <1>4, Zenon
  <2>4. (client.follow /\ db.row # "done") \in BOOLEAN
    BY Zenon
  <2>5. stream' \in Stream
    BY <1>4, <2>1, <2>4, Zenon DEF Stream
  <2>6. StreamInOrder'
    BY <1>1, <1>4, <2>1, <2>2, <2>3, Types, SMTT(40) DEF StreamInOrder
  <2>7. AlarmInOrder'
    BY <1>1, <1>4, <2>2, <2>3, Types, CountsFacts, Zenon DEF Followed, AlarmInOrder, DoneLines, Final
  <2> QED BY <1>1, <2>2, <2>5, <2>6, <2>7, NothingDelivered, Zenon
<1> QED BY <1>2, <1>3, <1>4, Zenon DEF Connect

\* The client moves between two connections.
LEMMA BetweenKeeps ==
  ASSUME EventsIInv, UNCHANGED <<may, file, linked, synced, db, wal, daemon, w, stream, faults>>,
         client.pc \in {"broken", "ended"}, client' \in Client,
         client'.got = client.got, client'.from = client.from, client'.cursor = client.cursor,
         AlarmInOrder'
  PROVE  EventsIInv'
<1>1. Counts /\ stream' \in Stream
  BY Types, Zenon DEF Counts
<1>2. StreamInOrder'
  BY Types, Zenon DEF Followed, StreamInOrder
<1> QED BY <1>1, <1>2, NothingDelivered, Zenon

LEMMA ReconnectKeeps == ASSUME EventsIInv, UNCHANGED may, Reconnect PROVE EventsIInv'
<1> DEFINE p == IF client.follow THEN "connect" ELSE "transport"
           s == client.sawDone /\ ~Progressed
<1>1. /\ client.pc = "broken" /\ client' = [client EXCEPT !.pc = p, !.sawDone = s]
      /\ UNCHANGED <<file, linked, synced, db, wal, daemon, w, stream, faults>>
  BY Zenon DEF Reconnect
<1>2. client \in Client /\ p \in {"connect", "transport"} /\ s \in BOOLEAN /\ (s => client.sawDone)
  BY Types, Zenon
<1> HIDE DEF p, s
<1>3. /\ client' \in Client /\ client'.pc = p /\ client'.got = client.got /\ client'.from = client.from
      /\ client'.cursor = client.cursor /\ client'.sawDone = s
  BY <1>1, <1>2, Zenon DEF Client, Returned
<1>4. AlarmInOrder'
  BY <1>1, <1>2, <1>3, Types, Zenon DEF Followed, AlarmInOrder, Intact, Final
<1> QED BY <1>1, <1>3, <1>4, BetweenKeeps, Zenon

LEMMA StreamEndedKeeps == ASSUME EventsIInv, UNCHANGED may, StreamEnded PROVE EventsIInv'
<1>1. client.pc = "ended" /\ UNCHANGED <<file, linked, synced, db, wal, daemon, w, stream, faults>>
  BY Zenon DEF StreamEnded
<1>2. client \in Client /\ client.sawDone \in BOOLEAN
  BY Types, ClientFacts, Zenon
<1>3. ASSUME NEW p \in {"ok", "connect", "noDone"}, NEW s \in BOOLEAN,
             client' = [client EXCEPT !.pc = p, !.sawDone = s],
             p = "noDone" => client.sawDone /\ s, s => client.sawDone \/ db.row = "done"
      PROVE  EventsIInv'
  <2>1. /\ client' \in Client /\ client'.pc = p /\ client'.got = client.got /\ client'.from = client.from
        /\ client'.cursor = client.cursor /\ client'.sawDone = s
    BY <1>2, <1>3, Zenon DEF Client, Returned
  <2>2. (Intact' <=> Intact) /\ (Final' <=> Final) /\ DoneLines(file)' = DoneLines(file)
    BY <1>1, Zenon DEF Intact, Final, DoneLines
  <2>3. AlarmInOrder /\ StreamInOrder
    BY Types, Zenon DEF Followed
  <2>4. ~stream.open
    BY <1>1, <2>3, Zenon DEF StreamInOrder
  <2>5. AlarmInOrder'
    <3>1. s /\ Intact => Final
      BY <1>3, <2>3, Types, DatabaseFacts, Zenon DEF AlarmInOrder, Final
    <3> QED BY <1>1, <1>3, <2>1, <2>2, <2>3, <2>4, <3>1, Zenon DEF AlarmInOrder
  <2> QED BY <1>1, <2>1, <2>5, BetweenKeeps, Zenon
<1>4. CASE client' = [client EXCEPT !.pc = "ok"]
  <2>1. client' = [client EXCEPT !.pc = "ok", !.sawDone = client.sawDone]
    BY <1>2, <1>4, Zenon DEF Client
  <2> QED BY <1>2, <1>3, <2>1, Zenon
<1>5. CASE client' = [client EXCEPT !.pc = "connect", !.sawDone = FALSE]
  BY <1>3, <1>5, Zenon
<1>6. CASE /\ db.row = "done"
           /\ client' = [client EXCEPT !.pc = IF client.sawDone THEN "noDone" ELSE "connect", !.sawDone = TRUE]
  BY <1>2, <1>3, <1>6, Zenon
<1>7. CASE client' = [client EXCEPT !.pc = "connect"]
  <2>1. client' = [client EXCEPT !.pc = "connect", !.sawDone = client.sawDone]
    BY <1>2, <1>7, Zenon DEF Client
  <2> QED BY <1>2, <1>3, <2>1, Zenon
<1> QED BY <1>4, <1>5, <1>6, <1>7, Zenon DEF StreamEnded

\* The next line of an open stream.
LEMMA LineRead ==
  ASSUME EventsIInv, ReadLine
  PROVE  LET p == stream.pos + 1
         IN /\ stream.open /\ p \in DOMAIN file /\ file[p] \in Line /\ file[p].ended /\ file[p].seq \in Nat
            /\ stream.pos \in Nat /\ stream.from \in Nat /\ client.cursor \in Nat /\ client.pc = "reading"
            /\ daemon = "up" /\ (linked \/ db.row \in {"deleting", "gone"}) /\ stream.from <= client.cursor
            /\ \A i \in 1 .. stream.pos : file[i].ended /\ file[i].seq <= client.cursor
            /\ \A i \in DOMAIN file : i < p => i \in 1 .. stream.pos
            /\ client.cursor = stream.from
               \/ \E i \in 1 .. stream.pos : Parseable(file[i]) /\ file[i].seq = client.cursor
<1>1. stream.open /\ stream.pos < Len(file) /\ file[stream.pos + 1].ended
  BY Zenon DEF ReadLine
<1>2. file \in Seq(Line) /\ stream.pos \in Nat /\ stream.from \in Nat /\ client.cursor \in Nat /\ StreamInOrder
  BY Types, StreamFacts, ClientFacts, Zenon DEF Followed
<1>3. /\ stream.pos + 1 \in DOMAIN file /\ file[stream.pos + 1] \in Line
      /\ \A i \in DOMAIN file : i < stream.pos + 1 => i \in 1 .. stream.pos
  BY <1>1, <1>2, SeqFacts, SMTT(40)
<1>4. file[stream.pos + 1].seq \in Nat
  BY <1>3, LineFacts, Zenon
<1> QED BY <1>1, <1>2, <1>3, <1>4, Zenon DEF StreamInOrder

LEMMA StreamReads ==
  ASSUME NEW s \in Stream
  PROVE  LET r == [s EXCEPT !.pos = @ + 1, !.partial = FALSE]
         IN /\ r \in Stream /\ r.open = s.open /\ r.pos = s.pos + 1
            /\ r.from = s.from /\ r.follow = s.follow
<1>1. PICK n : n = s.pos + 1
  BY Zenon
<1>2. n \in Nat /\ [s EXCEPT !.pos = @ + 1, !.partial = FALSE] = [s EXCEPT !.pos = n, !.partial = FALSE]
  BY <1>1, StreamFacts
<1>3. /\ [s EXCEPT !.pos = n, !.partial = FALSE] \in Stream
      /\ [s EXCEPT !.pos = n, !.partial = FALSE].open = s.open
      /\ [s EXCEPT !.pos = n, !.partial = FALSE].pos = n
      /\ [s EXCEPT !.pos = n, !.partial = FALSE].from = s.from
      /\ [s EXCEPT !.pos = n, !.partial = FALSE].follow = s.follow
  BY <1>2, Zenon DEF Stream
<1> QED BY <1>1, <1>2, <1>3, Zenon

\* A line is passed over.
LEMMA SkipKeeps ==
  ASSUME EventsIInv, UNCHANGED may, ReadLine, UNCHANGED client,
         stream' = [stream EXCEPT !.pos = @ + 1, !.partial = FALSE],
         file[stream.pos + 1].seq <= client.cursor
  PROVE  EventsIInv'
<1>1. UNCHANGED <<file, linked, synced, db, wal, daemon, w>> /\ Counts
  BY Zenon DEF ReadLine, Counts
<1>2. stream \in Stream /\ client \in Client /\ file \in Seq(Line)
  BY Types, Zenon
<1>3. /\ stream' \in Stream /\ stream'.open = stream.open /\ stream'.pos = stream.pos + 1
      /\ stream'.from = stream.from /\ stream'.follow = stream.follow
  BY <1>2, StreamReads, Zenon
<1>4. \A i \in 1 .. stream.pos + 1 : file[i].ended /\ file[i].seq <= client.cursor
  <2> TAKE i \in 1 .. stream.pos + 1
  <2>1. i = stream.pos + 1 \/ i \in 1 .. stream.pos
    BY LineRead
  <2> QED BY <2>1, LineRead, Zenon
<1>5. stream.pos + 1 <= Len(file)
  BY <1>2, LineRead, SeqFacts, SMTT(40)
<1>6. client.cursor = stream.from
      \/ \E i \in 1 .. stream.pos + 1 : Parseable(file[i]) /\ file[i].seq = client.cursor
  <2>1. stream.pos \in Nat BY LineRead, Zenon
  <2> QED BY <2>1, LineRead
<1>7. StreamInOrder'
  BY <1>1, <1>3, <1>4, <1>5, <1>6, LineRead, Zenon DEF StreamInOrder
<1>8. AlarmInOrder'
  BY <1>1, <1>3, Types, CountsFacts, Zenon DEF Followed, AlarmInOrder, DoneLines, Final
<1> QED BY <1>1, <1>2, <1>3, <1>7, <1>8, NothingDelivered, Zenon

\* The event that is sent is new to the client, and the next one.
LEMMA SentIsNext ==
  ASSUME EventsIInv, ReadLine, Parseable(file[stream.pos + 1]),
         ~(stream.from > 0 /\ file[stream.pos + 1].seq <= stream.from)
  PROVE  LET l == file[stream.pos + 1]
         IN /\ client.cursor < l.seq
            /\ \A j \in DOMAIN file : Readable(file[j]) /\ client.cursor < file[j].seq /\ file[j].seq <= l.seq
                                      => j = stream.pos + 1
<1> DEFINE p == stream.pos + 1
           l == file[p]
<1>1. file \in Seq(Line) /\ InOrder(file) /\ DOMAIN file = 1 .. Len(file) /\ Len(file) \in Nat
  BY Types, SeqFacts, Zenon
<1>2. /\ p \in DOMAIN file /\ l \in Line /\ l.seq \in Nat /\ stream.pos \in Nat
      /\ stream.from \in Nat /\ client.cursor \in Nat
      /\ \A i \in 1 .. stream.pos : file[i].ended /\ file[i].seq <= client.cursor
      /\ \A i \in DOMAIN file : i < p => i \in 1 .. stream.pos
      /\ client.cursor = stream.from
         \/ \E i \in 1 .. stream.pos : Parseable(file[i]) /\ file[i].seq = client.cursor
  BY LineRead, Zenon
<1>3. client.cursor < l.seq
  <2>1. CASE client.cursor = stream.from
    <3>1. l.seq # 0 BY <1>2, LineFacts, Zenon
    <3> QED BY <1>2, <2>1, <3>1
  <2>2. ASSUME NEW i \in 1 .. stream.pos, Parseable(file[i]), file[i].seq = client.cursor
        PROVE  client.cursor < l.seq
    <3>1. i \in DOMAIN file /\ i < p BY <1>1, <1>2
    <3> QED BY <1>1, <1>2, <2>2, <3>1, Zenon DEF InOrder
  <2> QED BY <1>2, <2>1, <2>2, Zenon
<1>4. ASSUME NEW j \in DOMAIN file, Readable(file[j]), client.cursor < file[j].seq, file[j].seq <= l.seq
      PROVE  j = p
  <2>0. j \in Nat /\ p \in Nat /\ file[j].seq \in Nat
    BY <1>1, <1>2, SeqFacts, LineFacts, SMTT(40)
  <2>1. ~(j < p)
    <3> SUFFICES ASSUME j < p PROVE FALSE BY Zenon
    <3>1. file[j].seq <= client.cursor BY <1>2, Zenon
    <3> QED BY <1>2, <1>4, <2>0, <3>1, SMTT(40)
  <2>2. ~(p < j)
    <3> SUFFICES ASSUME p < j PROVE FALSE BY Zenon
    <3>1. l.seq < file[j].seq BY <1>1, <1>2, <1>4, Zenon DEF InOrder, Readable
    <3> QED BY <1>2, <1>4, <2>0, <3>1, SMTT(40)
  <2> QED BY <2>0, <2>1, <2>2, SMTT(40)
<1> QED BY <1>3, <1>4, Zenon

LEMMA AppendElements ==
  ASSUME NEW s \in Seq(Line), NEW l \in Line
  PROVE  LET t == Append(s, l)
         IN /\ t \in Seq(Line) /\ DOMAIN t = 1 .. Len(s) + 1 /\ t[Len(s) + 1] = l
            /\ DOMAIN s = 1 .. Len(s) /\ Len(s) \in Nat /\ \A i \in DOMAIN s : t[i] = s[i]
            /\ {t[i] : i \in DOMAIN t} = {s[i] : i \in DOMAIN s} \cup {l}
<1> DEFINE t == Append(s, l)
<1>1. /\ t \in Seq(Line) /\ DOMAIN t = 1 .. Len(s) + 1 /\ t[Len(s) + 1] = l
      /\ DOMAIN s = 1 .. Len(s) /\ Len(s) \in Nat /\ \A i \in DOMAIN s : t[i] = s[i]
  OBVIOUS
<1> HIDE DEF t
<1>2. \A i \in DOMAIN t : i \in DOMAIN s \/ i = Len(s) + 1
  BY <1>1
<1>3. DOMAIN s \subseteq DOMAIN t /\ Len(s) + 1 \in DOMAIN t
  BY <1>1
<1>4. {t[i] : i \in DOMAIN t} = {s[i] : i \in DOMAIN s} \cup {l}
  BY <1>1, <1>2, <1>3, Zenon
<1> QED BY <1>1, <1>4, Zenon DEF t

LEMMA DeliverKeeps ==
  ASSUME EventsIInv, UNCHANGED may, ReadLine, Parseable(file[stream.pos + 1]),
         ~(stream.from > 0 /\ file[stream.pos + 1].seq <= stream.from),
         client' = Delivered(file[stream.pos + 1]),
         stream' = IF file[stream.pos + 1].kind = "done" THEN NoStream
                   ELSE [stream EXCEPT !.pos = @ + 1, !.partial = FALSE]
  PROVE  EventsIInv'
<1> DEFINE p == stream.pos + 1
           l == file[p]
           pc == IF l.kind = "done" THEN "ok" ELSE client.pc
<1>1. UNCHANGED <<file, linked, synced, db, wal, daemon, w>> /\ Counts
  BY Zenon DEF ReadLine, Counts
<1>2. stream \in Stream /\ client \in Client /\ file \in Seq(Line) /\ Followed /\ DOMAIN file = 1 .. Len(file)
  BY Types, SeqFacts, Zenon
<1>3. /\ stream.open /\ p \in DOMAIN file /\ l \in Line /\ l.ended /\ l.seq \in Nat
      /\ stream.pos \in Nat /\ stream.from \in Nat /\ client.cursor \in Nat /\ client.pc = "reading"
      /\ daemon = "up" /\ (linked \/ db.row \in {"deleting", "gone"}) /\ stream.from <= client.cursor
      /\ \A i \in 1 .. stream.pos : file[i].ended /\ file[i].seq <= client.cursor
  BY LineRead, Zenon
<1>4. /\ client.cursor < l.seq
      /\ \A j \in DOMAIN file : Readable(file[j]) /\ client.cursor < file[j].seq /\ file[j].seq <= l.seq => j = p
  BY SentIsNext, Zenon
<1>5. client.got \in Seq(Line) /\ client.from \in Nat
  BY <1>2, ClientFacts, Zenon
<1>6. [l EXCEPT !.ended = TRUE] = l
  <2>1. CASE l \in [kind : {"junk"}, seq : {0}, outcome : {None}, ended : BOOLEAN]
    BY <1>3, <2>1, Zenon
  <2>2. CASE l \in [kind : Kinds \ {"done"}, seq : Seqs, outcome : {None}, ended : BOOLEAN]
    BY <1>3, <2>2, Zenon
  <2>3. CASE l \in [kind : {"done"}, seq : Seqs, outcome : Outcomes, ended : BOOLEAN]
    BY <1>3, <2>3, Zenon
  <2> QED BY <1>3, <2>1, <2>2, <2>3, Zenon DEF Line
<1>7. Larger(client.cursor, l.seq) = l.seq
  BY <1>3, <1>4 DEF Larger
<1>8. client' = [client EXCEPT !.got = Append(client.got, l), !.cursor = l.seq, !.pc = pc]
  BY <1>2, <1>6, <1>7, Zenon DEF Delivered, Client
<1>9. stream' = IF l.kind = "done" THEN NoStream ELSE [stream EXCEPT !.pos = @ + 1, !.partial = FALSE]
  BY Zenon
<1>10. Parseable(l) /\ Readable(l)
  BY <1>3, Zenon DEF Readable
<1>11. pc \in {"ok", "reading"} /\ (l.kind # "done" => pc = "reading")
  BY <1>3, Zenon
<1> HIDE DEF l, pc, p
<1>12. PICK t : t = Append(client.got, l)
  BY Zenon
<1>13. /\ t \in Seq(Line) /\ DOMAIN t = 1 .. Len(client.got) + 1 /\ t[Len(client.got) + 1] = l
       /\ DOMAIN client.got = 1 .. Len(client.got) /\ Len(client.got) \in Nat
       /\ \A i \in DOMAIN client.got : t[i] = client.got[i]
       /\ {t[i] : i \in DOMAIN t} = {client.got[i] : i \in DOMAIN client.got} \cup {l}
  <2>1. LET r == Append(client.got, l)
        IN /\ r \in Seq(Line) /\ DOMAIN r = 1 .. Len(client.got) + 1 /\ r[Len(client.got) + 1] = l
           /\ DOMAIN client.got = 1 .. Len(client.got) /\ Len(client.got) \in Nat
           /\ \A i \in DOMAIN client.got : r[i] = client.got[i]
           /\ {r[i] : i \in DOMAIN r} = {client.got[i] : i \in DOMAIN client.got} \cup {l}
    <3>1. l \in Line BY <1>3, Zenon
    <3> QED BY <1>5, <3>1, AppendElements, Zenon
  <2> QED BY <1>12, <2>1, Zenon
<1>14. /\ client' \in Client /\ client'.pc = pc /\ client'.got = t /\ client'.from = client.from
       /\ client'.cursor = l.seq /\ client'.sawDone = client.sawDone
  BY <1>2, <1>3, <1>8, <1>11, <1>12, <1>13, Zenon DEF Client, Returned
<1>15. /\ stream' \in Stream
       /\ stream'.open => /\ l.kind # "done" /\ stream'.pos = p /\ stream'.from = stream.from
                          /\ stream'.follow = stream.follow
  <2>1. CASE l.kind = "done"
    BY <1>2, <1>9, <2>1, StreamFacts, Zenon
  <2>2. CASE l.kind # "done"
    BY <1>2, <1>9, <2>2, StreamReads, Zenon DEF p
  <2> QED BY <2>1, <2>2, Zenon
<1>16. Written' /\ (Intact' => Intact)
  BY <1>1, <1>14, <1>15, WrittenStays, Zenon
<1>17. \A i \in DOMAIN client.got : client.got[i].seq <= client.cursor /\ client.got[i].seq \in Nat
  <2>1. \A i \in DOMAIN client.got : client.got[i].seq <= client.cursor
    BY <1>2, Zenon DEF Followed, CursorInOrder
  <2>2. \A i \in DOMAIN client.got : client.got[i] \in Line
    BY <1>5
  <2> QED BY <2>1, <2>2, LineFacts, Zenon
<1>18. GotAll'
  <2> SUFFICES ASSUME Intact' PROVE GotAll'
    BY Zenon DEF GotAll
  <2> DEFINE All == {file[i] : i \in DOMAIN file}
             Old == {m \in All : Readable(m) /\ client.from < m.seq /\ m.seq <= client.cursor}
             New == {m \in All : Readable(m) /\ client.from < m.seq /\ m.seq <= l.seq}
  <2>1. {client.got[i] : i \in DOMAIN client.got} = Old
    BY <1>2, <1>16, Zenon DEF Followed, Delivery, GotAll
  <2>2. client.from <= client.cursor
    BY <1>2, Zenon DEF Followed, CursorInOrder
  <2>3. l \in New
    BY <1>3, <1>4, <1>5, <1>10, <2>2, SMTT(40) DEF l
  <2>4. \A m \in All : m.seq \in Nat
    BY <1>2, SeqFacts, LineFacts, Zenon
  <2>5. Old \subseteq New
    <3> SUFFICES ASSUME NEW m \in Old PROVE m \in New BY Zenon
    <3> QED BY <1>3, <1>4, <2>4, SMTT(40)
  <2>6. New \subseteq Old \cup {l}
    <3> SUFFICES ASSUME NEW m \in New, m \notin Old PROVE m = l
      BY Zenon
    <3>1. PICK j \in DOMAIN file : m = file[j]
      BY Zenon
    <3>2. client.cursor < m.seq
      BY <1>3, <2>4
    <3> QED BY <1>4, <3>1, <3>2, Zenon DEF l
  <2>7. {m \in {file'[i] : i \in DOMAIN file'} : Readable(m) /\ client'.from < m.seq /\ m.seq <= client'.cursor} = New
    BY <1>1, <1>14, Zenon
  <2>8. {client'.got[i] : i \in DOMAIN client'.got} = {t[i] : i \in DOMAIN t}
    BY <1>14, Zenon
  <2> HIDE DEF Old, New
  <2>9. {t[i] : i \in DOMAIN t} = New
    BY <1>13, <2>1, <2>3, <2>5, <2>6, Zenon
  <2> QED BY <2>7, <2>8, <2>9, Zenon DEF GotAll
<1>19. GotInOrder'
  <2> SUFFICES ASSUME NEW i \in DOMAIN t, NEW k \in DOMAIN t, i < k PROVE t[i].seq < t[k].seq
    BY <1>14, Zenon DEF GotInOrder
  <2>1. i \in DOMAIN client.got /\ t[i] = client.got[i]
    BY <1>13
  <2>2. CASE k \in DOMAIN client.got
    BY <1>2, <1>13, <2>1, <2>2, Zenon DEF Followed, Delivery, GotInOrder
  <2>3. CASE k = Len(client.got) + 1
    BY <1>3, <1>4, <1>13, <1>17, <2>1, <2>3, SMTT(40)
  <2> QED BY <1>13, <2>2, <2>3, SMTT(40)
<1>20. CursorInOrder'
  <2>1. client.from <= client.cursor
    BY <1>2, Zenon DEF Followed, CursorInOrder
  <2>2. client.from <= l.seq
    BY <1>3, <1>4, <1>5, <2>1, SMTT(40)
  <2>3. \A i \in DOMAIN t : t[i].seq <= l.seq
    <3> TAKE i \in DOMAIN t
    <3>1. CASE i \in DOMAIN client.got
      BY <1>3, <1>4, <1>13, <1>17, <3>1, SMTT(40)
    <3>2. CASE i = Len(client.got) + 1
      BY <1>3, <1>13, <3>2
    <3> QED BY <1>13, <3>1, <3>2, SMTT(40)
  <2>4. \E i \in DOMAIN file : Readable(file[i]) /\ file[i].seq = l.seq
    BY <1>3, <1>10, Zenon DEF l
  <2> QED BY <1>1, <1>14, <2>2, <2>3, <2>4, Zenon DEF CursorInOrder
<1>21. StreamInOrder'
  <2> SUFFICES ASSUME stream'.open PROVE StreamInOrder'
    BY Zenon DEF StreamInOrder
  <2>1. \A i \in 1 .. p : file[i].ended /\ file[i].seq <= l.seq
    <3> TAKE i \in 1 .. p
    <3>1. i = p \/ (i \in 1 .. stream.pos /\ file[i] \in Line)
      BY <1>2, <1>3, SeqFacts, SMTT(40) DEF p
    <3>2. CASE i = p
      BY <1>3, <3>2, SMTT(40) DEF l
    <3>3. CASE i \in 1 .. stream.pos /\ file[i] \in Line
      <4>1. file[i].seq \in Nat /\ file[i].seq <= client.cursor /\ file[i].ended BY <1>3, <3>3, LineFacts, Zenon
      <4> QED BY <1>3, <1>4, <4>1, SMTT(40)
    <3> QED BY <3>1, <3>2, <3>3, Zenon
  <2>2. p \in 1 .. p /\ Parseable(file[p]) /\ file[p].seq = l.seq /\ p <= Len(file)
    BY <1>2, <1>3, <1>10, SMTT(40) DEF l, p
  <2>3. stream.from <= l.seq
    BY <1>3, <1>4
  <2> QED BY <1>1, <1>3, <1>11, <1>14, <1>15, <2>1, <2>2, <2>3, Zenon DEF StreamInOrder
<1>22. AlarmInOrder'
  BY <1>1, <1>2, <1>3, <1>11, <1>14, <1>15, <1>16, Zenon DEF Followed, AlarmInOrder, Final
<1>23. Followed'
  BY <1>18, <1>19, <1>20, <1>21, <1>22, Zenon DEF Followed, Delivery
<1> QED BY <1>16, <1>23, BothHalves, PTL

LEMMA ReadLineKeeps == ASSUME EventsIInv, UNCHANGED may, ReadLine PROVE EventsIInv'
<1> DEFINE p == stream.pos + 1
           l == file[p]
           read == [stream EXCEPT !.pos = @ + 1, !.partial = FALSE]
           skip == stream.from > 0 /\ l.seq <= stream.from
<1>1. UNCHANGED <<file, linked, synced, db, wal, daemon, w>> /\ Counts
  BY Zenon DEF ReadLine, Counts
<1>2. /\ p \in DOMAIN file /\ l \in Line /\ l.ended /\ l.seq \in Nat /\ stream.from <= client.cursor
      /\ stream.from \in Nat /\ client.cursor \in Nat
  BY LineRead, Zenon
<1>3. CASE ~Parseable(l) /\ stream' = read /\ UNCHANGED client
  BY <1>2, <1>3, LineFacts, SkipKeeps, SMTT(40)
<1>4. CASE skip /\ stream' = read /\ UNCHANGED client
  <2>1. l.seq <= client.cursor BY <1>2, <1>4
  <2> QED BY <1>4, <2>1, SkipKeeps, Zenon
<1>5. CASE skip /\ l.kind = "done" /\ StreamEnds("ended")
  <2>1. p \in DoneLines(file) /\ l.seq <= client.cursor
    BY <1>2, <1>5 DEF DoneLines
  <2>2. Intact => \A i \in DoneLines(file) : i = p
    BY <2>1, Types, Zenon DEF Written, OneDone
  <2> QED BY <1>1, <1>5, <2>1, <2>2, EndsPasses, Zenon
<1>6. CASE Parseable(l) /\ ~skip /\ client' = Delivered(l) /\ stream' = IF l.kind = "done" THEN NoStream ELSE read
  BY <1>6, DeliverKeeps, Zenon
<1>7. CASE StreamEnds("callback")
  BY <1>1, <1>7, EndsPasses, Zenon DEF Returned
<1> QED BY <1>3, <1>4, <1>5, <1>6, <1>7, Zenon DEF ReadLine

-----------------------------------------------------------------------------
(* The theorems.                                                           *)

LEMMA InitEvents == Init => EventsIInv /\ Bounded(Len(file))
<1> SUFFICES ASSUME Init PROVE EventsIInv /\ Bounded(Len(file))
  BY Zenon
<1> DEFINE l == Event("queued", 1, None)
<1>1. l \in Line /\ l.ended /\ l.seq = 1 /\ l.kind = "queued"
  BY EventFacts DEF Seqs, Kinds, Readable
<1>2. /\ may \in FaultSets /\ file = <<l>> /\ linked = TRUE /\ synced = 1
      /\ db = [row |-> "queued", outcome |-> None, intent |-> None]
      /\ wal = (IF "powerLoss" \in may THEN {db} ELSE {})
      /\ daemon = "up" /\ w = Idle /\ stream = NoStream /\ faults = 0
  BY Zenon DEF Init
<1>3. PICK n \in Froms, f \in BOOLEAN :
         client = [pc |-> "connect", follow |-> f, from |-> n, cursor |-> n, start |-> n,
                   sawDone |-> FALSE, got |-> <<>>]
  BY Zenon DEF Init
<1> HIDE DEF l
<1>4. file \in Seq(Line) /\ Len(file) = 1 /\ DOMAIN file = {1} /\ file[1] = l
  BY <1>1, <1>2
<1>5. InOrder(file) /\ ~Torn(file) /\ DoneLines(file) = {}
  BY <1>1, <1>4, Zenon DEF InOrder, Torn, DoneLines
<1>6. db \in Database /\ db.row = "queued" /\ db.outcome = None /\ Verdict(db) = None /\ wal \subseteq {db}
  <2>1. db.row = "queued" /\ db.outcome = None /\ db.intent = None /\ wal \subseteq {db}
    BY <1>2, Zenon
  <2>2. db \in Database
    BY <1>2, Zenon DEF Database
  <2> QED BY <2>1, <2>2, Zenon DEF Verdict
<1>7. n \in Nat
  BY EventsConstantsOK, Zenon
<1>8. /\ client \in Client /\ client.pc = "connect" /\ client.from = n /\ client.cursor = n
      /\ ~client.sawDone /\ client.got = <<>>
  <2>1. <<>> \in Seq(Line) OBVIOUS
  <2> QED BY <1>3, <1>7, <2>1, Zenon DEF Client
<1>9. stream \in Stream /\ ~stream.open
  BY <1>2, Zenon DEF Stream, NoStream
<1>10. TypeOK
  <2>1. synced \in 0 .. Len(file) /\ faults \in 0 .. MaxFaults
    BY <1>2, <1>4, EventsConstantsOK
  <2>2. linked \in BOOLEAN
    BY <1>2, Zenon
  <2>3. daemon \in {"down", "intents", "terminal", "lost", "repaired", "up"} /\ w \in Writer
    BY <1>2, IdleFacts, Zenon
  <2> QED BY <1>2, <1>4, <1>6, <1>8, <1>9, <2>1, <2>2, <2>3, ZenonT(60) DEF TypeOK
<1>11. WriterInOrder /\ JobAlive /\ JobInOrder
  BY <1>2, IdleFacts, Zenon DEF WriterInOrder, JobAlive, JobInOrder
<1>12. OneDone /\ RowInOrder
  BY <1>2, <1>5, <1>6, Zenon DEF OneDone, RowInOrder
<1>13. NothingMissing
  BY <1>2, <1>6, IdleFacts, Zenon DEF NothingMissing, Final
<1>14. GotAll /\ GotInOrder /\ CursorInOrder
  <2>1. {client.got[i] : i \in DOMAIN client.got} = {} /\ DOMAIN client.got = {}
    BY <1>8, SMTT(40)
  <2>2. \A m \in {file[i] : i \in DOMAIN file} : ~(client.from < m.seq /\ m.seq <= client.cursor)
    BY <1>1, <1>4, <1>7, <1>8, SMTT(40)
  <2> QED BY <1>7, <1>8, <2>1, <2>2, SMTT(40) DEF GotAll, GotInOrder, CursorInOrder
<1>15. StreamInOrder /\ AlarmInOrder
  BY <1>8, <1>9, Zenon DEF StreamInOrder, AlarmInOrder
<1>16. Bounded(Len(file))
  BY <1>4, BoundedZero, BoundedNext, SMTT(40)
<1> QED BY <1>5, <1>10, <1>11, <1>12, <1>13, <1>14, <1>15, <1>16, BothHalves, ZenonT(60) DEF Written, Followed,
           Delivery

\* One step of the system.
LEMMA StepKeeps ==
  ASSUME EventsIInv, Bounded(Len(file)), [Next]_vars
  PROVE  EventsIInv' /\ Bounded(Len(file))' /\ (Intact' => Keeps(file, file'))
<1>0. Len(file) \in Nat
  BY Types, Zenon
<1>1. ASSUME Passes PROVE EventsIInv' /\ Bounded(Len(file))' /\ (Intact' => Keeps(file, file'))
  <2>1. EventsIInv' /\ Len(file') <= Len(file) + 1 /\ (Intact' => Keeps(file, file'))
    BY <1>1, PassesKeeps, Zenon DEF Passes
  <2>2. Len(file') \in Nat
    BY <1>1, SeqFacts, Zenon DEF Passes, Written, TypeOK
  <2>3. Bounded(Len(file'))
    BY <1>0, <2>1, <2>2, BoundedStep, Zenon
  <2> QED BY <2>1, <2>3, Zenon
<1>2. ASSUME UNCHANGED file PROVE Bounded(Len(file))' /\ Keeps(file, file')
  BY <1>2, Zenon DEF Keeps, Bounded
<1>3. CASE UNCHANGED may /\ Mission
  BY <1>1, <1>3, PickUpPasses, RunOpensPasses, AnnouncePasses, RunCrashesPasses, ProgressPasses, RunClosesPasses,
     Zenon DEF Mission
<1>4. CASE UNCHANGED may /\ Finalizer
  BY <1>1, <1>4, FinalizeOpensPasses, WriteIntentPasses, AppendDonePasses, AppendReconstructedDonePasses,
     CommitDonePasses, AppendEndsPasses, ZenonT(60) DEF Finalizer
<1>5. CASE UNCHANGED may /\ Repair
  BY <1>1, <1>5, StartPasses, RepairIntentPasses, EnsureTerminalPasses, SweepPasses, ServePasses, ZenonT(60) DEF
     Repair
<1>6. CASE UNCHANGED may /\ Reader
  <2>1. UNCHANGED file BY <1>6, Zenon DEF Reader, ReadLine, ReadPartial, ReadEOF
  <2> QED BY <1>2, <1>6, <2>1, ReadLineKeeps, ReadPartialKeeps, ReadEOFKeeps, Zenon DEF Reader
<1>7. CASE UNCHANGED may /\ Follower
  <2>1. UNCHANGED file BY <1>7, Zenon DEF Follower, Connect, Reconnect, StreamEnded
  <2> QED BY <1>2, <1>7, <2>1, ConnectKeeps, ReconnectKeeps, StreamEndedKeeps, Zenon DEF Follower
<1>8. CASE UNCHANGED may /\ Failure
  <2>1. ASSUME IdleCut \/ Disconnect PROVE UNCHANGED file
    BY <2>1, Zenon DEF IdleCut, Disconnect
  <2>2. CASE IdleCut \/ Disconnect
    BY <1>2, <1>8, <2>1, <2>2, IdleCutKeeps, DisconnectKeeps, Zenon
  <2> QED BY <1>1, <1>8, <2>2, AppendFailsPasses, SyncFailsPasses, HealFailsPasses, TxFailsPasses, CrashPasses,
             PowerLossPasses, EventsLostPasses, ZenonT(60) DEF Failure
<1>9. CASE UNCHANGED may /\ (Delete \/ Checkpoint)
  BY <1>1, <1>9, DeletePasses, CheckpointPasses, Zenon
<1>10. CASE UNCHANGED vars
  <2>1. UNCHANGED <<may, file, linked, synced, db, wal, daemon, w, stream, client, faults>>
    BY <1>10, Zenon DEF vars
  <2>2. Counts /\ stream' \in Stream /\ client' \in Client
    BY <2>1, Types, Zenon DEF Counts
  <2>3. StreamInOrder' /\ AlarmInOrder'
    BY <2>1, Types, Zenon DEF Followed, StreamInOrder, AlarmInOrder, Intact, Final, DoneLines
  <2>4. EventsIInv'
    BY <2>1, <2>2, <2>3, NothingDelivered, Zenon
  <2> QED BY <1>2, <2>1, <2>4, Zenon
<1> QED BY <1>3, <1>4, <1>5, <1>6, <1>7, <1>8, <1>9, <1>10, Zenon DEF Next, Step

LEMMA EventsInductive == Spec => [](EventsIInv /\ Bounded(Len(file)))
<1>1. Init => EventsIInv /\ Bounded(Len(file))
  BY InitEvents, Zenon
<1>2. EventsIInv /\ Bounded(Len(file)) /\ [Next]_vars => (EventsIInv /\ Bounded(Len(file)))'
  BY StepKeeps, Zenon
<1> QED BY <1>1, <1>2, PTL DEF Spec

\* Whatever writes fail or tear, whenever the process or the machine dies, and whichever
\* of its three kinds of writers goes on (Append, AppendDoneIdempotent, the repair's
\* reconstruction), the events of the file have increasing seqs and tell one outcome; and
\* as long as nothing is lost, by one done event, which is there when the row is done.
THEOREM EventsCorrect == Spec => []EventsInv
<1>1. EventsIInv => EventsInv
  BY Zenon DEF EventsIInv
<1> QED BY <1>1, EventsInductive, PTL

\* Over any number of connections that break or idle out, of restarts and of half-written
\* lines, the callback of StreamEvents sees no seq twice or out of order, and gets every
\* event after the position it asked for, as long as nothing is lost.
THEOREM DeliveryCorrect == Spec => []Delivery
<1>1. EventsIInv => Delivery
  BY Zenon DEF EventsIInv
<1> QED BY <1>1, EventsInductive, PTL

\* StreamEvents reports a done mission without a done event only where no read from its
\* cursor could bring one, as long as nothing is lost.
THEOREM AlarmIsTrue == Spec => []NoFalseAlarm
<1>1. EventsIInv => NoFalseAlarm
  BY Zenon DEF EventsIInv, AlarmInOrder, NoFalseAlarm
<1> QED BY <1>1, EventsInductive, PTL

\* The file is append-only: no writer, no healing newline and no repair changes a line that
\* has its newline, as long as nothing is lost.
THEOREM FinishedLinesStay == Spec => [][Intact' => Keeps(file, file')]_vars
<1>1. EventsIInv /\ Bounded(Len(file)) /\ [Next]_vars => [Intact' => Keeps(file, file')]_vars
  BY StepKeeps, Zenon
<1> QED BY <1>1, EventsInductive, PTL DEF Spec

=============================================================================
