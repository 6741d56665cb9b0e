--------------------------- MODULE StagingProofs ---------------------------
(***************************************************************************)
(* The steps of StagingHandler.Put and of the upload lock, of the clients, *)
(* of the mission that uses the file, the operator, the collector, the     *)
(* disk scanner, a download and a restart keep the invariant of the        *)
(* staging store, for every size of a file, every set of contents, any     *)
(* number of clients, requests, retries and faults.  So what a complete    *)
(* row says is on disk, an input survives until its mission has ended, and *)
(* a download sends what its header names.                                 *)
(***************************************************************************)
EXTENDS Staging, TLAPS

-----------------------------------------------------------------------------
(* Handlers.                                                               *)

PCs == {"acquire", "look", "insert", "open", "prefix", "stream", "progress", "sync",
        "complete", "discard", "remove", "release", "gone"}
Answers == {None, "2xx", "4xx", "5xx", "broken"}

\* The sets that depend on the environment do not change.
LEMMA SameSets ==
  ASSUME UNCHANGED env
  PROVE  Clients' = Clients /\ Handler' = Handler /\ Client' = Client
BY Zenon DEF Clients, Handler, Client

\* The constants.
LEMMA Constants ==
  ASSUME TypeOK
  PROVE  /\ Total \in Nat /\ Total > 0 /\ MaxTries \in Nat /\ MaxTries > 0
         /\ env.puts \in Nat /\ env.rows \in Nat /\ env.faults \in Nat /\ None \notin Row
         /\ \A k \in Clients : Sha(k) \in Contents
BY StagingConstantsOK, SMTT(40) DEF TypeOK, Clients, Sha

\* The fields of a handler.
LEMMA HandlerFields ==
  ASSUME TypeOK, NEW h \in DOMAIN puts
  PROVE  /\ puts[h] \in Handler /\ h \in 1 .. Len(puts) /\ Len(puts) \in Nat
         /\ puts[h].by \in Clients /\ puts[h].start \in 0 .. Total - 1 /\ puts[h].body \in 0 .. Total
         /\ puts[h].pc \in PCs /\ puts[h].resume \in BOOLEAN /\ puts[h].written \in 0 .. Total
         /\ puts[h].hash \in Seq(Block) /\ puts[h].inode \in Nat /\ puts[h].cancelled \in BOOLEAN
         /\ puts[h].evicted \in BOOLEAN /\ puts[h].answer \in Answers
         /\ Declared(h) \in Contents
<1>1. puts[h] \in Handler /\ h \in 1 .. Len(puts) /\ Len(puts) \in Nat
  BY SMTT(40) DEF TypeOK
<1> QED BY <1>1, Constants, Zenon DEF Handler, PCs, Answers, Declared

\* One handler moves, the others do not.
LEMMA HandlerMoves ==
  ASSUME TypeOK, NEW h \in DOMAIN puts, NEW q \in Handler, UNCHANGED env, puts' = [puts EXCEPT ![h] = q]
  PROVE  /\ puts' \in Seq(Handler') /\ Len(puts') = Len(puts) /\ DOMAIN puts' = DOMAIN puts
         /\ puts'[h] = q
         /\ \A g \in DOMAIN puts : g # h => puts'[g] = puts[g]
         /\ q.evicted = puts[h].evicted /\ scan' = scan => (NoIntruder' <=> NoIntruder)
<1>1. puts \in Seq(Handler) /\ Handler' = Handler
  BY SameSets, Zenon DEF TypeOK
<1>2. puts' \in Seq(Handler) /\ Len(puts') = Len(puts) /\ DOMAIN puts' = DOMAIN puts /\ puts'[h] = q
  BY <1>1
<1>3. \A g \in DOMAIN puts : g # h => puts'[g] = puts[g]
  BY <1>1, Zenon
<1>4. ASSUME q.evicted = puts[h].evicted, scan' = scan PROVE NoIntruder' <=> NoIntruder
  BY <1>2, <1>3, <1>4, Zenon DEF NoIntruder
<1> QED BY <1>1, <1>2, <1>3, <1>4, Zenon

\* An answer, and the end of a handler.
LEMMA AnsweredFields ==
  ASSUME NEW p \in Handler, NEW a \in Answers
  PROVE  LET q == Answered(p, a) IN
         /\ q \in Handler /\ q.pc = "release" /\ q.by = p.by /\ q.start = p.start /\ q.body = p.body
         /\ q.resume = p.resume /\ q.written = p.written /\ q.hash = p.hash /\ q.inode = p.inode
         /\ q.evicted = p.evicted
BY ZenonT(60) DEF Answered, Answers, Handler

LEMMA GoneFields ==
  ASSUME NEW p \in Handler, Total \in Nat \ {0}
  PROVE  LET q == Gone(p) IN
         /\ q \in Handler /\ q.pc = "gone" /\ q.by = p.by /\ q.inode = 0 /\ q.evicted = p.evicted
<1>1. <<>> \in Seq(Block) OBVIOUS
<1>2. 0 \in 0 .. Total - 1 /\ 0 \in 0 .. Total OBVIOUS
<1> QED BY <1>1, <1>2, ZenonT(60) DEF Gone, Handler

-----------------------------------------------------------------------------
(* Steps that only move a handler.                                         *)

\* The rest of the state when a handler moves.
LEMMA MoveTyped ==
  ASSUME TypeOK, UNCHANGED env, NEW h \in DOMAIN puts, NEW q \in Handler, puts' = [puts EXCEPT ![h] = q],
         row' \in Row \cup {None}, disk' \in Disk,
         Len(disk.inode) <= Len(disk'.inode),
         disk'.path \in 0 .. Len(disk'.inode), disk'.tomb \in 0 .. Len(disk'.inode),
         lock' \in [entry : 0 .. Len(puts), fire : SUBSET (DOMAIN puts)],
         UNCHANGED <<client, mission, gc, del, get, scan>>,
         faults' \in 0 .. env.faults, made' \in 0 .. env.rows
  PROVE  TypeOK'
<1>1. puts' \in Seq(Handler') /\ Len(puts') = Len(puts) /\ DOMAIN puts' = DOMAIN puts
  BY HandlerMoves, ZenonT(60)
<1>2. Clients' = Clients /\ Client' = Client
  BY SameSets, Zenon
<1>3. get' \in [pc : {"idle", "open", "serve", "refused"}, sha : Contents \cup {None},
                inode : 0 .. Len(disk'.inode)]
  <2>1. Len(disk.inode) \in Nat /\ Len(disk'.inode) \in Nat
    BY SMTT(40) DEF TypeOK, Disk
  <2> QED BY <2>1, SMTT(40) DEF TypeOK
<1> QED BY <1>1, <1>2, <1>3, SMTT(40) DEF TypeOK, Row, Disk

\* A handler that answers or leaves does not touch the file or the row.
LEMMA Retire ==
  ASSUME StagingIInv, UNCHANGED env, NEW h \in DOMAIN puts, NEW q \in Handler, puts' = [puts EXCEPT ![h] = q],
         q.pc \in {"release", "gone"}, q.by = puts[h].by, q.evicted = puts[h].evicted,
         q.inode \in {0, puts[h].inode}, puts[h].pc # "gone",
         q.pc = "release" => puts[h].pc # "acquire" /\ lock' = lock,
         lock' = lock \/ (lock' = [lock EXCEPT !.entry = 0] /\ puts[h].pc = "release"),
         UNCHANGED <<row, disk, client, mission, gc, del, get, scan, made>>, faults' \in {faults} \cup 0 .. env.faults
  PROVE  StagingIInv'
<1>0. TypeOK BY Zenon DEF StagingIInv, StagingInv
<1>1. /\ Len(puts') = Len(puts) /\ DOMAIN puts' = DOMAIN puts /\ puts'[h] = q
      /\ \A g \in DOMAIN puts : g # h => puts'[g] = puts[g]
      /\ NoIntruder' <=> NoIntruder
  BY <1>0, HandlerMoves, ZenonT(60)
<1>2. TypeOK'
  <2>1. /\ row' \in Row \cup {None} /\ disk' \in Disk /\ Len(disk.inode) <= Len(disk'.inode)
        /\ disk'.path \in 0 .. Len(disk'.inode) /\ disk'.tomb \in 0 .. Len(disk'.inode)
        /\ faults' \in 0 .. env.faults /\ made' \in 0 .. env.rows
    BY <1>0 DEF TypeOK, Disk
  <2>2. lock \in [entry : 0 .. Len(puts), fire : SUBSET (DOMAIN puts)] /\ 0 \in 0 .. Len(puts)
    BY <1>0, HandlerFields DEF TypeOK
  <2>3. lock' \in [entry : 0 .. Len(puts), fire : SUBSET (DOMAIN puts)]
    BY <2>2, Zenon
  <2> QED BY <1>0, <2>1, <2>3, MoveTyped, Zenon
<1>3. HandlersInOrder'
  <2>1. q.inode <= Len(disk.inode)
    BY <1>0 DEF StagingIInv, HandlersInOrder, InRange, TypeOK, Disk
  <2> QED BY <1>1, <2>1, SameSets, Zenon DEF StagingIInv, HandlersInOrder, InRange, Writing, Filling
<1>4. OneHandler'
  BY <1>0, <1>1 DEF StagingIInv, OneHandler, TypeOK
<1>5. UploadInOrder'
  BY <1>1 DEF StagingIInv, UploadInOrder, InStep, Sha, Writing, Filling, Uploading, IsComplete, PartialMatches
<1>6. NobodyWrites => NobodyWrites'
  BY <1>1, Zenon DEF NobodyWrites, Writing
<1>7. CollectorInOrder' /\ InputsForever' /\ CompleteMeansContent'
  BY <1>1, Zenon DEF StagingIInv, StagingInv, CollectorInOrder, InputsForever, CompleteMeansContent, IsComplete,
     IsDeleting, Whole
<1>9. DownloadInOrder'
  BY <1>1, <1>6, Zenon DEF StagingIInv, DownloadInOrder, IsComplete, IsDeleting, Whole, Writing
<1> QED BY <1>2, <1>3, <1>4, <1>5, <1>7, <1>9, Zenon DEF StagingIInv, StagingInv

\* The row is the same up to an expiry that nobody relies on.
RowAlike ==
  /\ row = None => row' = None
  /\ row # None => /\ row' # None /\ row'.state = row.state /\ row'.sha = row.sha
                   /\ row.state = "complete" /\ row.exp = "forever" => row'.exp = "forever"

\* A flag of a handler that no invariant is about.
LEMMA Flag ==
  ASSUME StagingIInv, UNCHANGED env, NEW h \in DOMAIN puts, NEW q \in Handler, puts' = [puts EXCEPT ![h] = q],
         q.by = puts[h].by, q.evicted = puts[h].evicted, q.pc = puts[h].pc, q.start = puts[h].start,
         q.body = puts[h].body, q.resume = puts[h].resume, q.written = puts[h].written,
         q.hash = puts[h].hash, q.inode = puts[h].inode,
         row' \in Row \cup {None}, RowAlike,
         lock' \in [entry : 0 .. Len(puts), fire : SUBSET (DOMAIN puts)], lock'.entry = lock.entry,
         UNCHANGED <<disk, client, mission, gc, del, get, scan, made>>,
         faults' \in 0 .. env.faults
  PROVE  StagingIInv'
<1>0. TypeOK BY Zenon DEF StagingIInv, StagingInv
<1>1. /\ Len(puts') = Len(puts) /\ DOMAIN puts' = DOMAIN puts /\ puts'[h] = q
      /\ \A g \in DOMAIN puts : g # h => puts'[g] = puts[g]
      /\ NoIntruder' <=> NoIntruder
  BY <1>0, HandlerMoves, ZenonT(60)
<1>2. TypeOK'
  <2>1. /\ disk' \in Disk /\ Len(disk.inode) <= Len(disk'.inode)
        /\ disk'.path \in 0 .. Len(disk'.inode) /\ disk'.tomb \in 0 .. Len(disk'.inode)
        /\ faults' \in 0 .. env.faults /\ made' \in 0 .. env.rows
    BY <1>0 DEF TypeOK, Disk
  <2> QED BY <1>0, <2>1, MoveTyped, Zenon
<1>a. /\ \A g \in DOMAIN puts : /\ puts'[g].pc = puts[g].pc /\ puts'[g].by = puts[g].by /\ puts'[g].start = puts[g].start
                                /\ puts'[g].body = puts[g].body /\ puts'[g].resume = puts[g].resume
                                /\ puts'[g].written = puts[g].written /\ puts'[g].hash = puts[g].hash
                                /\ puts'[g].inode = puts[g].inode
  BY <1>1, Zenon
<1>3. HandlersInOrder'
  BY <1>1, <1>a, SameSets DEF StagingIInv, HandlersInOrder, InRange
<1>4. OneHandler'
  BY <1>1, <1>a, Zenon DEF StagingIInv, OneHandler
<1>5. UploadInOrder'
  BY <1>1, <1>a DEF StagingIInv, UploadInOrder, InStep, Sha, RowAlike, Uploading, IsComplete, PartialMatches
<1>6. NobodyWrites => NobodyWrites'
  BY <1>1, <1>a, Zenon DEF NobodyWrites
<1>7. CollectorInOrder' /\ InputsForever' /\ CompleteMeansContent'
  BY <1>1, Zenon DEF StagingIInv, StagingInv, CollectorInOrder, InputsForever, CompleteMeansContent, RowAlike,
     IsComplete, IsDeleting, Whole
<1>9. DownloadInOrder'
  BY <1>1, <1>a, <1>6 DEF StagingIInv, DownloadInOrder, RowAlike, IsComplete, IsDeleting, Whole
<1> QED BY <1>2, <1>3, <1>4, <1>5, <1>7, <1>9, Zenon DEF StagingIInv, StagingInv

\* Without intruders the others are not at the file.
LEMMA OthersAway ==
  ASSUME StagingIInv, NoIntruder, NEW h \in DOMAIN puts, puts[h].pc \notin {"acquire", "gone"}
  PROVE  \A g \in DOMAIN puts : g # h => puts[g].pc \in {"acquire", "gone"}
BY Zenon DEF StagingIInv, OneHandler

\* The handler that has the lock takes a step: what it has to see to for the handlers.
LEMMA HolderStep ==
  ASSUME StagingIInv, UNCHANGED env, NEW h \in DOMAIN puts, NEW q \in Handler, puts' = [puts EXCEPT ![h] = q],
         puts[h].pc \notin {"acquire", "gone"}, q.pc \notin {"acquire", "gone"},
         q.evicted = puts[h].evicted, lock' = lock, UNCHANGED <<client, scan>>,
         disk' \in Disk, Len(disk.inode) <= Len(disk'.inode),
         InRange(q)', NoIntruder => InStep(q)'
  PROVE  HandlersInOrder' /\ OneHandler' /\ UploadInOrder'
<1>0. TypeOK BY Zenon DEF StagingIInv, StagingInv
<1>1. /\ Len(puts') = Len(puts) /\ DOMAIN puts' = DOMAIN puts /\ puts'[h] = q
      /\ \A g \in DOMAIN puts : g # h => puts'[g] = puts[g]
      /\ NoIntruder' <=> NoIntruder
  BY <1>0, HandlerMoves, Zenon
<1>2. Len(disk.inode) \in Nat /\ Len(disk'.inode) \in Nat
  BY <1>0, SMTT(40) DEF TypeOK, Disk
<1>3. ASSUME NEW g \in DOMAIN puts, g # h PROVE InRange(puts[g])'
  <2>1. InRange(puts[g]) /\ puts'[g] = puts[g] /\ puts[g].inode \in Nat
    BY <1>0, <1>1, <1>3, HandlerFields, Zenon DEF StagingIInv, HandlersInOrder
  <2> QED BY <1>2, <2>1 DEF InRange
<1>4. HandlersInOrder'
  BY <1>1, <1>3, SameSets, Zenon DEF StagingIInv, HandlersInOrder
<1>5. OneHandler'
  BY <1>1, Zenon DEF StagingIInv, OneHandler
<1>6. UploadInOrder'
  <2> SUFFICES ASSUME NoIntruder, NEW g \in DOMAIN puts PROVE InStep(puts[g])'
    BY <1>1, Zenon DEF UploadInOrder
  <2>1. CASE g = h
    BY <1>1, <2>1, Zenon
  <2>2. CASE g # h
    <3>1. puts'[g].pc \in {"acquire", "gone"}
      BY <1>1, <2>2, OthersAway, Zenon
    <3> QED BY <3>1, Zenon DEF InStep, Writing, Filling
  <2> QED BY <2>1, <2>2, Zenon
<1> QED BY <1>4, <1>5, <1>6, Zenon

\* ... and for the rest, if it leaves the row and the files alone.
LEMMA HolderMoves ==
  ASSUME StagingIInv, UNCHANGED env, NEW h \in DOMAIN puts, NEW q \in Handler, puts' = [puts EXCEPT ![h] = q],
         puts[h].pc \notin {"acquire", "gone"}, q.pc \notin {"acquire", "gone"},
         q.evicted = puts[h].evicted, UNCHANGED <<row, disk, lock, client, mission, gc, del, get, scan, made>>,
         faults' \in 0 .. env.faults,
         InRange(q), NoIntruder => InStep(q),
         q.pc \in Writing /\ puts[h].pc \notin Writing => (row = None \/ Uploading) /\ q.inode = 0,
         q.inode \in {puts[h].inode, disk.path}
  PROVE  StagingIInv'
<1>0. TypeOK BY Zenon DEF StagingIInv, StagingInv
<1>1. /\ Len(puts') = Len(puts) /\ DOMAIN puts' = DOMAIN puts /\ puts'[h] = q
      /\ \A g \in DOMAIN puts : g # h => puts'[g] = puts[g]
      /\ NoIntruder' <=> NoIntruder
  BY <1>0, HandlerMoves, ZenonT(60)
<1>2. TypeOK'
  <2>1. /\ row' \in Row \cup {None} /\ disk' \in Disk /\ Len(disk.inode) <= Len(disk'.inode)
        /\ disk'.path \in 0 .. Len(disk'.inode) /\ disk'.tomb \in 0 .. Len(disk'.inode)
        /\ faults' \in 0 .. env.faults /\ made' \in 0 .. env.rows
    BY <1>0 DEF TypeOK, Disk
  <2>2. lock' \in [entry : 0 .. Len(puts), fire : SUBSET (DOMAIN puts)]
    BY <1>0, Zenon DEF TypeOK
  <2> QED BY <1>0, <2>1, <2>2, MoveTyped, Zenon
<1>3. HandlersInOrder' /\ OneHandler' /\ UploadInOrder'
  <2>1. disk' \in Disk /\ Len(disk.inode) <= Len(disk'.inode)
    BY <1>0 DEF TypeOK, Disk
  <2>2. InRange(q)'
    BY Zenon DEF InRange
  <2>3. NoIntruder => InStep(q)'
    BY Zenon DEF InStep, Uploading, IsComplete, Sha, PartialMatches
  <2> QED BY <2>1, <2>2, <2>3, HolderStep, Zenon
<1>4. CollectorInOrder' /\ InputsForever' /\ CompleteMeansContent'
  BY <1>1, Zenon DEF StagingIInv, StagingInv, CollectorInOrder, InputsForever, CompleteMeansContent, IsComplete,
     IsDeleting, Whole
<1>5. NobodyWrites /\ (IsComplete \/ IsDeleting) => NobodyWrites'
  BY <1>1, Zenon DEF NobodyWrites, IsComplete, IsDeleting, Uploading
<1>6. DownloadInOrder'
  <2> SUFFICES ASSUME NoIntruder PROVE DownloadInOrder'
    BY <1>1, Zenon DEF DownloadInOrder
  <2>1. get.pc = "serve" /\ q.pc \in Writing => q.inode # get.inode
    <3> SUFFICES ASSUME get.pc = "serve", q.pc \in Writing, q.inode = get.inode PROVE FALSE
      BY Zenon
    <3>1. CASE puts[h].pc \in Writing
      BY <3>1, Zenon DEF StagingIInv, DownloadInOrder, NobodyWrites
    <3>2. CASE puts[h].pc \notin Writing
      BY <3>2, Zenon DEF StagingIInv, DownloadInOrder, Whole
    <3> QED BY <3>1, <3>2, Zenon
  <2> QED BY <1>1, <1>5, <2>1, Zenon DEF StagingIInv, DownloadInOrder, IsComplete, IsDeleting, Whole
<1> QED BY <1>2, <1>3, <1>4, <1>6, Zenon DEF StagingIInv, StagingInv

-----------------------------------------------------------------------------
(* The steps of a handler.                                                 *)

LEMMA AcquireKeeps ==
  ASSUME StagingIInv, UNCHANGED env, NEW h \in DOMAIN puts, Acquire(h)
  PROVE  StagingIInv'
<1>0. TypeOK BY Zenon DEF StagingIInv, StagingInv
<1>1. puts[h] \in Handler /\ Total \in Nat \ {0} /\ puts[h].pc = "acquire"
  BY <1>0, HandlerFields, Constants DEF Acquire
<1>2. CASE lock.entry = 0 /\ lock' = [lock EXCEPT !.entry = h] /\ puts' = [puts EXCEPT ![h].pc = "look"]
  <2> DEFINE q == [puts[h] EXCEPT !.pc = "look"]
  <2>1. lock.entry = 0 /\ lock' = [lock EXCEPT !.entry = h] /\ puts' = [puts EXCEPT ![h] = q]
    BY <1>2, Zenon DEF Acquire
  <2>2. /\ q \in Handler /\ q.pc = "look" /\ q.by = puts[h].by /\ q.evicted = puts[h].evicted
        /\ q.start = puts[h].start /\ q.body = puts[h].body /\ q.resume = puts[h].resume
        /\ q.written = puts[h].written /\ q.hash = puts[h].hash /\ q.inode = puts[h].inode
    BY <1>1, Zenon DEF Handler
  <2> HIDE DEF q
  <2>3. /\ Len(puts') = Len(puts) /\ DOMAIN puts' = DOMAIN puts /\ puts'[h] = q
        /\ \A g \in DOMAIN puts : g # h => puts'[g] = puts[g]
        /\ NoIntruder' <=> NoIntruder
    BY <1>0, <2>1, <2>2, HandlerMoves, ZenonT(60) DEF Acquire
  <2>4. TypeOK'
    <3>1. /\ row' \in Row \cup {None} /\ disk' \in Disk /\ Len(disk.inode) <= Len(disk'.inode)
          /\ disk'.path \in 0 .. Len(disk'.inode) /\ disk'.tomb \in 0 .. Len(disk'.inode)
          /\ faults' \in 0 .. env.faults /\ made' \in 0 .. env.rows
      BY <1>0 DEF TypeOK, Disk, Acquire
    <3>2. lock' \in [entry : 0 .. Len(puts), fire : SUBSET (DOMAIN puts)]
      <4>1. h \in 0 .. Len(puts) BY <1>0, HandlerFields
      <4> QED BY <1>0, <2>1, <4>1, Zenon DEF TypeOK
    <3> QED BY <1>0, <2>1, <2>2, <3>1, <3>2, MoveTyped, Zenon DEF Acquire
  <2>5. HandlersInOrder'
    BY <1>1, <2>2, <2>3, SameSets DEF StagingIInv, HandlersInOrder, InRange, Writing, Filling, Acquire
  <2>6. OneHandler'
    <3> SUFFICES ASSUME NoIntruder, NEW g \in DOMAIN puts, puts'[g].pc \notin {"acquire", "gone"}
                 PROVE  lock'.entry = g
      BY <2>3, Zenon DEF OneHandler
    <3>1. lock'.entry = h /\ h # 0
      BY <1>0, <2>1, HandlerFields DEF TypeOK
    <3>2. g # 0
      BY <1>0, HandlerFields
    <3>3. ASSUME g # h PROVE FALSE
      BY <2>1, <2>3, <3>2, <3>3, Zenon DEF StagingIInv, OneHandler
    <3> QED BY <3>1, <3>3, Zenon
  <2>7. UploadInOrder'
    BY <1>1, <2>2, <2>3 DEF StagingIInv, UploadInOrder, InStep, Sha, Writing, Filling, Uploading, IsComplete, PartialMatches, Acquire
  <2>8. NobodyWrites => NobodyWrites'
    BY <2>2, <2>3, Zenon DEF NobodyWrites, Writing
  <2>9. CollectorInOrder' /\ InputsForever' /\ CompleteMeansContent'
    BY <2>3, Zenon DEF StagingIInv, StagingInv, CollectorInOrder, InputsForever, CompleteMeansContent, IsComplete,
       IsDeleting, Whole, Acquire
  <2>11. DownloadInOrder'
    BY <2>2, <2>3, <2>8 DEF StagingIInv, DownloadInOrder, IsComplete, IsDeleting, Whole, Writing, Acquire
  <2> QED BY <2>4, <2>5, <2>6, <2>7, <2>9, <2>11, Zenon DEF StagingIInv, StagingInv
<1>3. ASSUME NEW a \in {"4xx", "5xx"}, puts' = [puts EXCEPT ![h] = Gone(Answered(puts[h], a))], UNCHANGED lock
      PROVE  StagingIInv'
  <2> DEFINE q == Gone(Answered(puts[h], a))
  <2>1. /\ Answered(puts[h], a) \in Handler /\ Answered(puts[h], a).by = puts[h].by
        /\ Answered(puts[h], a).evicted = puts[h].evicted
    BY <1>1, AnsweredFields DEF Answers
  <2>2. q \in Handler /\ q.pc = "gone" /\ q.by = puts[h].by /\ q.inode = 0 /\ q.evicted = puts[h].evicted
    BY <1>1, <2>1, GoneFields, Zenon
  <2> HIDE DEF q
  <2>3. puts' = [puts EXCEPT ![h] = q] BY <1>3, Zenon DEF q
  <2> QED BY <1>1, <1>3, <2>2, <2>3, Retire, ZenonT(60) DEF Acquire
<1> QED BY <1>2, <1>3, Zenon DEF Acquire

LEMMA LookKeeps ==
  ASSUME StagingIInv, UNCHANGED env, NEW h \in DOMAIN puts, Look(h)
  PROVE  StagingIInv'
<1>0. TypeOK BY Zenon DEF StagingIInv, StagingInv
<1>1. puts[h] \in Handler /\ puts[h].pc = "look" /\ InRange(puts[h])
  BY <1>0, HandlerFields, Zenon DEF Look, StagingIInv, HandlersInOrder
<1>2. ASSUME NEW a \in {"2xx", "4xx"}, puts' = [puts EXCEPT ![h] = Answered(puts[h], a)]
      PROVE  StagingIInv'
  <2> DEFINE q == Answered(puts[h], a)
  <2>1. q \in Handler /\ q.pc = "release" /\ q.by = puts[h].by /\ q.inode = puts[h].inode /\ q.evicted = puts[h].evicted
    BY <1>1, AnsweredFields DEF Answers
  <2> HIDE DEF q
  <2>2. puts' = [puts EXCEPT ![h] = q] BY <1>2, Zenon DEF q
  <2> QED BY <1>1, <2>1, <2>2, Retire, ZenonT(60) DEF Look
<1>3. ASSUME row = None, puts[h].start = 0, puts' = [puts EXCEPT ![h] = [puts[h] EXCEPT !.pc = "insert"]]
      PROVE  StagingIInv'
  <2> DEFINE q == [puts[h] EXCEPT !.pc = "insert"]
  <2>1. /\ q \in Handler /\ q.pc = "insert" /\ q.by = puts[h].by /\ q.inode = puts[h].inode /\ q.evicted = puts[h].evicted
        /\ q.start = 0 /\ q.body = puts[h].body /\ q.resume = puts[h].resume /\ q.written = puts[h].written
        /\ q.hash = puts[h].hash
    BY <1>1, <1>3, Zenon DEF Handler
  <2> HIDE DEF q
  <2>2. puts' = [puts EXCEPT ![h] = q] BY <1>3, Zenon DEF q
  <2>3. InRange(q) /\ InStep(q)
    BY <1>1, <1>3, <2>1, Zenon DEF InRange, InStep, Writing, Filling
  <2>4. q.pc \notin Writing /\ faults' \in 0 .. env.faults
    BY <1>0, <2>1, Zenon DEF Writing, Look, TypeOK
  <2> QED BY <1>1, <2>1, <2>2, <2>3, <2>4, HolderMoves, ZenonT(60) DEF Look
<1>4. ASSUME Uploading, row.sha = Declared(h), PartialMatches(row.got), puts[h].start = row.got,
             puts' = [puts EXCEPT ![h] = [puts[h] EXCEPT !.pc = "open", !.resume = TRUE, !.written = row.got]]
      PROVE  StagingIInv'
  <2> DEFINE q == [puts[h] EXCEPT !.pc = "open", !.resume = TRUE, !.written = row.got]
  <2>0. row.got \in 0 .. Total
    BY <1>0, <1>4, Zenon DEF TypeOK, Uploading, Row
  <2>1. /\ q \in Handler /\ q.pc = "open" /\ q.by = puts[h].by /\ q.inode = puts[h].inode /\ q.evicted = puts[h].evicted
        /\ q.start = puts[h].start /\ q.body = puts[h].body /\ q.resume = TRUE /\ q.written = row.got
        /\ q.hash = puts[h].hash
    BY <1>1, <2>0, ZenonT(60) DEF Handler
  <2> HIDE DEF q
  <2>2. puts' = [puts EXCEPT ![h] = q] BY <1>4, Zenon DEF q
  <2>3. InRange(q)
    BY <1>1, <1>4, <2>1, Zenon DEF InRange, Writing, Filling
  <2>4. InStep(q)
    BY <1>1, <1>4, <2>1, Zenon DEF InRange, InStep, Writing, Filling, Uploading, IsComplete, Declared
  <2>5. q.inode = 0 /\ faults' \in 0 .. env.faults
    BY <1>0, <1>1, <2>1, Zenon DEF InRange, Look, TypeOK
  <2> QED BY <1>1, <1>4, <2>1, <2>2, <2>3, <2>4, <2>5, HolderMoves, ZenonT(60) DEF Look
<1> QED BY <1>0, <1>2, <1>3, <1>4, Zenon DEF Look, Uploading, TypeOK, Row

\* A row is inserted only where there is none.
LEMMA InsertKeeps ==
  ASSUME StagingIInv, UNCHANGED env, NEW h \in DOMAIN puts, Insert(h)
  PROVE  StagingIInv'
<1>0. TypeOK BY Zenon DEF StagingIInv, StagingInv
<1>1. puts[h] \in Handler /\ puts[h].pc = "insert" /\ InRange(puts[h]) /\ Declared(h) \in Contents
  BY <1>0, HandlerFields, Zenon DEF Insert, StagingIInv, HandlersInOrder
<1>2. ASSUME puts' = [puts EXCEPT ![h] = Answered(puts[h], "5xx")], UNCHANGED <<row, made>>
      PROVE  StagingIInv'
  <2> DEFINE q == Answered(puts[h], "5xx")
  <2>1. q \in Handler /\ q.pc = "release" /\ q.by = puts[h].by /\ q.inode = puts[h].inode /\ q.evicted = puts[h].evicted
    BY <1>1, AnsweredFields, Zenon DEF Answers
  <2> HIDE DEF q
  <2>2. puts' = [puts EXCEPT ![h] = q] BY <1>2, Zenon DEF q
  <2> QED BY <1>1, <1>2, <2>1, <2>2, Retire, ZenonT(60) DEF Insert
<1>3. ASSUME row = None, made < env.rows, made' = made + 1,
             row' = [state |-> "uploading", sha |-> Declared(h), got |-> 0, exp |-> "live"],
             puts' = [puts EXCEPT ![h].pc = "open"]
      PROVE  StagingIInv'
  <2>0. PICK q \in Handler : q = [puts[h] EXCEPT !.pc = "open"]
    BY <1>1, Zenon DEF Handler
  <2>1. /\ q.pc = "open" /\ q.by = puts[h].by /\ q.inode = puts[h].inode /\ q.evicted = puts[h].evicted
        /\ q.start = puts[h].start /\ q.body = puts[h].body /\ q.resume = puts[h].resume /\ q.written = puts[h].written
        /\ q.hash = puts[h].hash
    BY <1>1, <2>0, Zenon DEF Handler
  <2>2. puts' = [puts EXCEPT ![h] = q] BY <1>3, <2>0, Zenon
  <2>3. row' \in Row /\ row' # None /\ row'.state = "uploading" /\ row'.sha = Declared(h)
    BY <1>0, <1>1, <1>3, Constants DEF Row
  <2>4. TypeOK'
    <3>1. /\ disk' \in Disk /\ Len(disk.inode) <= Len(disk'.inode)
          /\ disk'.path \in 0 .. Len(disk'.inode) /\ disk'.tomb \in 0 .. Len(disk'.inode)
          /\ faults' \in 0 .. env.faults
      BY <1>0 DEF TypeOK, Disk, Insert
    <3>3. made' \in 0 .. env.rows
      <4>1. made \in 0 .. env.rows /\ env.rows \in Nat BY <1>0, Constants, Zenon DEF TypeOK
      <4> QED BY <1>3, <4>1
    <3>2. lock' \in [entry : 0 .. Len(puts), fire : SUBSET (DOMAIN puts)]
      BY <1>0, Zenon DEF TypeOK, Insert
    <3> QED BY <1>0, <2>1, <2>2, <2>3, <3>1, <3>2, <3>3, MoveTyped, ZenonT(60) DEF Insert
  <2>5. HandlersInOrder' /\ OneHandler' /\ UploadInOrder'
    <3>1. disk' \in Disk /\ Len(disk.inode) <= Len(disk'.inode)
      BY <1>0 DEF TypeOK, Disk, Insert
    <3>2. InRange(q)'
      BY <1>1, <2>1, Zenon DEF InRange, Insert, Writing, Filling
    <3>3. InStep(q)'
      BY <1>1, <2>1, <2>3, Zenon DEF InRange, InStep, Insert, Writing, Filling, Uploading, IsComplete, Sha, Declared
    <3> QED BY <1>1, <2>1, <2>2, <3>1, <3>2, <3>3, HolderStep, ZenonT(60) DEF Insert
  <2>6. NoIntruder' <=> NoIntruder
    BY <1>0, <2>1, <2>2, HandlerMoves, ZenonT(60) DEF Insert
  <2>7. CollectorInOrder' /\ InputsForever' /\ CompleteMeansContent'
    BY <1>3, <2>3, <2>6, Zenon DEF StagingIInv, CollectorInOrder, InputsForever, CompleteMeansContent, IsComplete,
       IsDeleting, Insert
  <2>8. DownloadInOrder'
    <3> SUFFICES ASSUME NoIntruder PROVE DownloadInOrder'
      BY <2>6, Zenon DEF DownloadInOrder
    <3>1. get.pc # "open" /\ (get.pc = "serve" => get.inode # 0 /\ disk.path # get.inode)
      BY <1>3, Zenon DEF StagingIInv, DownloadInOrder, IsComplete, IsDeleting, Whole
    <3>2. q.inode = 0
      BY <1>1, <2>1, Zenon DEF InRange
    <3>3. /\ DOMAIN puts' = DOMAIN puts /\ puts'[h] = q
          /\ \A g \in DOMAIN puts : g # h => puts'[g] = puts[g]
      BY <1>0, <2>1, <2>2, HandlerMoves, Zenon
    <3> QED BY <3>1, <3>2, <3>3, Zenon DEF StagingIInv, DownloadInOrder, Whole, Insert
  <2> QED BY <2>4, <2>5, <2>7, <2>8, Zenon DEF StagingIInv, StagingInv
<1> QED BY <1>2, <1>3, Zenon DEF Insert

\* The inodes of the store after one of them is written.
LEMMA InodeWritten ==
  ASSUME TypeOK, NEW i \in 1 .. Len(disk.inode), NEW f \in Seq(Block),
         disk' = [disk EXCEPT !.inode[i] = f]
  PROVE  /\ disk' \in Disk /\ Len(disk'.inode) = Len(disk.inode) /\ disk'.inode[i] = f
         /\ disk'.path = disk.path /\ disk'.tomb = disk.tomb
         /\ \A j \in 1 .. Len(disk.inode) : j # i => disk'.inode[j] = disk.inode[j]
<1>1. disk \in Disk /\ disk.inode \in Seq(Seq(Block))
  BY Zenon DEF TypeOK, Disk
<1>2. disk'.inode = [disk.inode EXCEPT ![i] = f] /\ disk' = [disk EXCEPT !.inode = disk'.inode]
  BY <1>1, Zenon DEF Disk
<1>3. /\ disk'.inode \in Seq(Seq(Block)) /\ Len(disk'.inode) = Len(disk.inode) /\ disk'.inode[i] = f
      /\ \A j \in 1 .. Len(disk.inode) : j # i => disk'.inode[j] = disk.inode[j]
  BY <1>1, <1>2
<1>4. disk' \in Disk /\ disk'.path = disk.path /\ disk'.tomb = disk.tomb
  BY <1>1, <1>2, <1>3, ZenonT(60) DEF Disk
<1> QED BY <1>3, <1>4, Zenon

\* A handler that has come to the file writes it, makes it or removes it: no row is
\* complete then, and what is served is another inode.
LEMMA HolderWrites ==
  ASSUME StagingIInv, UNCHANGED env, NEW h \in DOMAIN puts, NEW q \in Handler, puts' = [puts EXCEPT ![h] = q],
         puts[h].pc \in Writing, q.evicted = puts[h].evicted,
         UNCHANGED <<row, mission, gc, get, scan>>, disk' \in Disk, Len(disk.inode) <= Len(disk'.inode),
         disk'.tomb = disk.tomb, disk'.path \in {0, disk.path, Len(disk.inode) + 1},
         q.inode \in {puts[h].inode, disk.path, Len(disk.inode) + 1},
         \A j \in 1 .. Len(disk.inode) : j \notin {disk.path, puts[h].inode} => disk'.inode[j] = disk.inode[j]
  PROVE  CollectorInOrder' /\ InputsForever' /\ CompleteMeansContent' /\ DownloadInOrder'
<1>0. TypeOK BY Zenon DEF StagingIInv, StagingInv
<1>1. /\ Len(puts') = Len(puts) /\ DOMAIN puts' = DOMAIN puts /\ puts'[h] = q
      /\ \A g \in DOMAIN puts : g # h => puts'[g] = puts[g]
      /\ NoIntruder' <=> NoIntruder
  BY <1>0, HandlerMoves, Zenon
<1>2. NoIntruder => ~IsComplete
  BY Zenon DEF StagingIInv, UploadInOrder, InStep
<1>3. CollectorInOrder' /\ InputsForever' /\ CompleteMeansContent'
  BY <1>1, <1>2, Zenon DEF StagingIInv, CollectorInOrder, InputsForever, CompleteMeansContent, IsComplete, IsDeleting
<1>4. DownloadInOrder'
  <2> SUFFICES ASSUME NoIntruder, get.pc # "idle" PROVE DownloadInOrder'
    BY <1>1, Zenon DEF DownloadInOrder
  <2>1. get.pc # "open"
    BY Zenon DEF StagingIInv, DownloadInOrder, NobodyWrites
  <2>2. ASSUME get.pc = "serve" PROVE /\ disk'.path # get.inode /\ q.inode # get.inode
                                      /\ Whole(get.inode, get.sha)'
    <3>1. /\ get.inode \in 1 .. Len(disk.inode) /\ Len(disk.inode) \in Nat
          /\ disk.inode[get.inode] = Content(get.sha) /\ puts[h].inode # get.inode
          /\ disk.path # get.inode
      <4>1. /\ Whole(get.inode, get.sha) /\ puts[h].inode # get.inode /\ disk.path # get.inode
        BY <2>2, Zenon DEF StagingIInv, DownloadInOrder, NobodyWrites
      <4>2. get.inode \in 0 .. Len(disk.inode) /\ Len(disk.inode) \in Nat
        BY <1>0 DEF TypeOK, Disk
      <4> QED BY <4>1, <4>2 DEF Whole
    <3>2. disk'.path # get.inode /\ q.inode # get.inode
      BY <3>1
    <3>3. disk'.inode[get.inode] = disk.inode[get.inode]
      BY <3>1, Zenon
    <3> QED BY <3>1, <3>2, <3>3 DEF Whole
  <2>3. ASSUME get.pc = "serve", NEW g \in DOMAIN puts, puts'[g].pc \in Writing PROVE puts'[g].inode # get.inode
    BY <1>1, <2>2, <2>3, Zenon DEF StagingIInv, DownloadInOrder
  <2> QED BY <1>1, <2>1, <2>2, <2>3, Zenon DEF DownloadInOrder
<1> QED BY <1>3, <1>4, Zenon

\* The file is created or truncated by a fresh upload, and found by a resumed one.
LEMMA OpenKeeps ==
  ASSUME StagingIInv, UNCHANGED env, NEW h \in DOMAIN puts, Open(h)
  PROVE  StagingIInv'
<1>0. TypeOK BY Zenon DEF StagingIInv, StagingInv
<1>1. /\ puts[h] \in Handler /\ puts[h].pc = "open" /\ InRange(puts[h]) /\ (NoIntruder => InStep(puts[h]))
      /\ disk \in Disk /\ Len(disk.inode) \in Nat /\ disk.path \in 0 .. Len(disk.inode)
      /\ disk.tomb \in 0 .. Len(disk.inode)
  BY <1>0, HandlerFields, SMTT(40) DEF Open, StagingIInv, HandlersInOrder, UploadInOrder, TypeOK, Disk
<1>2. CASE puts[h].resume /\ disk.path = 0
  <2>1. PICK q \in Handler : q = Answered(puts[h], "5xx")
    BY <1>1, AnsweredFields, Zenon DEF Answers
  <2>2. q.pc = "release" /\ q.by = puts[h].by /\ q.inode = puts[h].inode /\ q.evicted = puts[h].evicted
    BY <1>1, <2>1, AnsweredFields, Zenon DEF Answers
  <2> QED BY <1>1, <1>2, <2>1, <2>2, Retire, Zenon DEF Open
<1>3. CASE puts[h].resume /\ disk.path # 0
  <2>1. PICK q \in Handler : q = [puts[h] EXCEPT !.pc = "prefix", !.inode = disk.path]
    <3>1. disk.path \in Nat BY <1>1, Zenon DEF Disk
    <3> QED BY <1>1, <3>1, Zenon DEF Handler
  <2>2. /\ q.pc = "prefix" /\ q.by = puts[h].by /\ q.inode = disk.path /\ q.evicted = puts[h].evicted
        /\ q.body = puts[h].body /\ q.resume = TRUE /\ q.written = puts[h].written /\ q.hash = puts[h].hash
    BY <1>1, <1>3, <2>1 DEF Handler
  <2>3. puts' = [puts EXCEPT ![h] = q] /\ UNCHANGED disk
    BY <1>3, <2>1, Zenon DEF Open
  <2>4. InRange(q)
    BY <1>1, <1>3, <2>2 DEF InRange, Writing, Filling
  <2>5. NoIntruder => InStep(q)
    BY <1>1, <1>3, <2>2, Zenon DEF InStep, Writing, Filling, PartialMatches, Uploading
  <2>6. faults' \in 0 .. env.faults /\ puts[h].pc \in Writing
    BY <1>0, <1>1, Zenon DEF TypeOK, Open, Writing
  <2> QED BY <1>1, <2>2, <2>3, <2>4, <2>5, <2>6, HolderMoves, ZenonT(60) DEF Open
<1>4. CASE ~puts[h].resume
  <2>1. PICK i \in Nat :
           /\ disk' \in Disk /\ disk'.path = i /\ disk'.tomb = disk.tomb /\ disk'.inode[i] = <<>>
           /\ i \in {disk.path, Len(disk.inode) + 1} /\ i \in 1 .. Len(disk'.inode)
           /\ Len(disk'.inode) \in Nat /\ Len(disk.inode) <= Len(disk'.inode)
           /\ \A j \in 1 .. Len(disk.inode) : j # i => disk'.inode[j] = disk.inode[j]
           /\ puts' = [puts EXCEPT ![h] = [puts[h] EXCEPT !.pc = "stream", !.inode = i]]
    <3>1. CASE disk.path = 0
      <4> DEFINE d == [disk EXCEPT !.inode = Append(disk.inode, <<>>), !.path = Len(disk.inode) + 1]
      <4>1. disk' = d /\ puts' = [puts EXCEPT ![h].pc = "stream", ![h].inode = disk'.path]
        BY <1>4, <3>1, Zenon DEF Open
      <4>2. disk.inode \in Seq(Seq(Block)) /\ <<>> \in Seq(Block) /\ disk.tomb \in Nat
        BY <1>1 DEF Disk
      <4>3. /\ Append(disk.inode, <<>>) \in Seq(Seq(Block))
            /\ Len(Append(disk.inode, <<>>)) = Len(disk.inode) + 1
            /\ Append(disk.inode, <<>>)[Len(disk.inode) + 1] = <<>>
            /\ \A j \in 1 .. Len(disk.inode) : Append(disk.inode, <<>>)[j] = disk.inode[j]
        BY <4>2
      <4>4. d \in Disk /\ d.path = Len(disk.inode) + 1 /\ d.tomb = disk.tomb /\ d.inode = Append(disk.inode, <<>>)
        <5>1. Len(disk.inode) + 1 \in Nat BY <1>1
        <5> QED BY <1>1, <4>2, <4>3, <5>1, ZenonT(60) DEF Disk
      <4>5. puts' = [puts EXCEPT ![h] = [puts[h] EXCEPT !.pc = "stream", !.inode = Len(disk.inode) + 1]]
        BY <1>1, <4>1, <4>4, Zenon
      <4> HIDE DEF d
      <4>6. /\ disk' \in Disk /\ disk'.path = Len(disk.inode) + 1 /\ disk'.tomb = disk.tomb
            /\ disk'.inode[Len(disk.inode) + 1] = <<>> /\ Len(disk'.inode) = Len(disk.inode) + 1
            /\ \A j \in 1 .. Len(disk.inode) : disk'.inode[j] = disk.inode[j]
        BY <4>1, <4>3, <4>4, Zenon
      <4>7. Len(disk.inode) + 1 \in Nat /\ Len(disk.inode) + 1 \in 1 .. Len(disk.inode) + 1
        <5>1. Len(disk.inode) \in Nat BY <1>1, ZenonT(60)
        <5> QED BY <5>1
      <4> WITNESS Len(disk.inode) + 1 \in Nat
      <4> QED BY <1>1, <4>5, <4>6, <4>7
    <3>2. CASE disk.path # 0
      <4>1. disk' = [disk EXCEPT !.inode[disk.path] = <<>>] /\ puts' = [puts EXCEPT ![h].pc = "stream", ![h].inode = disk.path]
        BY <1>4, <3>2, Zenon DEF Open
      <4>2. disk.path \in 1 .. Len(disk.inode) /\ <<>> \in Seq(Block)
        BY <1>1, <3>2
      <4>3. /\ disk' \in Disk /\ Len(disk'.inode) = Len(disk.inode) /\ disk'.inode[disk.path] = <<>>
            /\ disk'.path = disk.path /\ disk'.tomb = disk.tomb
            /\ \A j \in 1 .. Len(disk.inode) : j # disk.path => disk'.inode[j] = disk.inode[j]
        BY <1>0, <4>1, <4>2, InodeWritten, ZenonT(60)
      <4>4. puts' = [puts EXCEPT ![h] = [puts[h] EXCEPT !.pc = "stream", !.inode = disk.path]]
        BY <1>1, <4>1, ZenonT(60)
      <4>5. disk.path \in Nat /\ Len(disk.inode) <= Len(disk.inode)
        BY <1>1
      <4> QED BY <1>1, <4>2, <4>3, <4>4, <4>5, ZenonT(60)
    <3> QED BY <3>1, <3>2, ZenonT(60)
  <2>2. PICK q \in Handler : q = [puts[h] EXCEPT !.pc = "stream", !.inode = i]
    BY <1>1, <2>1, Zenon DEF Handler
  <2>3. /\ q.pc = "stream" /\ q.by = puts[h].by /\ q.inode = i /\ q.evicted = puts[h].evicted
        /\ q.body = puts[h].body /\ q.written = puts[h].written /\ q.hash = puts[h].hash
    BY <1>1, <2>2, ZenonT(60) DEF Handler
  <2>4. puts' = [puts EXCEPT ![h] = q] /\ puts[h].pc \in Writing
    BY <1>1, <2>1, <2>2, Zenon DEF Writing
  <2>5. TypeOK'
    <3>1. /\ row' \in Row \cup {None} /\ lock' \in [entry : 0 .. Len(puts), fire : SUBSET (DOMAIN puts)]
          /\ faults' \in 0 .. env.faults /\ made' \in 0 .. env.rows
      BY <1>0, Zenon DEF TypeOK, Open
    <3>2. disk'.path \in 0 .. Len(disk'.inode) /\ disk'.tomb \in 0 .. Len(disk'.inode)
      BY <1>1, <2>1
    <3> QED BY <1>0, <2>1, <2>4, <3>1, <3>2, MoveTyped, Zenon DEF Open
  <2>6. HandlersInOrder' /\ OneHandler' /\ UploadInOrder'
    <3>1. InRange(q)'
      BY <1>1, <2>1, <2>3 DEF InRange, Writing, Filling
    <3>2. NoIntruder => InStep(q)'
      <4> SUFFICES ASSUME NoIntruder PROVE InStep(q)'
        BY Zenon
      <4>1. ~IsComplete' /\ (Uploading' => Uploading /\ row'.sha = row.sha)
        BY <1>1, Zenon DEF InStep, Open, Uploading, IsComplete, Writing
      <4>2. ASSUME Uploading PROVE row'.sha = Sha(q.by)' /\ q.hash = <<>> /\ q.written = 0
        BY <1>1, <1>4, <2>3, <4>2, Zenon DEF InStep, Open, Writing, Sha
      <4> QED BY <2>1, <2>3, <4>1, <4>2, Zenon DEF InStep, Writing, Filling
    <3> QED BY <1>1, <2>1, <2>3, <2>4, <3>1, <3>2, HolderStep, ZenonT(60) DEF Open
  <2>7. CollectorInOrder' /\ InputsForever' /\ CompleteMeansContent' /\ DownloadInOrder'
    <3>1. \A j \in 1 .. Len(disk.inode) : j \notin {disk.path, puts[h].inode} => disk'.inode[j] = disk.inode[j]
      BY <1>1, <2>1
    <3>2. q.inode \in {puts[h].inode, disk.path, Len(disk.inode) + 1} /\ disk'.path \in {0, disk.path, Len(disk.inode) + 1}
      BY <2>1, <2>3, Zenon
    <3>3. UNCHANGED <<row, mission, gc, get, scan>>
      BY Zenon DEF Open
    <3> QED BY <2>1, <2>3, <2>4, <3>1, <3>2, <3>3, HolderWrites, Zenon
  <2> QED BY <2>5, <2>6, <2>7, Zenon DEF StagingIInv, StagingInv
<1> QED BY <1>0, <1>2, <1>3, <1>4, HandlerFields, Zenon

\* What a handler in its place knows.
LEMMA AtWork ==
  ASSUME StagingIInv, NEW h \in DOMAIN puts
  PROVE  /\ TypeOK /\ puts[h] \in Handler /\ InRange(puts[h]) /\ (NoIntruder => InStep(puts[h]))
         /\ disk \in Disk /\ disk.inode \in Seq(Seq(Block)) /\ Len(disk.inode) \in Nat
         /\ disk.path \in 0 .. Len(disk.inode) /\ disk.tomb \in 0 .. Len(disk.inode)
         /\ row \in Row \cup {None} /\ lock \in [entry : 0 .. Len(puts), fire : SUBSET (DOMAIN puts)]
         /\ faults \in 0 .. env.faults /\ made \in 0 .. env.rows
BY HandlerFields DEF StagingIInv, StagingInv, HandlersInOrder, UploadInOrder, TypeOK, Disk

\* A handler that answers and does nothing else.
LEMMA AnswerKeeps ==
  ASSUME StagingIInv, UNCHANGED env, NEW h \in DOMAIN puts, NEW a \in Answers,
         puts' = [puts EXCEPT ![h] = Answered(puts[h], a)], puts[h].pc \notin {"acquire", "gone"},
         UNCHANGED <<row, disk, lock, client, mission, gc, del, get, scan, made>>,
         faults' \in {faults} \cup 0 .. env.faults
  PROVE  StagingIInv'
<1>1. PICK q \in Handler : q = Answered(puts[h], a)
  BY AtWork, AnsweredFields, Zenon
<1>2. q.pc = "release" /\ q.by = puts[h].by /\ q.inode = puts[h].inode /\ q.evicted = puts[h].evicted
  BY <1>1, AtWork, AnsweredFields, ZenonT(60)
<1> QED BY <1>1, <1>2, Retire, ZenonT(60)

LEMMA HashPrefixKeeps ==
  ASSUME StagingIInv, UNCHANGED env, NEW h \in DOMAIN puts, HashPrefix(h)
  PROVE  StagingIInv'
<1>1. CASE puts[h].written # 0 /\ disk.path = 0
  BY <1>1, AnswerKeeps, ZenonT(60) DEF HashPrefix, Answers
<1>2. CASE puts[h].written = 0 \/ disk.path # 0
  <2>1. PICK f \in Seq(Block) :
           /\ f = IF puts[h].written = 0 THEN puts[h].hash ELSE disk.inode[disk.path]
           /\ puts' = [puts EXCEPT ![h] = [puts[h] EXCEPT !.pc = "stream", !.hash = f]]
    <3>1. CASE puts[h].written = 0
      <4>1. puts[h].hash \in Seq(Block)
        BY AtWork, HandlerFields, Zenon
      <4>2. [puts[h] EXCEPT !.pc = "stream", !.hash = puts[h].hash] = [puts[h] EXCEPT !.pc = "stream"]
        BY AtWork, Zenon DEF Handler
      <4>3. puts' = [puts EXCEPT ![h] = [puts[h] EXCEPT !.pc = "stream"]]
        BY <3>1, Zenon DEF HashPrefix
      <4> QED BY <3>1, <4>1, <4>2, <4>3, ZenonT(60)
    <3>2. CASE puts[h].written # 0
      <4>1. disk.inode[disk.path] \in Seq(Block)
        BY <1>2, <3>2, AtWork, SMTT(40)
      <4>2. puts' = [puts EXCEPT ![h] = [puts[h] EXCEPT !.pc = "stream", !.hash = disk.inode[disk.path]]]
        BY <1>2, <3>2, ZenonT(60) DEF HashPrefix
      <4> QED BY <3>2, <4>1, <4>2, ZenonT(60)
    <3> QED BY <3>1, <3>2, ZenonT(60)
  <2>2. PICK q \in Handler : q = [puts[h] EXCEPT !.pc = "stream", !.hash = f]
    BY AtWork, ZenonT(60) DEF Handler
  <2>3. /\ q.pc = "stream" /\ q.by = puts[h].by /\ q.inode = puts[h].inode /\ q.evicted = puts[h].evicted
        /\ q.body = puts[h].body /\ q.written = puts[h].written /\ q.hash = f
    BY <2>2, AtWork DEF Handler
  <2>4. puts[h].pc = "prefix" /\ puts[h].pc \in Writing
    BY Zenon DEF HashPrefix, Writing
  <2>5. InRange(q)
    BY <2>3, <2>4, AtWork, Zenon DEF InRange, Writing, Filling
  <2>6. NoIntruder => InStep(q)
    <3> SUFFICES ASSUME NoIntruder, Uploading PROVE disk.inode[q.inode] = q.hash /\ Len(q.hash) = q.written
      BY <2>3, <2>4, AtWork, Zenon DEF InStep, Writing, Filling
    <3>1. /\ disk.path = puts[h].inode /\ puts[h].hash = <<>> /\ Len(disk.inode[puts[h].inode]) = puts[h].written
          /\ puts[h].inode # 0
      BY <2>4, AtWork, Zenon DEF InStep, InRange, Writing, Filling
    <3>2. disk.inode[puts[h].inode] \in Seq(Block)
      BY <3>1, AtWork, SMTT(40)
    <3>3. CASE puts[h].written = 0
      BY <2>1, <2>3, <3>1, <3>2, <3>3
    <3>4. CASE puts[h].written # 0
      BY <2>1, <2>3, <3>1, <3>4, Zenon
    <3> QED BY <3>3, <3>4, Zenon
  <2>7. faults' \in 0 .. env.faults
    BY AtWork, Zenon DEF HashPrefix
  <2> QED BY <2>1, <2>2, <2>3, <2>4, <2>5, <2>6, <2>7, HolderMoves, ZenonT(60) DEF HashPrefix
<1> QED BY <1>1, <1>2, Zenon

\* What a write leaves is a file.
LEMMA WrittenIsFile ==
  ASSUME NEW f \in Seq(Block), NEW p, p.written \in Nat, NEW b \in Block
  PROVE  Written(f, p, b) \in Seq(Block) /\ (p.written = Len(f) => Written(f, p, b) = Append(f, b))
<1>1. Append(f, b) \in Seq(Block)
  OBVIOUS
<1> DEFINE n == IF p.written < Len(f) THEN Len(f) ELSE p.written + 1
           g == [i \in 1 .. n |-> IF i = p.written + 1 THEN b ELSE IF i <= Len(f) THEN f[i] ELSE None]
<1>2. n \in Nat
  OBVIOUS
<1>3. ASSUME NEW i \in 1 .. n PROVE g[i] \in Block
  <2>1. None \in Block BY Zenon DEF Block
  <2>2. i <= Len(f) => f[i] \in Block BY <1>2
  <2> QED BY <2>1, <2>2, Zenon
<1>4. g \in Seq(Block)
  <2> HIDE DEF n
  <2> QED BY <1>2, <1>3
<1> QED BY <1>1, <1>4, Zenon DEF Written

LEMMA ChunkKeeps ==
  ASSUME StagingIInv, UNCHANGED env, NEW h \in DOMAIN puts, Chunk(h)
  PROVE  StagingIInv'
<1> DEFINE b == <<Declared(h), puts[h].body + 1>>
           w == Written(disk.inode[puts[h].inode], puts[h], b)
<1>1. /\ puts[h].pc = "stream" /\ puts[h].pc \in Writing /\ puts[h].written < Total
      /\ disk' = [disk EXCEPT !.inode[puts[h].inode] = w]
      /\ puts' = [puts EXCEPT ![h].pc = "progress", ![h].hash = Append(@, b),
                              ![h].written = @ + 1, ![h].body = @ + 1]
  BY Zenon DEF Chunk, Writing
<1>0. UNCHANGED <<row, lock, client, mission, gc, del, get, scan, faults, made>>
  BY Zenon DEF Chunk
<1>2. /\ puts[h].written \in 0 .. Total /\ puts[h].body \in 0 .. Total /\ puts[h].body <= puts[h].written
      /\ puts[h].hash \in Seq(Block) /\ puts[h].inode \in 1 .. Len(disk.inode) /\ Declared(h) \in Contents
      /\ Total \in Nat
  <2>1. TypeOK /\ InRange(puts[h])
    BY AtWork, Zenon
  <2>2. /\ puts[h].written \in 0 .. Total /\ puts[h].body \in 0 .. Total /\ puts[h].hash \in Seq(Block)
        /\ puts[h].inode \in Nat /\ Declared(h) \in Contents /\ Total \in Nat /\ Len(disk.inode) \in Nat
    BY <2>1, AtWork, HandlerFields, Constants, Zenon
  <2>3. puts[h].body <= puts[h].written /\ puts[h].inode <= Len(disk.inode) /\ puts[h].inode # 0
    BY <1>1, <2>1, Zenon DEF InRange, Filling
  <2> QED BY <2>2, <2>3
<1>3. b \in Block
  BY <1>1, <1>2, SMTT(40) DEF Block
<1>4. /\ w \in Seq(Block)
      /\ puts[h].written = Len(disk.inode[puts[h].inode]) => w = Append(disk.inode[puts[h].inode], b)
  <2>1. disk.inode[puts[h].inode] \in Seq(Block) /\ puts[h].written \in Nat
    BY <1>2, AtWork, SMTT(40)
  <2> QED BY <1>3, <2>1, WrittenIsFile, ZenonT(60)
<1> HIDE DEF w, b
<1>5. /\ disk' \in Disk /\ Len(disk'.inode) = Len(disk.inode) /\ disk'.inode[puts[h].inode] = w
      /\ disk'.path = disk.path /\ disk'.tomb = disk.tomb
      /\ \A j \in 1 .. Len(disk.inode) : j # puts[h].inode => disk'.inode[j] = disk.inode[j]
  BY <1>1, <1>2, <1>4, AtWork, InodeWritten, ZenonT(60)
<1>6. PICK q \in Handler : q = [puts[h] EXCEPT !.pc = "progress", !.hash = Append(puts[h].hash, b),
                                              !.written = puts[h].written + 1, !.body = puts[h].body + 1]
  <2>1. /\ Append(puts[h].hash, b) \in Seq(Block) /\ puts[h].written + 1 \in 0 .. Total
        /\ puts[h].body + 1 \in 0 .. Total
    BY <1>1, <1>2, <1>3, SMTT(40)
  <2> QED BY <2>1, AtWork, ZenonT(60) DEF Handler
<1>7. /\ q.pc = "progress" /\ q.by = puts[h].by /\ q.inode = puts[h].inode /\ q.evicted = puts[h].evicted
      /\ q.body = puts[h].body + 1 /\ q.written = puts[h].written + 1 /\ q.hash = Append(puts[h].hash, b)
  BY <1>6, AtWork DEF Handler
<1>8. puts' = [puts EXCEPT ![h] = q]
  BY <1>1, <1>6, ZenonT(60)
<1>9. TypeOK'
  <2>1. /\ row' \in Row \cup {None} /\ lock' \in [entry : 0 .. Len(puts), fire : SUBSET (DOMAIN puts)]
        /\ faults' \in 0 .. env.faults /\ made' \in 0 .. env.rows /\ TypeOK
    BY <1>0, AtWork, Zenon
  <2>2. /\ disk'.path \in 0 .. Len(disk'.inode) /\ disk'.tomb \in 0 .. Len(disk'.inode)
        /\ Len(disk.inode) <= Len(disk'.inode)
    BY <1>5, AtWork
  <2> QED BY <1>0, <1>5, <1>8, <2>1, <2>2, MoveTyped, ZenonT(60)
<1>10. HandlersInOrder' /\ OneHandler' /\ UploadInOrder'
  <2>1. InRange(q)'
    <3>1. q.body <= q.written /\ q.inode <= Len(disk'.inode) /\ q.inode # 0
      BY <1>2, <1>5, <1>7, SMTT(40)
    <3> QED BY <1>7, <3>1, Zenon DEF InRange, Writing, Filling
  <2>2. NoIntruder => InStep(q)'
    <3> SUFFICES ASSUME NoIntruder PROVE InStep(q)'
      BY Zenon
    <3>1. ~IsComplete' /\ (Uploading' => Uploading)
      BY <1>0, <1>1, AtWork, Zenon DEF InStep, Uploading, IsComplete
    <3>2. ASSUME Uploading
          PROVE  /\ row'.sha = Sha(q.by)' /\ disk'.path = q.inode /\ disk'.inode[q.inode] = q.hash
                 /\ Len(q.hash) = q.written
      <4>1. /\ row.sha = Sha(puts[h].by) /\ disk.path = puts[h].inode /\ disk.inode[puts[h].inode] = puts[h].hash
            /\ Len(puts[h].hash) = puts[h].written
        BY <1>1, <3>2, AtWork, Zenon DEF InStep, Filling
      <4>2. w = q.hash /\ Len(q.hash) = q.written
        BY <1>2, <1>3, <1>4, <1>7, <4>1, SMTT(40)
      <4> QED BY <1>0, <1>5, <1>7, <4>1, <4>2, Zenon DEF Sha
    <3> QED BY <1>7, <3>1, <3>2, Zenon DEF InStep, Writing, Filling
  <2>3. Len(disk.inode) <= Len(disk'.inode)
    BY <1>5, AtWork
  <2> QED BY <1>0, <1>1, <1>5, <1>7, <1>8, <2>1, <2>2, <2>3, HolderStep, ZenonT(60)
<1>11. CollectorInOrder' /\ InputsForever' /\ CompleteMeansContent' /\ DownloadInOrder'
  <2>1. Len(disk.inode) <= Len(disk'.inode)
    BY <1>5, AtWork
  <2>2. \A j \in 1 .. Len(disk.inode) : j \notin {disk.path, puts[h].inode} => disk'.inode[j] = disk.inode[j]
    BY <1>5, Zenon
  <2>3. puts[h].pc \in Writing
    BY <1>1, Zenon
  <2> QED BY <1>0, <1>5, <1>7, <1>8, <2>1, <2>2, <2>3, HolderWrites, ZenonT(60)
<1> QED BY <1>9, <1>10, <1>11, Zenon DEF StagingIInv, StagingInv

\* A handler that writes marks its row: its progress, or that it is to go.
LEMMA HolderMarks ==
  ASSUME StagingIInv, UNCHANGED env, NEW h \in DOMAIN puts, NEW q \in Handler, puts' = [puts EXCEPT ![h] = q],
         puts[h].pc \in Writing, q.evicted = puts[h].evicted, q.inode = puts[h].inode,
         UNCHANGED <<disk, mission, gc, get, scan>>,
         row = None => row' = None,
         row # None => row' # None /\ row'.sha = row.sha /\ row'.state \in {row.state, "deleting"}
  PROVE  CollectorInOrder' /\ InputsForever' /\ CompleteMeansContent' /\ DownloadInOrder'
<1>0. TypeOK BY Zenon DEF StagingIInv, StagingInv
<1>1. /\ Len(puts') = Len(puts) /\ DOMAIN puts' = DOMAIN puts /\ puts'[h] = q
      /\ \A g \in DOMAIN puts : g # h => puts'[g] = puts[g]
      /\ NoIntruder' <=> NoIntruder
  BY <1>0, HandlerMoves, Zenon
<1>2. NoIntruder => ~IsComplete /\ ~IsComplete'
  BY Zenon DEF StagingIInv, UploadInOrder, InStep, IsComplete
<1>3. CollectorInOrder' /\ InputsForever' /\ CompleteMeansContent'
  BY <1>1, <1>2, Zenon DEF StagingIInv, CollectorInOrder, InputsForever, CompleteMeansContent, IsComplete, IsDeleting
<1>4. DownloadInOrder'
  <2> SUFFICES ASSUME NoIntruder PROVE DownloadInOrder'
    BY <1>1, Zenon DEF DownloadInOrder
  <2>1. get.pc # "open" /\ (get.pc = "serve" => disk.path # get.inode)
    BY Zenon DEF StagingIInv, DownloadInOrder, NobodyWrites
  <2> QED BY <1>1, <2>1, Zenon DEF StagingIInv, DownloadInOrder, Whole
<1> QED BY <1>3, <1>4, Zenon

LEMMA ProgressKeeps ==
  ASSUME StagingIInv, UNCHANGED env, NEW h \in DOMAIN puts, Progress(h)
  PROVE  StagingIInv'
<1>0. /\ puts[h].pc = "progress" /\ puts[h].pc \in Writing
      /\ UNCHANGED <<disk, lock, client, mission, gc, del, get, scan, made>>
  BY Zenon DEF Progress, Writing
<1>1. PICK q \in Handler :
         /\ puts' = [puts EXCEPT ![h] = q] /\ q.pc \in {"sync", "stream", "discard"}
         /\ q.by = puts[h].by /\ q.inode = puts[h].inode /\ q.evicted = puts[h].evicted
         /\ q.body = puts[h].body /\ q.written = puts[h].written /\ q.hash = puts[h].hash
  <2>1. CASE puts' = [puts EXCEPT ![h].pc = IF puts[h].written = Total THEN "sync" ELSE "stream"]
    <3>1. PICK pc \in {"sync", "stream"} : puts' = [puts EXCEPT ![h] = [puts[h] EXCEPT !.pc = pc]]
      BY <2>1, ZenonT(60)
    <3>2. PICK q \in Handler : q = [puts[h] EXCEPT !.pc = pc]
      BY AtWork, ZenonT(60) DEF Handler
    <3>3. /\ q.pc \in {"sync", "stream", "discard"}
          /\ q.by = puts[h].by /\ q.inode = puts[h].inode /\ q.evicted = puts[h].evicted
          /\ q.body = puts[h].body /\ q.written = puts[h].written /\ q.hash = puts[h].hash
      BY <3>2, AtWork DEF Handler
    <3> QED BY <3>1, <3>2, <3>3, ZenonT(60)
  <2>2. CASE puts' = [puts EXCEPT ![h] = [Answered(puts[h], "5xx") EXCEPT !.pc = "discard"]]
    <3>1. /\ Answered(puts[h], "5xx") \in Handler /\ Answered(puts[h], "5xx").by = puts[h].by
          /\ Answered(puts[h], "5xx").inode = puts[h].inode /\ Answered(puts[h], "5xx").evicted = puts[h].evicted
          /\ Answered(puts[h], "5xx").body = puts[h].body /\ Answered(puts[h], "5xx").written = puts[h].written
          /\ Answered(puts[h], "5xx").hash = puts[h].hash
      BY AtWork, AnsweredFields, Zenon DEF Answers
    <3>2. PICK q \in Handler : q = [Answered(puts[h], "5xx") EXCEPT !.pc = "discard"]
      BY <3>1, ZenonT(60) DEF Handler
    <3>3. /\ q.pc = "discard"
          /\ q.by = puts[h].by /\ q.inode = puts[h].inode /\ q.evicted = puts[h].evicted
          /\ q.body = puts[h].body /\ q.written = puts[h].written /\ q.hash = puts[h].hash
      BY <3>1, <3>2, Zenon DEF Handler
    <3> QED BY <2>2, <3>2, <3>3, Zenon
  <2> QED BY <2>1, <2>2, Zenon DEF Progress
<1>2. /\ row = None => row' = None
      /\ row # None => row' \in Row /\ row' # None /\ row'.sha = row.sha /\ row'.state = row.state
  <2>1. CASE row' = row
    BY <2>1, AtWork, Zenon
  <2>2. CASE Uploading /\ row' = [row EXCEPT !.got = puts[h].written, !.exp = "live"]
    <3>1. row \in Row /\ puts[h].written \in 0 .. Total /\ TypeOK
      BY <2>2, AtWork, HandlerFields, Zenon DEF Uploading
    <3>2. row' \in Row /\ row'.sha = row.sha /\ row'.state = row.state
      BY <2>2, <3>1, ZenonT(60) DEF Row
    <3> QED BY <2>2, <3>1, <3>2, Constants, Zenon DEF Uploading
  <2> QED BY <2>1, <2>2, Zenon DEF Progress, Uploading
<1>3. faults' \in 0 .. env.faults
  BY AtWork, Constants, SMTT(40) DEF Progress, Fault
<1>4. TypeOK'
  <2>1. /\ row' \in Row \cup {None} /\ lock' \in [entry : 0 .. Len(puts), fire : SUBSET (DOMAIN puts)]
        /\ made' \in 0 .. env.rows /\ TypeOK /\ disk' \in Disk
        /\ disk'.path \in 0 .. Len(disk'.inode) /\ disk'.tomb \in 0 .. Len(disk'.inode)
        /\ Len(disk.inode) <= Len(disk'.inode)
    BY <1>0, <1>2, AtWork
  <2> QED BY <1>0, <1>1, <1>3, <2>1, MoveTyped, ZenonT(60)
<1>5. HandlersInOrder' /\ OneHandler' /\ UploadInOrder'
  <2>1. InRange(q)'
    BY <1>0, <1>1, AtWork, Zenon DEF InRange, Writing, Filling
  <2>2. NoIntruder => InStep(q)'
    BY <1>0, <1>1, <1>2, AtWork, Zenon DEF InStep, Writing, Filling, Uploading, IsComplete, Sha
  <2>3. disk' \in Disk /\ Len(disk.inode) <= Len(disk'.inode)
    BY <1>0, AtWork
  <2> QED BY <1>0, <1>1, <2>1, <2>2, <2>3, HolderStep, ZenonT(60)
<1>6. CollectorInOrder' /\ InputsForever' /\ CompleteMeansContent' /\ DownloadInOrder'
  BY <1>0, <1>1, <1>2, HolderMarks, ZenonT(60)
<1> QED BY <1>4, <1>5, <1>6, Zenon DEF StagingIInv, StagingInv

LEMMA ReadFailsKeeps ==
  ASSUME StagingIInv, UNCHANGED env, NEW h \in DOMAIN puts, ReadFails(h)
  PROVE  StagingIInv'
<1>1. PICK q \in Handler : q = [puts[h] EXCEPT !.pc = "release"]
  BY AtWork, ZenonT(60) DEF Handler
<1>2. q.pc = "release" /\ q.by = puts[h].by /\ q.inode = puts[h].inode /\ q.evicted = puts[h].evicted
  BY <1>1, AtWork, Zenon DEF Handler
<1> QED BY <1>1, <1>2, Retire, ZenonT(60) DEF ReadFails

\* The partial file is given up: the handler has still to remove it.
LEMMA GiveUp ==
  ASSUME StagingIInv, UNCHANGED env, NEW h \in DOMAIN puts, puts[h].pc \in Filling,
         puts' = [puts EXCEPT ![h] = [Answered(puts[h], "4xx") EXCEPT !.pc = "discard"]],
         UNCHANGED <<row, disk, lock, client, mission, gc, del, get, scan, made>>, faults' \in 0 .. env.faults
  PROVE  StagingIInv'
<1>1. /\ Answered(puts[h], "4xx") \in Handler /\ Answered(puts[h], "4xx").by = puts[h].by
      /\ Answered(puts[h], "4xx").inode = puts[h].inode /\ Answered(puts[h], "4xx").evicted = puts[h].evicted
      /\ Answered(puts[h], "4xx").body = puts[h].body /\ Answered(puts[h], "4xx").written = puts[h].written
  BY AtWork, AnsweredFields, Zenon DEF Answers
<1>2. PICK q \in Handler : q = [Answered(puts[h], "4xx") EXCEPT !.pc = "discard"]
  BY <1>1, Zenon DEF Handler
<1>3. /\ q.pc = "discard" /\ q.by = puts[h].by /\ q.inode = puts[h].inode /\ q.evicted = puts[h].evicted
      /\ q.body = puts[h].body /\ q.written = puts[h].written
  BY <1>1, <1>2, Zenon DEF Handler
<1>4. puts[h].pc \in Writing /\ puts[h].pc \notin {"acquire", "gone"}
  BY Zenon DEF Writing, Filling
<1>5. InRange(q) /\ (NoIntruder => InStep(q))
  BY <1>3, <1>4, AtWork, Zenon DEF InRange, InStep, Writing, Filling
<1> QED BY <1>2, <1>3, <1>4, <1>5, HolderMoves, Zenon

LEMMA IdleDeadlineKeeps ==
  ASSUME StagingIInv, UNCHANGED env, NEW h \in DOMAIN puts, IdleDeadline(h)
  PROVE  StagingIInv'
<1>1. faults' \in 0 .. env.faults
  BY AtWork, Constants DEF IdleDeadline, Fault
<1>2. puts[h].pc \in Filling
  BY Zenon DEF IdleDeadline, Filling
<1> QED BY <1>1, <1>2, GiveUp, ZenonT(60) DEF IdleDeadline

\* Only a file with the declared hash is marked complete.
LEMMA SyncKeeps ==
  ASSUME StagingIInv, UNCHANGED env, NEW h \in DOMAIN puts, Sync(h)
  PROVE  StagingIInv'
<1>1. faults' \in 0 .. env.faults
  BY AtWork, Zenon DEF Sync
<1>2. puts[h].pc = "sync" /\ puts[h].pc \in Filling /\ puts[h].pc \in Writing
  BY Zenon DEF Sync, Filling, Writing
<1>3. CASE puts[h].hash # Content(Declared(h))
  BY <1>1, <1>2, <1>3, GiveUp, ZenonT(60) DEF Sync
<1>4. CASE puts[h].hash = Content(Declared(h))
  <2>1. PICK q \in Handler : q = [puts[h] EXCEPT !.pc = "complete"]
    BY AtWork, ZenonT(60) DEF Handler
  <2>2. /\ q.pc = "complete" /\ q.by = puts[h].by /\ q.inode = puts[h].inode /\ q.evicted = puts[h].evicted
        /\ q.body = puts[h].body /\ q.written = puts[h].written /\ q.hash = puts[h].hash
    BY <2>1, AtWork, Zenon DEF Handler
  <2>3. puts' = [puts EXCEPT ![h] = q]
    BY <1>4, <2>1, Zenon DEF Sync
  <2>4. InRange(q)
    BY <1>2, <2>2, AtWork, Zenon DEF InRange, Writing, Filling
  <2>5. NoIntruder => InStep(q)
    BY <1>2, <1>4, <2>2, AtWork, Zenon DEF InStep, Writing, Filling, Declared
  <2> QED BY <1>1, <1>2, <2>2, <2>3, <2>4, <2>5, HolderMoves, ZenonT(60) DEF Sync
<1> QED BY <1>3, <1>4, Zenon

\* MarkStagingComplete: the file that the handler has hashed is the one of the row.
LEMMA CompleteKeeps ==
  ASSUME StagingIInv, UNCHANGED env, NEW h \in DOMAIN puts, Complete(h)
  PROVE  StagingIInv'
<1>0. /\ puts[h].pc = "complete" /\ puts[h].pc \in Writing /\ puts[h].pc \in Filling
      /\ UNCHANGED <<disk, lock, client, mission, gc, del, get, scan, made>>
      /\ faults' \in 0 .. env.faults
  <2>1. Fault("dbError") => faults' \in 0 .. env.faults
    BY AtWork, Constants DEF Fault
  <2> QED BY <2>1, AtWork, Zenon DEF Complete, Writing, Filling
<1>1. CASE puts' = [puts EXCEPT ![h] = Answered(puts[h], "5xx")] /\ UNCHANGED row
  BY <1>0, <1>1, AnswerKeeps, Zenon DEF Answers
<1>2. CASE /\ Uploading /\ row' = [row EXCEPT !.state = "complete", !.got = Total, !.exp = "live"]
           /\ puts' = [puts EXCEPT ![h] = Answered(puts[h], "2xx")]
  <2>0. /\ row' = [row EXCEPT !.state = "complete", !.got = Total, !.exp = "live"]
        /\ puts' = [puts EXCEPT ![h] = Answered(puts[h], "2xx")]
    BY <1>2, Zenon
  <2>1. PICK q \in Handler : q = Answered(puts[h], "2xx")
    BY AtWork, AnsweredFields, Zenon DEF Answers
  <2>2. /\ q.pc = "release" /\ q.by = puts[h].by /\ q.inode = puts[h].inode /\ q.evicted = puts[h].evicted
    BY <2>1, AtWork, AnsweredFields, Zenon DEF Answers
  <2>3. puts' = [puts EXCEPT ![h] = q]
    BY <2>0, <2>1, Zenon
  <2>4. row' \in Row /\ row' # None /\ row'.sha = row.sha /\ row'.state = "complete"
    <3>1. row \in Row /\ Total \in Nat /\ None \notin Row
      BY <1>2, AtWork, Constants, Zenon DEF Uploading
    <3>2. row' \in Row /\ row'.sha = row.sha /\ row'.state = "complete"
      <4>1. Total \in 0 .. Total BY <3>1
      <4> QED BY <2>0, <3>1, <4>1, ZenonT(60) DEF Row
    <3> QED BY <3>1, <3>2, Zenon
  <2>5. TypeOK'
    <3>1. /\ row' \in Row \cup {None} /\ lock' \in [entry : 0 .. Len(puts), fire : SUBSET (DOMAIN puts)]
          /\ faults' \in 0 .. env.faults /\ made' \in 0 .. env.rows /\ TypeOK /\ disk' \in Disk
          /\ disk'.path \in 0 .. Len(disk'.inode) /\ disk'.tomb \in 0 .. Len(disk'.inode)
          /\ Len(disk.inode) <= Len(disk'.inode)
      BY <1>0, <2>4, AtWork
    <3> QED BY <1>0, <2>3, <3>1, MoveTyped, ZenonT(60)
  <2>6. HandlersInOrder' /\ OneHandler' /\ UploadInOrder'
    <3>1. InRange(q)' /\ InStep(q)'
      BY <1>0, <2>2, AtWork, Zenon DEF InRange, InStep, Writing, Filling
    <3>2. disk' \in Disk /\ Len(disk.inode) <= Len(disk'.inode)
      BY <1>0, AtWork
    <3> QED BY <1>0, <2>2, <2>3, <3>1, <3>2, HolderStep, ZenonT(60)
  <2>7. /\ DOMAIN puts' = DOMAIN puts /\ puts'[h] = q
        /\ \A g \in DOMAIN puts : g # h => puts'[g] = puts[g]
        /\ NoIntruder' <=> NoIntruder
    BY <1>0, <2>2, <2>3, AtWork, HandlerMoves, ZenonT(60)
  <2>8. CompleteMeansContent'
    <3> SUFFICES ASSUME NoIntruder PROVE Whole(disk.path, row.sha)'
      BY <2>7, Zenon DEF CompleteMeansContent
    <3>1. /\ row.sha = Sha(puts[h].by) /\ disk.path = puts[h].inode /\ puts[h].inode # 0
          /\ disk.inode[puts[h].inode] = puts[h].hash /\ puts[h].hash = Content(Sha(puts[h].by))
      BY <1>0, <1>2, AtWork, Zenon DEF InStep, InRange
    <3> QED BY <1>0, <2>4, <3>1, Zenon DEF Whole, Content
  <2>9. CollectorInOrder' /\ InputsForever'
    BY <1>0, <1>2, <2>7, Zenon DEF StagingIInv, CollectorInOrder, InputsForever, IsDeleting, IsComplete, Uploading
  <2>10. DownloadInOrder'
    <3> SUFFICES ASSUME NoIntruder PROVE DownloadInOrder'
      BY <2>7, Zenon DEF DownloadInOrder
    <3>1. get.pc # "open" /\ (get.pc = "serve" => disk.path # get.inode)
      BY <1>0, Zenon DEF StagingIInv, DownloadInOrder, NobodyWrites
    <3> QED BY <1>0, <2>2, <2>7, <3>1, Zenon DEF StagingIInv, DownloadInOrder, Whole, Writing
  <2> QED BY <2>5, <2>6, <2>8, <2>9, <2>10, Zenon DEF StagingIInv, StagingInv
<1> QED BY <1>1, <1>2, Zenon DEF Complete, Uploading

\* What MarkStagingDeleting does to the row.
LEMMA Marked ==
  ASSUME TypeOK, MarkDeleting
  PROVE  /\ row' \in Row \cup {None}
         /\ row = None => row' = None
         /\ row # None => row' \in Row /\ row' # None /\ row'.sha = row.sha /\ row'.got = row.got
                          /\ row'.state = "deleting"
<1>1. CASE row # None /\ row.state \in {"uploading", "complete"}
  <2>1. row \in Row /\ row' = [row EXCEPT !.state = "deleting"] /\ None \notin Row
    BY <1>1, Constants, Zenon DEF MarkDeleting, TypeOK
  <2>2. row' \in Row /\ row'.sha = row.sha /\ row'.got = row.got /\ row'.state = "deleting"
    BY <2>1, Zenon DEF Row
  <2> QED BY <1>1, <2>1, <2>2, Zenon
<1>2. CASE ~(row # None /\ row.state \in {"uploading", "complete"})
  BY <1>2, Zenon DEF MarkDeleting, TypeOK, Row
<1> QED BY <1>1, <1>2, Zenon

LEMMA DiscardKeeps ==
  ASSUME StagingIInv, UNCHANGED env, NEW h \in DOMAIN puts, Discard(h)
  PROVE  StagingIInv'
<1>0. /\ puts[h].pc = "discard" /\ puts[h].pc \in Writing /\ (MarkDeleting \/ UNCHANGED row)
      /\ UNCHANGED <<disk, lock, client, mission, gc, del, get, scan, made>> /\ faults' \in 0 .. env.faults
  <2>1. Fault("dbError") => faults' \in 0 .. env.faults
    BY AtWork, Constants DEF Fault
  <2> QED BY <2>1, AtWork, Zenon DEF Discard, Writing
<1>1. PICK q \in Handler : q = [puts[h] EXCEPT !.pc = "remove"]
  BY AtWork, ZenonT(60) DEF Handler
<1>2. /\ q.pc = "remove" /\ q.by = puts[h].by /\ q.inode = puts[h].inode /\ q.evicted = puts[h].evicted
      /\ q.body = puts[h].body /\ q.written = puts[h].written
  BY <1>1, AtWork, Zenon DEF Handler
<1>3. puts' = [puts EXCEPT ![h] = q]
  BY <1>1, Zenon DEF Discard
<1>4. /\ row' \in Row \cup {None}
      /\ row = None => row' = None
      /\ row # None => row' # None /\ row'.sha = row.sha /\ row'.state \in {row.state, "deleting"}
  <2>1. CASE MarkDeleting BY <2>1, AtWork, Marked, Zenon
  <2>2. CASE UNCHANGED row BY <2>2, AtWork, Zenon
  <2> QED BY <1>0, <2>1, <2>2, Zenon
<1>5. TypeOK'
  <2>1. /\ lock' \in [entry : 0 .. Len(puts), fire : SUBSET (DOMAIN puts)]
        /\ faults' \in 0 .. env.faults /\ made' \in 0 .. env.rows /\ TypeOK /\ disk' \in Disk
        /\ disk'.path \in 0 .. Len(disk'.inode) /\ disk'.tomb \in 0 .. Len(disk'.inode)
        /\ Len(disk.inode) <= Len(disk'.inode)
    BY <1>0, AtWork
  <2> QED BY <1>0, <1>3, <1>4, <2>1, MoveTyped, ZenonT(60)
<1>6. HandlersInOrder' /\ OneHandler' /\ UploadInOrder'
  <2>1. InRange(q)'
    BY <1>0, <1>2, AtWork, Zenon DEF InRange, Writing, Filling
  <2>2. NoIntruder => InStep(q)'
    BY <1>0, <1>2, <1>4, AtWork, Zenon DEF InStep, Writing, Filling, Uploading, IsComplete, Sha
  <2>3. disk' \in Disk /\ Len(disk.inode) <= Len(disk'.inode)
    BY <1>0, AtWork
  <2> QED BY <1>0, <1>2, <1>3, <2>1, <2>2, <2>3, HolderStep, Zenon
<1>7. CollectorInOrder' /\ InputsForever' /\ CompleteMeansContent' /\ DownloadInOrder'
  BY <1>0, <1>2, <1>3, <1>4, HolderMarks, ZenonT(60)
<1> QED BY <1>5, <1>6, <1>7, Zenon DEF StagingIInv, StagingInv

LEMMA RemoveKeeps ==
  ASSUME StagingIInv, UNCHANGED env, NEW h \in DOMAIN puts, Remove(h)
  PROVE  StagingIInv'
<1>0. /\ puts[h].pc = "remove" /\ puts[h].pc \in Writing /\ disk' = [disk EXCEPT !.path = 0]
      /\ UNCHANGED <<row, lock, client, mission, gc, del, get, scan, faults, made>>
  BY Zenon DEF Remove, Writing
<1>1. PICK q \in Handler : q = [puts[h] EXCEPT !.pc = "release"]
  BY AtWork, Zenon DEF Handler
<1>2. /\ q.pc = "release" /\ q.by = puts[h].by /\ q.inode = puts[h].inode /\ q.evicted = puts[h].evicted
  BY <1>1, AtWork, Zenon DEF Handler
<1>3. puts' = [puts EXCEPT ![h] = q]
  BY <1>1, Zenon DEF Remove
<1>4. /\ disk' \in Disk /\ disk'.inode = disk.inode /\ disk'.path = 0 /\ disk'.tomb = disk.tomb
      /\ Len(disk.inode) <= Len(disk'.inode)
  BY <1>0, AtWork, SMTT(40) DEF Disk
<1>5. TypeOK'
  <2>1. /\ row' \in Row \cup {None} /\ lock' \in [entry : 0 .. Len(puts), fire : SUBSET (DOMAIN puts)]
        /\ faults' \in 0 .. env.faults /\ made' \in 0 .. env.rows /\ TypeOK
        /\ disk'.path \in 0 .. Len(disk'.inode) /\ disk'.tomb \in 0 .. Len(disk'.inode)
    BY <1>0, <1>4, AtWork
  <2> QED BY <1>0, <1>3, <1>4, <2>1, MoveTyped, ZenonT(60)
<1>6. HandlersInOrder' /\ OneHandler' /\ UploadInOrder'
  <2>1. InRange(q)' /\ InStep(q)'
    BY <1>2, <1>4, AtWork, Zenon DEF InRange, InStep, Writing, Filling
  <2> QED BY <1>0, <1>2, <1>3, <1>4, <2>1, HolderStep, ZenonT(60)
<1>7. CollectorInOrder' /\ InputsForever' /\ CompleteMeansContent' /\ DownloadInOrder'
  BY <1>0, <1>2, <1>3, <1>4, HolderWrites, ZenonT(60)
<1> QED BY <1>5, <1>6, <1>7, Zenon DEF StagingIInv, StagingInv

LEMMA ReleaseKeeps ==
  ASSUME StagingIInv, UNCHANGED env, NEW h \in DOMAIN puts, Release(h)
  PROVE  StagingIInv'
<1>1. PICK q \in Handler : q = Gone(puts[h])
  BY AtWork, Constants, GoneFields
<1>2. q.pc = "gone" /\ q.by = puts[h].by /\ q.inode = 0 /\ q.evicted = puts[h].evicted
  BY <1>1, AtWork, Constants, GoneFields, SMTT(40)
<1> QED BY <1>1, <1>2, Retire, ZenonT(60) DEF Release

\* The client loses its connection.
LEMMA DisconnectKeeps ==
  ASSUME StagingIInv, UNCHANGED env, NEW h \in DOMAIN puts, Disconnect(h)
  PROVE  StagingIInv'
<1>1. PICK q \in Handler : q = [puts[h] EXCEPT !.answer = "broken"]
  BY AtWork, ZenonT(60) DEF Handler
<1>2. /\ q.by = puts[h].by /\ q.evicted = puts[h].evicted /\ q.pc = puts[h].pc /\ q.start = puts[h].start
      /\ q.body = puts[h].body /\ q.resume = puts[h].resume /\ q.written = puts[h].written
      /\ q.hash = puts[h].hash /\ q.inode = puts[h].inode
  BY <1>1, AtWork, Zenon DEF Handler
<1>3. puts' = [puts EXCEPT ![h] = q] /\ UNCHANGED <<row, disk, lock, client, mission, gc, del, get, scan, made>>
  BY <1>1, Zenon DEF Disconnect
<1>4. faults' \in 0 .. env.faults
  BY AtWork, Constants, SMTT(40) DEF Disconnect, Fault
<1>5. /\ row' \in Row \cup {None} /\ RowAlike
      /\ lock' \in [entry : 0 .. Len(puts), fire : SUBSET (DOMAIN puts)] /\ lock'.entry = lock.entry
  BY <1>3, AtWork, Zenon DEF RowAlike
<1> QED BY <1>2, <1>3, <1>4, <1>5, Flag, ZenonT(60)

\* The callback of an eviction.
LEMMA OnIdleKeeps ==
  ASSUME StagingIInv, UNCHANGED env, NEW h \in DOMAIN puts, OnIdle(h)
  PROVE  StagingIInv'
<1>1. PICK q \in Handler : q = [puts[h] EXCEPT !.cancelled = TRUE]
  BY AtWork, ZenonT(60) DEF Handler
<1>2. /\ q.by = puts[h].by /\ q.evicted = puts[h].evicted /\ q.pc = puts[h].pc /\ q.start = puts[h].start
      /\ q.body = puts[h].body /\ q.resume = puts[h].resume /\ q.written = puts[h].written
      /\ q.hash = puts[h].hash /\ q.inode = puts[h].inode
  BY <1>1, AtWork, Zenon DEF Handler
<1>3. puts' = [puts EXCEPT ![h] = q] /\ UNCHANGED <<disk, client, mission, gc, del, get, scan, faults, made>>
  BY <1>1, Zenon DEF OnIdle
<1>4. faults' \in 0 .. env.faults
  BY <1>3, AtWork, Zenon
<1>5. row' \in Row \cup {None} /\ RowAlike
  <2>1. CASE Uploading
    <3>1. row \in Row /\ row' = [row EXCEPT !.exp = "past"] /\ None \notin Row
      BY <2>1, AtWork, Constants, Zenon DEF OnIdle, Uploading
    <3>2. row' \in Row /\ row'.state = row.state /\ row'.sha = row.sha
      BY <3>1, Zenon DEF Row
    <3> QED BY <2>1, <3>1, <3>2, Zenon DEF RowAlike, Uploading
  <2>2. CASE ~Uploading
    BY <2>2, AtWork, Zenon DEF OnIdle, Uploading, RowAlike
  <2> QED BY <2>1, <2>2, Zenon
<1>6. lock' \in [entry : 0 .. Len(puts), fire : SUBSET (DOMAIN puts)] /\ lock'.entry = lock.entry
  <2>1. lock' = [lock EXCEPT !.fire = @ \ {h}]
    BY Zenon DEF OnIdle
  <2> QED BY <2>1, AtWork, Zenon
<1> QED BY <1>2, <1>3, <1>4, <1>5, <1>6, Flag, ZenonT(60)

\* The janitor evicts a handler: from now on the invariants of the upload do not apply.
LEMMA SweepKeeps ==
  ASSUME StagingIInv, UNCHANGED env, Sweep
  PROVE  StagingIInv'
<1>0. TypeOK BY Zenon DEF StagingIInv, StagingInv
<1> DEFINE h == lock.entry
<1>1. h \in DOMAIN puts
  BY <1>0 DEF TypeOK, Sweep
<1>2. /\ puts' = [puts EXCEPT ![h].evicted = TRUE] /\ lock' = [entry |-> 0, fire |-> lock.fire \cup {h}]
      /\ UNCHANGED <<row, disk, client, mission, gc, del, get, scan, made>>
  BY Zenon DEF Sweep
<1>3. lock' \in [entry : 0 .. Len(puts), fire : SUBSET (DOMAIN puts)]
  BY <1>0, <1>1, <1>2 DEF TypeOK
<1>4. faults' \in 0 .. env.faults
  <2>1. faults \in 0 .. env.faults /\ faults < env.faults /\ faults' = faults + 1
    BY <1>0, Zenon DEF TypeOK, Sweep, Fault
  <2>2. env.faults \in Nat
    BY <1>0, Constants, Zenon
  <2> QED BY <2>1, <2>2
<1> HIDE DEF h
<1>5. PICK q \in Handler : q = [puts[h] EXCEPT !.evicted = TRUE]
  BY <1>1, AtWork, ZenonT(60) DEF Handler
<1>6. /\ q.by = puts[h].by /\ q.evicted = TRUE /\ q.pc = puts[h].pc /\ q.start = puts[h].start
      /\ q.body = puts[h].body /\ q.resume = puts[h].resume /\ q.written = puts[h].written
      /\ q.hash = puts[h].hash /\ q.inode = puts[h].inode
  BY <1>1, <1>5, AtWork, Zenon DEF Handler
<1>7. puts' = [puts EXCEPT ![h] = q]
  BY <1>2, <1>5, Zenon
<1>8. /\ Len(puts') = Len(puts) /\ DOMAIN puts' = DOMAIN puts /\ puts'[h] = q
      /\ \A g \in DOMAIN puts : g # h => puts'[g] = puts[g]
  BY <1>0, <1>1, <1>7, HandlerMoves, Zenon
<1>9. ~NoIntruder'
  BY <1>1, <1>6, <1>8, Zenon DEF NoIntruder
<1>10. TypeOK'
  <2>1. /\ row' \in Row \cup {None}  /\ made' \in 0 .. env.rows /\ disk' \in Disk
        /\ disk'.path \in 0 .. Len(disk'.inode) /\ disk'.tomb \in 0 .. Len(disk'.inode)
        /\ Len(disk.inode) <= Len(disk'.inode)
    BY <1>0, <1>2, SMTT(40) DEF TypeOK, Disk
  <2> QED BY <1>0, <1>1, <1>2, <1>3, <1>4, <1>7, <2>1, MoveTyped, Zenon
<1>11. HandlersInOrder'
  <2>1. InRange(q)'
    BY <1>1, <1>2, <1>6, AtWork, Zenon DEF InRange
  <2> QED BY <1>2, <1>8, <2>1, SameSets, SMTT(40) DEF StagingIInv, HandlersInOrder, InRange
<1>12. CollectorInOrder'
  BY <1>1, <1>2, <1>6, <1>8, SameSets, Zenon DEF StagingIInv, CollectorInOrder, IsDeleting
<1>13. OneHandler' /\ UploadInOrder' /\ InputsForever' /\ CompleteMeansContent' /\ DownloadInOrder'
  BY <1>9, Zenon DEF OneHandler, UploadInOrder, InputsForever, CompleteMeansContent, DownloadInOrder
<1> QED BY <1>10, <1>11, <1>12, <1>13, Zenon DEF StagingIInv, StagingInv

-----------------------------------------------------------------------------
(* The steps of a client.                                                  *)

\* A client that has not ended moves.
LEMMA ClientMoves ==
  ASSUME StagingIInv, UNCHANGED env, NEW k \in Clients, NEW c \in Client,
         client' = [client EXCEPT ![k] = c], client[k].pc \notin {"ok", "failed"},
         c.body <= c.start, c.pc # "wait", c.req = client[k].req,
         UNCHANGED <<row, disk, puts, lock, mission, gc, del, get, scan, faults, made>>
  PROVE  StagingIInv'
<1>0. TypeOK BY Zenon DEF StagingIInv, StagingInv
<1>1. Clients' = Clients /\ Client' = Client /\ Handler' = Handler
  BY SameSets, Zenon
<1>2. client' \in [Clients -> Client] /\ \A j \in Clients : client'[j] = IF j = k THEN c ELSE client[j]
  BY <1>0, Zenon DEF TypeOK
<1>3. TypeOK'
  BY <1>0, <1>1, <1>2 DEF TypeOK
<1>4. HandlersInOrder'
  BY <1>1, <1>2, Zenon DEF StagingIInv, HandlersInOrder, InRange
<1>5. OneHandler' /\ CollectorInOrder' /\ InputsForever' /\ CompleteMeansContent'
  BY Zenon DEF StagingIInv, StagingInv, OneHandler, CollectorInOrder, InputsForever, CompleteMeansContent, NoIntruder,
     IsComplete, IsDeleting, Whole
<1>6. UploadInOrder'
  BY ZenonT(60) DEF StagingIInv, UploadInOrder, InStep, NoIntruder, Sha, Uploading, IsComplete, PartialMatches
<1>8. DownloadInOrder'
  BY Zenon DEF StagingIInv, DownloadInOrder, NoIntruder, NobodyWrites, IsComplete, IsDeleting, Whole
<1> QED BY <1>3, <1>4, <1>5, <1>6, <1>8, Zenon DEF StagingIInv, StagingInv

\* The fields of a client.
LEMMA ClientFields ==
  ASSUME StagingIInv, NEW k \in Clients
  PROVE  /\ TypeOK /\ client[k] \in Client /\ client[k].tries \in 0 .. MaxTries /\ client[k].body \in 0 .. Total
         /\ client[k].start \in 0 .. Total - 1 /\ client[k].req \in 0 .. Len(puts)
         /\ client[k].body <= client[k].start /\ (client[k].pc = "wait" => client[k].req # 0)
         /\ row \in Row \cup {None} /\ Len(puts) \in Nat /\ client \in [Clients -> Client]
<1>1. TypeOK /\ HandlersInOrder
  BY Zenon DEF StagingIInv, StagingInv
<1>2. client \in [Clients -> Client] /\ client[k] \in Client /\ client[k].req \in 0 .. Len(puts) /\ row \in Row \cup {None}
  BY <1>1, Zenon DEF TypeOK
<1>3. puts \in Seq(Handler) /\ Len(puts) \in Nat
  BY <1>1 DEF TypeOK
<1>4. client[k].body <= client[k].start /\ (client[k].pc = "wait" => client[k].req # 0)
  BY <1>1, Zenon DEF HandlersInOrder
<1>5. client[k].tries \in 0 .. MaxTries /\ client[k].body \in 0 .. Total /\ client[k].start \in 0 .. Total - 1
  BY <1>2, Zenon DEF Client
<1> QED BY <1>1, <1>2, <1>3, <1>4, <1>5, Zenon

LEMMA ProbeKeeps ==
  ASSUME StagingIInv, UNCHANGED env, NEW k \in Clients, Probe(k)
  PROVE  StagingIInv'
<1>1. ASSUME NEW s \in {"put", "failed", "ok"}, client' = [client EXCEPT ![k] = [@ EXCEPT !.pc = s]]
      PROVE  StagingIInv'
  <2>1. PICK c \in Client : c = [client[k] EXCEPT !.pc = s]
    BY ClientFields, ZenonT(60) DEF Client
  <2>2. c.pc = s /\ c.body = client[k].body /\ c.start = client[k].start /\ c.req = client[k].req
    BY <2>1, ClientFields, Zenon DEF Client
  <2>3. client' = [client EXCEPT ![k] = c]
    BY <1>1, <2>1, Zenon
  <2> QED BY <2>2, <2>3, ClientFields, ClientMoves, ZenonT(60) DEF Probe
<1>2. ASSUME row # None, row.got < Total,
             client' = [client EXCEPT ![k] = [@ EXCEPT !.pc = "put", !.start = row.got, !.body = row.got]]
      PROVE  StagingIInv'
  <2>1. row.got \in 0 .. Total - 1 /\ row.got \in 0 .. Total
    <3>1. Total \in Nat /\ row.got \in 0 .. Total
      BY <1>2, ClientFields, Constants, Zenon DEF Row
    <3> QED BY <1>2, <3>1
  <2>2. PICK c \in Client : c = [client[k] EXCEPT !.pc = "put", !.start = row.got, !.body = row.got]
    BY <2>1, ClientFields, ZenonT(60) DEF Client
  <2>3. c.pc = "put" /\ c.body = row.got /\ c.start = row.got /\ c.req = client[k].req
    BY <2>2, ClientFields, Zenon DEF Client
  <2>4. client' = [client EXCEPT ![k] = c]
    BY <1>2, <2>2, Zenon
  <2>5. c.body <= c.start
    BY <2>1, <2>3
  <2> QED BY <2>3, <2>4, <2>5, ClientFields, ClientMoves, Zenon DEF Probe
<1>3. CASE row = None \/ row.state = "deleting"
  BY <1>1, <1>3, Zenon DEF Probe
<1>4. CASE row # None /\ row.state # "deleting" /\ (row.sha # Sha(k) \/ (row.state # "complete" /\ row.got >= Total))
  BY <1>1, <1>4, ZenonT(60) DEF Probe
<1>5. CASE row # None /\ row.state = "complete" /\ row.sha = Sha(k)
  BY <1>1, <1>5, Zenon DEF Probe
<1>6. CASE row # None /\ row.state \notin {"complete", "deleting"} /\ row.sha = Sha(k) /\ ~(row.got >= Total)
  <2>1. row.got \in Nat /\ Total \in Nat
    BY <1>6, ClientFields, Constants DEF Row
  <2>2. row.got < Total
    BY <1>6, <2>1
  <2>3. client' = [client EXCEPT ![k] = [@ EXCEPT !.pc = "put", !.start = row.got, !.body = row.got]]
    BY <1>6, ZenonT(60) DEF Probe
  <2> QED BY <1>2, <1>6, <2>2, <2>3, Zenon
<1> QED BY <1>3, <1>4, <1>5, <1>6, Zenon

LEMMA ReceiveAnswerKeeps ==
  ASSUME StagingIInv, UNCHANGED env, NEW k \in Clients, ReceiveAnswer(k)
  PROVE  StagingIInv'
<1>1. ASSUME NEW s \in {"failed", "ok"}, client' = [client EXCEPT ![k] = [@ EXCEPT !.pc = s]]
      PROVE  StagingIInv'
  <2>1. PICK c \in Client : c = [client[k] EXCEPT !.pc = s]
    BY ClientFields, ZenonT(60) DEF Client
  <2>2. c.pc = s /\ c.body = client[k].body /\ c.start = client[k].start /\ c.req = client[k].req
    BY <2>1, ClientFields, Zenon DEF Client
  <2>3. client' = [client EXCEPT ![k] = c]
    BY <1>1, <2>1, Zenon
  <2> QED BY <2>2, <2>3, ClientFields, ClientMoves, ZenonT(60) DEF ReceiveAnswer
<1>2. ASSUME ~(client[k].tries + 1 >= MaxTries),
             client' = [client EXCEPT ![k] =
                          [client[k] EXCEPT !.pc = "put", !.tries = client[k].tries + 1, !.body = 0]]
      PROVE  StagingIInv'
  <2>1. client[k].tries + 1 \in 0 .. MaxTries /\ 0 \in 0 .. Total /\ 0 <= client[k].start
    BY <1>2, ClientFields, Constants
  <2>2. PICK c \in Client : c = [client[k] EXCEPT !.pc = "put", !.tries = client[k].tries + 1, !.body = 0]
    BY <2>1, ClientFields, ZenonT(60) DEF Client
  <2>3. c.pc = "put" /\ c.body = 0 /\ c.start = client[k].start /\ c.req = client[k].req
    BY <2>2, ClientFields, Zenon DEF Client
  <2>4. client' = [client EXCEPT ![k] = c]
    BY <1>2, <2>2, Zenon
  <2> QED BY <2>1, <2>3, <2>4, ClientFields, ClientMoves, Zenon DEF ReceiveAnswer
<1> DEFINE a == puts[client[k].req].answer
<1>3. client' = [client EXCEPT ![k] =
        IF a = "2xx" THEN [@ EXCEPT !.pc = "ok"]
        ELSE IF a = "4xx" \/ client[k].tries + 1 >= MaxTries THEN [@ EXCEPT !.pc = "failed"]
        ELSE [@ EXCEPT !.pc = "put", !.tries = client[k].tries + 1, !.body = 0]]
  BY Zenon DEF ReceiveAnswer
<1> HIDE DEF a
<1>4. CASE a = "2xx"
  BY <1>1, <1>3, <1>4, Zenon
<1>5. CASE a # "2xx" /\ (a = "4xx" \/ client[k].tries + 1 >= MaxTries)
  BY <1>1, <1>3, <1>5, ZenonT(60)
<1>6. CASE a # "2xx" /\ ~(a = "4xx" \/ client[k].tries + 1 >= MaxTries)
  BY <1>2, <1>3, <1>6, Zenon
<1> QED BY <1>4, <1>5, <1>6, Zenon

\* A new request.
LEMMA SendPutKeeps ==
  ASSUME StagingIInv, UNCHANGED env, NEW k \in Clients, SendPut(k)
  PROVE  StagingIInv'
<1>0. TypeOK BY Zenon DEF StagingIInv, StagingInv
<1>1. Clients' = Clients /\ Client' = Client /\ Handler' = Handler
  BY SameSets, Zenon
<1>2. PICK q \in Handler : q = [by |-> k, start |-> client[k].start, body |-> client[k].body,
                                pc |-> "acquire", resume |-> FALSE, written |-> 0, hash |-> <<>>,
                                inode |-> 0, cancelled |-> FALSE, evicted |-> FALSE, answer |-> None]
  <2>1. 0 \in 0 .. Total /\ <<>> \in Seq(Block)
    BY <1>0, Constants
  <2> QED BY <2>1, ClientFields, ZenonT(60) DEF Handler
<1>3. puts' = Append(puts, q) /\ puts \in Seq(Handler) /\ Len(puts) \in Nat /\ Len(puts) < env.puts /\ env.puts \in Nat
  BY <1>0, <1>2, Constants, SMTT(40) DEF SendPut, TypeOK
<1>4. /\ puts' \in Seq(Handler) /\ Len(puts') = Len(puts) + 1 /\ DOMAIN puts' = 1 .. Len(puts) + 1
      /\ puts'[Len(puts) + 1] = q /\ \A g \in DOMAIN puts : puts'[g] = puts[g] /\ DOMAIN puts = 1 .. Len(puts)
  BY <1>3
<1>5. \A g \in DOMAIN puts' : (g \in DOMAIN puts /\ puts'[g] = puts[g]) \/ (g = Len(puts) + 1 /\ puts'[g] = q)
  BY <1>3, <1>4
<1>6. \A g \in DOMAIN puts : g \in DOMAIN puts' /\ puts'[g] = puts[g]
  BY <1>3, <1>4
<1>7. NoIntruder' <=> NoIntruder
  BY <1>2, <1>5, <1>6 DEF NoIntruder, SendPut
<1>8. PICK c \in Client : c = [client[k] EXCEPT !.pc = "wait", !.req = Len(puts) + 1]
  <2>1. Len(puts) + 1 \in 0 .. env.puts
    BY <1>3
  <2> QED BY <2>1, ClientFields, Zenon DEF Client
<1>9. c.pc = "wait" /\ c.req = Len(puts) + 1 /\ c.body <= c.start
  BY <1>8, ClientFields, Zenon DEF Client
<1>10. client' \in [Clients -> Client] /\ \A j \in Clients : client'[j] = IF j = k THEN c ELSE client[j]
  BY <1>0, <1>8, Zenon DEF TypeOK, SendPut
<1>11. TypeOK'
  <2>1. \A j \in Clients : client'[j].req \in 0 .. Len(puts')
    <3> SUFFICES ASSUME NEW j \in Clients PROVE client'[j].req \in 0 .. Len(puts')
      BY Zenon
    <3>1. client[j].req \in 0 .. Len(puts)
      BY ClientFields, Zenon
    <3> QED BY <1>3, <1>4, <1>9, <1>10, <3>1
  <2>2. lock' \in [entry : 0 .. Len(puts'), fire : SUBSET (DOMAIN puts')]
    <3>1. lock.entry \in 0 .. Len(puts) /\ lock.fire \subseteq DOMAIN puts
      BY <1>0, Zenon DEF TypeOK
    <3>2. lock.entry \in 0 .. Len(puts') /\ lock.fire \subseteq DOMAIN puts'
      BY <1>3, <1>4, <1>6, <3>1
    <3> QED BY <1>0, <3>2, Zenon DEF TypeOK, SendPut
  <2> QED BY <1>0, <1>1, <1>4, <1>10, <2>1, <2>2, SMTT(40) DEF TypeOK, SendPut
<1>12. HandlersInOrder'
  <2>1. Len(puts') <= env.puts
    BY <1>3, <1>4
  <2>2. \A j \in Clients : client'[j].body <= client'[j].start /\ (client'[j].pc = "wait" => client'[j].req # 0)
    BY <1>3, <1>9, <1>10, SMTT(40) DEF StagingIInv, HandlersInOrder
  <2>3. InRange(q)'
    <3>1. Len(disk'.inode) \in Nat
      BY <1>11 DEF TypeOK, Disk
    <3> QED BY <1>2, <3>1, ClientFields DEF InRange, Writing, Filling
  <2>4. ASSUME NEW g \in DOMAIN puts PROVE InRange(puts[g])'
    BY <1>6, Zenon DEF StagingIInv, HandlersInOrder, InRange, SendPut
  <2>5. ASSUME NEW g \in DOMAIN puts' PROVE InRange(puts[g])'
    BY <1>5, <2>3, <2>4, Zenon
  <2> QED BY <1>1, <2>1, <2>2, <2>5, Zenon DEF HandlersInOrder
<1>13. OneHandler'
  BY <1>2, <1>5, <1>7 DEF StagingIInv, OneHandler, SendPut
<1>14. UploadInOrder'
  <2> SUFFICES ASSUME NoIntruder, NEW g \in DOMAIN puts' PROVE InStep(puts[g])'
    BY <1>7, Zenon DEF UploadInOrder
  <2>1. CASE g \in DOMAIN puts /\ puts'[g] = puts[g]
    BY <2>1, SMTT(40) DEF StagingIInv, UploadInOrder, InStep, Sha, Uploading, IsComplete, PartialMatches, SendPut
  <2>2. CASE puts'[g] = q
    BY <1>2, <2>2 DEF InStep, Writing, Filling
  <2> QED BY <1>5, <2>1, <2>2, Zenon
<1>15. CollectorInOrder' /\ InputsForever' /\ CompleteMeansContent'
  BY <1>7, Zenon DEF StagingIInv, StagingInv, CollectorInOrder, InputsForever, CompleteMeansContent, IsComplete,
     IsDeleting, Whole, SendPut
<1>17. NobodyWrites => NobodyWrites'
  BY <1>2, <1>5, SMTT(40) DEF NobodyWrites, Writing
<1>18. DownloadInOrder'
  BY <1>2, <1>5, <1>7, <1>17, SMTT(40) DEF StagingIInv, DownloadInOrder, IsComplete, IsDeleting, Whole, SendPut,
     Writing
<1> QED BY <1>11, <1>12, <1>13, <1>14, <1>15, <1>18, Zenon DEF StagingIInv, StagingInv

-----------------------------------------------------------------------------
(* The mission, the operator, the collector and the clock: they leave the  *)
(* handlers and the clients alone.                                         *)

\* A row only gets nearer to its end.
RowFades ==
  /\ row' \in Row \cup {None} /\ (row = None => row' = None)
  /\ row' # None => row'.sha = row.sha /\ row'.state \in {row.state, "deleting"}

LEMMA Outside ==
  ASSUME StagingIInv, UNCHANGED env, UNCHANGED <<puts, lock, client>>, RowFades,
         disk' \in Disk, disk'.inode = disk.inode, disk'.path \in 0 .. Len(disk.inode),
         disk'.tomb \in 0 .. Len(disk.inode), disk'.path = disk.path \/ ~(Uploading \/ IsComplete),
         mission' \in [status : {"none", "queued", "running", "done", "deleting", "gone"},
                       dispatch : {"idle", "resolved"}],
         gc' \in {"idle", "expire", "locked", "flip", "tombstone", "rename", "drop", "unlink", "dropRow"},
         del' \in [pc : {"idle", "kill", "tx"}, force : BOOLEAN], scan' \in Scan, scan'.robbed = scan.robbed,
         get' \in [pc : {"idle", "open", "serve", "refused"}, sha : Contents \cup {None},
                   inode : 0 .. Len(disk.inode)],
         faults' \in 0 .. env.faults, UNCHANGED made
  PROVE  /\ TypeOK' /\ CompleteMeansContent' /\ HandlersInOrder' /\ OneHandler' /\ UploadInOrder'
         /\ NoIntruder' <=> NoIntruder
         /\ NobodyWrites' <=> NobodyWrites
<1>0. TypeOK BY Zenon DEF StagingIInv, StagingInv
<1>1. Clients' = Clients /\ Client' = Client /\ Handler' = Handler
  BY SameSets, Zenon
<1>2. TypeOK'
  BY <1>0, <1>1, Zenon DEF TypeOK, RowFades
<1>3. (NoIntruder' <=> NoIntruder) /\ (NobodyWrites' <=> NobodyWrites)
  BY Zenon DEF NoIntruder, NobodyWrites
<1>4. HandlersInOrder' /\ OneHandler'
  BY <1>1, <1>3, Zenon DEF StagingIInv, HandlersInOrder, InRange, OneHandler
<1>5. CompleteMeansContent'
  BY <1>3, Zenon DEF StagingIInv, StagingInv, CompleteMeansContent, IsComplete, RowFades, Whole
<1>6. UploadInOrder'
  <2> SUFFICES ASSUME NoIntruder, NEW h \in DOMAIN puts PROVE InStep(puts[h])'
    BY <1>3, Zenon DEF UploadInOrder
  <2>1. InStep(puts[h])
    BY Zenon DEF StagingIInv, UploadInOrder
  <2>2. (Uploading' => Uploading /\ disk'.path = disk.path) /\ (IsComplete' => IsComplete)
    BY Zenon DEF Uploading, IsComplete, RowFades
  <2>3. Uploading' => row'.sha = row.sha
    BY Zenon DEF Uploading, RowFades
  <2> QED BY <2>1, <2>2, <2>3, Zenon DEF InStep, Sha, PartialMatches, RowFades
<1> QED BY <1>2, <1>3, <1>4, <1>5, <1>6, Zenon

\* A step that leaves the file, the scanner and the download alone as well.
LEMMA RowStep ==
  ASSUME StagingIInv, UNCHANGED env, UNCHANGED <<puts, lock, client, disk, get, scan, made>>,
         RowFades, row # None => row' # None,
         mission' \in [status : {"none", "queued", "running", "done", "deleting", "gone"},
                       dispatch : {"idle", "resolved"}],
         gc' = gc \/ gc' \in {"idle", "expire", "locked", "flip", "tombstone", "unlink"},
         del' \in [pc : {"idle", "kill", "tx"}, force : BOOLEAN],
         faults' \in 0 .. env.faults,
         NoIntruder /\ mission'.status \in {"queued", "running"} => IsComplete' /\ row'.exp = "forever"
  PROVE  StagingIInv'
<1>0. TypeOK BY Zenon DEF StagingIInv, StagingInv
<1>1. /\ TypeOK' /\ CompleteMeansContent' /\ HandlersInOrder' /\ OneHandler' /\ UploadInOrder'
      /\ NoIntruder' <=> NoIntruder
      /\ NobodyWrites' <=> NobodyWrites
  <2>1. /\ disk' \in Disk /\ disk'.inode = disk.inode /\ disk'.path \in 0 .. Len(disk.inode)
        /\ disk'.tomb \in 0 .. Len(disk.inode) /\ disk'.path = disk.path /\ scan' \in Scan
        /\ gc' \in {"idle", "expire", "locked", "flip", "tombstone", "rename", "drop", "unlink", "dropRow"}
        /\ get' \in [pc : {"idle", "open", "serve", "refused"}, sha : Contents \cup {None},
                     inode : 0 .. Len(disk.inode)]
    BY <1>0, Zenon DEF TypeOK
  <2> QED BY <2>1, Outside, Zenon
<1>2. (IsDeleting => IsDeleting') /\ (IsComplete => IsComplete' \/ IsDeleting') /\ (row # None => row'.sha = row.sha)
  BY Zenon DEF IsDeleting, IsComplete, RowFades
<1>3. CollectorInOrder'
  BY <1>2, Zenon DEF StagingIInv, CollectorInOrder
<1>5. InputsForever'
  BY <1>1, Zenon DEF InputsForever
<1>6. DownloadInOrder'
  BY <1>1, <1>2, Zenon DEF StagingIInv, DownloadInOrder, Whole, IsComplete, IsDeleting
<1> QED BY <1>1, <1>3, <1>5, <1>6, Zenon DEF StagingIInv, StagingInv

\* A row whose expiry or state is set.
LEMMA ExpirySet ==
  ASSUME TypeOK, row # None, NEW x \in {"live", "past", "forever", "zero"}, row' = [row EXCEPT !.exp = x]
  PROVE  RowFades /\ row' # None /\ row'.exp = x /\ row'.state = row.state
<1>1. row \in Row /\ None \notin Row
  BY Constants, Zenon DEF TypeOK
<1>2. row' \in Row /\ row'.sha = row.sha /\ row'.exp = x /\ row'.state = row.state
  BY <1>1, Zenon DEF Row
<1> QED BY <1>1, <1>2, Zenon DEF RowFades

LEMMA DeletingSet ==
  ASSUME TypeOK, row # None, row' = [row EXCEPT !.state = "deleting"]
  PROVE  RowFades /\ row' # None
<1>1. row \in Row /\ None \notin Row
  BY Constants, Zenon DEF TypeOK
<1>2. row' \in Row /\ row'.sha = row.sha /\ row'.state = "deleting"
  BY <1>1, Zenon DEF Row
<1> QED BY <1>1, <1>2, Zenon DEF RowFades

LEMMA RowSame ==
  ASSUME TypeOK, UNCHANGED row
  PROVE  RowFades /\ (row # None => row' # None)
BY ZenonT(60) DEF TypeOK, RowFades

\* What RowStep asks of the rest of the state.
LEMMA RestTyped ==
  ASSUME StagingIInv
  PROVE  /\ TypeOK
         /\ row \in Row \cup {None} /\ None \notin Row
         /\ mission \in [status : {"none", "queued", "running", "done", "deleting", "gone"},
                         dispatch : {"idle", "resolved"}]
         /\ del \in [pc : {"idle", "kill", "tx"}, force : BOOLEAN]
         /\ faults \in 0 .. env.faults
         /\ NoIntruder /\ mission.status \in {"queued", "running"} => IsComplete /\ row.exp = "forever"
         /\ disk \in Disk /\ disk.path \in 0 .. Len(disk.inode) /\ disk.tomb \in 0 .. Len(disk.inode)
         /\ Len(disk.inode) \in Nat
         /\ get \in [pc : {"idle", "open", "serve", "refused"}, sha : Contents \cup {None},
                     inode : 0 .. Len(disk.inode)]
BY Constants DEF StagingIInv, StagingInv, TypeOK, InputsForever, Disk

LEMMA FaultCount ==
  ASSUME StagingIInv, NEW f, Fault(f)
  PROVE  faults' \in 0 .. env.faults
BY RestTyped, Constants DEF Fault

\* The expiry is recalculated.
LEMMA RecalculatedFades ==
  ASSUME StagingIInv, row # None, row' = Recalculated(row)
  PROVE  /\ RowFades /\ row' # None /\ row'.state = row.state
         /\ IsComplete /\ mission.status \in {"queued", "running"} => row'.exp = "forever"
<1>1. row \in Row /\ None \notin Row
  BY RestTyped, Zenon
<1>2. CASE row.state = "deleting"
  BY <1>1, <1>2, Zenon DEF Recalculated, RowFades, IsComplete
<1>3. CASE row.state # "deleting"
  <2>1. PICK x \in {"forever", "live"} :
          /\ row' = [row EXCEPT !.exp = x]
          /\ mission.status \in {"queued", "running"} => x = "forever"
    BY <1>3, Zenon DEF Recalculated
  <2>2. row' \in Row /\ row'.sha = row.sha /\ row'.exp = x /\ row'.state = row.state
    BY <1>1, <2>1, Zenon DEF Row
  <2> QED BY <1>1, <2>1, <2>2, Zenon DEF RowFades
<1> QED BY <1>2, <1>3, Zenon

LEMMA DispatcherKeeps ==
  ASSUME StagingIInv, UNCHANGED env, Dispatcher
  PROVE  StagingIInv'
<1>1. CASE Resolve
  <2>1. mission' = [mission EXCEPT !.dispatch = "resolved"] /\ mission.status = "none"
        /\ UNCHANGED <<row, disk, puts, lock, client, gc, del, get, scan, faults, made>>
    BY <1>1, Zenon DEF Resolve
  <2>2. mission' \in [status : {"none", "queued", "running", "done", "deleting", "gone"},
                      dispatch : {"idle", "resolved"}] /\ mission'.status = "none"
    BY <2>1, RestTyped, Zenon
  <2> QED BY <2>1, <2>2, RestTyped, RowSame, RowStep, Zenon
<1>2. CASE InsertRef
  <2>1. CASE row # None /\ row.state = "complete"
    <3>1. mission' = [status |-> "queued", dispatch |-> "idle"] /\ row' = [row EXCEPT !.exp = "forever"]
          /\ UNCHANGED <<disk, puts, lock, client, gc, del, get, scan, faults, made>>
      BY <1>2, <2>1, Zenon DEF InsertRef
    <3>2. mission' \in [status : {"none", "queued", "running", "done", "deleting", "gone"},
                        dispatch : {"idle", "resolved"}]
      BY <3>1, Zenon
    <3>3. RowFades /\ row' # None /\ row'.exp = "forever" /\ row'.state = "complete"
      BY <2>1, <3>1, RestTyped, ExpirySet, Zenon
    <3>4. IsComplete'
      BY <3>3, Zenon DEF IsComplete
    <3> QED BY <3>1, <3>2, <3>3, <3>4, RestTyped, RowStep, Zenon
  <2>2. CASE ~(row # None /\ row.state = "complete")
    <3>1. mission' = [mission EXCEPT !.dispatch = "idle"]
          /\ UNCHANGED <<row, disk, puts, lock, client, gc, del, get, scan, faults, made>>
      BY <1>2, <2>2, Zenon DEF InsertRef
    <3>2. mission' \in [status : {"none", "queued", "running", "done", "deleting", "gone"},
                        dispatch : {"idle", "resolved"}] /\ mission'.status = mission.status
      BY <3>1, RestTyped, Zenon
    <3> QED BY <2>2, <3>1, <3>2, RestTyped, RowSame, RowStep, Zenon DEF IsComplete
  <2> QED BY <2>1, <2>2, Zenon
<1>3. CASE MissionStep
  <2>0. UNCHANGED <<disk, puts, lock, client, gc, del, get, scan, faults, made>>
    BY <1>3, Zenon DEF MissionStep
  <2>1. ASSUME NEW s \in {"running", "done", "deleting"}, mission' = [mission EXCEPT !.status = s], UNCHANGED row,
               s = "running" => mission.status = "queued"
        PROVE  StagingIInv'
    <3>1. mission' \in [status : {"none", "queued", "running", "done", "deleting", "gone"},
                        dispatch : {"idle", "resolved"}] /\ mission'.status = s
      BY <2>1, RestTyped, Zenon
    <3>2. NoIntruder /\ s = "running" => IsComplete' /\ row'.exp = "forever"
      BY <2>1, RestTyped, Zenon DEF IsComplete
    <3> QED BY <2>0, <2>1, <3>1, <3>2, RestTyped, RowSame, RowStep, Zenon
  <2>2. CASE mission.status = "gone" /\ row # None /\ row' = Recalculated(row) /\ UNCHANGED mission
    BY <2>0, <2>2, RestTyped, RecalculatedFades, RowStep, Zenon
  <2>3. CASE /\ mission.status = "deleting" /\ mission' = [mission EXCEPT !.status = "gone"]
             /\ row' = IF row = None THEN row ELSE [row EXCEPT !.exp = "zero"]
    <3>1. mission' \in [status : {"none", "queued", "running", "done", "deleting", "gone"},
                        dispatch : {"idle", "resolved"}] /\ mission'.status = "gone"
      BY <2>3, RestTyped, Zenon
    <3>2. RowFades /\ (row # None => row' # None)
      <4>1. CASE row = None BY <2>3, <4>1, RestTyped, RowSame, Zenon
      <4>2. CASE row # None BY <2>3, <4>2, RestTyped, ExpirySet, Zenon
      <4> QED BY <4>1, <4>2, Zenon
    <3> QED BY <2>0, <3>1, <3>2, RestTyped, RowStep, Zenon
  <2> QED BY <1>3, <2>1, <2>2, <2>3, Zenon DEF MissionStep
<1> QED BY <1>1, <1>2, <1>3, Zenon DEF Dispatcher

LEMMA OperatorKeeps ==
  ASSUME StagingIInv, UNCHANGED env, Operator
  PROVE  StagingIInv'
<1>1. ASSUME NEW f \in BOOLEAN, DeleteBegin(f) PROVE StagingIInv'
  <2>1. del' \in [pc : {"idle", "kill", "tx"}, force : BOOLEAN]
        /\ UNCHANGED <<row, disk, puts, lock, client, mission, gc, get, scan, made>>
    BY <1>1, Zenon DEF DeleteBegin
  <2>2. faults' \in 0 .. env.faults
    BY <1>1, FaultCount, Zenon DEF DeleteBegin
  <2>3. NoIntruder /\ mission'.status \in {"queued", "running"} => IsComplete' /\ row'.exp = "forever"
    BY <2>1, RestTyped, Zenon DEF IsComplete
  <2> QED BY <2>1, <2>2, <2>3, RestTyped, RowSame, RowStep, Zenon
<1>2. CASE DeleteWait
  <2>1. del' \in [pc : {"idle", "kill", "tx"}, force : BOOLEAN]
        /\ UNCHANGED <<row, disk, puts, lock, client, mission, gc, get, scan, faults, made>>
    BY <1>2, RestTyped, Zenon DEF DeleteWait
  <2>3. NoIntruder /\ mission'.status \in {"queued", "running"} => IsComplete' /\ row'.exp = "forever"
    BY <2>1, RestTyped, Zenon DEF IsComplete
  <2> QED BY <2>1, <2>3, RestTyped, RowSame, RowStep, Zenon
<1>3. CASE DeleteCommit
  <2>1. del' \in [pc : {"idle", "kill", "tx"}, force : BOOLEAN]
        /\ UNCHANGED <<disk, puts, lock, client, gc, get, scan, faults, made>>
    BY <1>3, RestTyped, Zenon DEF DeleteCommit
  <2>2. CASE UNCHANGED <<row, mission>>
    <3>1. NoIntruder /\ mission'.status \in {"queued", "running"} => IsComplete' /\ row'.exp = "forever"
      BY <2>2, RestTyped, Zenon DEF IsComplete
    <3> QED BY <2>1, <2>2, <3>1, RestTyped, RowSame, RowStep, Zenon
  <2>3. CASE /\ row # None /\ ~(Refs /\ mission.status = "running") /\ MarkDeleting
             /\ mission' = IF mission.status \in {"queued", "done"}
                           THEN [mission EXCEPT !.status = "deleting"] ELSE mission
    <3>1. mission' \in [status : {"none", "queued", "running", "done", "deleting", "gone"},
                        dispatch : {"idle", "resolved"}] /\ mission'.status \notin {"queued", "running"}
      BY <2>3, RestTyped, Zenon DEF Refs
    <3>2. RowFades /\ (row # None => row' # None)
      <4>1. CASE UNCHANGED row BY <4>1, RestTyped, RowSame, Zenon
      <4>2. CASE row' = [row EXCEPT !.state = "deleting"] BY <2>3, <4>2, RestTyped, DeletingSet, Zenon
      <4> QED BY <2>3, <4>1, <4>2, Zenon DEF MarkDeleting
    <3> QED BY <2>1, <3>1, <3>2, RestTyped, RowStep, Zenon
  <2> QED BY <1>3, <2>2, <2>3, Zenon DEF DeleteCommit
<1> QED BY <1>1, <1>2, <1>3, Zenon DEF Operator

LEMMA TimePassesKeeps ==
  ASSUME StagingIInv, UNCHANGED env, TimePasses
  PROVE  StagingIInv'
<1>1. /\ row # None /\ row.exp = "live" /\ row' = [row EXCEPT !.exp = "past"]
      /\ UNCHANGED <<disk, puts, lock, client, mission, gc, del, get, scan, faults, made>>
  BY Zenon DEF TimePasses
<1>2. RowFades /\ row' # None
  BY <1>1, RestTyped, ExpirySet, Zenon
<1> QED BY <1>1, <1>2, RestTyped, RowStep, Zenon

\* The steps of the collector's expiry.
LEMMA ExpiryKeeps ==
  ASSUME StagingIInv, UNCHANGED env, DrainNeedsRecalc \/ ExpireSelect \/ ExpireUnlessLocked \/ ExpireFlip
  PROVE  StagingIInv'
<1>1. CASE DrainNeedsRecalc
  <2>1. /\ gc' = "expire" /\ UNCHANGED <<disk, puts, lock, client, mission, del, get, scan, faults, made>>
        /\ row' = IF row # None /\ row.exp = "zero" THEN Recalculated(row) ELSE row
    BY <1>1, Zenon DEF DrainNeedsRecalc
  <2>2. CASE row # None /\ row.exp = "zero"
    <3>1. RowFades /\ row' # None
      BY <2>1, <2>2, RecalculatedFades, Zenon
    <3> QED BY <2>1, <2>2, <3>1, RestTyped, RowStep, Zenon
  <2>3. CASE UNCHANGED row
    <3>1. NoIntruder /\ mission'.status \in {"queued", "running"} => IsComplete' /\ row'.exp = "forever"
      BY <2>1, <2>3, RestTyped, Zenon DEF IsComplete
    <3> QED BY <2>1, <2>3, <3>1, RestTyped, RowSame, RowStep, Zenon
  <2> QED BY <2>1, <2>2, <2>3, Zenon
<1>2. CASE ExpireSelect \/ ExpireUnlessLocked
  <2>1. /\ gc' \in {"tombstone", "locked", "flip"}
        /\ UNCHANGED <<row, disk, puts, lock, client, mission, del, get, scan, faults, made>>
    BY <1>2, Zenon DEF ExpireSelect, ExpireUnlessLocked
  <2>2. NoIntruder /\ mission'.status \in {"queued", "running"} => IsComplete' /\ row'.exp = "forever"
    BY <2>1, RestTyped, Zenon DEF IsComplete
  <2> QED BY <2>1, <2>2, RestTyped, RowSame, RowStep, Zenon
<1>3. CASE ExpireFlip
  <2>1. /\ gc' = "tombstone" /\ UNCHANGED <<disk, puts, lock, client, mission, del, get, scan, faults, made>>
        /\ row' = IF Expired THEN [row EXCEPT !.state = "deleting"] ELSE row
    BY <1>3, Zenon DEF ExpireFlip
  <2>2. CASE Expired
    <3>1. row # None /\ row.exp = "past" /\ RowFades /\ row' # None
      BY <2>1, <2>2, RestTyped, DeletingSet, Zenon DEF Expired
    <3> QED BY <2>1, <3>1, RestTyped, RowStep, Zenon
  <2>3. CASE UNCHANGED row
    <3>1. NoIntruder /\ mission'.status \in {"queued", "running"} => IsComplete' /\ row'.exp = "forever"
      BY <2>1, <2>3, RestTyped, ZenonT(60) DEF IsComplete
    <3> QED BY <2>1, <2>3, <3>1, RestTyped, RowSame, RowStep, Zenon
  <2> QED BY <2>1, <2>2, <2>3, Zenon
<1> QED BY <1>1, <1>2, <1>3, Zenon

\* What the other steps of the collector, the scanner and a download have in common.
LEMMA FileStep ==
  ASSUME StagingIInv, UNCHANGED env, UNCHANGED <<puts, lock, client, mission, del, faults, made>>,
         RowFades, row' # row => IsDeleting /\ ~Refs,
         disk' \in Disk, disk'.inode = disk.inode, disk'.path \in {0, disk.path},
         disk'.tomb \in {0, disk.path, disk.tomb}, disk'.path = disk.path \/ row = None \/ IsDeleting,
         gc' \in {"idle", "expire", "locked", "flip", "tombstone", "rename", "drop", "unlink", "dropRow"},
         scan' \in Scan, scan'.robbed = scan.robbed,
         get' \in [pc : {"idle", "open", "serve", "refused"}, sha : Contents \cup {None},
                   inode : 0 .. Len(disk.inode)]
  PROVE  /\ TypeOK' /\ CompleteMeansContent' /\ HandlersInOrder' /\ OneHandler' /\ UploadInOrder'
         /\ InputsForever'
         /\ NoIntruder' <=> NoIntruder
         /\ NobodyWrites' <=> NobodyWrites
<1>1. disk'.path \in 0 .. Len(disk.inode) /\ disk'.tomb \in 0 .. Len(disk.inode)
  BY RestTyped, SMTT(40)
<1>2. disk'.path = disk.path \/ ~(Uploading \/ IsComplete)
  BY Zenon DEF Uploading, IsComplete, IsDeleting
<1>3. /\ TypeOK' /\ CompleteMeansContent' /\ HandlersInOrder' /\ OneHandler' /\ UploadInOrder'
      /\ NoIntruder' <=> NoIntruder
      /\ NobodyWrites' <=> NobodyWrites
  BY <1>1, <1>2, RestTyped, Outside, Zenon
<1>4. InputsForever'
  BY <1>3, RestTyped, Zenon DEF InputsForever, IsComplete, Refs
<1> QED BY <1>3, <1>4, Zenon

LEMMA TombstoneSelectKeeps ==
  ASSUME StagingIInv, UNCHANGED env, TombstoneSelect
  PROVE  StagingIInv'
<1>1. UNCHANGED <<row, disk, puts, lock, client, mission, del, get, scan, faults, made>>
  BY Zenon DEF TombstoneSelect
<1>2. /\ TypeOK' /\ CompleteMeansContent' /\ HandlersInOrder' /\ OneHandler' /\ UploadInOrder'
      /\ InputsForever' /\ (NoIntruder' <=> NoIntruder) /\ (NobodyWrites' <=> NobodyWrites)
  <2>1. gc' \in {"unlink", "drop", "rename"} /\ scan' \in Scan
    BY <1>1, RestTyped, Zenon DEF TombstoneSelect, TypeOK
  <2> QED BY <1>1, <2>1, RestTyped, RowSame, FileStep, Zenon
<1>3. CollectorInOrder'
  BY Zenon DEF StagingIInv, CollectorInOrder, TombstoneSelect, IsDeleting
<1>5. gc' = "drop" => disk.path = 0 /\ disk.tomb = 0
  BY Zenon DEF TombstoneSelect
<1>6. gc' # "dropRow"
  BY Zenon DEF TombstoneSelect
<1>7. DownloadInOrder'
  BY <1>1, <1>2, <1>5, <1>6, ZenonT(60) DEF StagingIInv, DownloadInOrder, IsComplete, IsDeleting, Whole
<1> QED BY <1>2, <1>3, <1>7, Zenon DEF StagingIInv, StagingInv

LEMMA RenameKeeps ==
  ASSUME StagingIInv, UNCHANGED env, Rename
  PROVE  StagingIInv'
<1>1. gc = "rename" /\ gc' = "unlink" /\ UNCHANGED <<row, puts, lock, client, mission, del, get, scan, faults, made>>
  BY Zenon DEF Rename
<1>2. IsDeleting /\ disk.tomb = 0
  BY <1>1, Zenon DEF StagingIInv, CollectorInOrder
<1>3. disk' \in Disk /\ disk'.inode = disk.inode /\ disk'.path = 0
      /\ disk'.tomb = disk.path
  BY <1>2, RestTyped, ZenonT(60) DEF Rename, Disk
<1>4. /\ TypeOK' /\ CompleteMeansContent' /\ HandlersInOrder' /\ OneHandler' /\ UploadInOrder'
      /\ InputsForever' /\ (NoIntruder' <=> NoIntruder) /\ (NobodyWrites' <=> NobodyWrites)
  <2>1. scan' \in Scan
    BY <1>1, RestTyped, Zenon DEF TypeOK
  <2> QED BY <1>1, <1>2, <1>3, <2>1, RestTyped, RowSame, FileStep, Zenon
<1>5. CollectorInOrder'
  BY <1>1, <1>2, Zenon DEF CollectorInOrder, IsDeleting
<1>7. DownloadInOrder'
  <2>1. \A i, c : Whole(i, c)' <=> Whole(i, c)
    BY <1>3, Zenon DEF Whole
  <2> QED BY <1>1, <1>2, <1>3, <1>4, <2>1, ZenonT(60) DEF StagingIInv, DownloadInOrder, IsComplete, IsDeleting, Whole
<1> QED BY <1>4, <1>5, <1>7, Zenon DEF StagingIInv, StagingInv

\* The row of a deleted file goes once nothing refers to it.
LEMMA DropKeeps ==
  ASSUME StagingIInv, UNCHANGED env, DropMissing \/ DropRow
  PROVE  StagingIInv'
<1>1. /\ gc \in {"drop", "dropRow"} /\ gc' \in {"unlink", "idle"} /\ row' \in {row, None} /\ (row' # row => ~Refs)
      /\ UNCHANGED <<disk, puts, lock, client, mission, del, get, scan, faults, made>>
  BY Zenon DEF DropMissing, DropRow
<1>2. IsDeleting /\ disk.tomb = 0
  BY <1>1, Zenon DEF StagingIInv, CollectorInOrder
<1>3. RowFades
  BY <1>1, RestTyped, Zenon DEF RowFades
<1>4. /\ TypeOK' /\ CompleteMeansContent' /\ HandlersInOrder' /\ OneHandler' /\ UploadInOrder'
      /\ InputsForever' /\ (NoIntruder' <=> NoIntruder) /\ (NobodyWrites' <=> NobodyWrites)
  <2>1. scan' \in Scan
    BY <1>1, RestTyped, Zenon DEF TypeOK
  <2> QED BY <1>1, <1>2, <1>3, <2>1, RestTyped, FileStep, Zenon
<1>5. CollectorInOrder'
  BY <1>1, <1>2, Zenon DEF CollectorInOrder
<1>7. DownloadInOrder'
  BY <1>1, <1>4, Zenon DEF StagingIInv, DownloadInOrder, Whole
<1> QED BY <1>4, <1>5, <1>7, Zenon DEF StagingIInv, StagingInv

LEMMA UnlinkTombstoneKeeps ==
  ASSUME StagingIInv, UNCHANGED env, UnlinkTombstone
  PROVE  StagingIInv'
<1>1. gc = "unlink" /\ UNCHANGED <<row, puts, lock, client, mission, del, get, scan, faults, made>>
  BY Zenon DEF UnlinkTombstone
<1>2. CASE gc' = "idle" /\ UNCHANGED disk
  <2>1. NoIntruder /\ mission'.status \in {"queued", "running"} => IsComplete' /\ row'.exp = "forever"
    BY <1>1, RestTyped, Zenon DEF IsComplete
  <2> QED BY <1>1, <1>2, <2>1, RestTyped, RowSame, RowStep, Zenon
<1>3. CASE disk.tomb # 0 /\ get.pc # "open" /\ disk' = [disk EXCEPT !.tomb = 0] /\ gc' = "dropRow"
  <2>1. IsDeleting
    BY <1>3, Zenon DEF StagingIInv, CollectorInOrder
  <2>2. disk' \in Disk /\ disk'.inode = disk.inode /\ disk'.path = disk.path /\ disk'.tomb = 0
    BY <1>3, RestTyped, ZenonT(60) DEF Disk
  <2>3. /\ TypeOK' /\ CompleteMeansContent' /\ HandlersInOrder' /\ OneHandler' /\ UploadInOrder'
        /\ InputsForever' /\ (NoIntruder' <=> NoIntruder) /\ (NobodyWrites' <=> NobodyWrites)
    <3>1. scan' \in Scan
      BY <1>1, RestTyped, Zenon DEF TypeOK
    <3> QED BY <1>1, <1>3, <2>1, <2>2, <3>1, RestTyped, RowSame, FileStep, Zenon
  <2>4. CollectorInOrder'
    BY <1>1, <2>1, <2>2, Zenon DEF CollectorInOrder, IsDeleting
  <2>6. DownloadInOrder'
    BY <1>1, <1>3, <2>2, <2>3, ZenonT(60) DEF StagingIInv, DownloadInOrder, Whole
  <2> QED BY <2>3, <2>4, <2>6, Zenon DEF StagingIInv, StagingInv
<1> QED BY <1>2, <1>3, Zenon DEF UnlinkTombstone

-----------------------------------------------------------------------------
(* The scanner, a download, a restart.                                     *)

\* The scanner removes a file that no row names any longer, or one that a row names by
\* now: then it is an intruder, and only what holds with one is left to show.
LEMMA ScannerKeeps ==
  ASSUME StagingIInv, UNCHANGED env, Scanner
  PROVE  StagingIInv'
<1>1. UNCHANGED <<row, puts, lock, client, mission, gc, del, get, faults, made>>
  BY Zenon DEF Scanner, ScanFinds, ScanRemoves
<1>2. disk' \in Disk /\ disk'.inode = disk.inode /\ disk'.path \in {0, disk.path} /\ disk'.tomb = disk.tomb
  BY RestTyped, SMTT(40) DEF Scanner, ScanFinds, ScanRemoves, Disk
<1>3. scan \in Scan /\ scan' \in Scan
  <2>1. scan \in Scan BY Zenon DEF StagingIInv, StagingInv, TypeOK
  <2>2. CASE ScanFinds BY <2>1, <2>2 DEF ScanFinds, Scan
  <2>3. CASE ScanRemoves BY <2>1, <2>3 DEF ScanRemoves, Scan
  <2> QED BY <2>1, <2>2, <2>3, Zenon DEF Scanner
<1>4. CollectorInOrder'
  BY <1>1, <1>2, Zenon DEF StagingIInv, CollectorInOrder, IsDeleting
<1>5. CASE scan'.robbed = scan.robbed /\ (row = None \/ disk'.path = disk.path)
  <2>1. gc' \in {"idle", "expire", "locked", "flip", "tombstone", "rename", "drop", "unlink", "dropRow"}
    BY <1>1, RestTyped, Zenon DEF TypeOK
  <2>2. /\ TypeOK' /\ CompleteMeansContent' /\ HandlersInOrder' /\ OneHandler' /\ UploadInOrder'
        /\ InputsForever' /\ (NoIntruder' <=> NoIntruder) /\ (NobodyWrites' <=> NobodyWrites)
    BY <1>1, <1>2, <1>3, <1>5, <2>1, RestTyped, RowSame, FileStep, Zenon
  <2>3. DownloadInOrder'
    BY <1>1, <1>2, <1>5, <2>2, ZenonT(60) DEF StagingIInv, DownloadInOrder, IsComplete, IsDeleting, Whole
  <2> QED BY <1>4, <2>2, <2>3, Zenon DEF StagingIInv, StagingInv
<1>6. CASE scan'.robbed
  <2>1. ~NoIntruder'
    BY <1>6, Zenon DEF NoIntruder
  <2>2. Clients' = Clients /\ Client' = Client /\ Handler' = Handler
    BY SameSets, Zenon
  <2>3. disk'.path \in 0 .. Len(disk'.inode) /\ disk'.tomb \in 0 .. Len(disk'.inode)
    BY <1>2, RestTyped, SMTT(40)
  <2>4. TypeOK'
    <3>1. TypeOK BY RestTyped, Zenon
    <3> QED BY <1>1, <1>2, <1>3, <2>2, <2>3, <3>1, ZenonT(60) DEF TypeOK
  <2>5. HandlersInOrder' /\ OneHandler'
    BY <1>1, <1>2, <2>1, <2>2, Zenon DEF StagingIInv, HandlersInOrder, InRange, OneHandler
  <2>6. CompleteMeansContent' /\ UploadInOrder' /\ InputsForever' /\ DownloadInOrder'
    BY <2>1, Zenon DEF CompleteMeansContent, UploadInOrder, InputsForever, DownloadInOrder
  <2> QED BY <1>4, <2>4, <2>5, <2>6, Zenon DEF StagingIInv, StagingInv
<1>7. scan'.robbed \/ (scan'.robbed = scan.robbed /\ (row = None \/ disk'.path = disk.path))
  <2>1. CASE ScanFinds
    BY <1>3, <2>1, Zenon DEF ScanFinds, Scan
  <2>2. CASE ScanRemoves
    <3>1. disk'.path = 0
      BY <2>2, RestTyped, Zenon DEF ScanRemoves, Disk
    <3> QED BY <1>3, <2>2, <3>1, Zenon DEF ScanRemoves, Scan
  <2> QED BY <2>1, <2>2, Zenon DEF Scanner
<1> QED BY <1>5, <1>6, <1>7, Zenon

LEMMA DownloadKeeps ==
  ASSUME StagingIInv, UNCHANGED env, Download
  PROVE  StagingIInv'
<1>1. UNCHANGED <<row, disk, puts, lock, client, mission, gc, del, scan, faults, made>>
  BY Zenon DEF Download, GetBegin, GetOpen
<1>2. get' \in [pc : {"idle", "open", "serve", "refused"}, sha : Contents \cup {None},
                inode : 0 .. Len(disk.inode)]
  <2>1. CASE GetBegin
    <3>1. row.sha \in Contents /\ 0 \in 0 .. Len(disk.inode)
      BY <2>1, RestTyped DEF GetBegin, Row
    <3> QED BY <2>1, <3>1, Zenon DEF GetBegin
  <2>2. CASE GetOpen
    BY <2>2, RestTyped, ZenonT(60) DEF GetOpen
  <2> QED BY <2>1, <2>2, Zenon DEF Download
<1>3. /\ TypeOK' /\ CompleteMeansContent' /\ HandlersInOrder' /\ OneHandler' /\ UploadInOrder'
      /\ InputsForever' /\ (NoIntruder' <=> NoIntruder) /\ (NobodyWrites' <=> NobodyWrites)
  <2>1. scan' \in Scan
        /\ gc' \in {"idle", "expire", "locked", "flip", "tombstone", "rename", "drop", "unlink", "dropRow"}
    BY <1>1, RestTyped, Zenon DEF TypeOK
  <2> QED BY <1>1, <1>2, <2>1, RestTyped, RowSame, FileStep, Zenon
<1>4. CollectorInOrder'
  BY <1>1, SameSets, Zenon DEF StagingIInv, CollectorInOrder, IsDeleting
<1>5. DownloadInOrder'
  <2> SUFFICES ASSUME NoIntruder PROVE DownloadInOrder'
    BY <1>3, Zenon DEF DownloadInOrder
  <2>1. CASE GetBegin
    <3>1. get'.pc = "open" /\ get'.sha = row.sha /\ IsComplete
      BY <2>1, Zenon DEF GetBegin, IsComplete
    <3>2. NobodyWrites
      BY <3>1, ZenonT(60) DEF StagingIInv, UploadInOrder, InStep, NobodyWrites
    <3>3. Whole(disk.path, row.sha) /\ disk.tomb = 0 /\ gc \notin {"drop", "dropRow"}
      BY <3>1, Zenon DEF StagingIInv, StagingInv, CompleteMeansContent, CollectorInOrder, IsComplete, IsDeleting
    <3> QED BY <1>1, <1>3, <3>1, <3>2, <3>3, Zenon DEF DownloadInOrder, Whole, IsComplete, IsDeleting
  <2>2. CASE GetOpen
    <3>1. /\ (IsComplete \/ IsDeleting) /\ row.sha = get.sha
          /\ NobodyWrites /\ gc \notin {"drop", "dropRow"}
          /\ \/ Whole(disk.path, get.sha) /\ disk.tomb = 0
             \/ disk.path = 0 /\ Whole(disk.tomb, get.sha)
      BY <2>2, Zenon DEF StagingIInv, DownloadInOrder, GetOpen
    <3>2. get'.pc = "serve" /\ get'.sha = get.sha
      BY <2>2, <3>1, RestTyped, Zenon DEF GetOpen, Whole
    <3>3. (disk.path # 0 /\ get'.inode = disk.path) \/ (disk.path = 0 /\ get'.inode = disk.tomb /\ disk.tomb # 0)
      BY <2>2, <3>1, RestTyped, Zenon DEF GetOpen, Whole
    <3> QED BY <1>1, <1>3, <3>1, <3>2, <3>3, Zenon DEF DownloadInOrder, NobodyWrites, Whole, IsComplete, IsDeleting
  <2> QED BY <2>1, <2>2, Zenon DEF Download
<1> QED BY <1>3, <1>4, <1>5, Zenon DEF StagingIInv, StagingInv

LEMMA RestartKeeps ==
  ASSUME StagingIInv, UNCHANGED env, Restart
  PROVE  StagingIInv'
<1>0. TypeOK /\ puts \in Seq(Handler) /\ Len(puts) \in Nat /\ Total \in Nat \ {0}
  BY RestTyped, Constants, SMTT(40) DEF TypeOK
<1>1. Clients' = Clients /\ Client' = Client /\ Handler' = Handler
  BY SameSets, Zenon
<1>2. \A h \in DOMAIN puts : LET q == Gone(Answered(puts[h], "broken")) IN
        q \in Handler /\ q.pc = "gone" /\ q.by = puts[h].by /\ q.inode = 0 /\ q.evicted = puts[h].evicted
  <2> SUFFICES ASSUME NEW h \in DOMAIN puts
               PROVE  LET q == Gone(Answered(puts[h], "broken")) IN
                      q \in Handler /\ q.pc = "gone" /\ q.by = puts[h].by /\ q.inode = 0 /\ q.evicted = puts[h].evicted
    BY Zenon
  <2>1. puts[h] \in Handler /\ "broken" \in Answers
    BY <1>0, HandlerFields, Zenon DEF Answers
  <2>2. PICK p \in Handler : p = Answered(puts[h], "broken") /\ p.by = puts[h].by /\ p.evicted = puts[h].evicted
    BY <2>1, AnsweredFields, Zenon
  <2> QED BY <1>0, <2>2, GoneFields, Zenon
<1>3. /\ puts' \in Seq(Handler) /\ DOMAIN puts' = DOMAIN puts /\ Len(puts') = Len(puts)
      /\ \A h \in DOMAIN puts : /\ puts'[h].pc = "gone" /\ puts'[h].by = puts[h].by /\ puts'[h].inode = 0
                                /\ puts'[h].evicted = puts[h].evicted
  <2>1. puts' = [h \in 1 .. Len(puts) |-> Gone(Answered(puts[h], "broken"))] /\ DOMAIN puts = 1 .. Len(puts)
    BY <1>0, SMTT(40) DEF Restart
  <2>2. \A h \in 1 .. Len(puts) : puts'[h] \in Handler
    BY <1>2, <2>1, Zenon
  <2>3. puts' \in Seq(Handler) /\ Len(puts') = Len(puts)
    BY <1>0, <2>1, <2>2
  <2> QED BY <1>2, <2>1, <2>3, Zenon
<1>4. scan' \in Scan /\ (NoIntruder' <=> NoIntruder)
  <2>1. scan \in Scan BY <1>0, Zenon DEF TypeOK
  <2>2. scan' \in Scan /\ scan'.robbed = scan.robbed
    BY <2>1, Zenon DEF Restart, Scan
  <2> QED BY <1>3, <2>2, Zenon DEF NoIntruder
<1>5. /\ RowFades /\ (row # None => row' # None /\ row'.state = row.state)
      /\ NoIntruder /\ mission.status \in {"queued", "running"} => row'.exp = "forever"
  <2>1. CASE row # None /\ row.exp = "zero"
    <3>1. row' = Recalculated(row)
      BY <2>1, Zenon DEF Restart
    <3> QED BY <2>1, <3>1, RestTyped, RecalculatedFades, Zenon
  <2>2. CASE ~(row # None /\ row.exp = "zero")
    <3>1. row' = row
      BY <2>2, Zenon DEF Restart
    <3> QED BY <3>1, RestTyped, RowSame, Zenon
  <2> QED BY <2>1, <2>2, Zenon
<1>6. /\ disk' \in Disk /\ disk'.inode = disk.inode /\ disk'.tomb = disk.tomb /\ disk'.path \in {0, disk.path}
      /\ row # None => disk' = disk
  BY RestTyped, Zenon DEF Restart, Disk
<1>7. /\ mission' \in [status : {"none", "queued", "running", "done", "deleting", "gone"},
                       dispatch : {"idle", "resolved"}]
      /\ mission'.status \in {"queued", "running"} => mission.status = "queued"
  <2>1. mission.status \in {"none", "queued", "running", "done", "deleting", "gone"}
    BY RestTyped, Zenon
  <2> QED BY <2>1, Zenon DEF Restart
<1>8. /\ del' \in [pc : {"idle", "kill", "tx"}, force : BOOLEAN] /\ gc' = "idle"
      /\ get' \in [pc : {"idle", "open", "serve", "refused"}, sha : Contents \cup {None},
                   inode : 0 .. Len(disk.inode)]
      /\ get'.pc \in {"idle", "refused"} /\ lock' = [entry |-> 0, fire |-> {}] /\ UNCHANGED <<client, made>>
  BY RestTyped, Zenon DEF Restart
<1>9. faults' \in 0 .. env.faults
  BY FaultCount, Zenon DEF Restart
<1>10. TypeOK'
  <2>1. disk'.path \in 0 .. Len(disk'.inode) /\ disk'.tomb \in 0 .. Len(disk'.inode)
    BY <1>6, RestTyped, SMTT(40)
  <2>2. row' \in Row \cup {None} /\ lock' \in [entry : 0 .. Len(puts'), fire : SUBSET (DOMAIN puts')]
    BY <1>0, <1>3, <1>5, <1>8, SMTT(40) DEF RowFades
  <2> QED BY <1>0, <1>1, <1>3, <1>4, <1>6, <1>7, <1>8, <1>9, <2>1, <2>2, ZenonT(60) DEF TypeOK
<1>11. HandlersInOrder' /\ OneHandler' /\ UploadInOrder'
  <2>1. Len(disk'.inode) \in Nat
    BY <1>6, RestTyped, ZenonT(60)
  <2>2. HandlersInOrder'
    BY <1>1, <1>3, <1>8, <2>1, SMTT(40) DEF StagingIInv, HandlersInOrder, InRange, Writing, Filling
  <2> QED BY <1>3, <1>8, <2>2, Zenon DEF OneHandler, UploadInOrder, InStep, Writing
<1>12. CollectorInOrder'
  BY <1>5, <1>6, <1>8, Zenon DEF StagingIInv, CollectorInOrder, IsDeleting
<1>13. CompleteMeansContent' /\ InputsForever'
  <2>1. NoIntruder /\ mission'.status \in {"queued", "running"} => IsComplete' /\ row'.exp = "forever"
    BY <1>5, <1>7, RestTyped, Zenon DEF IsComplete
  <2> QED BY <1>4, <1>5, <1>6, <2>1, Zenon DEF StagingIInv, StagingInv, CompleteMeansContent, InputsForever, RowFades,
             Whole
<1>14. DownloadInOrder'
  BY <1>8, Zenon DEF DownloadInOrder
<1> QED BY <1>10, <1>11, <1>12, <1>13, <1>14, ZenonT(60) DEF StagingIInv, StagingInv

-----------------------------------------------------------------------------
(* The invariant.                                                          *)

LEMMA InitInOrder == Init => StagingIInv
<1> SUFFICES ASSUME Init PROVE StagingIInv
  BY Zenon
<1>1. Total \in Nat /\ Total > 0 /\ MaxTries \in Nat /\ env.faults \in Nat /\ env.puts \in Nat /\ env.rows \in Nat
  BY StagingConstantsOK, SMTT(40) DEF Init
<1>2. TypeOK
  <2>1. puts \in Seq(Handler) /\ Len(puts) = 0 /\ disk.inode \in Seq(Seq(Block)) /\ Len(disk.inode) = 0
    BY SMTT(40) DEF Init
  <2>2. disk \in Disk
    BY <2>1, Zenon DEF Init, Disk
  <2>3. client \in [Clients -> Client] /\ \A k \in Clients : client[k].req = 0
    <3>1. 0 \in 0 .. Total - 1 /\ 0 \in 0 .. Total /\ 0 \in 0 .. MaxTries /\ 0 \in 0 .. env.puts
      BY <1>1, SMTT(40)
    <3> QED BY <3>1, Zenon DEF Init, Clients, Client
  <2>4. lock \in [entry : 0 .. Len(puts), fire : SUBSET (DOMAIN puts)]
    BY <2>1 DEF Init
  <2>5. 0 \in 0 .. env.faults /\ 0 \in 0 .. env.rows /\ 0 \in 0 .. Len(disk.inode) /\ 0 \in 0 .. Len(puts)
    BY <1>1, <2>1, SMTT(40)
  <2> QED BY <2>1, <2>2, <2>3, <2>4, <2>5, ZenonT(60) DEF Init, TypeOK, Scan
<1>3. HandlersInOrder
  <2>1. \A k \in Clients : client[k].body = 0 /\ client[k].start = 0 /\ client[k].pc = "probe"
    BY Zenon DEF Init, Clients
  <2> QED BY <1>1, <2>1, SMTT(40) DEF Init, HandlersInOrder
<1>4. OneHandler /\ UploadInOrder /\ CollectorInOrder /\ InputsForever /\ DownloadInOrder
  BY SMTT(40) DEF Init, OneHandler, UploadInOrder, CollectorInOrder, InputsForever, DownloadInOrder
<1>5. CompleteMeansContent
  BY Zenon DEF Init, CompleteMeansContent
<1> QED BY <1>2, <1>3, <1>4, <1>5, Zenon DEF StagingIInv, StagingInv

LEMMA NextKeeps == StagingIInv /\ [Next]_vars => StagingIInv'
<1> SUFFICES ASSUME StagingIInv, [Next]_vars PROVE StagingIInv'
  BY Zenon
<1>1. CASE Next
  <2>0. UNCHANGED env /\ Step
    BY <1>1, Zenon DEF Next
  <2>1. CASE Uploader
    BY <2>0, <2>1, ProbeKeeps, SendPutKeeps, ReceiveAnswerKeeps, Zenon DEF Uploader
  <2>2. CASE Putter
    <3>1. PICK h \in DOMAIN puts : PutStep(h)
      BY <2>2, Zenon DEF Putter
    <3> QED BY <2>0, <3>1, AcquireKeeps, LookKeeps, InsertKeeps, OpenKeeps, HashPrefixKeeps, ChunkKeeps,
               ProgressKeeps, ReadFailsKeeps, SyncKeeps, CompleteKeeps, DiscardKeeps, RemoveKeeps, ReleaseKeeps,
               OnIdleKeeps, ZenonT(60) DEF PutStep
  <2>3. CASE Collector
    BY <2>0, <2>3, ExpiryKeeps, TombstoneSelectKeeps, RenameKeeps, DropKeeps, UnlinkTombstoneKeeps, Zenon DEF
       Collector
  <2>4. CASE Scanner
    BY <2>0, <2>4, ScannerKeeps, Zenon
  <2>5. CASE Operator
    BY <2>0, <2>5, OperatorKeeps, Zenon
  <2>6. CASE Download
    BY <2>0, <2>6, DownloadKeeps, Zenon
  <2>7. CASE Trouble
    BY <2>0, <2>7, SweepKeeps, RestartKeeps, DisconnectKeeps, IdleDeadlineKeeps, ZenonT(60) DEF Trouble
  <2>8. CASE Dispatcher
    BY <2>0, <2>8, DispatcherKeeps, Zenon
  <2>9. CASE TimePasses
    BY <2>0, <2>9, TimePassesKeeps, Zenon
  <2> QED BY <2>0, <2>1, <2>2, <2>3, <2>4, <2>5, <2>6, <2>7, <2>8, <2>9, Zenon DEF Step
<1>2. CASE UNCHANGED vars
  <2>0. /\ env' = env /\ row' = row /\ disk' = disk /\ puts' = puts /\ lock' = lock /\ client' = client /\ mission' = mission
        /\ gc' = gc /\ del' = del /\ get' = get /\ scan' = scan /\ faults' = faults /\ made' = made
    BY <1>2, Zenon DEF vars
  <2>1. Clients' = Clients /\ Handler' = Handler /\ Client' = Client
    BY <2>0, SameSets, Zenon
  <2>2. TypeOK'
    BY <2>0, <2>1, SMTT(40) DEF StagingIInv, StagingInv, TypeOK
  <2>3. (NoIntruder' <=> NoIntruder) /\ (NobodyWrites' <=> NobodyWrites)
    BY <2>0, Zenon DEF NoIntruder, NobodyWrites
  <2>4. HandlersInOrder' /\ OneHandler'
    BY <2>0, <2>1, <2>3, ZenonT(60) DEF StagingIInv, HandlersInOrder, InRange, OneHandler
  <2>5. UploadInOrder'
    <3>1. (Uploading' <=> Uploading) /\ (IsComplete' <=> IsComplete)
      BY <2>0, Zenon DEF Uploading, IsComplete
    <3>2. (\A n : PartialMatches(n)' <=> PartialMatches(n)) /\ \A k : Sha(k)' = Sha(k)
      BY <2>0, Zenon DEF PartialMatches, Sha
    <3>3. ASSUME NEW h \in DOMAIN puts', InStep(puts[h]) PROVE InStep(puts[h])'
      BY <2>0, <3>1, <3>2, <3>3, Zenon DEF InStep
    <3> QED BY <2>0, <2>3, <3>3, Zenon DEF StagingIInv, UploadInOrder
  <2>6. CollectorInOrder'
    BY <2>0, <2>1, Zenon DEF StagingIInv, CollectorInOrder, IsDeleting
  <2>7. InputsForever' /\ CompleteMeansContent'
    BY <2>0, <2>3, ZenonT(60) DEF StagingIInv, StagingInv, InputsForever, CompleteMeansContent, IsComplete, Whole
  <2>8. DownloadInOrder'
    BY <2>0, <2>3, ZenonT(60) DEF StagingIInv, DownloadInOrder, IsComplete, IsDeleting, Whole
  <2> QED BY <2>2, <2>4, <2>5, <2>6, <2>7, <2>8, Zenon DEF StagingIInv, StagingInv
<1> QED BY <1>1, <1>2, Zenon

\* The upload protocol, its lock, the collector, the scanner and a download keep their
\* order from the first state on.
LEMMA AlwaysInOrder == Spec => []StagingIInv
BY InitInOrder, NextKeeps, PTL DEF Spec

\* A row marked complete (MarkStagingComplete) describes the bytes on disk: whatever the
\* clients resume, retry and abort, as long as the janitor evicts no writer and the disk
\* scanner unlinks no file that a new row names by then (NoIntruder).
THEOREM StagingIsConsistent == Spec => []StagingInv
<1>1. StagingIInv => StagingInv
  BY Zenon DEF StagingIInv
<1> QED BY <1>1, AlwaysInOrder, PTL

\* The input of a queued or running mission is neither expired nor deleted, with or
\* without force (RecalcStagingTTL, expireTTLs, StagingHandler.Delete), and neither the
\* collector nor the disk scanner takes its file: unless the janitor has evicted a writer,
\* or the scanner's query came before the row and its unlink after it (NoIntruder).
THEOREM InputsAreKept == Spec => []InputsSurvive
<1>1. StagingIInv => InputsSurvive
  BY Zenon DEF StagingIInv, StagingInv, InputsForever, CompleteMeansContent, IsComplete, InputsSurvive, Whole
<1> QED BY <1>1, AlwaysInOrder, PTL

\* A download that has begun on a complete row sends the content its header names, also
\* after the row is marked deleted and the file renamed (StagingHandler.Get).
THEOREM ServedIsWhole == Spec => []ServedIsContent
<1>1. StagingIInv => ServedIsContent
  BY Zenon DEF StagingIInv, DownloadInOrder, ServedIsContent
<1> QED BY <1>1, AlwaysInOrder, PTL

=============================================================================
