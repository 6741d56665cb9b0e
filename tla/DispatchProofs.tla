--------------------------- MODULE DispatchProofs ---------------------------
(***************************************************************************)
(* Dispatch keeps its invariant for every number of attempts and faults    *)
(* and every set of environments, that is: any number of clients that ask  *)
(* for missions, execs and restarts with any keys and inputs, and any mix  *)
(* of lost answers, failing queries and file operations, crashes, drains,  *)
(* prunes and deletions.                                                   *)
(***************************************************************************)
EXTENDS Dispatch, TLAPS

PCs == {"none", "sent", "lock", "resolve", "fallback", "lookup", "refs", "ready", "count",
        "create", "clean", "recreate", "append", "insert", "undo", "reply", "end", "dead"}

-----------------------------------------------------------------------------
(* Constants and requests.                                                 *)

\* None is no row, file, request or code.
LEMMA Nothing ==
  ASSUME TypeOK
  PROVE  None \notin Row /\ None \notin File /\ None \notin Requests /\ None \notin Codes
BY DispatchConstantsOK, Zenon DEF TypeOK, Row, File, Requests

\* What a request may be about.
LEMMA RequestFacts ==
  ASSUME TypeOK, NEW r \in Requests
  PROVE  /\ r[1] \in Clients /\ r[2] \in 1 .. MaxTries /\ r = <<r[1], r[2]>>
         /\ Req(r).key \in Keys /\ Req(r).kind \in Kinds
         /\ Req(r).staged \in BOOLEAN /\ Req(r).valid \in BOOLEAN
         /\ Fingerprint(Req(r)) \in Fingerprints
         /\ Req(r).kind = "restart" => Req(r).from \in Keys
         /\ Req(r).kind # "restart" => Mutex(r) \in {"mission", "exec"} \X Keys
<1>1. r[1] \in Clients /\ r[2] \in 1 .. MaxTries /\ r = <<r[1], r[2]>>
  BY DEF Requests, RequestsOf, Clients
<1>2. /\ Req(r).kind \in Kinds /\ Req(r).staged \in BOOLEAN /\ Req(r).valid \in BOOLEAN
      /\ Req(r).kind = "restart" => Req(r).from # None
  BY <1>1, DispatchConstantsOK, Zenon DEF TypeOK, Req, Clients
<1>3. /\ Req(r).key \in Keys
      /\ Req(r).kind = "restart" => Req(r).from \in Keys
  BY <1>1, <1>2, Zenon DEF Keys, Req
<1>4. Fingerprint(Req(r)) \in Fingerprints
  BY <1>1, Zenon DEF Fingerprints, FingerprintsOf, Req, Clients
<1>5. Req(r).kind # "restart" => Mutex(r) \in {"mission", "exec"} \X Keys
  BY <1>2, <1>3, Zenon DEF Mutex, Kinds
<1> QED BY <1>1, <1>2, <1>3, <1>4, <1>5, Zenon

\* A key has one handler that may create its mission.
LEMMA Exclusive ==
  ASSUME DispatchIInv, KeysApart, NEW r \in Requests, NEW s \in Requests,
         Makes(r), Makes(s) \/ Holds(s), Req(r).key = Req(s).key
  PROVE  r = s
<1>0. TypeOK BY Zenon DEF DispatchIInv, DispatchInv
<1>1. CASE Req(r).kind = "restart"
  <2>1. Req(s).kind = "restart" /\ r[1] = s[1]
    BY <1>0, <1>1, RequestFacts, Zenon DEF KeysApart, TypeOK, Clients, Req
  <2>2. h[r].pc # "none" /\ h[s].pc # "none"
    BY <1>1, <2>1, Zenon DEF Makes, Holds, Creating, CalledBad
  <2>3. client[r[1]].try \in 0 .. MaxTries /\ client[r[1]].try <= 1
    BY <1>0, <1>1, RequestFacts, Zenon DEF DispatchIInv, DispatchInv, Attempted, Attempts, TypeOK, Client, Req
  <2>4. r[2] = 1 /\ s[2] = 1
    BY <1>0, <2>1, <2>2, <2>3, RequestFacts, DispatchConstantsOK DEF DispatchIInv, DispatchInv, Attempted
  <2> QED BY <1>0, <2>1, <2>4, RequestFacts, Zenon
<1>2. CASE Req(r).kind # "restart"
  <2>1. Req(s).kind = Req(r).kind
    BY <1>0, <1>2, RequestFacts, Zenon DEF KeysApart, TypeOK, Clients, Req
  <2>2. Holds(r) /\ Holds(s)
    BY <1>2, <2>1, Zenon DEF Holds
  <2> QED BY <2>1, <2>2, ZenonT(60) DEF DispatchIInv, DispatchInv, HandlerOK, Mutex
<1> QED BY <1>1, <1>2, Zenon

-----------------------------------------------------------------------------
(* One step of one handler.                                                *)

\* Only r has moved, and what has changed besides its own program counter and answer has
\* the key of r, which r may change because it creates the mission of that key.
StepOf(r) ==
    /\ UNCHANGED <<env, client>> /\ daemon.up /\ daemon'.up /\ h[r].pc # "none"
    /\ \A s \in Requests : s # r => h'[s] = h[s]
    /\ \A s \in Requests : s # r /\ Req(s).kind # "restart" /\ lock[Mutex(s)] = s => lock'[Mutex(s)] = s
    /\ \/ UNCHANGED <<rows, events>> /\ daemon'.stuck = daemon.stuck
       \/ /\ h[r].pc \in Creating
          /\ \A k \in Keys : k # Req(r).key => /\ rows'[k] = rows[k] /\ events'[k] = events[k]
                                               /\ k \in daemon'.stuck <=> k \in daemon.stuck

\* What is left to show for the key of r.
KeyOf(r) ==
    LET k == Req(r).key IN
    /\ rows'[k] # None /\ rows'[k].status # "deleting" => events'[k] # None /\ events'[k].queued
    /\ events'[k] # None /\ rows'[k] = None /\ k \notin daemon'.stuck /\ h[r].pc \in Creating => h'[r].pc \in Creating
    /\ rows'[k] # None /\ rows'[k].status = "queued" /\ rows'[k].staged => input' = "complete"

\* A handler that is in order after its step leaves everything in order.
LEMMA HandlerStep ==
  ASSUME DispatchIInv, KeysApart, NEW r \in Requests, TypeOK', StepOf(r), KeyOf(r),
         HandlerOK(r)', h'[r].pc # "none", input' = input
  PROVE  DispatchIInv'
<1>0. TypeOK BY Zenon DEF DispatchIInv, DispatchInv
<1>1. Requests' = Requests /\ Keys' = Keys /\ Clients' = Clients
  BY DEF StepOf, Requests, Keys, Clients
<1>2. \A s \in Requests : Req(s)' = Req(s) /\ Mutex(s)' = Mutex(s)
  BY Zenon DEF StepOf, Req, Mutex
<1>3. Attempted'
  <2>1. \A c \in Clients, t \in 1 .. MaxTries : <<c, t>> \in Requests
    BY Zenon DEF Requests, RequestsOf, Clients
  <2>2. \A c \in Clients, t \in 1 .. MaxTries : t > client[c].try => h'[<<c, t>>].pc = "none"
    BY <2>1 DEF DispatchIInv, DispatchInv, Attempted, StepOf
  <2> QED BY <2>2, <1>1, ZenonT(60) DEF DispatchIInv, DispatchInv, Attempted, StepOf, Attempts
<1>4. FreshIds'
  <2> SUFFICES ASSUME NEW c \in Clients, env.reqs[c].kind = "restart", client[c].try = 0
               PROVE  rows'[env.reqs[c].key] = None /\ events'[env.reqs[c].key] = None
    BY <1>1, Zenon DEF FreshIds, StepOf
  <2>1. c # r[1]
    BY <1>0, RequestFacts DEF DispatchIInv, DispatchInv, Attempted, StepOf
  <2>2. Req(r).key # env.reqs[c].key
    BY <1>0, <2>1, RequestFacts, Zenon DEF KeysApart, TypeOK, Clients, Req
  <2>3. env.reqs[c].key \in Keys
    BY Zenon DEF Keys
  <2> QED BY <2>2, <2>3, Zenon DEF StepOf, DispatchIInv, DispatchInv, FreshIds
<1>5. ASSUME NEW s \in Requests, s # r PROVE HandlerOK(s)'
  <2>1. h'[s] = h[s] /\ HandlerOK(s)
    BY <1>5, Zenon DEF StepOf, DispatchIInv, DispatchInv
  <2>2. /\ Makes(s)' <=> Makes(s)
        /\ Holds(s)' <=> Holds(s)
        /\ OnItsWay(s)'
    BY <1>2, <2>1, Zenon DEF Makes, Holds, CalledBad, OnItsWay, HandlerOK, Fingerprints, StepOf
  <2>3. Holds(s) => lock'[Mutex(s)] = s
    BY <1>5, <2>1, Zenon DEF StepOf, HandlerOK, Holds
  <2>4. Makes(s) => rows'[Req(s).key] = None /\ FileInHand(s)'
    <3>1. CASE UNCHANGED <<rows, events>> /\ daemon'.stuck = daemon.stuck
      BY <3>1, <1>2, <2>1, Zenon DEF HandlerOK, FileInHand, Mine
    <3>2. CASE h[r].pc \in Creating /\ Makes(s)
      <4>1. Req(r).key # Req(s).key
        BY <3>2, <1>5, Exclusive, Zenon DEF Makes
      <4>2. /\ rows'[Req(s).key] = rows[Req(s).key] /\ events'[Req(s).key] = events[Req(s).key]
            /\ Req(s).key \in daemon'.stuck <=> Req(s).key \in daemon.stuck
        BY <1>0, <4>1, RequestFacts, Zenon DEF StepOf
      <4> QED BY <3>2, <4>2, <1>2, <2>1, Zenon DEF HandlerOK, FileInHand, Mine
    <3> QED BY <3>1, <3>2, Zenon DEF StepOf
  <2>5. FileInHand(s)'
    <3>1. CASE Makes(s) BY <3>1, <2>4, Zenon
    <3>2. CASE ~Makes(s)
      BY <3>2, <2>1, <1>2, Zenon DEF Makes, FileInHand, Creating
    <3> QED BY <3>1, <3>2, Zenon
  <2> QED BY <1>2, <2>1, <2>2, <2>3, <2>4, <2>5, Zenon DEF HandlerOK
<1>6. StreamBehindRow'
  BY <1>0, <1>1, RequestFacts DEF StreamBehindRow, KeyOf, StepOf, DispatchIInv, DispatchInv
<1>7. NoOrphanFile'
  <2> SUFFICES ASSUME NEW k \in Keys, events'[k] # None, rows'[k] = None, k \notin daemon'.stuck
               PROVE  \E s \in Requests : Req(s).key = k /\ h'[s].pc \in Creating
    BY <1>1, <1>2, ZenonT(60) DEF NoOrphanFile
  <2>1. CASE k = Req(r).key /\ h[r].pc \in Creating
    BY <2>1, Zenon DEF KeyOf
  <2>2. CASE ~(k = Req(r).key /\ h[r].pc \in Creating)
    <3>1. CASE events[k] # None /\ rows[k] = None /\ k \notin daemon.stuck
      <4>1. PICK s \in Requests : Req(s).key = k /\ h[s].pc \in Creating
        BY <3>1, Zenon DEF NoOrphanFile, DispatchIInv, DispatchInv, StepOf
      <4> QED BY <2>2, <4>1, Zenon DEF StepOf
    <3>2. CASE ~(events[k] # None /\ rows[k] = None /\ k \notin daemon.stuck)
      BY <2>2, <3>2, Zenon DEF StepOf
    <3> QED BY <3>1, <3>2, Zenon
  <2> QED BY <2>1, <2>2, Zenon
<1>8. QueuedHasInput'
  BY <1>0, <1>1, RequestFacts DEF QueuedHasInput, Queued, KeyOf, StepOf, DispatchIInv, DispatchInv
<1> QED BY <1>1, <1>3, <1>4, <1>5, <1>6, <1>7, <1>8, Zenon DEF DispatchIInv, DispatchInv

-----------------------------------------------------------------------------
(* What a handler does to itself.                                          *)

Quiet == UNCHANGED <<env, daemon, lane, input, rows, events, lock, client>> /\ faults' \in 0 .. MaxFaults

\* Only the handler of r has moved, to pc.
Moved(r, pc) ==
    /\ h' \in [Requests -> Handler]
    /\ \A s \in Requests : s # r => h'[s] = h[s]
    /\ h'[r].pc = pc

LEMMA GotoMoves ==
  ASSUME TypeOK, NEW r \in Requests, NEW pc \in PCs, Goto(r, pc)
  PROVE  /\ Moved(r, pc)
         /\ h'[r].code = h[r].code /\ h'[r].fp = h[r].fp /\ h'[r].staged = h[r].staged
BY DEF TypeOK, Goto, Moved, Handler, PCs

LEMMA AnswerMoves ==
  ASSUME TypeOK, NEW r \in Requests, NEW pc \in PCs, NEW code \in Codes \cup {None},
         NEW fp \in Fingerprints \cup {None}, Answer(r, pc, code, fp)
  PROVE  /\ Moved(r, pc)
         /\ h'[r].code = code /\ h'[r].fp = fp /\ h'[r].staged = h[r].staged
<1> DEFINE v == [h[r] EXCEPT !.pc = pc, !.code = code, !.fp = fp]
<1>1. h[r] \in Handler
  BY Zenon DEF TypeOK
<1>2. v \in Handler /\ v.pc = pc /\ v.code = code /\ v.fp = fp /\ v.staged = h[r].staged
  BY <1>1, ZenonT(60) DEF Handler, PCs
<1>3. h' = [h EXCEPT ![r] = v]
  BY Zenon DEF Answer
<1> HIDE DEF v
<1> QED BY <1>2, <1>3, Zenon DEF TypeOK, Moved

LEMMA FaultCount ==
  ASSUME TypeOK, NEW f, Fault(f) \/ UNCHANGED faults
  PROVE  faults' \in 0 .. MaxFaults
BY DispatchConstantsOK DEF TypeOK, Fault

LEMMA QueryFailsCount ==
  ASSUME TypeOK, NEW r \in Requests, QueryFails(r)
  PROVE  faults' \in 0 .. MaxFaults
BY DispatchConstantsOK DEF TypeOK, QueryFails, Fault

\* The types after a step that changes neither requests nor clients.
LEMMA TypesAfter ==
  ASSUME TypeOK, UNCHANGED <<env, client>>, h' \in [Requests -> Handler], faults' \in 0 .. MaxFaults,
         daemon' \in [up : BOOLEAN, draining : BOOLEAN, full : BOOLEAN, stuck : SUBSET Keys],
         lane' \in {"unapplied", "up", "removing", "gone"}, input' \in {"complete", "gone"},
         rows' \in [Keys -> Row \cup {None}], events' \in [Keys -> File \cup {None}],
         lock' \in [{"mission", "exec"} \X Keys -> Requests \cup {None}]
  PROVE  TypeOK'
BY DEF TypeOK, Requests, Keys, Clients, Row, File, Client, Handler, Fingerprints

\* A handler that writes nothing has to be in order itself.
LEMMA QuietStep ==
  ASSUME DispatchIInv, KeysApart, NEW r \in Requests, NEW pc \in PCs \ {"none"}, daemon.up, h[r].pc # "none",
         Quiet, Moved(r, pc), HandlerOK(r)',
         h[r].pc \in Creating => \/ pc \in Creating \/ events[Req(r).key] = None
                                 \/ rows[Req(r).key] # None \/ Req(r).key \in daemon.stuck
  PROVE  DispatchIInv'
<1>0. TypeOK BY Zenon DEF DispatchIInv, DispatchInv
<1>1. TypeOK'
  BY <1>0, TypesAfter, Zenon DEF TypeOK, Quiet, Moved
<1>2. StepOf(r)
  BY Zenon DEF StepOf, Quiet, Moved
<1>3. KeyOf(r)
  BY <1>0, RequestFacts, Zenon DEF KeyOf, Quiet, Moved, DispatchIInv, DispatchInv, StreamBehindRow, QueuedHasInput,
     Queued
<1> QED BY <1>1, <1>2, <1>3, HandlerStep, Zenon DEF Moved, Quiet

\* A refusal is in order; a well-formed mission is called bad by who holds its mutex and has
\* found no row.
LEMMA RefuseStep ==
  ASSUME DispatchIInv, KeysApart, NEW r \in Requests, daemon.up, h[r].pc # "none", Quiet,
         NEW code \in Codes \ {"accepted", "replayed"}, Refuse(r, code),
         code = "bad" /\ Req(r).kind = "mission" /\ Req(r).valid
         => lock[Mutex(r)] = r /\ rows[Req(r).key] = None,
         h[r].pc \in Creating => \/ events[Req(r).key] = None
                                 \/ rows[Req(r).key] # None \/ Req(r).key \in daemon.stuck
  PROVE  DispatchIInv'
<1>0. TypeOK BY Zenon DEF DispatchIInv, DispatchInv
<1>1. Moved(r, "reply") /\ h'[r].code = code
  BY <1>0, AnswerMoves DEF Refuse, PCs
<1>2. Req(r)' = Req(r) /\ Mutex(r)' = Mutex(r)
  BY Zenon DEF Quiet, Req, Mutex
<1>3. Makes(r)' => code = "bad" /\ Req(r).kind = "mission" /\ Req(r).valid
  BY <1>1, <1>2, Zenon DEF Makes, CalledBad, Creating, Moved
<1>4. Holds(r)' => code = "bad" /\ Req(r).kind = "mission" /\ Req(r).valid
  BY <1>1, <1>2, <1>3, Zenon DEF Holds, Moved
<1>5. OnItsWay(r)' /\ FileInHand(r)'
  BY <1>1, Zenon DEF OnItsWay, FileInHand, Moved
<1>6. HandlerOK(r)'
  BY <1>1, <1>2, <1>3, <1>4, <1>5, Zenon DEF HandlerOK, Quiet
<1> QED BY <1>1, <1>6, QuietStep, Zenon DEF PCs

\* A mission or exec that goes on without having written anything.
LEMMA GotoOK ==
  ASSUME DispatchIInv, NEW r \in Requests, UNCHANGED <<env, daemon, rows, events>>,
         NEW pc \in {"lock", "resolve", "fallback", "lookup", "ready", "count", "create", "clean"}, Goto(r, pc),
         Req(r).kind # "restart",
         pc = "resolve" /\ Req(r).kind = "mission" => lock'[Mutex(r)] = r,
         pc \notin {"lock", "resolve"} => lock'[Mutex(r)] = r,
         pc \in {"ready", "count", "create", "clean"} => rows[Req(r).key] = None,
         pc = "create" => events[Req(r).key] = None \/ Req(r).key \in daemon.stuck
  PROVE  Moved(r, pc) /\ HandlerOK(r)'
<1>0. TypeOK BY Zenon DEF DispatchIInv, DispatchInv
<1>1. Moved(r, pc) /\ h'[r].code = h[r].code /\ h'[r].fp = h[r].fp
  BY <1>0, GotoMoves, Zenon DEF PCs
<1>2. Req(r)' = Req(r) /\ Mutex(r)' = Mutex(r)
  BY Zenon DEF Req, Mutex
<1>3. OnItsWay(r)' /\ FileInHand(r)'
  BY <1>1, <1>2, Zenon DEF OnItsWay, FileInHand, Moved
<1>4. Makes(r)' => pc \in {"ready", "count", "create", "clean"}
  BY <1>1, <1>2, Zenon DEF Makes, CalledBad, Creating, Moved
<1>5. Holds(r)' => lock'[Mutex(r)] = r
  BY <1>1, <1>2, <1>4, Zenon DEF Holds, Moved
<1> QED BY <1>1, <1>2, <1>3, <1>4, <1>5, Zenon DEF HandlerOK, DispatchIInv, DispatchInv

LEMMA GotoStep ==
  ASSUME DispatchIInv, KeysApart, NEW r \in Requests, daemon.up, h[r].pc # "none", Quiet,
         NEW pc \in {"lock", "resolve", "fallback", "lookup", "ready", "count", "create", "clean"}, Goto(r, pc),
         Req(r).kind # "restart",
         pc = "resolve" /\ Req(r).kind = "mission" => lock[Mutex(r)] = r,
         pc \notin {"lock", "resolve"} => lock[Mutex(r)] = r,
         pc \in {"ready", "count", "create", "clean"} => rows[Req(r).key] = None,
         pc = "create" => events[Req(r).key] = None \/ Req(r).key \in daemon.stuck,
         h[r].pc \in Creating => pc \in Creating
  PROVE  DispatchIInv'
<1>1. Moved(r, pc) /\ HandlerOK(r)'
  BY GotoOK, Zenon DEF Quiet
<1> QED BY <1>1, QuietStep, Zenon DEF PCs

\* Outside its creation nobody has a file without a row.
LEMMA NoFileYet ==
  ASSUME DispatchIInv, KeysApart, NEW r \in Requests, daemon.up, Makes(r), h[r].pc \notin Creating
  PROVE  events[Req(r).key] = None \/ Req(r).key \in daemon.stuck
<1>0. TypeOK BY Zenon DEF DispatchIInv, DispatchInv
<1>1. SUFFICES ASSUME events[Req(r).key] # None, Req(r).key \notin daemon.stuck PROVE FALSE
  BY Zenon
<1>2. PICK s \in Requests : Req(s).key = Req(r).key /\ h[s].pc \in Creating
  BY <1>0, <1>1, RequestFacts, Zenon DEF DispatchIInv, DispatchInv, HandlerOK, NoOrphanFile
<1>3. r = s
  BY <1>2, Exclusive, Zenon DEF Makes
<1> QED BY <1>2, <1>3, Zenon

-----------------------------------------------------------------------------
(* The handlers, up to the creation.                                       *)

LEMMA BeginStep ==
  ASSUME DispatchIInv, KeysApart, NEW r \in Requests, BeginMission(r) \/ BeginExec(r)
  PROVE  DispatchIInv'
<1>0. TypeOK BY Zenon DEF DispatchIInv, DispatchInv
<1>1. /\ daemon.up /\ h[r].pc = "sent" /\ h[r].pc \notin Creating /\ Quiet
      /\ Req(r).kind \in {"mission", "exec"}
  BY <1>0, Zenon DEF BeginMission, BeginExec, At, Quiet, TypeOK, Creating
<1>2. \/ Refuse(r, "draining") \/ Refuse(r, "quota")
      \/ ~Req(r).valid /\ Refuse(r, "bad")
      \/ Req(r).kind = "mission" /\ Goto(r, "lock")
      \/ Req(r).kind = "exec" /\ Goto(r, "resolve")
  BY <1>1, Zenon DEF BeginMission, BeginExec, Gate, ValidExec
<1>3. CASE Refuse(r, "draining") \/ Refuse(r, "quota") \/ (~Req(r).valid /\ Refuse(r, "bad"))
  BY <1>1, <1>3, RefuseStep, Zenon DEF Codes
<1>4. CASE Req(r).kind = "mission" /\ Goto(r, "lock")
  BY <1>1, <1>4, GotoStep, Zenon
<1>5. CASE Req(r).kind = "exec" /\ Goto(r, "resolve")
  BY <1>1, <1>5, GotoStep, Zenon
<1> QED BY <1>2, <1>3, <1>4, <1>5, Zenon

LEMMA LockStep ==
  ASSUME DispatchIInv, KeysApart, NEW r \in Requests, Lock(r)
  PROVE  DispatchIInv'
<1>0. TypeOK BY Zenon DEF DispatchIInv, DispatchInv
<1> DEFINE pc == IF Req(r).kind = "mission" THEN "resolve" ELSE "lookup"
<1>1. daemon.up /\ h[r].pc = "lock" /\ lock[Mutex(r)] = None
  BY Zenon DEF Lock, At
<1>2. Req(r).kind # "restart"
  BY <1>1, Zenon DEF DispatchIInv, DispatchInv, HandlerOK, OnItsWay
<1>3. Mutex(r) \in {"mission", "exec"} \X Keys
  BY <1>0, <1>2, RequestFacts, Zenon
<1>4. /\ lock' \in [{"mission", "exec"} \X Keys -> Requests \cup {None}]
      /\ lock'[Mutex(r)] = r
      /\ \A m \in {"mission", "exec"} \X Keys : m # Mutex(r) => lock'[m] = lock[m]
  BY <1>0, <1>3, Zenon DEF TypeOK, Lock
<1>5. Moved(r, pc) /\ HandlerOK(r)'
  BY <1>2, <1>4, GotoOK, Zenon DEF Lock
<1>6. TypeOK'
  BY <1>0, <1>4, <1>5, TypesAfter, Zenon DEF Lock, TypeOK, Moved
<1>7. StepOf(r)
  <2>1. ASSUME NEW s \in Requests, s # r, Req(s).kind # "restart", lock[Mutex(s)] = s
        PROVE  lock'[Mutex(s)] = s
    <3>1. Mutex(s) # Mutex(r)
      BY <1>0, <1>1, <2>1, Nothing, Zenon
    <3>2. Mutex(s) \in {"mission", "exec"} \X Keys
      BY <1>0, <2>1, RequestFacts, Zenon
    <3> QED BY <1>4, <2>1, <3>1, <3>2, Zenon
  <2> QED BY <1>1, <1>5, <2>1, Zenon DEF StepOf, Lock, Moved
<1>8. KeyOf(r)
  BY <1>0, <1>1, RequestFacts, Zenon DEF KeyOf, Lock, DispatchIInv, DispatchInv, StreamBehindRow, QueuedHasInput,
     Queued, Creating
<1> QED BY <1>5, <1>6, <1>7, <1>8, HandlerStep, Zenon DEF Moved, Lock

LEMMA ResolveStep ==
  ASSUME DispatchIInv, KeysApart, NEW r \in Requests, ResolveMission(r) \/ ResolveExec(r)
  PROVE  DispatchIInv'
<1>0. TypeOK BY Zenon DEF DispatchIInv, DispatchInv
<1>1. daemon.up /\ h[r].pc = "resolve" /\ Req(r).kind \in {"mission", "exec"} /\ h[r].pc \notin Creating
  BY Zenon DEF ResolveMission, ResolveExec, At, Creating
<1>2. Quiet
  <2>1. ResolveMission(r) => faults' \in 0 .. MaxFaults
    BY <1>0, QueryFailsCount, Zenon DEF ResolveMission, TypeOK
  <2> QED BY <1>0, <2>1, Zenon DEF ResolveMission, ResolveExec, Quiet, TypeOK
<1>3. CASE ResolveMission(r)
  <2>1. lock[Mutex(r)] = r
    BY <1>1, <1>3, Zenon DEF DispatchIInv, DispatchInv, HandlerOK, Holds, ResolveMission
  <2>2. Goto(r, "fallback") \/ Goto(r, "lookup")
    BY <1>3, Zenon DEF ResolveMission
  <2> QED BY <1>1, <1>2, <2>1, <2>2, GotoStep, Zenon
<1>4. CASE ResolveExec(r)
  <2>1. Req(r).kind = "exec" /\ (Refuse(r, "bad") \/ Goto(r, "lock"))
    BY <1>4, Zenon DEF ResolveExec
  <2>2. CASE Refuse(r, "bad")
    BY <1>1, <1>2, <2>1, <2>2, RefuseStep, Zenon DEF Codes
  <2>3. CASE Goto(r, "lock")
    BY <1>1, <1>2, <2>1, <2>3, GotoStep, Zenon
  <2> QED BY <2>1, <2>2, <2>3, Zenon
<1> QED BY <1>3, <1>4, Zenon

\* An answer that names a row.
LEMMA NameStep ==
  ASSUME DispatchIInv, KeysApart, NEW r \in Requests, daemon.up, h[r].pc # "none", h[r].pc \notin Creating, Quiet,
         NEW code \in {"trusted", "replayed"}, NEW fp \in Fingerprints, Answer(r, "reply", code, fp),
         code = "replayed" => fp = Fingerprint(Req(r))
  PROVE  DispatchIInv'
<1>0. TypeOK BY ZenonT(60) DEF DispatchIInv, DispatchInv
<1>1. Moved(r, "reply") /\ h'[r].code = code /\ h'[r].fp = fp
  BY <1>0, AnswerMoves DEF PCs, Codes
<1>2. Req(r)' = Req(r)
  BY Zenon DEF Quiet, Req
<1>3. ~Makes(r)' /\ ~Holds(r)'
  BY <1>1, Zenon DEF Makes, Holds, CalledBad, Creating, Moved
<1>4. HandlerOK(r)'
  BY <1>1, <1>2, <1>3, Zenon DEF HandlerOK, OnItsWay, FileInHand, Moved
<1> QED BY <1>1, <1>4, QuietStep, Zenon DEF PCs

LEMMA FallbackStep ==
  ASSUME DispatchIInv, KeysApart, NEW r \in Requests, Fallback(r)
  PROVE  DispatchIInv'
<1>0. TypeOK BY Zenon DEF DispatchIInv, DispatchInv
<1> DEFINE row == rows[Req(r).key]
<1>1. daemon.up /\ h[r].pc = "fallback" /\ h[r].pc \notin Creating /\ Quiet
  BY <1>0, Zenon DEF Fallback, At, Quiet, TypeOK, Creating
<1>2. Req(r).kind # "restart" /\ lock[Mutex(r)] = r
  BY <1>1, Zenon DEF DispatchIInv, DispatchInv, HandlerOK, OnItsWay, Holds
<1>3. row = None \/ row.fp \in Fingerprints
  BY <1>0, RequestFacts, Zenon DEF TypeOK, Row, RowOf, Fingerprints
<1>4. \/ Refuse(r, "gone") \/ (row = None /\ Refuse(r, "bad"))
      \/ row # None /\ Answer(r, "reply", "trusted", row.fp)
  BY Zenon DEF Fallback
<1>5. CASE Refuse(r, "gone") \/ (row = None /\ Refuse(r, "bad"))
  BY <1>1, <1>2, <1>5, RefuseStep, Zenon DEF Codes
<1>6. CASE row # None /\ Answer(r, "reply", "trusted", row.fp)
  BY <1>1, <1>3, <1>6, NameStep, Zenon
<1> QED BY <1>4, <1>5, <1>6, Zenon

LEMMA LookupStep ==
  ASSUME DispatchIInv, KeysApart, NEW r \in Requests, Lookup(r)
  PROVE  DispatchIInv'
<1>0. TypeOK BY Zenon DEF DispatchIInv, DispatchInv
<1> DEFINE row == rows[Req(r).key]
<1>1. daemon.up /\ h[r].pc = "lookup" /\ h[r].pc \notin Creating /\ Quiet
  BY <1>0, Zenon DEF Lookup, At, Quiet, TypeOK, Creating
<1>2. Req(r).kind # "restart" /\ lock[Mutex(r)] = r
  BY <1>1, Zenon DEF DispatchIInv, DispatchInv, HandlerOK, OnItsWay, Holds
<1>3. \/ Refuse(r, "conflict") \/ Refuse(r, "gone") \/ (row = None /\ Goto(r, "ready"))
      \/ row.fp = Fingerprint(Req(r)) /\ Answer(r, "reply", "replayed", row.fp)
  BY Zenon DEF Lookup, Replay
<1>4. CASE Refuse(r, "conflict") \/ Refuse(r, "gone")
  BY <1>1, <1>4, RefuseStep, Zenon DEF Codes
<1>5. CASE row = None /\ Goto(r, "ready")
  BY <1>1, <1>2, <1>5, GotoStep, Zenon
<1>6. CASE row.fp = Fingerprint(Req(r)) /\ Answer(r, "reply", "replayed", row.fp)
  BY <1>0, <1>1, <1>6, NameStep, RequestFacts, Zenon
<1> QED BY <1>3, <1>4, <1>5, <1>6, Zenon

LEMMA ReadyStep ==
  ASSUME DispatchIInv, KeysApart, NEW r \in Requests, Ready(r)
  PROVE  DispatchIInv'
<1>0. TypeOK BY Zenon DEF DispatchIInv, DispatchInv
<1>1. daemon.up /\ h[r].pc = "ready" /\ h[r].pc \notin Creating /\ Quiet /\ Makes(r)
  BY <1>0, Zenon DEF Ready, At, Quiet, TypeOK, Creating, Makes
<1>2. Req(r).kind # "restart" /\ lock[Mutex(r)] = r /\ rows[Req(r).key] = None
  BY <1>1, Zenon DEF DispatchIInv, DispatchInv, HandlerOK, OnItsWay, Holds
<1>3. events[Req(r).key] = None \/ Req(r).key \in daemon.stuck
  BY <1>1, NoFileYet, Zenon
<1>4. \/ Refuse(r, "unapplied") \/ Refuse(r, "bad") \/ Refuse(r, "removing")
      \/ Goto(r, "count") \/ Goto(r, "create")
  BY Zenon DEF Ready
<1>5. CASE Refuse(r, "unapplied") \/ Refuse(r, "bad") \/ Refuse(r, "removing")
  BY <1>1, <1>2, <1>5, RefuseStep, Zenon DEF Codes
<1>6. CASE Goto(r, "count") \/ Goto(r, "create")
  BY <1>1, <1>2, <1>3, <1>6, GotoStep, Zenon
<1> QED BY <1>4, <1>5, <1>6, Zenon

LEMMA CountStep ==
  ASSUME DispatchIInv, KeysApart, NEW r \in Requests, Count(r)
  PROVE  DispatchIInv'
<1>0. TypeOK BY Zenon DEF DispatchIInv, DispatchInv
<1>1. daemon.up /\ h[r].pc = "count" /\ h[r].pc \notin Creating /\ Makes(r)
  BY <1>0, Zenon DEF Count, At, TypeOK, Creating, Makes
<1>2. Quiet
  BY <1>0, QueryFailsCount, Zenon DEF Count, Quiet, TypeOK
<1>3. Req(r).kind # "restart" /\ lock[Mutex(r)] = r /\ rows[Req(r).key] = None
  BY <1>1, Zenon DEF DispatchIInv, DispatchInv, HandlerOK, OnItsWay, Holds
<1>4. events[Req(r).key] = None \/ Req(r).key \in daemon.stuck
  BY <1>1, NoFileYet, Zenon
<1>5. Refuse(r, "full") \/ Goto(r, "create")
  BY Zenon DEF Count
<1>6. CASE Refuse(r, "full")
  BY <1>1, <1>2, <1>6, RefuseStep, Zenon DEF Codes
<1>7. CASE Goto(r, "create")
  BY <1>1, <1>2, <1>3, <1>4, <1>7, GotoStep, Zenon
<1> QED BY <1>5, <1>6, <1>7, Zenon

LEMMA SourceStep ==
  ASSUME DispatchIInv, KeysApart, NEW r \in Requests, Source(r)
  PROVE  DispatchIInv'
<1>0. TypeOK BY Zenon DEF DispatchIInv, DispatchInv
<1> DEFINE row == rows[Req(r).from]
<1>1. daemon.up /\ h[r].pc = "sent" /\ h[r].pc \notin Creating /\ Quiet /\ Req(r).kind = "restart" /\ Makes(r)
  BY <1>0, Zenon DEF Source, At, Quiet, TypeOK, Creating, Makes
<1>2. rows[Req(r).key] = None /\ events[Req(r).key] = None
  BY <1>1, Zenon DEF DispatchIInv, DispatchInv, HandlerOK, FileInHand
<1>3. row = None \/ row.fp \in Fingerprints
  BY <1>0, <1>1, RequestFacts, Zenon DEF TypeOK, Row, RowOf, Fingerprints
<1>4. \/ Refuse(r, "bad") \/ Refuse(r, "conflict")
      \/ row # None /\ Answer(r, "refs", None, row.fp)
  BY ZenonT(60) DEF Source
<1>5. CASE Refuse(r, "bad") \/ Refuse(r, "conflict")
  BY <1>1, <1>5, RefuseStep, Zenon DEF Codes
<1>6. CASE row # None /\ Answer(r, "refs", None, row.fp)
  <2>1. Moved(r, "refs") /\ h'[r].code = None /\ h'[r].fp = row.fp
    BY <1>0, <1>3, <1>6, AnswerMoves, SMTT(40) DEF PCs
  <2>2. Req(r)' = Req(r) /\ Fingerprints' = Fingerprints
    BY <1>1, Zenon DEF Quiet, Req, Fingerprints
  <2>3. ~Holds(r)'
    BY <1>1, <2>2, Zenon DEF Holds
  <2>4. FileInHand(r)' /\ OnItsWay(r)'
    BY <1>1, <1>2, <1>3, <1>6, <2>1, <2>2, Zenon DEF FileInHand, OnItsWay, Moved, Quiet
  <2>5. HandlerOK(r)'
    BY <1>1, <1>2, <2>2, <2>3, <2>4, Zenon DEF HandlerOK, Quiet
  <2> QED BY <1>1, <2>1, <2>5, QuietStep, Zenon DEF PCs
<1> QED BY <1>4, <1>5, <1>6, Zenon

LEMMA RefsStep ==
  ASSUME DispatchIInv, KeysApart, NEW r \in Requests, Refs(r)
  PROVE  DispatchIInv'
<1>0. TypeOK BY Zenon DEF DispatchIInv, DispatchInv
<1> DEFINE staged == rows[Req(r).from] # None /\ rows[Req(r).from].staged
<1>1. daemon.up /\ h[r].pc = "refs" /\ h[r].pc \notin Creating /\ Quiet
  BY <1>0, Zenon DEF Refs, At, Quiet, TypeOK, Creating
<1>2. Req(r).kind = "restart" /\ h[r].fp \in Fingerprints
  BY <1>1, Zenon DEF DispatchIInv, DispatchInv, HandlerOK, OnItsWay
<1>3. rows[Req(r).key] = None /\ events[Req(r).key] = None
  BY <1>1, <1>2, Zenon DEF DispatchIInv, DispatchInv, HandlerOK, FileInHand, Makes
<1>4. staged \in BOOLEAN
  BY <1>0, <1>2, RequestFacts, Zenon DEF TypeOK, Row, RowOf
<1>5. CASE Refuse(r, "conflict")
  BY <1>1, <1>5, RefuseStep, Zenon DEF Codes
<1>6. CASE h' = [h EXCEPT ![r].pc = "create", ![r].staged = staged]
  <2> HIDE DEF staged
  <2> DEFINE v == [h[r] EXCEPT !.pc = "create", !.staged = staged]
  <2>1. v \in Handler /\ v.pc = "create" /\ v.fp = h[r].fp /\ v.code = h[r].code
    BY <1>0, <1>4, ZenonT(60) DEF TypeOK, Handler
  <2>2. h' = [h EXCEPT ![r] = v]
    BY <1>6, Zenon
  <2> HIDE DEF v
  <2>3. Moved(r, "create") /\ h'[r].fp = h[r].fp
    BY <1>0, <2>1, <2>2, Zenon DEF TypeOK, Moved
  <2>4. Req(r)' = Req(r) /\ Fingerprints' = Fingerprints
    BY <1>1, Zenon DEF Quiet, Req, Fingerprints
  <2>5. ~Holds(r)'
    BY <1>2, <2>4, Zenon DEF Holds
  <2>6. FileInHand(r)' /\ OnItsWay(r)'
    BY <1>1, <1>2, <1>3, <2>3, <2>4, Zenon DEF FileInHand, OnItsWay, Moved, Quiet
  <2>7. HandlerOK(r)'
    BY <1>1, <1>2, <1>3, <2>4, <2>5, <2>6, Zenon DEF HandlerOK, Quiet
  <2> QED BY <1>1, <2>3, <2>7, QuietStep, Zenon DEF PCs
<1> QED BY <1>5, <1>6, Zenon DEF Refs

-----------------------------------------------------------------------------
(* The creation.                                                           *)

\* Who creates a mission holds its mutex, unless it restarts one, and there is no row yet.
LEMMA CreatorFacts ==
  ASSUME DispatchIInv, NEW r \in Requests, h[r].pc \in Creating
  PROVE  /\ TypeOK /\ Makes(r) /\ h[r].pc # "none" /\ Req(r).key \in Keys
         /\ rows[Req(r).key] = None /\ FileInHand(r) /\ OnItsWay(r)
         /\ Req(r).kind # "restart" => lock[Mutex(r)] = r
<1>1. TypeOK BY Zenon DEF DispatchIInv, DispatchInv
<1>2. HandlerOK(r) BY Zenon DEF DispatchIInv, DispatchInv
<1>3. Makes(r) /\ h[r].pc # "none"
  BY Zenon DEF Makes, Creating
<1> QED BY <1>1, <1>2, <1>3, RequestFacts, Zenon DEF HandlerOK, Holds

\* Who creates a mission writes, under its key, an events file or removes it.
LEMMA FileStep ==
  ASSUME DispatchIInv, KeysApart, NEW r \in Requests, daemon.up, h[r].pc \in Creating,
         UNCHANGED <<env, lane, input, rows, lock, client>>, faults' \in 0 .. MaxFaults,
         NEW pc \in Creating \cup {"reply"}, Moved(r, pc),
         events' \in [Keys -> File \cup {None}],
         daemon' \in [up : BOOLEAN, draining : BOOLEAN, full : BOOLEAN, stuck : SUBSET Keys], daemon'.up,
         \A k \in Keys : k # Req(r).key => /\ events'[k] = events[k]
                                           /\ k \in daemon'.stuck <=> k \in daemon.stuck,
         pc = "reply" => events'[Req(r).key] = None \/ Req(r).key \in daemon'.stuck,
         OnItsWay(r)', FileInHand(r)',
         h'[r].code \in {"accepted", "replayed"} /\ Req(r).kind # "restart" => h'[r].fp = Fingerprint(Req(r))
  PROVE  DispatchIInv'
<1>0. /\ TypeOK /\ Makes(r) /\ h[r].pc # "none" /\ Req(r).key \in Keys
      /\ rows[Req(r).key] = None
      /\ Req(r).kind # "restart" => lock[Mutex(r)] = r
  BY CreatorFacts, Zenon
<1>3. TypeOK'
  BY <1>0, TypesAfter, Zenon DEF TypeOK, Moved
<1>4. StepOf(r)
  BY <1>0, Zenon DEF StepOf, Moved
<1>5. KeyOf(r)
  BY <1>0, Zenon DEF KeyOf, Moved
<1>6. HandlerOK(r)'
  <2>1. Req(r)' = Req(r) /\ Mutex(r)' = Mutex(r)
    BY Zenon DEF Req, Mutex
  <2>2. Holds(r)' => lock'[Mutex(r)] = r
    BY <1>0, <2>1, Zenon DEF Holds
  <2> QED BY <1>0, <2>1, <2>2, Zenon DEF HandlerOK
<1> QED BY <1>3, <1>4, <1>5, <1>6, HandlerStep, Zenon DEF Moved, Creating

\* An events file is replaced or removed.
LEMMA FileSet ==
  ASSUME TypeOK, NEW k \in Keys, NEW file \in File \cup {None}, events' = [events EXCEPT ![k] = file]
  PROVE  /\ events' \in [Keys -> File \cup {None}] /\ events'[k] = file
         /\ \A j \in Keys : j # k => events'[j] = events[j]
BY Zenon DEF TypeOK

LEMMA CreateStep ==
  ASSUME DispatchIInv, KeysApart, NEW r \in Requests, Create(r)
  PROVE  DispatchIInv'
<1> DEFINE k == Req(r).key
<1>1. daemon.up /\ h[r].pc = "create" /\ h[r].pc \in Creating
  BY Zenon DEF Create, At, Creating
<1>2. /\ TypeOK /\ Req(r).key \in Keys /\ rows[Req(r).key] = None /\ FileInHand(r) /\ OnItsWay(r)
      /\ Req(r).kind # "restart" => lock[Mutex(r)] = r
  BY <1>1, CreatorFacts, Zenon
<1>3. faults' \in 0 .. MaxFaults
  BY <1>2, FaultCount, ZenonT(60) DEF Create
<1>4. k \in daemon.stuck \/ events[k] = None
  BY <1>1, <1>2, Zenon DEF FileInHand
<1>5. CASE /\ events[k] = None
           /\ events' = [events EXCEPT ![k] = [by |-> r, queued |-> FALSE]]
           /\ Goto(r, "append") /\ UNCHANGED faults
  <2>1. Moved(r, "append") /\ h'[r].code = h[r].code /\ h'[r].fp = h[r].fp
    BY <1>2, <1>5, GotoMoves, Zenon DEF PCs
  <2> DEFINE file == [by |-> r, queued |-> FALSE]
  <2>a. file \in File
    BY Zenon DEF File, FileOf, Requests
  <2>b. file # None
    BY <1>2, <2>a, Nothing, ZenonT(60)
  <2>2. file \in File \cup {None} /\ file # None /\ file.by = r
    BY <2>a, <2>b, Zenon
  <2>3. Req(r)' = Req(r) /\ Fingerprints' = Fingerprints
    BY Zenon DEF Create, Req, Fingerprints
  <2>4. OnItsWay(r)'
    BY <1>1, <1>2, <2>1, <2>3, Zenon DEF OnItsWay, Moved
  <2>5. /\ events' \in [Keys -> File \cup {None}] /\ events'[k] = file
        /\ \A j \in Keys : j # k => events'[j] = events[j]
    BY <1>2, <1>5, <2>a, FileSet, ZenonT(60)
  <2> HIDE DEF file
  <2>6. FileInHand(r)'
    <3>1. h'[r].pc = "append"
      BY <2>1, Zenon DEF Moved
    <3>2. Mine(r)'
      BY <2>2, <2>3, <2>5, Zenon DEF Mine
    <3> QED BY <3>1, <3>2, Zenon DEF FileInHand
  <2>7. /\ daemon' = daemon
        /\ daemon' \in [up : BOOLEAN, draining : BOOLEAN, full : BOOLEAN, stuck : SUBSET Keys]
    BY <1>2, Zenon DEF Create, TypeOK
  <2>8. h'[r].code \in {"accepted", "replayed"} /\ Req(r).kind # "restart" => h'[r].fp = Fingerprint(Req(r))
    BY <2>1, Zenon DEF DispatchIInv, DispatchInv, HandlerOK
  <2>9. "append" \in Creating /\ UNCHANGED <<env, lane, input, rows, lock, client>>
    BY Zenon DEF Creating, Create
  <2> QED BY <1>1, <1>3, <2>1, <2>2, <2>4, <2>5, <2>6, <2>7, <2>8, <2>9, FileStep, Zenon
<1>6. CASE Req(r).kind = "restart" /\ Refuse(r, "internal") /\ UNCHANGED <<events, faults>>
  BY <1>1, <1>2, <1>3, <1>4, <1>6, RefuseStep, ZenonT(60) DEF Create, Quiet, Codes
<1>7. CASE Req(r).kind # "restart" /\ Goto(r, "clean") /\ UNCHANGED <<events, faults>>
  BY <1>1, <1>2, <1>3, <1>7, GotoStep, Zenon DEF Create, Quiet, Creating
<1>8. CASE Refuse(r, "internal") /\ UNCHANGED events
  BY <1>1, <1>2, <1>3, <1>4, <1>8, RefuseStep, Zenon DEF Create, Quiet, Codes
<1> QED BY <1>5, <1>6, <1>7, <1>8, Zenon DEF Create

LEMMA CleanOrphanStep ==
  ASSUME DispatchIInv, KeysApart, NEW r \in Requests, CleanOrphan(r)
  PROVE  DispatchIInv'
<1>1. daemon.up /\ h[r].pc = "clean" /\ h[r].pc \in Creating
  BY Zenon DEF CleanOrphan, At, Creating
<1>2. TypeOK /\ Req(r).key \in Keys /\ OnItsWay(r)
  BY <1>1, CreatorFacts, Zenon
<1>3. Moved(r, "recreate") /\ h'[r].code = h[r].code /\ h'[r].fp = h[r].fp
  BY <1>2, GotoMoves, Zenon DEF CleanOrphan, PCs
<1>4. Req(r)' = Req(r)
  BY Zenon DEF CleanOrphan, Req
<1>5. /\ events' \in [Keys -> File \cup {None}] /\ events'[Req(r).key] = None
      /\ \A j \in Keys : j # Req(r).key => events'[j] = events[j]
  BY <1>2, FileSet, ZenonT(60) DEF CleanOrphan
<1>6. OnItsWay(r)' /\ FileInHand(r)'
  BY <1>1, <1>2, <1>3, <1>4, <1>5, Zenon DEF OnItsWay, FileInHand, Moved
<1>7. h'[r].code \in {"accepted", "replayed"} /\ Req(r).kind # "restart" => h'[r].fp = Fingerprint(Req(r))
  BY <1>3, Zenon DEF DispatchIInv, DispatchInv, HandlerOK
<1>8. /\ faults' \in 0 .. MaxFaults
      /\ daemon' \in [up : BOOLEAN, draining : BOOLEAN, full : BOOLEAN, stuck : SUBSET Keys]
      /\ daemon'.up = daemon.up /\ daemon'.stuck = daemon.stuck \ {Req(r).key}
  BY <1>2, Zenon DEF CleanOrphan, TypeOK
<1>9. "recreate" \in Creating /\ UNCHANGED <<env, lane, input, rows, lock, client>>
  BY Zenon DEF Creating, CleanOrphan
<1> QED BY <1>1, <1>3, <1>5, <1>6, <1>7, <1>8, <1>9, FileStep, Zenon

LEMMA RecreateStep ==
  ASSUME DispatchIInv, KeysApart, NEW r \in Requests, Recreate(r)
  PROVE  DispatchIInv'
<1> DEFINE k == Req(r).key
<1> DEFINE file == [by |-> r, queued |-> FALSE]
<1>1. daemon.up /\ h[r].pc = "recreate" /\ h[r].pc \in Creating
  BY Zenon DEF Recreate, At, Creating
<1>2. TypeOK /\ k \in Keys /\ FileInHand(r) /\ OnItsWay(r)
  BY <1>1, CreatorFacts, Zenon
<1>3. events' = [events EXCEPT ![k] = file] /\ Goto(r, "append")
  BY <1>1, <1>2, Zenon DEF Recreate, FileInHand
<1>4. Moved(r, "append") /\ h'[r].code = h[r].code /\ h'[r].fp = h[r].fp
  BY <1>2, <1>3, GotoMoves, Zenon DEF PCs
<1>5. file \in File
  BY Zenon DEF File, FileOf, Requests
<1>6. file # None /\ file.by = r
  BY <1>2, <1>5, Nothing, Zenon
<1>7. /\ events' \in [Keys -> File \cup {None}] /\ events'[k] = file
      /\ \A j \in Keys : j # k => events'[j] = events[j]
  BY <1>2, <1>3, <1>5, FileSet, ZenonT(60)
<1> HIDE DEF file
<1>8. Req(r)' = Req(r) /\ Fingerprints' = Fingerprints
  BY Zenon DEF Recreate, Req, Fingerprints
<1>9. OnItsWay(r)'
  BY <1>1, <1>2, <1>4, <1>8, Zenon DEF OnItsWay, Moved
<1>10. FileInHand(r)'
  <2>1. h'[r].pc = "append"
    BY <1>4, Zenon DEF Moved
  <2>2. Mine(r)'
    BY <1>6, <1>7, <1>8, Zenon DEF Mine
  <2> QED BY <2>1, <2>2, Zenon DEF FileInHand
<1>11. h'[r].code \in {"accepted", "replayed"} /\ Req(r).kind # "restart" => h'[r].fp = Fingerprint(Req(r))
  BY <1>4, Zenon DEF DispatchIInv, DispatchInv, HandlerOK
<1>12. /\ daemon' = daemon /\ faults' \in 0 .. MaxFaults
       /\ daemon' \in [up : BOOLEAN, draining : BOOLEAN, full : BOOLEAN, stuck : SUBSET Keys]
  BY <1>2, Zenon DEF Recreate, TypeOK
<1>13. "append" \in Creating /\ UNCHANGED <<env, lane, input, rows, lock, client>>
  BY Zenon DEF Creating, Recreate
<1> QED BY <1>1, <1>4, <1>7, <1>9, <1>10, <1>11, <1>12, <1>13, FileStep, Zenon

LEMMA AppendQueuedStep ==
  ASSUME DispatchIInv, KeysApart, NEW r \in Requests, AppendQueued(r)
  PROVE  DispatchIInv'
<1> DEFINE k == Req(r).key
<1>1. daemon.up /\ h[r].pc = "append" /\ h[r].pc \in Creating
  BY Zenon DEF AppendQueued, At, Creating
<1>2. TypeOK /\ k \in Keys /\ Mine(r) /\ OnItsWay(r)
  BY <1>1, CreatorFacts, Zenon DEF FileInHand
<1>3. Req(r)' = Req(r) /\ Fingerprints' = Fingerprints
  BY Zenon DEF AppendQueued, Req, Fingerprints
<1>4. /\ daemon' = daemon /\ faults' \in 0 .. MaxFaults
      /\ daemon' \in [up : BOOLEAN, draining : BOOLEAN, full : BOOLEAN, stuck : SUBSET Keys]
      /\ UNCHANGED <<env, lane, input, rows, lock, client>>
  BY <1>2, FaultCount, Zenon DEF AppendQueued, TypeOK
<1>5. CASE events' = [events EXCEPT ![k].queued = TRUE] /\ Goto(r, "insert")
  <2> DEFINE file == [events[k] EXCEPT !.queued = TRUE]
  <2>1. events[k] \in File /\ events[k].by = r
    BY <1>2, Zenon DEF Mine, TypeOK
  <2>2. file \in File /\ file.by = r /\ file.queued
    BY <2>1, ZenonT(60) DEF File, FileOf
  <2>3. file # None
    BY <1>2, <2>2, Nothing, Zenon
  <2>4. events' = [events EXCEPT ![k] = file]
    BY <1>5, Zenon
  <2>5. /\ events' \in [Keys -> File \cup {None}] /\ events'[k] = file
        /\ \A j \in Keys : j # k => events'[j] = events[j]
    BY <1>2, <2>2, <2>4, FileSet, ZenonT(60)
  <2> HIDE DEF file
  <2>6. Moved(r, "insert") /\ h'[r].code = h[r].code /\ h'[r].fp = h[r].fp
    BY <1>2, <1>5, GotoMoves, Zenon DEF PCs
  <2>7. OnItsWay(r)'
    BY <1>1, <1>2, <1>3, <2>6, Zenon DEF OnItsWay, Moved
  <2>8. FileInHand(r)'
    <3>1. h'[r].pc = "insert"
      BY <2>6, Zenon DEF Moved
    <3>2. Mine(r)' /\ events'[k].queued
      BY <1>3, <2>2, <2>3, <2>5, Zenon DEF Mine
    <3> QED BY <1>3, <3>1, <3>2, Zenon DEF FileInHand
  <2>9. h'[r].code \in {"accepted", "replayed"} /\ Req(r).kind # "restart" => h'[r].fp = Fingerprint(Req(r))
    BY <2>6, Zenon DEF DispatchIInv, DispatchInv, HandlerOK
  <2>10. "insert" \in Creating
    BY Zenon DEF Creating
  <2> QED BY <1>1, <1>4, <2>5, <2>6, <2>7, <2>8, <2>9, <2>10, FileStep, Zenon
<1>6. CASE Refuse(r, "internal") /\ events' = [events EXCEPT ![k] = None]
  <2>1. /\ events' \in [Keys -> File \cup {None}] /\ events'[k] = None
        /\ \A j \in Keys : j # k => events'[j] = events[j]
    BY <1>2, <1>6, FileSet, Zenon
  <2>2. Moved(r, "reply") /\ h'[r].code = "internal"
    BY <1>2, <1>6, AnswerMoves, ZenonT(60) DEF PCs, Codes, Refuse
  <2>3. OnItsWay(r)' /\ FileInHand(r)'
    BY <2>2, Zenon DEF OnItsWay, FileInHand, Moved
  <2> QED BY <1>1, <1>4, <2>1, <2>2, <2>3, FileStep, Zenon
<1> QED BY <1>2, <1>5, <1>6, Zenon DEF AppendQueued

\* A transaction that fails leaves the events file to be removed.
LEMMA ToUndo ==
  ASSUME DispatchIInv, KeysApart, NEW r \in Requests, daemon.up, h[r].pc = "insert", Quiet,
         NEW code \in Codes \ {"accepted", "replayed"}, Answer(r, "undo", code, None)
  PROVE  DispatchIInv'
<1>1. h[r].pc \in Creating /\ "undo" \in Creating
  BY Zenon DEF Creating
<1>2. /\ TypeOK /\ rows[Req(r).key] = None
      /\ Req(r).kind # "restart" => lock[Mutex(r)] = r
  BY <1>1, CreatorFacts, Zenon
<1>3. Moved(r, "undo") /\ h'[r].code = code
  BY <1>2, AnswerMoves DEF PCs
<1>4. Req(r)' = Req(r) /\ Mutex(r)' = Mutex(r)
  BY Zenon DEF Quiet, Req, Mutex
<1>5. OnItsWay(r)' /\ FileInHand(r)'
  BY <1>3, Zenon DEF OnItsWay, FileInHand, Moved
<1>6. HandlerOK(r)'
  BY <1>2, <1>3, <1>4, <1>5, Zenon DEF HandlerOK, Holds, Quiet
<1> QED BY <1>1, <1>3, <1>6, QuietStep, Zenon DEF PCs

LEMMA NewRowFacts ==
  ASSUME DispatchIInv, NEW r \in Requests, h[r].pc = "insert"
  PROVE  /\ NewRow(r) \in Row /\ NewRow(r) # None /\ NewRow(r).status = "queued"
         /\ NewRow(r).fp \in Fingerprints
         /\ Req(r).kind # "restart" => NewRow(r).fp = Fingerprint(Req(r))
<1>0. TypeOK /\ OnItsWay(r) BY Zenon DEF DispatchIInv, DispatchInv, HandlerOK
<1>1. h[r].staged \in BOOLEAN
  BY <1>0, Zenon DEF TypeOK, Handler
<1>2. CASE Req(r).kind = "restart"
  <2>1. h[r].fp \in Fingerprints
    BY <1>0, <1>2, Zenon DEF OnItsWay
  <2> QED BY <1>0, <1>1, <1>2, <2>1, Nothing, SMTT(40) DEF NewRow, Row, RowOf, Fingerprints
<1>3. CASE Req(r).kind # "restart"
  <2>1. Fingerprint(Req(r)) \in Fingerprints /\ Req(r).staged \in BOOLEAN
    BY <1>0, RequestFacts, Zenon
  <2> QED BY <1>0, <1>3, <2>1, Nothing, SMTT(40) DEF NewRow, Row, RowOf, Fingerprints
<1> QED BY <1>2, <1>3, Zenon

LEMMA InsertStep ==
  ASSUME DispatchIInv, KeysApart, NEW r \in Requests, Insert(r)
  PROVE  DispatchIInv'
<1> DEFINE k == Req(r).key
<1>1. daemon.up /\ h[r].pc = "insert" /\ h[r].pc \in Creating
  BY Zenon DEF Insert, At, Creating
<1>2. /\ TypeOK /\ k \in Keys /\ FileInHand(r)
      /\ Req(r).kind # "restart" => lock[Mutex(r)] = r
  BY <1>1, CreatorFacts, Zenon
<1>3. CASE \E code \in {"internal", "removing", "conflict", "bad"} : Answer(r, "undo", code, None) /\ UNCHANGED rows
  <2>1. Quiet
    BY <1>2, <1>3, Zenon DEF Insert, Quiet, TypeOK
  <2> QED BY <1>1, <1>3, <2>1, ToUndo, Zenon DEF Codes
<1>4. CASE /\ rows' = [rows EXCEPT ![k] = NewRow(r)] /\ ~(NewRow(r).staged /\ input # "complete")
           /\ Answer(r, "reply", "accepted", NewRow(r).fp)
  <2>1. /\ NewRow(r) \in Row /\ NewRow(r) # None /\ NewRow(r).status = "queued"
        /\ NewRow(r).fp \in Fingerprints
        /\ Req(r).kind # "restart" => NewRow(r).fp = Fingerprint(Req(r))
    BY <1>1, NewRowFacts, ZenonT(60)
  <2>2. Moved(r, "reply") /\ h'[r].code = "accepted" /\ h'[r].fp = NewRow(r).fp
    BY <1>2, <1>4, <2>1, AnswerMoves, SMTT(40) DEF PCs, Codes
  <2>3. /\ rows' \in [Keys -> Row \cup {None}] /\ rows'[k] = NewRow(r)
        /\ \A j \in Keys : j # k => rows'[j] = rows[j]
    BY <1>2, <1>4, <2>1, Zenon DEF TypeOK
  <2>4. TypeOK'
    BY <1>2, <2>2, <2>3, TypesAfter, ZenonT(60) DEF Insert, TypeOK, Moved
  <2>5. StepOf(r)
    BY <1>1, <2>2, <2>3, ZenonT(60) DEF StepOf, Moved, Insert
  <2>6. events[k] # None /\ events[k].queued
    BY <1>1, <1>2, ZenonT(60) DEF FileInHand, Mine
  <2>7. KeyOf(r)
    BY <1>1, <1>4, <2>1, <2>3, <2>6, ZenonT(60) DEF KeyOf, Insert
  <2>8. ~Makes(r)' /\ ~Holds(r)' /\ Req(r)' = Req(r)
    BY <2>2, Zenon DEF Makes, Holds, CalledBad, Creating, Moved, Insert, Req
  <2>9. HandlerOK(r)'
    BY <2>1, <2>2, <2>8, ZenonT(60) DEF HandlerOK, OnItsWay, FileInHand, Moved
  <2> QED BY <2>2, <2>4, <2>5, <2>7, <2>9, HandlerStep, Zenon DEF Moved, Insert
<1> QED BY <1>3, <1>4, Zenon DEF Insert

LEMMA DbFailsStep ==
  ASSUME DispatchIInv, KeysApart, NEW r \in Requests, DbFails(r)
  PROVE  DispatchIInv'
<1>0. TypeOK BY Zenon DEF DispatchIInv, DispatchInv
<1>1. Quiet
  BY <1>0, QueryFailsCount, Zenon DEF DbFails, Quiet
<1>2. PICK code \in {"internal"} \cup TakenForGone(r) :
        Answer(r, IF h[r].pc = "insert" THEN "undo" ELSE "reply", code, None)
  BY Zenon DEF DbFails
<1>6. code \in {"internal", "conflict", "bad"} /\ (code = "bad" => h[r].pc = "insert")
  <2>1. CASE Req(r).kind = "restart"
    BY <1>2, <2>1 DEF TakenForGone
  <2>2. CASE Req(r).kind # "restart"
    BY <1>2, <2>2 DEF TakenForGone
  <2> QED BY <2>1, <2>2, Zenon
<1>3. daemon.up /\ h[r].pc \in {"fallback", "lookup", "refs", "insert", "resolve", "sent"}
  BY Zenon DEF DbFails
<1>4. CASE h[r].pc = "insert"
  BY <1>1, <1>2, <1>3, <1>4, <1>6, ToUndo, Zenon DEF Codes
<1>5. CASE h[r].pc # "insert"
  <2>1. Refuse(r, code) /\ h[r].pc \notin Creating /\ h[r].pc # "none"
    BY <1>2, <1>3, <1>5, Zenon DEF Refuse, Creating
  <2>2. code \in Codes \ {"accepted", "replayed"} /\ code # "bad"
    BY <1>5, <1>6, Zenon DEF Codes
  <2> QED BY <1>1, <1>3, <2>1, <2>2, RefuseStep, Zenon
<1> QED BY <1>4, <1>5, Zenon

LEMMA UndoStep ==
  ASSUME DispatchIInv, KeysApart, NEW r \in Requests, Undo(r)
  PROVE  DispatchIInv'
<1> DEFINE k == Req(r).key
<1>1. daemon.up /\ h[r].pc = "undo" /\ h[r].pc \in Creating
  BY Zenon DEF Undo, At, Creating
<1>2. TypeOK /\ k \in Keys
  BY <1>1, CreatorFacts, Zenon
<1>3. Moved(r, "reply") /\ h'[r].code = h[r].code /\ h'[r].fp = h[r].fp
  BY <1>2, GotoMoves, Zenon DEF Undo, PCs
<1>4. OnItsWay(r)' /\ FileInHand(r)'
  BY <1>3, Zenon DEF OnItsWay, FileInHand, Moved
<1>5. h'[r].code \in {"accepted", "replayed"} /\ Req(r).kind # "restart" => h'[r].fp = Fingerprint(Req(r))
  BY <1>3, Zenon DEF DispatchIInv, DispatchInv, HandlerOK
<1>6. faults' \in 0 .. MaxFaults /\ UNCHANGED <<env, lane, input, rows, lock, client>>
  BY <1>2, FaultCount, Zenon DEF Undo
<1>7. /\ events' \in [Keys -> File \cup {None}]
      /\ \A j \in Keys : j # k => events'[j] = events[j]
      /\ events'[k] = None \/ events' = events
  BY <1>2, FileSet, Zenon DEF Undo, TypeOK
<1>8. /\ daemon' \in [up : BOOLEAN, draining : BOOLEAN, full : BOOLEAN, stuck : SUBSET Keys]
      /\ daemon'.up = daemon.up
      /\ \A j \in Keys : j # k => (j \in daemon'.stuck <=> j \in daemon.stuck)
  BY <1>2 DEF Undo, TypeOK
<1>9. events'[k] = None \/ k \in daemon'.stuck
  BY <1>2, FileSet, SMTT(40) DEF Undo, TypeOK
<1> QED BY <1>1, <1>3, <1>4, <1>5, <1>6, <1>7, <1>8, <1>9, FileStep, ZenonT(60)

LEMMA ReplyStep ==
  ASSUME DispatchIInv, KeysApart, NEW r \in Requests, Reply(r)
  PROVE  DispatchIInv'
<1>0. TypeOK BY Zenon DEF DispatchIInv, DispatchInv
<1>1. daemon.up /\ h[r].pc = "reply" /\ h[r].pc \notin Creating
  BY Zenon DEF Reply, At, Creating
<1>2. Moved(r, "end") /\ h'[r].code = h[r].code /\ h'[r].fp = h[r].fp
  BY <1>0, GotoMoves, Zenon DEF Reply, PCs
<1>3. /\ lock' \in [{"mission", "exec"} \X Keys -> Requests \cup {None}]
      /\ \A m \in {"mission", "exec"} \X Keys : lock[m] # r => lock'[m] = lock[m]
  BY <1>0, Zenon DEF Reply, Unlocked, TypeOK
<1>4. TypeOK'
  BY <1>0, <1>2, <1>3, TypesAfter, Zenon DEF Reply, TypeOK, Moved
<1>5. StepOf(r)
  <2>1. ASSUME NEW s \in Requests, s # r, Req(s).kind # "restart", lock[Mutex(s)] = s
        PROVE  lock'[Mutex(s)] = s
    BY <1>0, <1>3, <2>1, RequestFacts, Zenon
  <2> QED BY <1>1, <1>2, <2>1, ZenonT(60) DEF StepOf, Reply, Moved
<1>6. KeyOf(r)
  BY <1>0, <1>1, RequestFacts, Zenon DEF KeyOf, Reply, DispatchIInv, DispatchInv, StreamBehindRow, QueuedHasInput,
     Queued
<1>7. ~Makes(r)' /\ ~Holds(r)' /\ Req(r)' = Req(r)
  BY <1>2, Zenon DEF Makes, Holds, CalledBad, Creating, Moved, Reply, Req
<1>8. HandlerOK(r)'
  BY <1>2, <1>7, ZenonT(60) DEF HandlerOK, OnItsWay, FileInHand, Moved, DispatchIInv, DispatchInv
<1> QED BY <1>2, <1>4, <1>5, <1>6, <1>8, HandlerStep, Zenon DEF Moved, Reply

LEMMA HandleStep ==
  ASSUME DispatchIInv, KeysApart, NEW r \in Requests, Handle(r)
  PROVE  DispatchIInv'
BY BeginStep, LockStep, ResolveStep, FallbackStep, LookupStep, ReadyStep, CountStep, SourceStep, RefsStep, CreateStep,
   CleanOrphanStep, RecreateStep, AppendQueuedStep, InsertStep, DbFailsStep, UndoStep, ReplyStep, Zenon DEF Handle

-----------------------------------------------------------------------------
(* The clients.                                                            *)

\* What a handler is at matters, and who sent it; not whether the client is still there.
LEMMA ClientStep ==
  ASSUME DispatchIInv, TypeOK', Attempted', UNCHANGED <<env, daemon, input, rows, events, lock>>,
         \A s \in Requests : h'[s].pc = h[s].pc /\ h'[s].code = h[s].code /\ h'[s].fp = h[s].fp,
         \A c \in Clients : client'[c].try = client[c].try
  PROVE  DispatchIInv'
<1>1. Requests' = Requests /\ Keys' = Keys /\ Clients' = Clients
  BY Zenon DEF Requests, Keys, Clients
<1>2. \A s \in Requests : Req(s)' = Req(s) /\ Mutex(s)' = Mutex(s)
  BY Zenon DEF Req, Mutex
<1>3. FreshIds'
  BY <1>1, Zenon DEF FreshIds, DispatchIInv, DispatchInv
<1>4. ASSUME NEW s \in Requests PROVE HandlerOK(s)'
  <2>1. (Makes(s)' <=> Makes(s)) /\ (Holds(s)' <=> Holds(s))
    BY <1>2, Zenon DEF Makes, Holds, CalledBad
  <2>2. (OnItsWay(s)' <=> OnItsWay(s)) /\ (FileInHand(s)' <=> FileInHand(s))
    BY <1>2, ZenonT(60) DEF OnItsWay, FileInHand, Mine, Fingerprints
  <2> QED BY <1>2, <2>1, <2>2, Zenon DEF HandlerOK, DispatchIInv, DispatchInv
<1>5. StreamBehindRow' /\ QueuedHasInput'
  BY <1>1, ZenonT(60) DEF DispatchIInv, DispatchInv, StreamBehindRow, QueuedHasInput, Queued
<1>6. NoOrphanFile'
  BY <1>1, <1>2 DEF DispatchIInv, DispatchInv, NoOrphanFile
<1> QED BY <1>1, <1>3, <1>4, <1>5, <1>6, Zenon DEF DispatchIInv, DispatchInv

LEMMA RetryFacts ==
  ASSUME DispatchIInv, NEW c \in Clients
  PROVE  /\ Retry(c) \in Client /\ Retry(c).try = client[c].try
         /\ Retry(c).pc \in {"idle", "gaveup"} /\ (Retry(c).pc = "idle" => client[c].try < Attempts(c))
         /\ Retry(c).pc # "ok"
BY ZenonT(60) DEF DispatchIInv, DispatchInv, TypeOK, Client, Retry

LEMMA JudgeFacts ==
  ASSUME DispatchIInv, NEW c \in Clients, NEW code \in Codes \cup {None}, NEW fp \in Fingerprints \cup {None}
  PROVE  /\ Judge(c, code, fp) \in Client /\ Judge(c, code, fp).try = client[c].try
         /\ Judge(c, code, fp).pc # "waiting"
         /\ Judge(c, code, fp).pc = "idle" => client[c].try < Attempts(c)
         /\ Judge(c, code, fp).pc = "ok" => /\ code \in {"accepted", "replayed", "trusted"}
                                            /\ Judge(c, code, fp).code = code /\ Judge(c, code, fp).fp = fp
<1>0. client[c] \in Client
  BY Zenon DEF DispatchIInv, DispatchInv, TypeOK
<1>1. CASE code \in {"accepted", "replayed", "trusted"}
  <2>1. Judge(c, code, fp) = [client[c] EXCEPT !.pc = "ok", !.code = code, !.fp = fp]
    BY <1>1, Zenon DEF Judge, ClientErrors, Definitive
  <2> QED BY <1>0, <1>1, <2>1, ZenonT(60) DEF Client
<1>2. CASE code \in ClientErrors \cup Definitive
  <2>1. Judge(c, code, fp) = [client[c] EXCEPT !.pc = "refused", !.code = code]
    BY <1>2, Zenon DEF Judge, ClientErrors, Definitive
  <2> QED BY <1>0, <1>2, <2>1, Zenon DEF Client
<1>3. CASE code \notin {"accepted", "replayed", "trusted"} \cup ClientErrors \cup Definitive
  <2>1. Judge(c, code, fp) = Retry(c)
    BY <1>3, Zenon DEF Judge
  <2> QED BY <2>1, RetryFacts, ZenonT(60)
<1> QED BY <1>1, <1>2, <1>3, ZenonT(60)

\* The client that waits does so for a request it has sent.
LEMMA CurrentFacts ==
  ASSUME DispatchIInv, NEW c \in Clients, client[c].pc = "waiting"
  PROVE  Current(c) \in Requests /\ h[Current(c)] \in Handler
<1>1. client[c].try \in 1 .. MaxTries
  BY DispatchConstantsOK, SMTT(40) DEF DispatchIInv, DispatchInv, TypeOK, Attempted, Client
<1>2. Current(c) \in Requests
  BY <1>1, Zenon DEF Current, Requests, RequestsOf, Clients
<1> QED BY <1>2, Zenon DEF DispatchIInv, DispatchInv, TypeOK

\* The types after a step of one client.
LEMMA ClientTypes ==
  ASSUME TypeOK, UNCHANGED <<env, daemon, lane, input, rows, events, lock>>, faults' \in 0 .. MaxFaults,
         h' \in [Requests -> Handler], client' \in [Clients -> Client]
  PROVE  TypeOK'
BY SMTT(40) DEF TypeOK, Requests, Keys, Clients, Row, File, Client, Handler, Fingerprints

\* A client that is not waiting any more, with the tries it has had.
LEMMA ClientAttempted ==
  ASSUME DispatchIInv, NEW c \in Clients, NEW v \in Client, client' = [client EXCEPT ![c] = v],
         v.try = client[c].try, v.pc # "waiting", v.pc = "idle" => client[c].try < Attempts(c),
         UNCHANGED <<env, daemon>>, \A s \in Requests : h'[s].pc = h[s].pc
  PROVE  /\ client' \in [Clients -> Client] /\ Attempted'
         /\ \A d \in Clients : client'[d].try = client[d].try
<1>1. /\ client' \in [Clients -> Client] /\ client'[c] = v
      /\ \A d \in Clients : d # c => client'[d] = client[d]
  BY Zenon DEF DispatchIInv, DispatchInv, TypeOK
<1>2. \A d \in Clients, t \in 1 .. MaxTries : <<d, t>> \in Requests
  BY Zenon DEF Requests, RequestsOf, Clients
<1>3. \A d \in Clients : client'[d].try = client[d].try
  BY <1>1, Zenon
<1>4. Requests' = Requests /\ Clients' = Clients
  BY Zenon DEF Requests, Clients
<1>5. Attempted'
  BY <1>1, <1>2, <1>3, <1>4, SMTT(40) DEF DispatchIInv, DispatchInv, Attempted, Attempts
<1> QED BY <1>1, <1>3, <1>5, Zenon

LEMMA ReceiveStep ==
  ASSUME DispatchIInv, NEW c \in Clients, Receive(c)
  PROVE  DispatchIInv'
<1> DEFINE v == Judge(c, h[Current(c)].code, h[Current(c)].fp)
<1>1. h[Current(c)].code \in Codes \cup {None} /\ h[Current(c)].fp \in Fingerprints \cup {None}
  BY CurrentFacts, Zenon DEF Receive, Handler
<1>2. /\ v \in Client /\ v.try = client[c].try /\ v.pc # "waiting"
      /\ v.pc = "idle" => client[c].try < Attempts(c)
  BY <1>1, JudgeFacts, SMTT(40)
<1>3. client' = [client EXCEPT ![c] = v]
  BY ZenonT(60) DEF Receive
<1> HIDE DEF v
<1>4. client' \in [Clients -> Client] /\ Attempted' /\ \A d \in Clients : client'[d].try = client[d].try
  BY <1>2, <1>3, ClientAttempted, Zenon DEF Receive
<1>5. TypeOK'
  BY <1>4, ClientTypes, ZenonT(60) DEF DispatchIInv, DispatchInv, TypeOK, Receive
<1> QED BY <1>4, <1>5, ClientStep, ZenonT(60) DEF Receive

LEMMA NetworkErrorStep ==
  ASSUME DispatchIInv, NEW c \in Clients, NetworkError(c)
  PROVE  DispatchIInv'
<1>1. Current(c) \in Requests /\ h[Current(c)] \in Handler
  BY CurrentFacts, Zenon DEF NetworkError
<1>2. /\ h' \in [Requests -> Handler]
      /\ \A s \in Requests : h'[s].pc = h[s].pc /\ h'[s].code = h[s].code /\ h'[s].fp = h[s].fp
  BY <1>1, Zenon DEF NetworkError, DispatchIInv, DispatchInv, TypeOK, Handler
<1>3. /\ Retry(c) \in Client /\ Retry(c).try = client[c].try /\ Retry(c).pc # "waiting"
      /\ Retry(c).pc = "idle" => client[c].try < Attempts(c)
  BY RetryFacts, Zenon
<1>4. client' \in [Clients -> Client] /\ Attempted' /\ \A d \in Clients : client'[d].try = client[d].try
  BY <1>2, <1>3, ClientAttempted, Zenon DEF NetworkError
<1>5. faults' \in 0 .. MaxFaults
  BY FaultCount, Zenon DEF DispatchIInv, DispatchInv, NetworkError
<1>6. TypeOK'
  BY <1>2, <1>4, <1>5, ClientTypes, Zenon DEF DispatchIInv, DispatchInv, NetworkError
<1> QED BY <1>2, <1>4, <1>6, ClientStep, Zenon DEF NetworkError

LEMMA SendStep ==
  ASSUME DispatchIInv, NEW c \in Clients, Send(c)
  PROVE  DispatchIInv'
<1> DEFINE t == client[c].try + 1
<1> DEFINE r == <<c, t>>
<1> DEFINE pc == IF daemon.up THEN "sent" ELSE "dead"
<1>0. TypeOK BY Zenon DEF DispatchIInv, DispatchInv
<1>1. client[c].pc = "idle" /\ client[c].try \in 0 .. MaxTries /\ client[c].try < Attempts(c)
  BY Zenon DEF DispatchIInv, DispatchInv, TypeOK, Attempted, Client, Send
<1>2. t \in 1 .. MaxTries /\ t <= Attempts(c)
  BY <1>1, DispatchConstantsOK, SMTT(40) DEF Attempts
<1>3. r \in Requests
  BY <1>2, Zenon DEF Requests, RequestsOf, Clients
<1>4. h[r].pc = "none"
  BY <1>2, <1>1, SMTT(40) DEF DispatchIInv, DispatchInv, Attempted
<1>5. Moved(r, pc) /\ h'[r].code = h[r].code /\ h'[r].fp = h[r].fp
  <2>1. Goto(r, pc) BY Zenon DEF Send, Goto
  <2>2. pc \in PCs BY Zenon DEF PCs
  <2> QED BY <1>0, <1>3, <2>1, <2>2, GotoMoves, Zenon
<1>6. /\ client' \in [Clients -> Client] /\ client'[c].pc = "waiting" /\ client'[c].try = t
      /\ \A d \in Clients : d # c => client'[d] = client[d]
  BY <1>0, <1>2 DEF Send, TypeOK, Client
<1>7. TypeOK'
  BY <1>0, <1>5, <1>6, ClientTypes, Zenon DEF TypeOK, Send, Moved
<1>8. Requests' = Requests /\ Keys' = Keys /\ Clients' = Clients /\ \A s \in Requests : Req(s)' = Req(s) /\ Mutex(s)' = Mutex(s)
  BY Zenon DEF Send, Requests, Keys, Clients, Req, Mutex
<1>9. Attempted'
  <2>1. \A d \in Clients, u \in 1 .. MaxTries : <<d, u>> \in Requests
    BY Zenon DEF Requests, RequestsOf, Clients
  <2>2. ~daemon.up => \A s \in Requests : h'[s].pc \in {"none", "end", "dead"}
    BY <1>5, Zenon DEF DispatchIInv, DispatchInv, Attempted, Moved
  <2>3. ASSUME NEW d \in Clients, NEW u \in 1 .. MaxTries, u > client'[d].try
        PROVE  h'[<<d, u>>].pc = "none"
    <3>1. u > client[d].try /\ <<d, u>> # r
      BY <1>1, <1>6, <2>3
    <3> QED BY <1>5, <2>1, <3>1, SMTT(40) DEF DispatchIInv, DispatchInv, Attempted, Moved
  <2>4. Attempts(c)' = Attempts(c) /\ \A d \in Clients : Attempts(d)' = Attempts(d)
    BY Zenon DEF Attempts, Send
  <2>5. /\ client'[c].try <= Attempts(c) /\ client'[c].try >= 1 /\ client'[c].pc # "idle"
        /\ \A d \in Clients : d # c =>
              /\ client'[d].try <= Attempts(d)
              /\ client'[d].pc = "idle" => client'[d].try < Attempts(d)
              /\ client'[d].pc = "waiting" => client'[d].try >= 1
    BY <1>2, <1>6 DEF DispatchIInv, DispatchInv, Attempted
  <2> QED BY <1>8, <2>2, <2>3, <2>4, <2>5, ZenonT(60) DEF Attempted, Send
<1>10. FreshIds'
  <2>1. \A d \in Clients : client'[d].try = 0 => client[d].try = 0
    BY <1>2, <1>6
  <2> QED BY <2>1, <1>8, Zenon DEF FreshIds, DispatchIInv, DispatchInv, Send
<1>11. ASSUME NEW s \in Requests PROVE HandlerOK(s)'
  <2>1. CASE s # r
    <3>1. h'[s] = h[s] /\ HandlerOK(s)
      BY <1>5, <2>1, Zenon DEF Moved, DispatchIInv, DispatchInv
    <3>2. (Makes(s)' <=> Makes(s)) /\ (Holds(s)' <=> Holds(s))
      BY <1>8, <3>1, Zenon DEF Makes, Holds, CalledBad
    <3>3. OnItsWay(s)' /\ FileInHand(s)'
      BY <1>8, <3>1, ZenonT(60) DEF OnItsWay, FileInHand, Mine, Fingerprints, HandlerOK, Send
    <3> QED BY <1>8, <3>1, <3>2, <3>3, Zenon DEF HandlerOK, Send
  <2>2. CASE s = r
    <3>1. h'[s].pc \in {"sent", "dead"} /\ h'[s].code = h[s].code /\ h'[s].fp = h[s].fp
      BY <1>5, <2>2, Zenon DEF Moved
    <3>2. Req(s).kind = "restart" => rows[Req(s).key] = None /\ events[Req(s).key] = None
      <4>1. Req(s) = env.reqs[c]
        BY <2>2, Zenon DEF Req
      <4>2. Req(s).kind = "restart" => client[c].try = 0
        BY <1>1, <4>1, SMTT(40) DEF Attempts
      <4> QED BY <4>1, <4>2, Zenon DEF DispatchIInv, DispatchInv, FreshIds
    <3>3. ~Holds(s)' /\ (Makes(s)' => Req(s).kind = "restart")
      BY <1>8, <3>1, Zenon DEF Makes, Holds, CalledBad, Creating
    <3>4. OnItsWay(s)' /\ FileInHand(s)'
      BY <1>8, <3>1, <3>2, Zenon DEF OnItsWay, FileInHand, Send
    <3> QED BY <1>8, <3>1, <3>2, <3>3, <3>4, Zenon DEF HandlerOK, DispatchIInv, DispatchInv, Send
  <2> QED BY <2>1, <2>2, Zenon
<1>12. StreamBehindRow' /\ QueuedHasInput'
  BY <1>8, Zenon DEF DispatchIInv, DispatchInv, StreamBehindRow, QueuedHasInput, Queued, Send
<1>13. NoOrphanFile'
  <2> SUFFICES ASSUME NEW k \in Keys, daemon.up, events[k] # None, rows[k] = None, k \notin daemon.stuck
               PROVE  \E s \in Requests : Req(s).key = k /\ h'[s].pc \in Creating
    BY <1>8, SMTT(40) DEF NoOrphanFile, Send
  <2>1. PICK s \in Requests : Req(s).key = k /\ h[s].pc \in Creating
    BY Zenon DEF DispatchIInv, DispatchInv, NoOrphanFile
  <2>2. s # r
    BY <1>4, <2>1, Zenon DEF Creating
  <2> QED BY <1>5, <2>1, <2>2, Zenon DEF Moved
<1> QED BY <1>7, <1>8, <1>9, <1>10, <1>11, <1>12, <1>13, Zenon DEF DispatchIInv, DispatchInv

-----------------------------------------------------------------------------
(* The rest of the daemon.                                                 *)

\* Whoever is not at work has nothing to keep.
LEMMA AtRest ==
  ASSUME NEW r \in Requests, Req(r)' = Req(r), h'[r].pc \in {"none", "end", "dead"},
         h'[r].code = h[r].code, h'[r].fp = h[r].fp, HandlerOK(r)
  PROVE  HandlerOK(r)'
BY ZenonT(60) DEF HandlerOK, OnItsWay, FileInHand, Makes, Holds, CalledBad, Creating

\* The types after a step that moves neither handlers nor clients.
LEMMA DaemonTypes ==
  ASSUME TypeOK, UNCHANGED <<env, h, client, lock>>, faults' \in 0 .. MaxFaults,
         daemon' \in [up : BOOLEAN, draining : BOOLEAN, full : BOOLEAN, stuck : SUBSET Keys],
         lane' \in {"unapplied", "up", "removing", "gone"}, input' \in {"complete", "gone"},
         rows' \in [Keys -> Row \cup {None}], events' \in [Keys -> File \cup {None}]
  PROVE  TypeOK'
BY TypesAfter, Zenon DEF TypeOK

\* The row of k is there, and is changed or removed.
LEMMA RowStep ==
  ASSUME DispatchIInv, TypeOK', NEW k \in Keys, rows[k] # None,
         UNCHANGED <<env, daemon, input, lock, h, client>>,
         \A j \in Keys : j # k => rows'[j] = rows[j] /\ events'[j] = events[j],
         rows'[k] # None => rows'[k].status \in {"done", "deleting"},
         rows'[k] # None /\ rows'[k].status # "deleting" => events'[k] # None /\ events'[k].queued,
         rows'[k] = None => events'[k] = None
  PROVE  DispatchIInv'
<1>0. TypeOK BY Zenon DEF DispatchIInv, DispatchInv
<1>1. Requests' = Requests /\ Keys' = Keys /\ Clients' = Clients
  BY Zenon DEF Requests, Keys, Clients
<1>2. \A s \in Requests : Req(s)' = Req(s) /\ Mutex(s)' = Mutex(s)
  BY Zenon DEF Req, Mutex
<1>3. Attempted'
  BY <1>1, Zenon DEF DispatchIInv, DispatchInv, Attempted, Attempts
<1>4. FreshIds'
  BY <1>1, ZenonT(60) DEF DispatchIInv, DispatchInv, FreshIds, Keys
<1>5. ASSUME NEW s \in Requests PROVE HandlerOK(s)'
  <2>1. (Makes(s)' <=> Makes(s)) /\ (Holds(s)' <=> Holds(s)) /\ HandlerOK(s) /\ Req(s).key \in Keys
    BY <1>0, <1>2, RequestFacts, ZenonT(60) DEF Makes, Holds, CalledBad, DispatchIInv, DispatchInv
  <2>2. Makes(s) => /\ rows'[Req(s).key] = rows[Req(s).key]
                    /\ events'[Req(s).key] = events[Req(s).key]
    BY <2>1, ZenonT(60) DEF HandlerOK
  <2>3. OnItsWay(s)'
    BY <1>2, <2>1, ZenonT(60) DEF OnItsWay, Fingerprints, HandlerOK
  <2>4. FileInHand(s)'
    BY <1>2, <2>1, <2>2, ZenonT(60) DEF FileInHand, Mine, HandlerOK, Makes, Creating
  <2> QED BY <1>2, <2>1, <2>2, <2>3, <2>4, ZenonT(60) DEF HandlerOK
<1>6. StreamBehindRow' /\ QueuedHasInput'
  BY <1>1, ZenonT(60) DEF DispatchIInv, DispatchInv, StreamBehindRow, QueuedHasInput, Queued
<1>7. NoOrphanFile'
  BY <1>1, <1>2, SMTT(40) DEF DispatchIInv, DispatchInv, NoOrphanFile
<1> QED BY <1>1, <1>3, <1>4, <1>5, <1>6, <1>7, Zenon DEF DispatchIInv, DispatchInv

LEMMA RunStep ==
  ASSUME DispatchIInv, NEW k \in Keys, Run(k) \/ DeleteMission(k)
  PROVE  DispatchIInv'
<1>0. TypeOK BY Zenon DEF DispatchIInv, DispatchInv
<1>1. rows[k] # None /\ rows[k].status # "deleting" /\ rows[k] \in Row
  BY <1>0, Zenon DEF Run, DeleteMission, Queued, TypeOK
<1>2. PICK status \in {"done", "deleting"} : rows' = [rows EXCEPT ![k].status = status]
  BY Zenon DEF Run, DeleteMission
<1> DEFINE row == [rows[k] EXCEPT !.status = status]
<1>3. row \in Row /\ row.status = status
  BY <1>1, Zenon DEF Row, RowOf
<1>4. row # None
  BY <1>0, <1>3, Nothing, Zenon
<1>5. rows' = [rows EXCEPT ![k] = row]
  BY <1>2, Zenon
<1> HIDE DEF row
<1>6. /\ rows' \in [Keys -> Row \cup {None}] /\ rows'[k] = row
      /\ \A j \in Keys : j # k => rows'[j] = rows[j]
  BY <1>0, <1>3, <1>5, Zenon DEF TypeOK
<1>7. UNCHANGED <<env, daemon, lane, input, events, lock, h, client>>
  BY Zenon DEF Run, DeleteMission
<1>8. faults' \in 0 .. MaxFaults
  BY <1>0, FaultCount, Zenon DEF Run, DeleteMission
<1>9. TypeOK'
  BY <1>0, <1>6, <1>7, <1>8, DaemonTypes, Zenon DEF TypeOK
<1>10. events[k] # None /\ events[k].queued
  BY <1>1, ZenonT(60) DEF DispatchIInv, DispatchInv, StreamBehindRow
<1> QED BY <1>1, <1>3, <1>4, <1>6, <1>7, <1>9, <1>10, RowStep, Zenon

LEMMA PurgeStep ==
  ASSUME DispatchIInv, NEW k \in Keys, Purge(k)
  PROVE  DispatchIInv'
<1>0. TypeOK BY Zenon DEF DispatchIInv, DispatchInv
<1>1. rows[k] # None /\ rows[k].status = "deleting"
  BY Zenon DEF Purge
<1>2. UNCHANGED <<env, daemon, lane, input, lock, h, client, faults>>
  BY Zenon DEF Purge
<1>3. CASE events' = [events EXCEPT ![k] = None] /\ UNCHANGED rows
  <2>1. events' \in [Keys -> File \cup {None}] /\ \A j \in Keys : j # k => events'[j] = events[j]
    BY <1>0, <1>3, FileSet, ZenonT(60)
  <2>2. TypeOK'
    BY <1>0, <1>2, <1>3, <2>1, DaemonTypes, Zenon DEF TypeOK
  <2> QED BY <1>1, <1>2, <1>3, <2>1, <2>2, RowStep, Zenon
<1>4. CASE rows' = [rows EXCEPT ![k] = None] /\ UNCHANGED events /\ events[k] = None
  <2>1. /\ rows' \in [Keys -> Row \cup {None}] /\ rows'[k] = None
        /\ \A j \in Keys : j # k => rows'[j] = rows[j]
    BY <1>0, <1>4, Zenon DEF TypeOK
  <2>2. TypeOK'
    BY <1>0, <1>2, <1>4, <2>1, DaemonTypes, Zenon DEF TypeOK
  <2> QED BY <1>1, <1>2, <1>4, <2>1, <2>2, RowStep, ZenonT(60)
<1> QED BY <1>3, <1>4, Zenon DEF Purge

LEMMA AroundStep ==
  ASSUME DispatchIInv, Unstage \/ ChangeLane \/ Drain \/ Usage
  PROVE  DispatchIInv'
<1>0. TypeOK BY Zenon DEF DispatchIInv, DispatchInv
<1>1. /\ UNCHANGED <<env, rows, events, lock, h, client>>
      /\ daemon'.up = daemon.up /\ daemon'.stuck = daemon.stuck
      /\ daemon' \in [up : BOOLEAN, draining : BOOLEAN, full : BOOLEAN, stuck : SUBSET Keys]
  BY <1>0, ZenonT(60) DEF Unstage, ChangeLane, Drain, Usage, TypeOK
<1>2. faults' \in 0 .. MaxFaults
  BY <1>0, FaultCount, Zenon DEF Unstage, ChangeLane, Drain, Usage
<1>3. lane' \in {"unapplied", "up", "removing", "gone"} /\ input' \in {"complete", "gone"}
  BY <1>0, Zenon DEF Unstage, ChangeLane, Drain, Usage, TypeOK
<1>4. TypeOK'
  BY <1>0, <1>1, <1>2, <1>3, DaemonTypes, Zenon DEF TypeOK
<1>5. Requests' = Requests /\ Keys' = Keys /\ Clients' = Clients
  BY <1>1, Zenon DEF Requests, Keys, Clients
<1>6. \A s \in Requests : Req(s)' = Req(s) /\ Mutex(s)' = Mutex(s)
  BY <1>1, Zenon DEF Req, Mutex
<1>7. Attempted' /\ FreshIds'
  BY <1>1, <1>5, Zenon DEF DispatchIInv, DispatchInv, Attempted, Attempts, FreshIds
<1>8. ASSUME NEW s \in Requests PROVE HandlerOK(s)'
  <2>1. (Makes(s)' <=> Makes(s)) /\ (Holds(s)' <=> Holds(s))
    BY <1>1, <1>6, Zenon DEF Makes, Holds, CalledBad
  <2>2. (OnItsWay(s)' <=> OnItsWay(s)) /\ (FileInHand(s)' <=> FileInHand(s))
    BY <1>1, <1>6, ZenonT(60) DEF OnItsWay, FileInHand, Mine, Fingerprints
  <2> QED BY <1>1, <1>6, <2>1, <2>2, ZenonT(60) DEF HandlerOK, DispatchIInv, DispatchInv
<1>9. StreamBehindRow' /\ NoOrphanFile'
  BY <1>1, <1>5, <1>6, SMTT(40) DEF DispatchIInv, DispatchInv, StreamBehindRow, NoOrphanFile
<1>10. QueuedHasInput'
  BY <1>1, <1>5, Zenon DEF DispatchIInv, DispatchInv, QueuedHasInput, Queued, Unstage, ChangeLane, Drain, Usage
<1> QED BY <1>4, <1>5, <1>7, <1>8, <1>9, <1>10, Zenon DEF DispatchIInv, DispatchInv

LEMMA CrashStep ==
  ASSUME DispatchIInv, Crash
  PROVE  DispatchIInv'
<1>0. TypeOK BY Zenon DEF DispatchIInv, DispatchInv
<1>1. /\ UNCHANGED <<env, lane, input, rows, events, client>> /\ ~daemon'.up /\ daemon'.stuck = daemon.stuck
      /\ daemon' \in [up : BOOLEAN, draining : BOOLEAN, full : BOOLEAN, stuck : SUBSET Keys]
  BY <1>0, ZenonT(60) DEF Crash, TypeOK
<1>2. faults' \in 0 .. MaxFaults
  BY <1>0, FaultCount, Zenon DEF Crash
<1>3. lock' \in [{"mission", "exec"} \X Keys -> Requests \cup {None}]
  BY <1>0, Zenon DEF Crash, TypeOK
<1>4. ASSUME NEW s \in Requests
      PROVE  /\ h'[s] \in Handler /\ h'[s].pc \in {"none", "end", "dead"}
             /\ h'[s].code = h[s].code /\ h'[s].fp = h[s].fp
             /\ h[s].pc = "none" => h'[s].pc = "none"
  BY <1>0, ZenonT(60) DEF Crash, TypeOK, Handler
<1>5. h' \in [Requests -> Handler]
  BY <1>4, Zenon DEF Crash
<1>6. TypeOK'
  BY <1>0, <1>1, <1>2, <1>3, <1>5, TypesAfter, Zenon DEF TypeOK
<1>7. Requests' = Requests /\ Keys' = Keys /\ Clients' = Clients
  BY <1>1, Zenon DEF Requests, Keys, Clients
<1>8. Attempted'
  <2>1. \A d \in Clients, u \in 1 .. MaxTries : <<d, u>> \in Requests
    BY Zenon DEF Requests, RequestsOf, Clients
  <2> QED BY <1>1, <1>4, <1>7, <2>1 DEF DispatchIInv, DispatchInv, Attempted, Attempts
<1>9. FreshIds' /\ StreamBehindRow' /\ QueuedHasInput' /\ NoOrphanFile'
  BY <1>1, <1>7, ZenonT(60) DEF DispatchIInv, DispatchInv, FreshIds, StreamBehindRow, QueuedHasInput, Queued, NoOrphanFile
<1>10. ASSUME NEW s \in Requests PROVE HandlerOK(s)'
  BY <1>1, <1>4, AtRest, Zenon DEF DispatchIInv, DispatchInv, Req
<1> QED BY <1>6, <1>7, <1>8, <1>9, <1>10, Zenon DEF DispatchIInv, DispatchInv

LEMMA StartStep ==
  ASSUME DispatchIInv, Start
  PROVE  DispatchIInv'
<1> DEFINE orphans == {k \in Keys : rows[k] = None /\ events[k] # None}
<1>0. TypeOK BY Zenon DEF DispatchIInv, DispatchInv
<1>1. UNCHANGED <<env, lane, input, rows, lock, h, client>> /\ ~daemon.up
  BY Zenon DEF Start
<1>2. faults' \in 0 .. MaxFaults
  BY <1>0, FaultCount, Zenon DEF Start
<1>3. /\ daemon' \in [up : BOOLEAN, draining : BOOLEAN, full : BOOLEAN, stuck : SUBSET Keys]
      /\ events' \in [Keys -> File \cup {None}]
  BY <1>0, ZenonT(60) DEF Start, TypeOK
<1>4. /\ \A k \in Keys : rows[k] # None => events'[k] = events[k]
      /\ \A k \in Keys : events[k] = None => events'[k] = None
      /\ \A k \in Keys : rows[k] = None => events'[k] = None \/ k \in daemon'.stuck
  <2>1. CASE events' = [k \in Keys |-> IF k \in orphans THEN None ELSE events[k]]
    BY <2>1, Zenon
  <2>2. CASE UNCHANGED events /\ daemon' = [daemon EXCEPT !.up = TRUE, !.stuck = orphans]
    <3>1. daemon'.stuck = orphans
      BY <1>0, <2>2, Zenon DEF TypeOK
    <3> QED BY <2>2, <3>1, Zenon
  <2> QED BY <2>1, <2>2, Zenon DEF Start
<1>5. TypeOK'
  BY <1>0, <1>1, <1>2, <1>3, DaemonTypes, Zenon DEF TypeOK
<1>6. Requests' = Requests /\ Keys' = Keys /\ Clients' = Clients
  BY <1>1, Zenon DEF Requests, Keys, Clients
<1>7. Attempted'
  BY <1>1, <1>6, ZenonT(60) DEF DispatchIInv, DispatchInv, Attempted, Attempts
<1>8. FreshIds'
  BY <1>1, <1>4, <1>6, Zenon DEF DispatchIInv, DispatchInv, FreshIds, Keys
<1>9. StreamBehindRow' /\ QueuedHasInput' /\ NoOrphanFile'
  BY <1>1, <1>4, <1>6, Zenon DEF DispatchIInv, DispatchInv, StreamBehindRow, QueuedHasInput, Queued, NoOrphanFile
<1>10. ASSUME NEW s \in Requests PROVE HandlerOK(s)'
  <2>1. h[s].pc \in {"none", "end", "dead"}
    BY <1>1, Zenon DEF DispatchIInv, DispatchInv, Attempted
  <2> QED BY <1>1, <2>1, AtRest, Zenon DEF DispatchIInv, DispatchInv, Req
<1> QED BY <1>5, <1>6, <1>7, <1>8, <1>9, <1>10, Zenon DEF DispatchIInv, DispatchInv

-----------------------------------------------------------------------------
(* The theorems.                                                           *)

LEMMA InitOK == Init => DispatchIInv
<1> SUFFICES ASSUME Init PROVE DispatchIInv BY Zenon
<1>1. TypeOK
  <2>1. [pc |-> "none", broken |-> FALSE, code |-> None, fp |-> None, staged |-> FALSE] \in Handler
    BY Zenon DEF Handler
  <2>2. [pc |-> "idle", try |-> 0, code |-> None, fp |-> None] \in Client
    <3>1. 0 \in 0 .. MaxTries
      BY DispatchConstantsOK, SMTT(40)
    <3> QED BY <3>1, Zenon DEF Client
  <2>3. lane \in {"unapplied", "up", "removing", "gone"}
    <3>1. env \in Environments /\ lane = env.lane
      BY Zenon DEF Init
    <3> QED BY <3>1, DispatchConstantsOK, Zenon
  <2>4. h \in [Requests -> Handler] /\ client \in [Clients -> Client]
    <3>1. /\ h = [r \in Requests |-> [pc |-> "none", broken |-> FALSE, code |-> None, fp |-> None, staged |-> FALSE]]
          /\ client = [c \in Clients |-> [pc |-> "idle", try |-> 0, code |-> None, fp |-> None]]
      BY Zenon DEF Init
    <3> QED BY <2>1, <2>2, <3>1, Zenon
  <2>5. /\ daemon \in [up : BOOLEAN, draining : BOOLEAN, full : BOOLEAN, stuck : SUBSET Keys]
        /\ rows \in [Keys -> Row \cup {None}] /\ events \in [Keys -> File \cup {None}]
        /\ lock \in [{"mission", "exec"} \X Keys -> Requests \cup {None}]
    BY Zenon DEF Init
  <2>6. env \in Environments /\ input \in {"complete", "gone"} /\ faults \in 0 .. MaxFaults
    <3>1. env \in Environments /\ input = "complete" /\ faults = 0
      BY Zenon DEF Init
    <3>2. 0 \in 0 .. MaxFaults
      BY DispatchConstantsOK, SMTT(40)
    <3> QED BY <3>1, <3>2, Zenon
  <2> QED BY <2>3, <2>4, <2>5, <2>6, Zenon DEF TypeOK
<1>2. \A r \in Requests : h[r].pc = "none" /\ h[r].code = None
  BY Zenon DEF Init
<1>3. Attempted
  <2>1. \A d \in Clients, u \in 1 .. MaxTries : <<d, u>> \in Requests
    BY Zenon DEF Requests, RequestsOf, Clients
  <2>2. \A c \in Clients : client[c].pc = "idle" /\ client[c].try = 0 /\ Attempts(c) >= 1
    <3>1. client = [c \in Clients |-> [pc |-> "idle", try |-> 0, code |-> None, fp |-> None]]
      BY Zenon DEF Init
    <3>2. \A c \in Clients : Attempts(c) >= 1
      BY DispatchConstantsOK, SMTT(40) DEF Attempts
    <3> QED BY <3>1, <3>2, Zenon
  <2>3. daemon.up
    BY Zenon DEF Init
  <2>4. \A c \in Clients : Attempts(c) \in Nat
    BY DispatchConstantsOK, Zenon DEF Attempts
  <2>5. \A c \in Clients : 0 <= Attempts(c) /\ 0 < Attempts(c)
    BY <2>2, <2>4
  <2> QED BY <1>2, <2>1, <2>2, <2>3, <2>5, Zenon DEF Attempted
<1>4. FreshIds /\ StreamBehindRow /\ NoOrphanFile /\ QueuedHasInput
  BY ZenonT(60) DEF Init, FreshIds, StreamBehindRow, NoOrphanFile, QueuedHasInput, Queued, Keys
<1>5. ASSUME NEW r \in Requests PROVE HandlerOK(r)
  <2>1. h[r].code \notin {"accepted", "replayed"}
    BY <1>2, DispatchConstantsOK, Zenon DEF Codes
  <2> QED BY <1>2, <2>1, ZenonT(60) DEF HandlerOK, OnItsWay, FileInHand, Makes, Holds, CalledBad, Creating
<1> QED BY <1>1, <1>3, <1>4, <1>5, Zenon DEF DispatchIInv, DispatchInv

LEMMA NextOK ==
  ASSUME KeysApart, DispatchIInv, [Next]_vars
  PROVE  DispatchIInv'
<1>1. CASE Next
  BY <1>1, SendStep, ReceiveStep, NetworkErrorStep, HandleStep, RunStep, PurgeStep, AroundStep, CrashStep, StartStep,
     Zenon DEF Next, Step
<1>2. CASE UNCHANGED vars
  <2>1. /\ env' = env /\ daemon' = daemon /\ lane' = lane /\ input' = input /\ rows' = rows /\ events' = events
        /\ lock' = lock /\ h' = h /\ client' = client /\ faults' = faults
    BY <1>2, Zenon DEF vars
  <2>2. /\ Requests' = Requests /\ Keys' = Keys /\ Clients' = Clients /\ Row' = Row /\ File' = File
        /\ Fingerprints' = Fingerprints /\ \A c : Attempts(c)' = Attempts(c)
    BY <2>1, Zenon DEF Requests, Keys, Clients, Row, File, Fingerprints, Attempts
  <2>3. Handler' = Handler /\ Client' = Client
    BY <2>2, Zenon DEF Handler, Client
  <2>4. TypeOK'
    BY <2>1, <2>2, <2>3, Zenon DEF DispatchIInv, DispatchInv, TypeOK
  <2>5. Attempted'
    BY <2>1, <2>2, Zenon DEF DispatchIInv, DispatchInv, Attempted
  <2> QED BY <2>1, <2>4, <2>5, ClientStep, Zenon
<1> QED BY <1>1, <1>2, Zenon

\* Rows, events files, mutexes and inputs belong together, whatever handlers of the three
\* endpoints run at once, fail, are cut off or die (dispatch.go, exec_dispatch.go,
\* missions_restart.go, keymutex.go), as long as no key is used at both endpoints.
THEOREM DispatchIsConsistent ==
  ASSUME KeysApart
  PROVE  Spec => []DispatchIInv
BY InitOK, NextOK, PTL DEF Spec

\* In particular a mission has its stream and its input, and no stream is left over
\* (dispatch.go:347, dispatch.go:425, dispatch.go:492, repair/orphans.go).
THEOREM RowsHaveStreams ==
  ASSUME KeysApart
  PROVE  Spec => []DispatchInv
<1>1. DispatchIInv => DispatchInv
  BY Zenon DEF DispatchIInv
<1> QED BY <1>1, DispatchIsConsistent, PTL

\* A well-formed mission request is refused as bad only while its key has no mission: at
\* the check of the input (dispatch.go:191) and of the lane (dispatch.go:297) the mutex of
\* the key is held and the row has been looked for.
THEOREM BadIsCertain ==
  ASSUME KeysApart
  PROVE  Spec => []BadMeansNoMission
<1>1. DispatchIInv => BadMeansNoMission
  BY Zenon DEF DispatchIInv, DispatchInv, HandlerOK, Makes, BadMeansNoMission
<1> QED BY <1>1, DispatchIsConsistent, PTL

LEMMA ReceiveIsOurs ==
  ASSUME DispatchIInv, AnswerIsOurs, NEW c \in Clients, Receive(c)
  PROVE  AnswerIsOurs'
<1> DEFINE r == Current(c)
<1> DEFINE v == Judge(c, h[r].code, h[r].fp)
<1>1. r \in Requests /\ h[r].code \in Codes \cup {None} /\ h[r].fp \in Fingerprints \cup {None}
  BY CurrentFacts, Zenon DEF Receive, Handler
<1>2. v.pc = "ok" => h[r].code \in {"accepted", "replayed", "trusted"} /\ v.code = h[r].code /\ v.fp = h[r].fp
  BY <1>1, JudgeFacts, ZenonT(60)
<1>3. client' = [client EXCEPT ![c] = v] /\ env' = env
  BY Zenon DEF Receive
<1>4. Req(r) = env.reqs[c]
  BY Zenon DEF Req, Current
<1>5. Req(r).kind # "restart" /\ h[r].code \in {"accepted", "replayed"} => h[r].fp = Fingerprint(Req(r))
  BY <1>1, ZenonT(60) DEF DispatchIInv, DispatchInv, HandlerOK
<1>6. v.pc = "ok" /\ v.code # "trusted" /\ env.reqs[c].kind # "restart" => v.fp = Fingerprint(env.reqs[c])
  BY <1>2, <1>4, <1>5, Zenon
<1> HIDE DEF v
<1>7. client'[c] = v /\ \A d \in Clients : d # c => client'[d] = client[d]
  BY <1>3, Zenon DEF DispatchIInv, DispatchInv, TypeOK
<1>8. Clients' = Clients
  BY <1>3, Zenon DEF Clients
<1> QED BY <1>3, <1>6, <1>7, <1>8, Zenon DEF AnswerIsOurs

LEMMA SendIsOurs ==
  ASSUME DispatchIInv, AnswerIsOurs, NEW c \in Clients, Send(c) \/ NetworkError(c)
  PROVE  AnswerIsOurs'
<1>1. env' = env /\ Clients' = Clients
  BY Zenon DEF Send, NetworkError, Clients
<1>2. client'[c].pc # "ok" /\ \A d \in Clients : d # c => client'[d] = client[d]
  <2>1. CASE Send(c)
    BY <2>1, Zenon DEF DispatchIInv, DispatchInv, TypeOK, Send, Client
  <2>2. CASE NetworkError(c)
    BY <2>2, RetryFacts, Zenon DEF DispatchIInv, DispatchInv, TypeOK, NetworkError
  <2> QED BY <2>1, <2>2, Zenon
<1> QED BY <1>1, <1>2, Zenon DEF AnswerIsOurs

\* A client that is answered "accepted" or "replayed" has the mission it asked for, whoever
\* else used the key (dispatch.go:246, exec_dispatch.go:367), however often it asked and
\* whatever became of the other attempts.
THEOREM AnswersAreOurs ==
  ASSUME KeysApart
  PROVE  Spec => []AnswerIsOurs
<1>1. Init => AnswerIsOurs
  BY SMTT(40) DEF Init, AnswerIsOurs
<1>2. ASSUME DispatchIInv, AnswerIsOurs, [Next]_vars
      PROVE  AnswerIsOurs'
  <2>1. CASE \E c \in Clients : Send(c) \/ NetworkError(c) \/ Receive(c)
    BY <1>2, <2>1, SendIsOurs, ReceiveIsOurs, Zenon
  <2>2. CASE UNCHANGED <<env, client>>
    BY <1>2, <2>2, Zenon DEF AnswerIsOurs, Clients
  <2>3. ASSUME NEW r \in Requests, Handle(r)
        PROVE  UNCHANGED <<env, client>>
    BY <2>3, Zenon DEF Handle, BeginMission, BeginExec, Lock, ResolveMission, ResolveExec, Fallback, Lookup, Ready,
       Count, Source, Refs, Create, CleanOrphan, Recreate, AppendQueued, Insert, DbFails, Undo, Reply
  <2>4. ASSUME NEW k \in Keys, Run(k) \/ DeleteMission(k) \/ Purge(k)
        PROVE  UNCHANGED <<env, client>>
    BY <2>4, Zenon DEF Run, DeleteMission, Purge
  <2>5. Unstage \/ ChangeLane \/ Drain \/ Usage \/ Crash \/ Start => UNCHANGED <<env, client>>
    BY Zenon DEF Unstage, ChangeLane, Drain, Usage, Crash, Start
  <2> QED BY <1>2, <2>1, <2>2, <2>3, <2>4, <2>5, Zenon DEF Next, Step, vars
<1> QED BY <1>1, <1>2, DispatchIsConsistent, PTL DEF Spec

=============================================================================
