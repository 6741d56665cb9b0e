-------------------------- MODULE LaneRunnerProofs --------------------------
(***************************************************************************)
(* Proofs about LaneRunner, for all missions, limits, environments and     *)
(* numbers of requests: LaneInv is inductive.                              *)
(***************************************************************************)
EXTENDS LaneRunner, FiniteSetTheorems, TLAPS

\* Limits are numbers.
LEMMA LimitsAreNumbers == {0} \cup Limits \subseteq Nat
  BY LaneConstantsOK

-----------------------------------------------------------------------------
(* What the steps of one actor leave alone.                                *)

\* The loop of runner g moves on without a mission.
LoopMoved(g) ==
    /\ \A h \in Gens \ {g} : runner'[h] = runner[h]
    /\ runner[g].pc \notin {"off", "picked", "exit"} /\ runner'[g].pc \notin {"off", "picked"}
    /\ runner'[g].job = runner[g].job /\ runner'[g].inflight = runner[g].inflight
    /\ runner'[g].cancelled = runner[g].cancelled
    /\ IF runner'[g].pc = "pick" THEN runner[g].inflight < runner'[g].gate
       ELSE runner'[g].gate = runner[g].gate
    /\ runner[g].acked => runner'[g].acked
    /\ runner'[g].acked => runner[g].acked \/ runner'[g].pc = "acked"
    /\ runner[g].pc = "acked" => runner'[g].pc = "exit"

\* Every step of a loop but a pickup and a registration is of this kind.
LEMMA LoopMoves ==
  ASSUME TypeOK, NEW g \in Gens,
         LoopTop(g) \/ WaitBegins(g) \/ WaitEnds(g) \/ WaitTimesOut(g) \/ PickBusy(g) \/ PickFails(g)
  PROVE  runner' \in [Gens -> Runner] /\ LoopMoved(g)
<1> runner \in [Gens -> Runner] BY Zenon DEF TypeOK
<1>1. CASE LoopTop(g)
  <2> DEFINE r == runner[g]
  <2>1. r \in Runner /\ r.limit \in {0} \cup Limits /\ r.inflight \in Nat BY Zenon DEF Runner
  <2>2. r.limit \in Nat BY <2>1, LimitsAreNumbers, Zenon
  <2>3. CASE runner' = [runner EXCEPT ![g] = [r EXCEPT !.pc = "exit"]]
    BY <1>1, <2>1, <2>3, Zenon DEF LoopTop, Runner, LoopMoved
  <2>4. CASE runner' = [runner EXCEPT ![g] = [r EXCEPT !.pc = "acked", !.acked = TRUE]]
    BY <1>1, <2>1, <2>4, ZenonT(60) DEF LoopTop, Runner, LoopMoved
  <2>5. CASE \/ runner' = [runner EXCEPT ![g] = [r EXCEPT !.pc = "toWake"]]
             \/ runner' = [runner EXCEPT ![g] = [r EXCEPT !.pc = "toAvail"]]
    BY <1>1, <2>1, <2>5 DEF LoopTop, Runner, LoopMoved
  <2>6. CASE /\ r.inflight < r.limit
             /\ runner' = [runner EXCEPT ![g] = [r EXCEPT !.pc = "pick", !.gate = r.limit]]
    BY <1>1, <2>1, <2>2, <2>6, ZenonT(60) DEF LoopTop, Runner, LoopMoved
  <2> QED BY <1>1, <2>3, <2>4, <2>5, <2>6, Zenon DEF LoopTop
<1>2. CASE WaitBegins(g)
  BY <1>2 DEF WaitBegins, Runner, LoopMoved
<1>3. CASE WaitEnds(g)
  <2>1. CASE runner[g].pc = "wake" /\ runner' = [runner EXCEPT ![g] = [@ EXCEPT !.pc = "top", !.notify = FALSE]]
    BY <2>1, ZenonT(60) DEF Runner, LoopMoved
  <2>2. CASE runner[g].pc = "avail" /\ runner' = [runner EXCEPT ![g] = [@ EXCEPT !.pc = "top", !.avail = FALSE]]
    BY <2>2, ZenonT(60) DEF Runner, LoopMoved
  <2>3. CASE runner[g].pc \in {"wake", "avail"} /\ runner' = [runner EXCEPT ![g].pc = "top"]
    BY <2>3 DEF Runner, LoopMoved
  <2>4. CASE runner[g].pc = "acked" /\ runner' = [runner EXCEPT ![g].pc = "exit"]
    BY <2>4 DEF Runner, LoopMoved
  <2> QED BY <1>3, <2>1, <2>2, <2>3, <2>4, Zenon DEF WaitEnds
<1>4. CASE WaitTimesOut(g) \/ PickBusy(g) \/ PickFails(g)
  BY <1>4 DEF WaitTimesOut, PickBusy, PickFails, Runner, LoopMoved
<1> QED BY <1>1, <1>2, <1>3, <1>4, Zenon

\* The manager sets flags of a runner; the loop and its slots stay where they are.
RunnersKept ==
    \A h \in Gens :
        /\ runner'[h].pc = runner[h].pc /\ runner'[h].job = runner[h].job
        /\ runner'[h].gate = runner[h].gate /\ runner'[h].inflight = runner[h].inflight
        /\ runner'[h].acked = runner[h].acked
        /\ runner[h].cancelled => runner'[h].cancelled

\* Notify, Resize, Pause, Resume, MarkRemoving and Stop set flags only.
LEMMA FlagsOnly ==
  ASSUME TypeOK,
         \/ \E m \in Missions : Notify(m)
         \/ Managed /\ Reconcile
         \/ ReconcilePause \/ ForcePrune \/ StopRemoved \/ StopLanes
         \/ PauseLane \/ ContinueLane \/ RollBack \/ PauseAllLanes \/ StopAll
  PROVE  runner' \in [Gens -> Runner] /\ RunnersKept
<1> DEFINE r == runner[lane.managed]
<1> runner \in [Gens -> Runner] /\ lane.managed \in {0} \cup Gens /\ lane.limit \in Limits
  BY Zenon DEF TypeOK, Lane
<1>1. CASE runner' = runner
  BY <1>1, Zenon DEF RunnersKept
<1>2. CASE lane.managed \notin Gens
  <2>1. ~Managed BY <1>2, Zenon DEF Managed
  <2>2. runner' = runner
    BY <1>2, <2>1 DEF Notify, Reconcile, ReconcilePause, ForcePrune, StopRemoved, StopLanes, PauseLane,
                      ContinueLane, RollBack, PauseAllLanes, StopAll
  <2> QED BY <1>1, <2>2, Zenon
<1>3. CASE lane.managed \in Gens
  <2> r \in Runner BY <1>3, Zenon
  <2>1. /\ [r EXCEPT !.notify = TRUE] \in Runner
        /\ [r EXCEPT !.paused = TRUE] \in Runner
        /\ [r EXCEPT !.cancelled = TRUE] \in Runner
        /\ [r EXCEPT !.limit = lane.limit, !.avail = TRUE] \in Runner
        /\ [r EXCEPT !.paused = FALSE, !.notify = TRUE] \in Runner
        /\ [r EXCEPT !.removing = TRUE, !.avail = TRUE, !.notify = TRUE] \in Runner
    BY ZenonT(60) DEF Runner
  <2>2. \/ runner' = runner
        \/ runner' = [runner EXCEPT ![lane.managed] = [r EXCEPT !.notify = TRUE]]
        \/ runner' = [runner EXCEPT ![lane.managed] = [r EXCEPT !.paused = TRUE]]
        \/ runner' = [runner EXCEPT ![lane.managed] = [r EXCEPT !.cancelled = TRUE]]
        \/ runner' = [runner EXCEPT ![lane.managed] = [r EXCEPT !.limit = lane.limit, !.avail = TRUE]]
        \/ runner' = [runner EXCEPT ![lane.managed] = [r EXCEPT !.paused = FALSE, !.notify = TRUE]]
        \/ runner' = [runner EXCEPT ![lane.managed] =
                        [r EXCEPT !.removing = TRUE, !.avail = TRUE, !.notify = TRUE]]
    <3>1. CASE ReconcilePause
      BY <3>1, ZenonT(60) DEF ReconcilePause
    <3>2. CASE (\E m \in Missions : Notify(m)) \/ (Managed /\ Reconcile) \/ ForcePrune
      BY <3>2, ZenonT(60) DEF Notify, Reconcile, ForcePrune
    <3>3. CASE StopRemoved \/ StopLanes \/ StopAll
      BY <3>3, Zenon DEF StopRemoved, StopLanes, StopAll
    <3>4. CASE PauseLane \/ ContinueLane \/ RollBack \/ PauseAllLanes
      BY <3>4, ZenonT(60) DEF PauseLane, ContinueLane, RollBack, PauseAllLanes, Paused, Resumed
    <3> QED BY <3>1, <3>2, <3>3, <3>4, Zenon
  <2>3. CASE runner' = [runner EXCEPT ![lane.managed] = [r EXCEPT !.notify = TRUE]]
    BY <1>3, <2>1, <2>3, SMTT(40) DEF Runner, RunnersKept
  <2>4. CASE runner' = [runner EXCEPT ![lane.managed] = [r EXCEPT !.paused = TRUE]]
    BY <1>3, <2>1, <2>4, SMTT(40) DEF Runner, RunnersKept
  <2>5. CASE runner' = [runner EXCEPT ![lane.managed] = [r EXCEPT !.cancelled = TRUE]]
    BY <1>3, <2>1, <2>5, SMTT(40) DEF Runner, RunnersKept
  <2>6. CASE runner' = [runner EXCEPT ![lane.managed] = [r EXCEPT !.limit = lane.limit, !.avail = TRUE]]
    BY <1>3, <2>1, <2>6, SMTT(40) DEF Runner, RunnersKept
  <2>7. CASE runner' = [runner EXCEPT ![lane.managed] = [r EXCEPT !.paused = FALSE, !.notify = TRUE]]
    BY <1>3, <2>1, <2>7, SMTT(40) DEF Runner, RunnersKept
  <2>8. CASE runner' = [runner EXCEPT ![lane.managed] =
                         [r EXCEPT !.removing = TRUE, !.avail = TRUE, !.notify = TRUE]]
    BY <1>3, <2>1, <2>8 DEF Runner, RunnersKept
  <2> QED BY <1>1, <2>2, <2>3, <2>4, <2>5, <2>6, <2>7, <2>8, Zenon
<1> QED BY <1>2, <1>3, Zenon

\* The goroutine of m gets on with its process.
GoroutineMoved(m) ==
    /\ \A k \in Missions \ {m} : run'[k] = run[k]
    /\ run'[m].by = run[m].by
    /\ run[m].pc \in {"start", "exec"} /\ run'[m].pc \in {"exec", "finalize"}

\* Up to its finalize a goroutine keeps its slot and its runner.
LEMMA GoroutineMoves ==
  ASSUME TypeOK, NEW m \in Missions,
         Start(m) \/ WatchKillCh(m) \/ WatchCtx(m) \/ WatchTimeout(m) \/ ProcessExit(m)
  PROVE  run' \in [Missions -> Run] /\ GoroutineMoved(m)
<1> run \in [Missions -> Run] BY Zenon DEF TypeOK
<1>1. CASE Start(m)
  <2>1. CASE run' = [run EXCEPT ![m] = [@ EXCEPT !.pc = "finalize", !.out = "crashed"]]
    <3>1. "crashed" \in Ends \cup {None} BY Zenon DEF Ends
    <3> QED BY <1>1, <2>1, <3>1, ZenonT(60) DEF Start, Run, GoroutineMoved
  <2>2. CASE run' = [run EXCEPT ![m] = [@ EXCEPT !.pc = "exec", !.listens = TRUE]]
    BY <1>1, <2>2, ZenonT(60) DEF Start, Run, GoroutineMoved
  <2> QED BY <1>1, <2>1, <2>2, Zenon DEF Start
<1>2. CASE WatchKillCh(m)
  BY <1>2 DEF WatchKillCh, KillProcess, Run, GoroutineMoved
<1>3. CASE WatchCtx(m) \/ WatchTimeout(m)
  BY <1>3 DEF WatchCtx, WatchTimeout, KillProcess, Run, KillReasons, GoroutineMoved
<1>4. CASE ProcessExit(m)
  BY <1>4, ZenonT(60) DEF ProcessExit, NoRun, Run, Ends, GoroutineMoved
<1> QED BY <1>1, <1>2, <1>3, <1>4, Zenon

\* Updates of a runner by its loop and by Run's deferred release.
LEMMA RunnerUpdates ==
  ASSUME NEW r \in Runner
  PROVE  /\ \A m \in Missions : [r EXCEPT !.pc = "picked", !.job = m] \in Runner
         /\ [r EXCEPT !.pc = "top", !.job = 0, !.inflight = r.inflight + 1] \in Runner
         /\ r.inflight - 1 \in Nat => [r EXCEPT !.inflight = r.inflight - 1, !.avail = TRUE] \in Runner
<1>1. ASSUME NEW m \in Missions PROVE [r EXCEPT !.pc = "picked", !.job = m] \in Runner
  <2>1. m \in {0} \cup Missions BY Zenon
  <2> QED BY <2>1, ZenonT(60) DEF Runner
<1>2. [r EXCEPT !.pc = "top", !.job = 0, !.inflight = r.inflight + 1] \in Runner
  <2>1. r.inflight + 1 \in Nat /\ 0 \in {0} \cup Missions BY DEF Runner
  <2> QED BY <2>1, ZenonT(60) DEF Runner
<1>3. ASSUME r.inflight - 1 \in Nat
      PROVE  [r EXCEPT !.inflight = r.inflight - 1, !.avail = TRUE] \in Runner
  BY <1>3, ZenonT(60) DEF Runner
<1> QED BY <1>1, <1>2, <1>3, ZenonT(60)

\* What a failing transaction, an apply and a signal rely on.
LEMMA EnvironmentTypes ==
  ASSUME env \in Environments
  PROVE  /\ env.errors \in Nat /\ env.requests \in 0 .. MaxAdmin /\ env.signals \in 0 .. 2
         /\ env.limits \subseteq Limits
         /\ env.pauses \subseteq {"none", "yaml", "ctl", "legacy"}
<1> env \in Environment BY LaneConstantsOK, Zenon
<1> QED BY Zenon DEF Environment

\* Failing transactions stay within the bound of the environment.
LEMMA ErrorCounted ==
  ASSUME env \in Environments, errors \in 0 .. env.errors, errors < env.errors, errors' = errors + 1,
         UNCHANGED env
  PROVE  errors' \in 0 .. env'.errors
<1> env.errors \in Nat BY EnvironmentTypes, Zenon
<1> QED OBVIOUS

\* So do administrative requests.
LEMMA RequestCounted ==
  ASSUME TypeOK, NEW op, AdminStarts(op)
  PROVE  admin.ops + 1 \in 0 .. MaxAdmin
<1>1. env.requests \in 0 .. MaxAdmin BY EnvironmentTypes, Zenon DEF TypeOK
<1>2. admin.ops \in 0 .. MaxAdmin BY Zenon DEF TypeOK, Admin
<1>3. admin.ops < env.requests BY Zenon DEF AdminStarts
<1> QED BY <1>1, <1>2, <1>3, LaneConstantsOK

\* There is a number left for the runner that an apply starts.
LEMMA FreshGeneration ==
  ASSUME TypeOK, Generations, admin.pc = "reconcile"
  PROVE  lane.used + 1 \in Gens
<1>1. lane.used \in {0} \cup Gens /\ admin.ops \in 0 .. MaxAdmin BY Zenon DEF TypeOK, Lane, Admin
<1>2. lane.used + 1 <= admin.ops + 1 BY Zenon DEF Generations
<1> QED BY <1>1, <1>2, LaneConstantsOK DEF Gens

\* Whoever holds a slot is counted by the runner that gave it.
LEMMA HolderIsCounted ==
  ASSUME TypeOK, Generations, Slots, NEW m \in Missions,
         run[m].pc \in {"start", "exec", "finalize", "release"}
  PROVE  run[m].by \in Gens /\ runner[run[m].by].inflight - 1 \in Nat
<1>1. run[m].by \in Gens
  <2>1. run[m].by \in 1 .. lane.used /\ lane.used \in {0} \cup Gens
    BY Zenon DEF Generations, Spawned, TypeOK, Lane
  <2> QED BY <2>1, LaneConstantsOK DEF Gens
<1> DEFINE S == Holders(run[m].by)
<1>2. IsFiniteSet(S) /\ runner[run[m].by].inflight = Cardinality(S) BY <1>1, Zenon DEF Slots
<1>3. S # {} BY Zenon DEF Holders
<1> HIDE DEF S
<1> QED BY <1>1, <1>2, <1>3, FS_EmptySet, FS_CardinalityType

\* Runner g claims mission m in its pickup transaction.
Claimed(g, m) ==
    /\ runner[g].pc = "pick" /\ ~runner[g].cancelled /\ row[m].status = "queued"
    /\ row'[m].status = "running" /\ \A k \in Missions \ {m} : row'[k] = row[k]
    /\ \A h \in Gens \ {g} : runner'[h] = runner[h]
    /\ runner'[g].pc = "picked" /\ runner'[g].job = m
    /\ runner'[g].inflight = runner[g].inflight /\ runner'[g].gate = runner[g].gate
    /\ runner'[g].acked = runner[g].acked /\ runner'[g].cancelled = runner[g].cancelled

\* The pickup transaction claims a queued row or leaves all rows alone.
LEMMA PickClaims ==
  ASSUME TypeOK, NEW g \in Gens, Pick(g)
  PROVE  (LoopMoved(g) /\ UNCHANGED row) \/ \E m \in Missions : Claimed(g, m)
<1> runner \in [Gens -> Runner] /\ row \in [Missions -> Row] BY Zenon DEF TypeOK
<1>1. CASE runner[g].pc = "pick" /\ runner' = [runner EXCEPT ![g].pc = "toWake"] /\ UNCHANGED row
  BY <1>1, Zenon DEF LoopMoved, Runner
<1>2. ASSUME NEW m \in WithStatus("queued"), runner[g].pc = "pick", ~runner[g].cancelled,
             row' = [row EXCEPT ![m].status = "running"],
             runner' = [runner EXCEPT ![g] = [@ EXCEPT !.pc = "picked", !.job = m]]
      PROVE  m \in Missions /\ Claimed(g, m)
  BY <1>2 DEF WithStatus, Claimed, Runner, Row
<1> QED BY <1>1, <1>2, ZenonT(60) DEF Pick

\* Runner g hands mission m to its goroutine.
Registered(g, m) ==
    /\ runner[g].pc = "picked" /\ runner[g].job = m
    /\ \A h \in Gens \ {g} : runner'[h] = runner[h]
    /\ runner'[g].pc = "top" /\ runner'[g].job = 0
    /\ runner'[g].inflight = runner[g].inflight + 1 /\ runner'[g].gate = runner[g].gate
    /\ runner'[g].acked = runner[g].acked /\ runner'[g].cancelled = runner[g].cancelled
    /\ run'[m].pc = "start" /\ run'[m].by = g /\ \A k \in Missions \ {m} : run'[k] = run[k]
    /\ kch'[m] # "unregistered" /\ \A k \in Missions \ {m} : kch'[k] = kch[k]

\* PreSpawn and the launch of the goroutine.
LEMMA RegisterHandsOver ==
  ASSUME TypeOK, Claims, NEW g \in Gens, Register(g)
  PROVE  runner[g].job \in Missions /\ Registered(g, runner[g].job)
<1> DEFINE m == runner[g].job
<1> runner \in [Gens -> Runner] /\ run \in [Missions -> Run] BY Zenon DEF TypeOK
<1>1. m \in Missions BY Zenon DEF Register, Claims, Runner
<1>2. /\ \A h \in Gens \ {g} : runner'[h] = runner[h]
      /\ runner'[g].pc = "top" /\ runner'[g].job = 0
      /\ runner'[g].inflight = runner[g].inflight + 1 /\ runner'[g].gate = runner[g].gate
      /\ runner'[g].acked = runner[g].acked /\ runner'[g].cancelled = runner[g].cancelled
  BY Zenon DEF Register, Runner
<1>3. run'[m].pc = "start" /\ run'[m].by = g /\ \A k \in Missions \ {m} : run'[k] = run[k]
  BY <1>1, Zenon DEF Register, NoRun, Run
<1>4. kch'[m] # "unregistered" /\ \A k \in Missions \ {m} : kch'[k] = kch[k]
  BY <1>1, Zenon DEF Register, TypeOK
<1> QED BY <1>1, <1>2, <1>3, <1>4, Zenon DEF Register, Registered

\* The goroutine of m gives its slot back.
Released(m) ==
    /\ run[m].pc = "release" /\ run'[m].pc = "unregister" /\ run'[m].by = run[m].by
    /\ \A k \in Missions \ {m} : run'[k] = run[k]
    /\ \A h \in Gens : /\ runner'[h].pc = runner[h].pc /\ runner'[h].job = runner[h].job
                        /\ runner'[h].gate = runner[h].gate /\ runner'[h].acked = runner[h].acked
                        /\ runner'[h].cancelled = runner[h].cancelled
    /\ \A h \in Gens \ {run[m].by} : runner'[h].inflight = runner[h].inflight
    /\ runner'[run[m].by].inflight = runner[run[m].by].inflight - 1

\* Run's deferred release, for the runner that gave the slot.
LEMMA ReleaseGivesBack ==
  ASSUME TypeOK, Generations, Slots, NEW m \in Missions, Release(m)
  PROVE  Released(m)
<1> runner \in [Gens -> Runner] /\ run \in [Missions -> Run] BY Zenon DEF TypeOK
<1>1. run[m].by \in Gens BY HolderIsCounted, Zenon DEF Release
<1>2. /\ run[m].pc = "release" /\ run'[m].pc = "unregister" /\ run'[m].by = run[m].by
      /\ \A k \in Missions \ {m} : run'[k] = run[k]
  BY Zenon DEF Release, Run
<1>3. /\ \A h \in Gens : /\ runner'[h].pc = runner[h].pc /\ runner'[h].job = runner[h].job
                          /\ runner'[h].gate = runner[h].gate /\ runner'[h].acked = runner[h].acked
                          /\ runner'[h].cancelled = runner[h].cancelled
      /\ \A h \in Gens \ {run[m].by} : runner'[h].inflight = runner[h].inflight
      /\ runner'[run[m].by].inflight = runner[run[m].by].inflight - 1
  BY <1>1 DEF Release, Runner
<1> QED BY <1>2, <1>3, Zenon DEF Released

\* An apply starts the next runner.
LEMMA RunnerStarts ==
  ASSUME TypeOK, Generations, Reconcile, ~Managed
  PROVE  LET g == lane.used + 1 IN
         /\ g \in Gens /\ \A h \in Gens \ {g} : runner'[h] = runner[h]
         /\ runner'[g].pc = "top" /\ runner'[g].job = 0 /\ runner'[g].inflight = 0
         /\ runner'[g].gate = 0 /\ ~runner'[g].acked
         /\ lane'.used = g /\ lane'.managed = g
<1>1. lane.used + 1 \in Gens BY FreshGeneration, Zenon DEF Reconcile
<1>2. runner' = [runner EXCEPT ![lane.used + 1] = Started(lane.limit)] BY Zenon DEF Reconcile
<1>3. lane'.used = lane.used + 1 /\ lane'.managed = lane.used + 1
  BY ZenonT(60) DEF Reconcile, TypeOK, Lane
<1> QED BY <1>1, <1>2, <1>3, Zenon DEF Started, Off, TypeOK

-----------------------------------------------------------------------------
(* LaneInv is inductive: one lemma for each of its parts.                  *)

\* TypeOK.
LEMMA TypeKept ==
  ASSUME LaneInv, Next
  PROVE  TypeOK'
<1> USE DEF TypeOK
<1> TypeOK /\ Generations /\ Claims /\ Slots /\ UNCHANGED env BY Zenon DEF LaneInv, Next, Alive
<1>1. ASSUME NEW g \in Gens, Loop(g) \/ WaitTimesOut(g) \/ PickFails(g) PROVE TypeOK'
  <2>1. CASE LoopTop(g) \/ WaitBegins(g) \/ WaitEnds(g) \/ WaitTimesOut(g) \/ PickBusy(g)
    <3>1. runner' \in [Gens -> Runner] BY <2>1, LoopMoves, Zenon
    <3> QED BY <2>1, <3>1, Zenon DEF LoopTop, WaitBegins, WaitEnds, WaitTimesOut, PickBusy
  <2>2. CASE PickFails(g)
    <3>1. runner' \in [Gens -> Runner] BY <2>2, LoopMoves, Zenon
    <3>2. errors' \in 0 .. env'.errors BY <2>2, ErrorCounted, Zenon DEF PickFails
    <3> QED BY <2>2, <3>1, <3>2, Zenon DEF PickFails
  <2>3. CASE Pick(g)
    <3>1. CASE runner' = [runner EXCEPT ![g].pc = "toWake"] /\ UNCHANGED row
      <4>1. runner' \in [Gens -> Runner] BY <3>1, ZenonT(60) DEF Runner, TypeOK
      <4> QED BY <2>3, <3>1, <4>1, ZenonT(60) DEF Pick
    <3>2. ASSUME NEW m \in Missions, row' = [row EXCEPT ![m].status = "running"],
                 runner' = [runner EXCEPT ![g] = [@ EXCEPT !.pc = "picked", !.job = m]]
          PROVE  TypeOK'
      <4>1. runner' \in [Gens -> Runner] BY <3>2, RunnerUpdates, ZenonT(60)
      <4>2. row' \in [Missions -> Row] BY <3>2, Zenon DEF Row
      <4> QED BY <2>3, <4>1, <4>2, ZenonT(60) DEF Pick
    <3> QED BY <2>3, <3>1, <3>2, ZenonT(60) DEF Pick, WithStatus
  <2>4. CASE Register(g)
    <3> DEFINE m == runner[g].job
    <3>1. m \in Missions BY <2>4, Zenon DEF Register, Claims, Runner
    <3>2. runner' \in [Gens -> Runner]
      <4>1. runner' = [runner EXCEPT ![g] = [runner[g] EXCEPT !.pc = "top", !.job = 0,
                                                 !.inflight = runner[g].inflight + 1]]
        BY <2>4, Zenon DEF Register
      <4> QED BY <4>1, RunnerUpdates, ZenonT(60)
    <3>3. kch' \in [Missions -> {"unregistered", "empty"} \cup KillReasons] BY <2>4, <3>1, Zenon DEF Register
    <3>4. run' \in [Missions -> Run] BY <2>4, <3>1, ZenonT(60) DEF Register, NoRun, Run
    <3> QED BY <2>4, <3>2, <3>3, <3>4, Zenon DEF Register
  <2> QED BY <1>1, <2>1, <2>2, <2>3, <2>4, Zenon DEF Loop
<1>2. ASSUME NEW m \in Missions,
             Goroutine(m) \/ WatchTimeout(m) \/ ProcessExit(m) \/ FinalizeFails(m)
      PROVE  TypeOK'
  <2>1. CASE Start(m) \/ WatchCtx(m) \/ WatchTimeout(m) \/ ProcessExit(m)
    <3>1. run' \in [Missions -> Run] BY <2>1, GoroutineMoves, Zenon
    <3> QED BY <2>1, <3>1, Zenon DEF Start, WatchCtx, WatchTimeout, ProcessExit
  <2>2. CASE WatchKillCh(m)
    <3>1. run' \in [Missions -> Run] BY <2>2, GoroutineMoves, Zenon
    <3> QED BY <2>2, <3>1, Zenon DEF WatchKillCh
  <2>3. CASE Finalize(m)
    <3>1. row' \in [Missions -> Row] BY <2>3, Zenon DEF Finalize, Ended, Row, Run
    <3> QED BY <2>3, <3>1, ZenonT(60) DEF Finalize, Run
  <2>4. CASE FinalizeFails(m)
    <3>1. errors' \in 0 .. env'.errors BY <2>4, ErrorCounted, Zenon DEF FinalizeFails
    <3> QED BY <2>4, <3>1, SMTT(40) DEF FinalizeFails, Run
  <2>5. CASE Release(m)
    <3>1. run[m].by \in Gens BY <2>5, HolderIsCounted, Zenon DEF Release
    <3>2. runner[run[m].by].inflight - 1 \in Nat BY <2>5, HolderIsCounted, Zenon DEF Release
    <3>3. runner' \in [Gens -> Runner]
      <4> DEFINE r == runner[run[m].by]
      <4>1. runner' = [runner EXCEPT ![run[m].by] = [r EXCEPT !.inflight = r.inflight - 1, !.avail = TRUE]]
        BY <2>5, Zenon DEF Release
      <4> QED BY <3>1, <3>2, <4>1, RunnerUpdates, ZenonT(60)
    <3> QED BY <2>5, <3>3, ZenonT(60) DEF Release, Run
  <2>6. CASE Unregister(m)
    BY <2>6, ZenonT(60) DEF Unregister, NoRun, Run
  <2> QED BY <1>2, <2>1, <2>2, <2>3, <2>4, <2>5, <2>6, Zenon DEF Goroutine
<1>3. ASSUME NEW m \in Missions,
             Handler(m) \/ CheckLane(m) \/ InsertFails(m) \/ KillRead(m) \/ KillQueued(m) \/ KillRunning(m)
      PROVE  TypeOK'
  <2>1. CASE CheckLane(m)
    BY <2>1, Zenon DEF CheckLane, Request
  <2>2. CASE BeginInsert(m)
    BY <2>2, Zenon DEF BeginInsert, Request, Lane
  <2>3. CASE RecheckLane(m)
    BY <2>3, Zenon DEF RecheckLane, Request, Lane
  <2>4. CASE Insert(m)
    BY <2>4, ZenonT(60) DEF Insert, Request, Lane, Row
  <2>5. CASE InsertFails(m)
    <3>1. errors' \in 0 .. env'.errors BY <2>5, ErrorCounted, Zenon DEF InsertFails
    <3> QED BY <2>5, <3>1, Zenon DEF InsertFails, Request, Lane
  <2>6. CASE Notify(m)
    <3>1. runner' \in [Gens -> Runner] BY <2>6, FlagsOnly, Zenon
    <3> QED BY <2>6, <3>1, Zenon DEF Notify, Request
  <2>7. CASE KillRead(m)
    BY <2>7, Zenon DEF KillRead
  <2>8. CASE KillQueued(m)
    BY <2>8, Zenon DEF KillQueued, Ended, Row, Ends, KillReasons
  <2>9. CASE KillRunning(m)
    BY <2>9, Zenon DEF KillRunning, Signalled, KillReasons
  <2> QED BY <1>3, <2>1, <2>2, <2>3, <2>4, <2>5, <2>6, <2>7, <2>8, <2>9, Zenon DEF Handler
<1>4. CASE AdminStep \/ Apply \/ Prune \/ ForcePrune \/ PruneFails \/ PauseLane \/ ContinueLane \/ RollBack
  <2>1. CASE Apply
    <3>1. PICK n \in Limits, p \in BOOLEAN : ApplyLane(n, p)
      BY <2>1, EnvironmentTypes, ZenonT(60) DEF Apply, Lane
    <3>2. Provenance(p) \in {"none", "yaml", "ctl", "legacy"} BY Zenon DEF Provenance
    <3>3. admin.ops + 1 \in 0 .. MaxAdmin BY <2>1, RequestCounted, ZenonT(60) DEF Apply
    <3>4. lane' \in Lane BY <3>1, <3>2, ZenonT(60) DEF ApplyLane, Lane
    <3>5. admin' \in Admin BY <3>1, <3>3, ZenonT(60) DEF ApplyLane, Admin
    <3> QED BY <3>1, <3>4, <3>5, Zenon DEF ApplyLane
  <2>2. CASE Reconcile /\ Managed
    <3>1. runner' \in [Gens -> Runner] BY <2>2, FlagsOnly, Zenon
    <3> QED BY <2>2, <3>1, ZenonT(60) DEF Reconcile, Lane, Admin
  <2>3. CASE Reconcile /\ ~Managed
    <3>1. lane.used + 1 \in Gens BY <2>3, FreshGeneration, Zenon DEF Reconcile
    <3>2. Started(lane.limit) \in Runner BY ZenonT(60) DEF Started, Off, Runner, Lane
    <3>3. runner' \in [Gens -> Runner] BY <2>3, <3>1, <3>2, Zenon DEF Reconcile
    <3> QED BY <2>3, <3>1, <3>3, ZenonT(60) DEF Reconcile, Lane, Admin
  <2>4. CASE ReconcilePause
    <3>1. runner' \in [Gens -> Runner] BY <2>4, FlagsOnly, Zenon
    <3> QED BY <2>4, <3>1, ZenonT(60) DEF ReconcilePause, Lane, Admin, Coord
  <2>5. CASE Prune \/ ForcePrune \/ PauseLane \/ ContinueLane
    <3>1. runner' \in [Gens -> Runner] BY <2>5, FlagsOnly, Zenon DEF Prune
    <3>2. admin.ops + 1 \in 0 .. MaxAdmin
      BY <2>5, RequestCounted, Zenon DEF Prune, ForcePrune, PauseLane, ContinueLane
    <3> QED BY <2>5, <3>1, <3>2, ZenonT(60) DEF Prune, ForcePrune, PauseLane, ContinueLane, Lane, Admin
  <2>6. CASE StopRemoved \/ StopLanes
    <3>1. runner' \in [Gens -> Runner] BY <2>6, FlagsOnly, Zenon
    <3>2. lane' \in Lane BY <2>6, ZenonT(60) DEF StopRemoved, StopLanes, Lane
    <3>3. admin' \in Admin BY <2>6, ZenonT(60) DEF StopRemoved, StopLanes, Lane, Admin
    <3> QED BY <2>6, <3>1, <3>2, <3>3, Zenon DEF StopRemoved, StopLanes
  <2>7. CASE RollBack
    <3>1. runner' \in [Gens -> Runner] BY <2>7, FlagsOnly, Zenon
    <3>2. errors' \in 0 .. env'.errors BY <2>7, ErrorCounted, Zenon DEF RollBack
    <3> QED BY <2>7, <3>1, <3>2, Zenon DEF RollBack, Admin
  <2>8. CASE PruneFails
    <3>1. errors' \in 0 .. env'.errors BY <2>8, ErrorCounted, Zenon DEF PruneFails
    <3> QED BY <2>8, <3>1, ZenonT(60) DEF PruneFails, Admin
  <2>9. CASE RemovalAcked \/ ListQueued \/ LanesStopped
    <3>1. WithStatus("queued") \in SUBSET Missions BY Zenon DEF WithStatus
    <3>2. admin' \in Admin BY <2>9, <3>1, ZenonT(60) DEF RemovalAcked, ListQueued, LanesStopped, Admin
    <3> QED BY <2>9, <3>2, Zenon DEF RemovalAcked, ListQueued, LanesStopped
  <2>10. CASE PersistRemoval \/ RemovedStopped \/ SetLanePausedInConfig
    <3>1. lane' \in Lane
      BY <2>10, ZenonT(60) DEF PersistRemoval, RemovedStopped, SetLanePausedInConfig, Lane
    <3>2. admin' \in Admin
      BY <2>10, ZenonT(60) DEF PersistRemoval, RemovedStopped, SetLanePausedInConfig, Admin
    <3> QED BY <2>10, <3>1, <3>2, Zenon DEF PersistRemoval, RemovedStopped, SetLanePausedInConfig
  <2>11. ASSUME NEW m \in Missions, PruneQueued(m) PROVE TypeOK'
    BY <2>11, Zenon DEF PruneQueued, Ended, Row, Ends, KillReasons, Admin
  <2>12. CASE PruneRunning
    BY <2>12, Zenon DEF PruneRunning, Signalled, KillReasons, Admin
  <2> QED BY <1>4, <2>1, <2>2, <2>3, <2>4, <2>5, <2>6, <2>7, <2>8, <2>9, <2>10, <2>11, <2>12, ZenonT(60) DEF AdminStep
<1>5. CASE CoordStep \/ SigTerm \/ AggressiveKill \/ Exit
  <2>1. CASE PauseAllLanes \/ StopAll
    <3>1. runner' \in [Gens -> Runner] BY <2>1, FlagsOnly, Zenon
    <3> QED BY <2>1, <3>1, ZenonT(60) DEF PauseAllLanes, StopAll, Lane, Coord
  <2>2. CASE SigTerm
    <3>1. env.signals \in 0 .. 2 /\ coord.signals \in 0 .. 2 BY EnvironmentTypes, Zenon DEF Coord
    <3>2. coord.signals + 1 \in 0 .. 2 BY <2>2, <3>1 DEF SigTerm
    <3>3. coord' \in Coord BY <2>2, <3>2, ZenonT(60) DEF SigTerm, Coord
    <3> QED BY <2>2, <3>3, Zenon DEF SigTerm
  <2>3. CASE AggressiveKill
    BY <2>3, Zenon DEF AggressiveKill, Signalled, KillReasons
  <2>4. CASE DrainComplete \/ AllStopped \/ Exit
    BY <2>4, ZenonT(60) DEF DrainComplete, AllStopped, Exit, Coord
  <2> QED BY <1>5, <2>1, <2>2, <2>3, <2>4, Zenon DEF CoordStep
<1> QED BY <1>1, <1>2, <1>3, <1>4, <1>5, Zenon DEF Next, Step

-----------------------------------------------------------------------------
(* What a step does to missions, goroutines, channels and loops, whoever takes *)
(* it and for whatever reason.                                                 *)

\* No kill channel is registered or removed.
ChannelsKept == \A k \in Missions : kch'[k] = "unregistered" <=> kch[k] = "unregistered"

\* The outcome of m is stored, or its goroutine gives up on it.
Stored(m) ==
    /\ run[m].pc = "finalize" /\ run'[m].pc = "release" /\ run'[m].by = run[m].by
    /\ \A k \in Missions \ {m} : run'[k] = run[k]
    /\ \/ row'[m].status = "done" /\ \A k \in Missions \ {m} : row'[k] = row[k]
       \/ UNCHANGED row /\ "finalizeError" \in env.faults

\* The goroutine of m ends.
Unregistered(m) ==
    /\ run[m].pc = "unregister" /\ run'[m].pc = "gone" /\ \A k \in Missions \ {m} : run'[k] = run[k]
    /\ \A k \in Missions \ {m} : kch'[k] = kch[k]

\* The request for m comes to its transaction, or is over.
Requested(m) ==
    /\ \A k \in Missions \ {m} : request'[k] = request[k]
    /\ \/ request[m] \in {"idle", "checked", "recheck"}
       \/ request'[m] \notin {"idle", "checked", "recheck", "insert"}

\* The row of m appears.
Inserted(m) ==
    /\ request[m] = "insert" /\ request'[m] = "notify"
    /\ \A k \in Missions \ {m} : request'[k] = request[k]
    /\ row'[m].status = "queued" /\ \A k \in Missions \ {m} : row'[k] = row[k]

\* A row that is still queued may be ended by somebody else than its goroutine.
QueuedEnded(m) ==
    /\ row[m].status = "queued" /\ row'[m].status = "done"
    /\ \A k \in Missions \ {m} : row'[k] = row[k]

\* Runner g is the next one.
RunnerStarted(g) ==
    /\ \A h \in Gens \ {g} : runner'[h] = runner[h]
    /\ g = lane.used + 1 /\ lane'.used = g /\ lane.managed = 0 /\ lane'.managed = g
    /\ runner'[g].pc = "top" /\ runner'[g].job = 0 /\ runner'[g].inflight = 0 /\ runner'[g].gate = 0
    /\ ~runner'[g].acked

Kinds ==
    \/ \E g \in Gens : LoopMoved(g) /\ UNCHANGED <<row, run, kch, request>>
    \/ \E g \in Gens, m \in Missions : Claimed(g, m) /\ UNCHANGED <<run, kch, request>>
    \/ \E g \in Gens, m \in Missions : Registered(g, m) /\ UNCHANGED <<row, request>>
    \/ \E m \in Missions : GoroutineMoved(m) /\ ChannelsKept /\ UNCHANGED <<row, runner, request>>
    \/ \E m \in Missions : Stored(m) /\ UNCHANGED <<kch, runner, request>>
    \/ \E m \in Missions : Released(m) /\ UNCHANGED <<row, kch, request>>
    \/ \E m \in Missions : Unregistered(m) /\ UNCHANGED <<row, runner, request>>
    \/ \E m \in Missions : Requested(m) /\ RunnersKept /\ UNCHANGED <<row, run, kch>>
    \/ \E m \in Missions : Inserted(m) /\ UNCHANGED <<run, kch, runner>>
    \/ \E m \in Missions : QueuedEnded(m) /\ UNCHANGED <<run, kch, runner, request>>
    \/ RunnersKept /\ ChannelsKept /\ UNCHANGED <<row, run, request>>
    \/ \E g \in Gens : RunnerStarted(g) /\ UNCHANGED <<row, run, kch, request>>

\* Every step is of one of these kinds.
LEMMA StepKinds ==
  ASSUME LaneInv, Next
  PROVE  Kinds /\ UNCHANGED env
<1> TypeOK /\ Generations /\ Claims /\ Slots /\ UNCHANGED env BY Zenon DEF LaneInv, Next, Alive
<1> runner \in [Gens -> Runner] /\ run \in [Missions -> Run] /\ row \in [Missions -> Row]
  BY Zenon DEF TypeOK
<1>0. UNCHANGED runner => RunnersKept
  BY Zenon DEF RunnersKept
<1>1. ASSUME NEW g \in Gens, Loop(g) \/ WaitTimesOut(g) \/ PickFails(g) PROVE Kinds
  <2>1. CASE LoopTop(g) \/ WaitBegins(g) \/ WaitEnds(g) \/ WaitTimesOut(g) \/ PickBusy(g) \/ PickFails(g)
    <3>1. LoopMoved(g) BY <2>1, LoopMoves, Zenon
    <3> QED BY <2>1, <3>1, Zenon DEF LoopTop, WaitBegins, WaitEnds, WaitTimesOut, PickBusy, PickFails, Kinds
  <2>2. CASE Pick(g)
    <3>1. (LoopMoved(g) /\ UNCHANGED row) \/ \E m \in Missions : Claimed(g, m) BY <2>2, PickClaims, Zenon
    <3> QED BY <2>2, <3>1, ZenonT(60) DEF Pick, Kinds
  <2>3. CASE Register(g)
    <3>1. \E m \in Missions : Registered(g, m) BY <2>3, RegisterHandsOver, Zenon
    <3> QED BY <2>3, <3>1, Zenon DEF Register, Kinds
  <2> QED BY <1>1, <2>1, <2>2, <2>3, Zenon DEF Loop
<1>2. ASSUME NEW m \in Missions,
             Goroutine(m) \/ WatchTimeout(m) \/ ProcessExit(m) \/ FinalizeFails(m)
      PROVE  Kinds
  <2>1. CASE Start(m) \/ WatchCtx(m) \/ WatchTimeout(m) \/ ProcessExit(m)
    <3>1. GoroutineMoved(m) BY <2>1, GoroutineMoves, Zenon
    <3> QED BY <2>1, <3>1, Zenon DEF Start, WatchCtx, WatchTimeout, ProcessExit, ChannelsKept, Kinds
  <2>2. CASE WatchKillCh(m)
    <3>1. GoroutineMoved(m) BY <2>2, GoroutineMoves, Zenon
    <3>2. ChannelsKept BY <2>2, Zenon DEF WatchKillCh, KillReasons, TypeOK, ChannelsKept
    <3> QED BY <2>2, <3>1, <3>2, Zenon DEF WatchKillCh, Kinds
  <2>3. CASE Finalize(m)
    <3>1. Stored(m) BY <2>3, Zenon DEF Finalize, Ended, Stored, Run
    <3> QED BY <2>3, <3>1, Zenon DEF Finalize, Kinds
  <2>4. CASE FinalizeFails(m)
    <3>1. Stored(m) BY <2>4, Zenon DEF FinalizeFails, Stored, Run
    <3> QED BY <2>4, <3>1, Zenon DEF FinalizeFails, Kinds
  <2>5. CASE Release(m)
    <3>1. Released(m) BY <2>5, ReleaseGivesBack, Zenon
    <3> QED BY <2>5, <3>1, Zenon DEF Release, Kinds
  <2>6. CASE Unregister(m)
    <3>1. Unregistered(m) BY <2>6, Zenon DEF Unregister, Unregistered, NoRun, TypeOK
    <3> QED BY <2>6, <3>1, Zenon DEF Unregister, Kinds
  <2> QED BY <1>2, <2>1, <2>2, <2>3, <2>4, <2>5, <2>6, Zenon DEF Goroutine
<1>3. ASSUME NEW m \in Missions,
             Handler(m) \/ CheckLane(m) \/ InsertFails(m) \/ KillRead(m) \/ KillQueued(m) \/ KillRunning(m)
      PROVE  Kinds
  <2>1. CASE CheckLane(m) \/ BeginInsert(m) \/ RecheckLane(m) \/ InsertFails(m) \/ Notify(m)
    <3>1. Requested(m)
      BY <2>1, Zenon DEF CheckLane, BeginInsert, RecheckLane, InsertFails, Notify, Request, Requested, TypeOK
    <3>2. RunnersKept BY <1>0, <2>1, FlagsOnly, Zenon DEF CheckLane, BeginInsert, RecheckLane, InsertFails
    <3> QED BY <2>1, <3>1, <3>2, Zenon DEF CheckLane, BeginInsert, RecheckLane, InsertFails, Notify, Kinds
  <2>2. CASE Insert(m)
    <3>1. Inserted(m) BY <2>2, Zenon DEF Insert, Request, Inserted, TypeOK, Row
    <3> QED BY <2>2, <3>1, Zenon DEF Insert, Kinds
  <2>3. CASE KillQueued(m)
    <3>1. UNCHANGED row \/ QueuedEnded(m) BY <2>3, Zenon DEF KillQueued, Ended, QueuedEnded
    <3> QED BY <1>0, <2>3, <3>1, Zenon DEF KillQueued, ChannelsKept, Kinds
  <2>4. CASE KillRead(m)
    BY <1>0, <2>4, Zenon DEF KillRead, ChannelsKept, Kinds
  <2>5. CASE KillRunning(m)
    <3>1. ChannelsKept BY <2>5, Zenon DEF KillRunning, Signalled, ChannelsKept
    <3> QED BY <1>0, <2>5, <3>1, Zenon DEF KillRunning, Kinds
  <2> QED BY <1>3, <2>1, <2>2, <2>3, <2>4, <2>5, Zenon DEF Handler
<1>4. CASE AdminStep \/ Apply \/ Prune \/ ForcePrune \/ PruneFails \/ PauseLane \/ ContinueLane \/ RollBack
  <2>1. CASE Reconcile /\ ~Managed
    <3>1. lane.used + 1 \in Gens /\ RunnerStarted(lane.used + 1)
      BY <2>1, RunnerStarts, Zenon DEF RunnerStarted, Managed
    <3> QED BY <2>1, <3>1, Zenon DEF Reconcile, Kinds
  <2>2. CASE (Managed /\ Reconcile) \/ ReconcilePause \/ ForcePrune \/ StopRemoved \/ StopLanes
             \/ PauseLane \/ ContinueLane \/ RollBack
    <3>1. RunnersKept BY <2>2, FlagsOnly, Zenon
    <3> QED BY <2>2, <3>1, Zenon DEF Reconcile, ReconcilePause, ForcePrune, StopRemoved, StopLanes, PauseLane,
               ContinueLane, RollBack, ChannelsKept, Kinds
  <2>3. ASSUME NEW m \in Missions, PruneQueued(m) PROVE Kinds
    <3>1. UNCHANGED row \/ QueuedEnded(m) BY <2>3, Zenon DEF PruneQueued, Ended, QueuedEnded
    <3> QED BY <1>0, <2>3, <3>1, Zenon DEF PruneQueued, ChannelsKept, Kinds
  <2>4. CASE PruneRunning
    <3>1. ChannelsKept BY <2>4, Zenon DEF PruneRunning, Signalled, ChannelsKept
    <3> QED BY <1>0, <2>4, <3>1, Zenon DEF PruneRunning, Kinds
  <2>5. CASE Apply \/ Prune \/ PruneFails \/ RemovalAcked \/ ListQueued \/ PersistRemoval
             \/ RemovedStopped \/ LanesStopped \/ SetLanePausedInConfig
    BY <1>0, <2>5, ZenonT(60) DEF Apply, ApplyLane, Prune, PruneFails, RemovalAcked, ListQueued,
       PersistRemoval, RemovedStopped, LanesStopped, SetLanePausedInConfig, ChannelsKept, Kinds
  <2> QED BY <1>4, <2>1, <2>2, <2>3, <2>4, <2>5, Zenon DEF AdminStep
<1>5. CASE CoordStep \/ SigTerm \/ AggressiveKill \/ Exit
  <2>1. CASE PauseAllLanes \/ StopAll
    <3>1. RunnersKept BY <2>1, FlagsOnly, Zenon
    <3> QED BY <2>1, <3>1, Zenon DEF PauseAllLanes, StopAll, ChannelsKept, Kinds
  <2>2. CASE AggressiveKill
    <3>1. ChannelsKept BY <2>2, Zenon DEF AggressiveKill, Signalled, ChannelsKept
    <3> QED BY <1>0, <2>2, <3>1, Zenon DEF AggressiveKill, Kinds
  <2>3. CASE SigTerm \/ DrainComplete \/ AllStopped \/ Exit
    BY <1>0, <2>3, Zenon DEF SigTerm, DrainComplete, AllStopped, Exit, ChannelsKept, Kinds
  <2> QED BY <1>5, <2>1, <2>2, <2>3, Zenon DEF CoordStep
<1> QED BY <1>1, <1>2, <1>3, <1>4, <1>5, Zenon DEF Next, Step

-----------------------------------------------------------------------------
(* The other parts of LaneInv.                                             *)

\* The runner that is started has not run before.
LEMMA NextIsOff ==
  ASSUME LaneInv, NEW g \in Gens, g = lane.used + 1
  PROVE  runner[g].pc = "off" /\ runner[g].job = 0 /\ ~runner[g].acked
<1>1. lane.used \in Nat BY LaneConstantsOK DEF LaneInv, TypeOK, Lane, Gens
<1>2. g > lane.used BY <1>1
<1>3. runner[g].pc = "off" BY <1>2, Zenon DEF LaneInv, Generations
<1> QED BY <1>3, Zenon DEF LaneInv, Claims, Removal

\* A mission stays in the hands of at most one loop or goroutine.
LEMMA ClaimsKept ==
  ASSUME LaneInv, Next
  PROVE  Claims'
<1> TypeOK /\ Claims /\ Kinds BY StepKinds, Zenon DEF LaneInv
<1> row \in [Missions -> Row] /\ Missions \subseteq Nat \ {0} BY LaneConstantsOK, Zenon DEF TypeOK
<1>0. ASSUME \A h \in Gens : runner'[h].job = runner[h].job,
             \A h \in Gens : runner'[h].pc = "picked" <=> runner[h].pc = "picked",
             UNCHANGED <<row, run>>,
             \A k \in Missions : request'[k] \in {"idle", "checked", "recheck", "insert"}
                                  => request[k] \in {"idle", "checked", "recheck", "insert"}
      PROVE  Claims'
  <2>1. \A k \in Missions : row'[k] = row[k] /\ run'[k] = run[k] BY <1>0, Zenon
  <2> QED BY <1>0, <2>1 DEF Claims, Works
<1>1. ASSUME NEW g \in Gens, LoopMoved(g), UNCHANGED <<row, run, kch, request>> PROVE Claims'
  BY <1>0, <1>1, Zenon DEF LoopMoved
<1>2. ASSUME NEW g \in Gens, NEW m \in Missions, Claimed(g, m), UNCHANGED <<run, kch, request>>
      PROVE  Claims'
  <2>1. run[m].pc = "none" /\ \A h \in Gens : runner[h].job # m
    BY <1>2, ZenonT(60) DEF Claimed, Claims, Works
  <2> QED BY <1>2, <2>1 DEF Claimed, Claims, Works
<1>3. ASSUME NEW g \in Gens, NEW m \in Missions, Registered(g, m), UNCHANGED <<row, request>>
      PROVE  Claims'
  <2>1. row[m].status = "running" /\ \A h \in Gens \ {g} : runner[h].job # m
    BY <1>3, ZenonT(60) DEF Registered, Claims, Works
  <2> QED BY <1>3, <2>1 DEF Registered, Claims, Works
<1>4. ASSUME NEW m \in Missions, GoroutineMoved(m), UNCHANGED <<row, runner, request>> PROVE Claims'
  BY <1>4, SMTT(40) DEF GoroutineMoved, Claims, Works
<1>5. ASSUME NEW m \in Missions, Stored(m), UNCHANGED <<kch, runner, request>> PROVE Claims'
  BY <1>5 DEF Stored, Claims, Works
<1>6. ASSUME NEW m \in Missions, Released(m), UNCHANGED <<row, kch, request>> PROVE Claims'
  <2>1. \A h \in Gens : runner'[h].pc = runner[h].pc /\ runner'[h].job = runner[h].job
    BY <1>6, Zenon DEF Released
  <2>2. \A k \in Missions \ {m} : run'[k] = run[k] BY <1>6, Zenon DEF Released
  <2>3. run[m].pc = "release" /\ run'[m].pc = "unregister" /\ \A h \in Gens : runner[h].job # m
    BY <1>6, ZenonT(60) DEF Released, Claims
  <2> QED BY <1>6, <2>1, <2>2, <2>3, SMTT(40) DEF Claims, Works
<1>7. ASSUME NEW m \in Missions, Unregistered(m), UNCHANGED <<row, runner, request>> PROVE Claims'
  BY <1>7, SMTT(40) DEF Unregistered, Claims, Works
<1>8. ASSUME NEW m \in Missions, Requested(m), RunnersKept, UNCHANGED <<row, run, kch>> PROVE Claims'
  BY <1>0, <1>8, Zenon DEF Requested, RunnersKept
<1>9. ASSUME NEW m \in Missions, Inserted(m), UNCHANGED <<run, kch, runner>> PROVE Claims'
  BY <1>9 DEF Inserted, Claims, Works
<1>10. ASSUME NEW m \in Missions, QueuedEnded(m), UNCHANGED <<run, kch, runner, request>> PROVE Claims'
  BY <1>10, ZenonT(60) DEF QueuedEnded, Claims, Works
<1>11. ASSUME RunnersKept, UNCHANGED <<row, run, request>> PROVE Claims'
  BY <1>0, <1>11, Zenon DEF RunnersKept
<1>12. ASSUME NEW g \in Gens, RunnerStarted(g), UNCHANGED <<row, run, kch, request>> PROVE Claims'
  <2>1. runner[g].pc = "off" /\ runner[g].job = 0 BY <1>12, NextIsOff, Zenon DEF RunnerStarted
  <2> QED BY <1>0, <1>12, <2>1, Zenon DEF RunnerStarted
<1> QED
  BY <1>1, <1>2, <1>3, <1>4, <1>5, <1>6, <1>7, <1>8, <1>9, <1>10, <1>11, <1>12, ZenonT(60) DEF Kinds

\* A goroutine keeps its kill channel, and a running row its loop or goroutine.
LEMMA ChannelsPreserved ==
  ASSUME LaneInv, Next
  PROVE  Channels'
<1> TypeOK /\ Claims /\ Channels /\ Kinds /\ UNCHANGED env BY StepKinds, Zenon DEF LaneInv
<1> row \in [Missions -> Row] /\ Missions \subseteq Nat \ {0} BY LaneConstantsOK, Zenon DEF TypeOK
<1>0. ASSUME \A h \in Gens : runner'[h].job = runner[h].job, ChannelsKept, UNCHANGED <<row, run>>
      PROVE  Channels'
  <2>1. \A k \in Missions : (\E h \in Gens : runner[h].job = k) => \E h \in Gens : runner'[h].job = k
    BY <1>0, Zenon
  <2> QED BY <1>0, <2>1, ZenonT(60) DEF Channels, Works, Spawned, ChannelsKept
<1> USE DEF Channels, Works, Spawned
<1>1. ASSUME NEW g \in Gens, LoopMoved(g), UNCHANGED <<row, run, kch, request>> PROVE Channels'
  BY <1>0, <1>1, Zenon DEF LoopMoved, ChannelsKept
<1>2. ASSUME NEW g \in Gens, NEW m \in Missions, Claimed(g, m), UNCHANGED <<run, kch, request>>
      PROVE  Channels'
  <2>1. runner[g].job = 0 BY <1>2, Zenon DEF Claimed, Claims
  <2>2. ASSUME NEW k \in Missions, \E h \in Gens : runner[h].job = k
        PROVE  \E h \in Gens : runner'[h].job = k
    BY <1>2, <2>1, <2>2, Zenon DEF Claimed
  <2>3. ASSUME NEW k \in Missions, row'[k].status = "running"
        PROVE  Works(k) \/ (\E h \in Gens : runner'[h].job = k) \/ "finalizeError" \in env.faults
    <3>1. CASE k = m
      BY <1>2, <3>1, Zenon DEF Claimed
    <3>2. CASE k # m
      BY <1>2, <2>2, <2>3, <3>2, ZenonT(60) DEF Claimed
    <3> QED BY <3>1, <3>2, Zenon
  <2> QED BY <1>2, <2>3, Zenon
<1>3. ASSUME NEW g \in Gens, NEW m \in Missions, Registered(g, m), UNCHANGED <<row, request>>
      PROVE  Channels'
  <2>1. ASSUME NEW k \in Missions, k # m, \E h \in Gens : runner[h].job = k
        PROVE  \E h \in Gens : runner'[h].job = k
    BY <1>3, <2>1, Zenon DEF Registered
  <2> QED BY <1>3, <2>1, ZenonT(60) DEF Registered
<1>4. ASSUME NEW m \in Missions, GoroutineMoved(m), ChannelsKept, UNCHANGED <<row, runner, request>>
      PROVE  Channels'
  BY <1>4, ZenonT(60) DEF GoroutineMoved, ChannelsKept
<1>5. ASSUME NEW m \in Missions, Stored(m), UNCHANGED <<kch, runner, request>> PROVE Channels'
  BY <1>5, ZenonT(60) DEF Stored
<1>6. ASSUME NEW m \in Missions, Released(m), UNCHANGED <<row, kch, request>> PROVE Channels'
  <2>1. \A k \in Missions : (Works(k)' <=> Works(k)) /\ (Spawned(k)' <=> Spawned(k))
    BY <1>6, ZenonT(60) DEF Released
  <2>2. \A k \in Missions : (\E h \in Gens : runner[h].job = k) => \E h \in Gens : runner'[h].job = k
    BY <1>6, ZenonT(60) DEF Released
  <2> HIDE DEF Works, Spawned
  <2> QED BY <1>6, <2>1, <2>2, ZenonT(60)
<1>7. ASSUME NEW m \in Missions, Unregistered(m), UNCHANGED <<row, runner, request>> PROVE Channels'
  BY <1>7, ZenonT(60) DEF Unregistered
<1>8. ASSUME RunnersKept, ChannelsKept, UNCHANGED <<row, run>> PROVE Channels'
  BY <1>0, <1>8, Zenon DEF RunnersKept
<1>9. ASSUME NEW m \in Missions, Inserted(m) \/ QueuedEnded(m), UNCHANGED <<run, kch, runner>>
      PROVE  Channels'
  BY <1>9, Zenon DEF Inserted, QueuedEnded
<1>10. ASSUME NEW g \in Gens, RunnerStarted(g), UNCHANGED <<row, run, kch, request>> PROVE Channels'
  <2>1. runner[g].job = 0 BY <1>10, NextIsOff, Zenon DEF RunnerStarted
  <2> QED BY <1>0, <1>10, <2>1, Zenon DEF RunnerStarted, ChannelsKept
<1>11. UNCHANGED kch => ChannelsKept BY Zenon DEF ChannelsKept
<1> QED BY <1>1, <1>2, <1>3, <1>4, <1>5, <1>6, <1>7, <1>8, <1>9, <1>10, <1>11, Zenon DEF Kinds

\* inflight counts the holders, through every acquire, release and resize.
LEMMA SlotsKept ==
  ASSUME LaneInv, Next
  PROVE  Slots'
<1> TypeOK /\ Generations /\ Claims /\ Slots /\ Kinds BY StepKinds, Zenon DEF LaneInv
<1> runner \in [Gens -> Runner] /\ \A h \in Gens : runner[h].inflight \in Nat BY Zenon DEF TypeOK, Runner
<1> DEFINE Busy == {"start", "exec", "finalize", "release"}
<1>1. ASSUME \A k \in Missions : run'[k].pc \in Busy <=> run[k].pc \in Busy,
             \A k \in Missions : run'[k].pc \in Busy => run'[k].by = run[k].by,
             \A h \in Gens : runner'[h].inflight = runner[h].inflight,
             \A h \in Gens : runner'[h].inflight + (IF runner'[h].pc \in {"pick", "picked"} THEN 1 ELSE 0)
                                <= runner'[h].gate
      PROVE  Slots'
  <2>1. \A h \in Gens : Holders(h)' = Holders(h) BY <1>1, Zenon DEF Holders
  <2> QED BY <1>1, <2>1, Zenon DEF Slots
<1>2. ASSUME NEW g \in Gens, LoopMoved(g), UNCHANGED run PROVE Slots'
  <2>1. runner'[g].gate \in Nat BY <1>2, LimitsAreNumbers, TypeKept, Zenon DEF TypeOK, Runner
  <2> QED BY <1>1, <1>2, <2>1, SMTT(40) DEF LoopMoved, Slots
<1>3. ASSUME NEW g \in Gens, NEW m \in Missions, Claimed(g, m), UNCHANGED run PROVE Slots'
  BY <1>1, <1>3, SMTT(40) DEF Claimed, Slots
<1>4. ASSUME NEW m \in Missions, GoroutineMoved(m) \/ Stored(m), UNCHANGED runner PROVE Slots'
  BY <1>1, <1>4, Zenon DEF GoroutineMoved, Stored, Slots
<1>5. ASSUME NEW m \in Missions, Unregistered(m), UNCHANGED runner PROVE Slots'
  BY <1>1, <1>5, Zenon DEF Unregistered, Slots
<1>6. ASSUME RunnersKept, UNCHANGED run PROVE Slots'
  BY <1>1, <1>6, Zenon DEF RunnersKept, Slots
<1>7. ASSUME NEW g \in Gens, NEW m \in Missions, Registered(g, m) PROVE Slots'
  <2>1. Holders(g)' = Holders(g) \cup {m} /\ m \notin Holders(g)
    BY <1>7, SMTT(40) DEF Registered, Claims, Holders
  <2>2. \A h \in Gens \ {g} : Holders(h)' = Holders(h)
    BY <1>7 DEF Registered, Claims, Holders
  <2>3. IsFiniteSet(Holders(g)') /\ Cardinality(Holders(g)') = Cardinality(Holders(g)) + 1
    BY <2>1, FS_AddElement, SMTT(40) DEF Slots
  <2> QED BY <1>7, <2>2, <2>3, SMTT(40) DEF Registered, Slots
<1>8. ASSUME NEW m \in Missions, Released(m) PROVE Slots'
  <2> DEFINE g == run[m].by
  <2>1. g \in Gens BY <1>8, HolderIsCounted, Zenon DEF Released
  <2>2. Holders(g)' = Holders(g) \ {m} /\ m \in Holders(g) BY <1>8, ZenonT(60) DEF Released, Holders
  <2>3. \A h \in Gens \ {g} : Holders(h)' = Holders(h) BY <1>8, SMTT(40) DEF Released, Holders
  <2>4. IsFiniteSet(Holders(g)') /\ Cardinality(Holders(g)') = Cardinality(Holders(g)) - 1
    BY <2>1, <2>2, FS_RemoveElement, SMTT(40) DEF Slots
  <2>5. runner'[g].inflight = Cardinality(Holders(g)') BY <1>8, <2>1, <2>4, Zenon DEF Released, Slots
  <2>6. ASSUME NEW h \in Gens
        PROVE  runner'[h].inflight + (IF runner'[h].pc \in {"pick", "picked"} THEN 1 ELSE 0) <= runner'[h].gate
    <3>1. runner[h].gate \in Nat /\ runner[g].inflight \in Nat
      BY <2>1, LimitsAreNumbers, Zenon DEF TypeOK, Runner
    <3>2. runner[h].inflight + (IF runner[h].pc \in {"pick", "picked"} THEN 1 ELSE 0) <= runner[h].gate
      BY Zenon DEF Slots
    <3>3. CASE h = g BY <1>8, <3>1, <3>2, <3>3, SMTT(40) DEF Released
    <3>4. CASE h # g BY <1>8, <3>1, <3>2, <3>4, Zenon DEF Released
    <3> QED BY <3>3, <3>4, Zenon
  <2> QED BY <1>8, <2>3, <2>4, <2>5, <2>6, SMTT(40) DEF Released, Slots
<1>9. ASSUME NEW g \in Gens, RunnerStarted(g), UNCHANGED run PROVE Slots'
  <2>1. Holders(g) = {} 
    BY <1>9 DEF RunnerStarted, Generations, Holders, Spawned, TypeOK, Lane, Gens
  <2>2. \A h \in Gens : Holders(h)' = Holders(h) BY <1>9, Zenon DEF Holders
  <2> QED BY <1>9, <2>1, <2>2, FS_EmptySet, SMTT(40) DEF RunnerStarted, Slots
<1>10. UNCHANGED runner => RunnersKept BY Zenon DEF RunnersKept
<1> QED BY <1>2, <1>3, <1>4, <1>5, <1>6, <1>7, <1>8, <1>9, <1>10, Zenon DEF Kinds

\* The manager's counters.
LEMMA CountersKept ==
  ASSUME LaneInv, Next
  PROVE  /\ lane'.used + (IF admin'.pc = "reconcile" THEN 1 ELSE 0) <= admin'.ops + 1
         /\ lane'.managed <= lane'.used /\ lane.used <= lane'.used
<1> DEFINE Goal == /\ lane'.used + (IF admin'.pc = "reconcile" THEN 1 ELSE 0) <= admin'.ops + 1
                   /\ lane'.managed <= lane'.used /\ lane.used <= lane'.used
<1>0. /\ lane \in Lane /\ admin \in Admin /\ TypeOK /\ Generations
      /\ lane.used + (IF admin.pc = "reconcile" THEN 1 ELSE 0) <= admin.ops + 1
      /\ lane.managed <= lane.used
      /\ lane.used \in Nat /\ lane.managed \in Nat /\ admin.ops \in Nat
  BY LaneConstantsOK, SMTT(40) DEF LaneInv, TypeOK, Generations, Lane, Admin, Gens
<1>1. ASSUME NEW g \in Gens, Loop(g) \/ WaitTimesOut(g) \/ PickFails(g) PROVE Goal
  <2>1. UNCHANGED <<lane, admin>>
    BY <1>1, ZenonT(60) DEF Loop, LoopTop, WaitBegins, WaitEnds, WaitTimesOut, Pick, PickBusy,
       PickFails, Register
  <2> QED BY <1>0, <2>1
<1>2. ASSUME NEW m \in Missions,
             Goroutine(m) \/ WatchTimeout(m) \/ ProcessExit(m) \/ FinalizeFails(m)
      PROVE  Goal
  BY <1>0, <1>2, SMTT(40) DEF Goroutine, Start, WatchKillCh, WatchCtx, Finalize, Release, Unregister, WatchTimeout,
     ProcessExit, FinalizeFails
<1>3. ASSUME NEW m \in Missions,
             Handler(m) \/ CheckLane(m) \/ InsertFails(m) \/ KillRead(m) \/ KillQueued(m) \/ KillRunning(m)
      PROVE  Goal
  BY <1>0, <1>3 DEF Handler, BeginInsert, RecheckLane, Insert, Notify, CheckLane, InsertFails, KillRead,
                    KillQueued, KillRunning, Lane
<1>4. CASE AdminStep \/ Apply \/ Prune \/ ForcePrune \/ PruneFails \/ PauseLane \/ ContinueLane \/ RollBack
  <2>1. CASE Reconcile
    <3>1. admin'.pc = "pause" /\ admin'.ops = admin.ops BY <1>0, <2>1, Zenon DEF Reconcile, Admin
    <3>2. \/ lane'.used = lane.used /\ lane'.managed = lane.managed
          \/ lane'.used = lane.used + 1 /\ lane'.managed = lane.used + 1
      BY <1>0, <2>1, ZenonT(60) DEF Reconcile, Lane
    <3>3. admin.pc = "reconcile" BY <2>1, Zenon DEF Reconcile
    <3> QED BY <1>0, <3>1, <3>2, <3>3, SMTT(40)
  <2>2. CASE Apply
    <3>1. PICK n, p : ApplyLane(n, p) BY <2>2, ZenonT(60) DEF Apply
    <3> QED BY <1>0, <3>1 DEF ApplyLane, Lane, Admin
  <2>3. CASE Prune \/ ForcePrune \/ PauseLane \/ ContinueLane
    <3>1. UNCHANGED lane BY <2>3, Zenon DEF Prune, ForcePrune, PauseLane, ContinueLane
    <3>2. admin'.pc # "reconcile" /\ admin'.ops = admin.ops + 1
      BY <1>0, <2>3, ZenonT(60) DEF Prune, ForcePrune, PauseLane, ContinueLane, Admin
    <3> QED BY <1>0, <3>1, <3>2
  <2>4. CASE ReconcilePause \/ PersistRemoval \/ RemovedStopped \/ SetLanePausedInConfig
    <3>1. lane'.used = lane.used /\ lane'.managed \in {0, lane.managed}
      BY <1>0, <2>4, ZenonT(60) DEF ReconcilePause, PersistRemoval, RemovedStopped,
         SetLanePausedInConfig, Lane
    <3>2. admin'.pc # "reconcile" /\ admin'.ops = admin.ops
      BY <1>0, <2>4, ZenonT(60) DEF ReconcilePause, PersistRemoval, RemovedStopped,
         SetLanePausedInConfig, Admin
    <3> QED BY <1>0, <3>1, <3>2
  <2>5. CASE StopRemoved \/ StopLanes
    <3>1. lane'.used = lane.used /\ lane'.managed \in {0, lane.managed}
      BY <1>0, <2>5, Zenon DEF StopRemoved, StopLanes, Lane
    <3>2. admin'.pc # "reconcile" /\ admin'.ops = admin.ops
      BY <1>0, <2>5, ZenonT(60) DEF StopRemoved, StopLanes, Admin
    <3> QED BY <1>0, <3>1, <3>2
  <2>6. CASE PruneFails \/ RollBack \/ RemovalAcked \/ ListQueued \/ PruneRunning \/ LanesStopped
             \/ \E m \in Missions : PruneQueued(m)
    <3>1. UNCHANGED lane
      BY <2>6, Zenon DEF PruneFails, RollBack, RemovalAcked, ListQueued, PruneRunning, LanesStopped, PruneQueued
    <3>2. admin'.pc # "reconcile" /\ admin'.ops = admin.ops
      BY <1>0, <2>6, ZenonT(60) DEF PruneFails, RollBack, RemovalAcked, ListQueued, PruneRunning,
         LanesStopped, PruneQueued, Admin
    <3> QED BY <1>0, <3>1, <3>2, SMTT(40)
  <2> QED BY <1>4, <2>1, <2>2, <2>3, <2>4, <2>5, <2>6, Zenon DEF AdminStep
<1>5. CASE CoordStep \/ SigTerm \/ AggressiveKill \/ Exit
  BY <1>0, <1>5, SMTT(40) DEF CoordStep, PauseAllLanes, DrainComplete, StopAll, AllStopped, SigTerm,
     AggressiveKill, Exit,
                    Lane
<1> QED BY <1>1, <1>2, <1>3, <1>4, <1>5, Zenon DEF Next, Step

\* Runners are numbered in the order of their start.
LEMMA GenerationsKept ==
  ASSUME LaneInv, Next
  PROVE  Generations'
<1> TypeOK /\ Generations /\ Kinds BY StepKinds, Zenon DEF LaneInv
<1>1. /\ lane.used \in Nat /\ lane'.used \in Nat /\ lane.used <= lane'.used
      /\ \A h \in Gens : h \in Nat
  BY TypeKept, CountersKept, LaneConstantsOK DEF TypeOK, Lane, Gens
<1>2. ASSUME NEW h \in Gens, h > lane'.used PROVE runner'[h].pc = "off"
  <2>1. runner[h].pc = "off" /\ h # lane'.used BY <1>1, <1>2 DEF Generations
  <2> QED
    BY <2>1, ZenonT(60) DEF Kinds, LoopMoved, Claimed, Registered, Released, RunnersKept, RunnerStarted
<1>3. ASSUME NEW k \in Missions, Spawned(k)' PROVE run'[k].by \in 1 .. lane'.used
  <2>1. CASE Spawned(k) /\ run'[k].by = run[k].by BY <1>1, <2>1 DEF Generations
  <2>2. CASE \E g \in Gens, m \in Missions : Registered(g, m)
    <3>1. PICK g \in Gens, m \in Missions : Registered(g, m) BY <2>2, Zenon
    <3>2. ~(g > lane.used) BY <3>1, Zenon DEF Registered, Generations
    <3>3. g \in 1 .. lane'.used BY <1>1, <3>2, LaneConstantsOK, SMTT(40) DEF Gens
    <3>4. CASE k = m BY <3>1, <3>3, <3>4, Zenon DEF Registered
    <3>5. CASE k # m BY <1>3, <2>1, <3>1, <3>5, Zenon DEF Registered, Spawned
    <3> QED BY <3>4, <3>5, Zenon
  <2>3. CASE UNCHANGED run BY <1>3, <2>1, <2>3, Zenon DEF Spawned
  <2>4. ASSUME NEW m \in Missions, GoroutineMoved(m) \/ Stored(m) \/ Released(m) \/ Unregistered(m)
        PROVE  run'[k].by \in 1 .. lane'.used
    BY <1>3, <2>1, <2>4, Zenon DEF GoroutineMoved, Stored, Released, Unregistered, Spawned
  <2> QED BY <2>2, <2>3, <2>4, Zenon DEF Kinds
<1> QED BY <1>2, <1>3, CountersKept, Zenon DEF Generations

\* What Removal says of the runners alone.
LEMMA AckedStays ==
  ASSUME LaneInv, Next, NEW g \in Gens
  PROVE  /\ runner'[g].acked => runner'[g].pc \in {"acked", "exit"}
         /\ runner[g].acked => runner'[g].acked
<1> TypeOK /\ Generations /\ Removal /\ Kinds BY StepKinds, Zenon DEF LaneInv
<1>1. runner[g].acked => runner[g].pc \in {"acked", "exit"} BY Zenon DEF Removal
<1>2. ASSUME NEW h \in Gens, LoopMoved(h)
      PROVE  /\ runner'[g].acked => runner'[g].pc \in {"acked", "exit"}
             /\ runner[g].acked => runner'[g].acked
  BY <1>1, <1>2, Zenon DEF LoopMoved
<1>3. ASSUME NEW h \in Gens, NEW m \in Missions, Claimed(h, m) \/ Registered(h, m)
      PROVE  /\ runner'[g].acked => runner'[g].pc \in {"acked", "exit"}
             /\ runner[g].acked => runner'[g].acked
  BY <1>1, <1>3, Zenon DEF Claimed, Registered
<1>4. ASSUME NEW h \in Gens, RunnerStarted(h)
      PROVE  /\ runner'[g].acked => runner'[g].pc \in {"acked", "exit"}
             /\ runner[g].acked => runner'[g].acked
  <2>1. ~runner[h].acked BY <1>4, NextIsOff, Zenon DEF RunnerStarted
  <2> QED BY <1>1, <1>4, <2>1, Zenon DEF RunnerStarted
<1>5. CASE UNCHANGED runner \/ RunnersKept \/ \E m \in Missions : Released(m)
  BY <1>1, <1>5, Zenon DEF RunnersKept, Released
<1> QED BY <1>2, <1>3, <1>4, <1>5, ZenonT(60) DEF Kinds

\* The context of a runner that was started is never renewed.
LEMMA CancelledStays ==
  ASSUME LaneInv, Next, lane'.managed \in {0, lane.managed}, NEW g \in Gens
  PROVE  /\ runner[g].cancelled => runner'[g].cancelled
         /\ runner'[g].pc # "off" => runner[g].pc # "off"
<1> TypeOK /\ Kinds BY StepKinds, Zenon DEF LaneInv
<1>1. ASSUME NEW h \in Gens PROVE ~RunnerStarted(h) BY SMTT(40) DEF RunnerStarted, Gens
<1> QED BY <1>1, ZenonT(60) DEF Kinds, LoopMoved, Claimed, Registered, Released, RunnersKept

\* Nobody but the managed runner may pick, and not after its acknowledgement.
LEMMA RemovalKept ==
  ASSUME LaneInv, Next
  PROVE  Removal'
<1> TypeOK /\ Generations /\ Removal /\ lane \in Lane /\ admin \in Admin
  BY Zenon DEF LaneInv, TypeOK
<1>0. /\ lane.managed \in {0} \cup Gens /\ admin.gen \in {0} \cup Gens /\ 0 \notin Gens
      /\ \A g \in Gens : runner'[g].acked => runner'[g].pc \in {"acked", "exit"}
      /\ \A g \in Gens : runner[g].acked => runner'[g].acked
  BY AckedStays, SMTT(40) DEF Lane, Admin, Gens
<1>1. ASSUME lane'.managed \in {0, lane.managed},
             \A g \in Gens : g = lane.managed /\ g # lane'.managed => runner'[g].cancelled,
             admin'.pc = admin.pc, admin'.force = admin.force, admin'.gen = admin.gen
      PROVE  Removal'
  <2>1. \A g \in Gens : /\ runner[g].cancelled => runner'[g].cancelled
                        /\ runner'[g].pc # "off" => runner[g].pc # "off"
    BY <1>1, CancelledStays, Zenon
  <2> QED BY <1>0, <1>1, <2>1, Zenon DEF Removal, Managed
<1>2. ASSUME NEW g \in Gens, Loop(g) \/ WaitTimesOut(g) \/ PickFails(g) PROVE Removal'
  <2>1. UNCHANGED <<lane, admin>>
    BY <1>2, ZenonT(60) DEF Loop, LoopTop, WaitBegins, WaitEnds, WaitTimesOut, Pick, PickBusy,
       PickFails, Register
  <2> QED BY <1>1, <2>1, Zenon
<1>3. ASSUME NEW m \in Missions,
             Goroutine(m) \/ WatchTimeout(m) \/ ProcessExit(m) \/ FinalizeFails(m)
      PROVE  Removal'
  <2>1. UNCHANGED <<lane, admin>>
    BY <1>3, Zenon DEF Goroutine, Start, WatchKillCh, WatchCtx, Finalize, Release, Unregister, WatchTimeout,
       ProcessExit, FinalizeFails
  <2> QED BY <1>1, <2>1, Zenon
<1>4. ASSUME NEW m \in Missions,
             Handler(m) \/ CheckLane(m) \/ InsertFails(m) \/ KillRead(m) \/ KillQueued(m) \/ KillRunning(m)
      PROVE  Removal'
  <2>1. UNCHANGED admin /\ lane'.managed = lane.managed
    BY <1>4, Zenon DEF Handler, BeginInsert, RecheckLane, Insert, Notify, CheckLane, InsertFails, KillRead,
       KillQueued, KillRunning, Lane
  <2> QED BY <1>1, <2>1, Zenon
<1>5. CASE CoordStep \/ SigTerm \/ AggressiveKill \/ Exit
  <2>1. CASE StopAll
    <3>1. UNCHANGED admin /\ lane'.managed = 0 BY <2>1, Zenon DEF StopAll, Lane
    <3>2. Managed => runner'[lane.managed].cancelled BY <1>0, <2>1 DEF StopAll, Managed, TypeOK, Runner
    <3> QED BY <1>1, <3>1, <3>2, Zenon DEF Managed
  <2>2. CASE PauseAllLanes \/ DrainComplete \/ AllStopped \/ SigTerm \/ AggressiveKill \/ Exit
    <3>1. UNCHANGED <<lane, admin>>
      BY <2>2, Zenon DEF PauseAllLanes, DrainComplete, AllStopped, SigTerm, AggressiveKill, Exit
    <3> QED BY <1>1, <3>1, Zenon
  <2> QED BY <1>5, <2>1, <2>2, Zenon DEF CoordStep
<1>6. CASE AdminStep \/ Apply \/ Prune \/ ForcePrune \/ PruneFails \/ PauseLane \/ ContinueLane \/ RollBack
  <2>0. ASSUME lane'.managed = lane.managed
        PROVE  \A g \in Gens : runner'[g].pc # "off" /\ g # lane'.managed => runner'[g].cancelled
    BY <2>0, CancelledStays, Zenon DEF Removal
  <2>1. CASE Reconcile /\ ~Managed
    <3>1. /\ admin'.pc = "pause" /\ admin'.gen = 0 BY <2>1, Zenon DEF Reconcile, Removal, Admin
    <3>2. \A g \in Gens : runner'[g].pc # "off" /\ g # lane'.managed => runner'[g].cancelled
      <4>1. \A g \in Gens \ {lane'.managed} : runner'[g] = runner[g] BY <2>1, RunnerStarts, Zenon
      <4> QED BY <1>0, <2>1, <4>1, Zenon DEF Removal, Managed
    <3> QED BY <1>0, <3>1, <3>2, Zenon DEF Removal
  <2>2. ASSUME lane'.managed = lane.managed, admin'.gen = 0,
               admin'.pc \in {"idle", "reconcile", "pause", "persistPause", "persistContinue"}
        PROVE  Removal'
    BY <1>0, <2>0, <2>2, Zenon DEF Removal
  <2>3. CASE Apply \/ PauseLane \/ ContinueLane \/ SetLanePausedInConfig \/ RollBack
             \/ (Managed /\ Reconcile) \/ ReconcilePause
    <3>1. lane'.managed = lane.managed
      BY <2>3, ZenonT(60) DEF Apply, ApplyLane, PauseLane, ContinueLane, SetLanePausedInConfig,
         RollBack, Reconcile,
                  ReconcilePause, Lane
    <3>2. admin'.gen = admin.gen
          /\ admin'.pc \in {"idle", "reconcile", "pause", "persistPause", "persistContinue"}
      BY <2>3, ZenonT(60) DEF Apply, ApplyLane, PauseLane, ContinueLane, SetLanePausedInConfig,
         RollBack, Reconcile,
                  ReconcilePause, Admin
    <3>3. admin.pc \in {"idle", "reconcile", "pause", "persistPause", "persistContinue"}
      BY <2>3, ZenonT(60) DEF Apply, ApplyLane, AdminStarts, PauseLane, ContinueLane,
         SetLanePausedInConfig, RollBack,
                  Reconcile, ReconcilePause
    <3>4. admin.gen = 0 BY <3>3, Zenon DEF Removal
    <3> QED BY <2>2, <3>1, <3>2, <3>4, Zenon
  <2>4. CASE Prune
    <3>1. /\ UNCHANGED lane /\ admin'.pc = "persist" /\ ~admin'.force /\ admin'.gen = 0
      BY <2>4, Zenon DEF Prune, AdminStarts, Admin, Removal
    <3> QED BY <1>0, <2>0, <3>1, Zenon DEF Removal
  <2>5. CASE ForcePrune
    <3>1. UNCHANGED lane /\ admin'.gen = lane.managed /\ admin'.pc = IF Managed THEN "ack" ELSE "list"
      BY <2>5, Zenon DEF ForcePrune, Admin
    <3> QED BY <1>0, <2>0, <3>1, Zenon DEF Removal, Managed
  <2>6. CASE RemovalAcked
    <3>1. UNCHANGED lane /\ admin.pc = "ack" /\ admin'.pc = "list" /\ admin'.gen = admin.gen
          /\ admin'.force = admin.force /\ runner[admin.gen].acked
      BY <2>6, Zenon DEF RemovalAcked, Admin
    <3> QED BY <1>0, <2>0, <3>1, Zenon DEF Removal, Managed
  <2>7. CASE ListQueued \/ PruneRunning \/ PruneFails \/ PersistRemoval
    <3>1. lane'.managed = lane.managed
      BY <2>7, ZenonT(60) DEF ListQueued, PruneRunning, PruneFails, PersistRemoval, Lane
    <3>2. /\ admin.pc \in {"list", "killQueued", "persist"} /\ admin'.gen = admin.gen
          /\ admin'.force = admin.force /\ admin'.pc \in {"killQueued", "persist", "remove", "stopLanes"}
      BY <2>7, ZenonT(60) DEF ListQueued, PruneRunning, PruneFails, PersistRemoval, Admin
    <3> QED BY <1>0, <2>0, <3>1, <3>2, Zenon DEF Removal, Managed
  <2>8. ASSUME NEW m \in Missions, PruneQueued(m) PROVE Removal'
    <3>1. UNCHANGED lane /\ admin'.pc = admin.pc /\ admin'.gen = admin.gen /\ admin'.force = admin.force
      BY <2>8, Zenon DEF PruneQueued, Admin
    <3> QED BY <1>1, <3>1, Zenon
  <2>9. CASE StopRemoved /\ Managed
    <3>1. /\ lane'.managed = lane.managed /\ admin.pc = "remove" /\ admin'.pc = "stop"
          /\ admin'.gen = lane.managed /\ admin'.force = admin.force
      BY <2>9, ZenonT(60) DEF StopRemoved, Lane, Admin
    <3>2. runner'[lane.managed].cancelled BY <1>0, <2>9, SMTT(40) DEF StopRemoved, Managed, TypeOK, Runner
    <3> QED BY <1>0, <2>0, <2>9, <3>1, <3>2, Zenon DEF Removal, Managed
  <2>10. CASE StopLanes /\ Managed
    <3>1. /\ lane'.managed = 0 /\ admin.pc = "stopLanes" /\ admin'.pc = "stopWait"
          /\ admin'.gen = lane.managed /\ admin'.force = admin.force
      BY <2>10, ZenonT(60) DEF StopLanes, Lane, Admin
    <3>2. runner'[lane.managed].cancelled BY <1>0, <2>10, SMTT(40) DEF StopLanes, Managed, TypeOK, Runner
    <3>3. \A g \in Gens : runner'[g].pc # "off" => runner'[g].cancelled
      BY <3>1, <3>2, CancelledStays, Zenon DEF Removal
    <3> QED BY <1>0, <2>10, <3>1, <3>3, Zenon DEF Removal, Managed
  <2>11. CASE ((StopRemoved \/ StopLanes) /\ ~Managed) \/ LanesStopped
    <3>1. UNCHANGED lane /\ admin'.pc = "idle" /\ admin'.gen = 0
      BY <2>11, ZenonT(60) DEF StopRemoved, StopLanes, LanesStopped, Admin
    <3> QED BY <2>2, <3>1, Zenon
  <2>12. CASE RemovedStopped
    <3>1. lane'.managed = 0 /\ admin.pc = "stop" /\ admin'.pc = "idle" /\ admin'.gen = 0
      BY <2>12, Zenon DEF RemovedStopped, Lane, Admin
    <3>2. Managed => runner[lane.managed].cancelled BY <3>1, Zenon DEF Removal
    <3>3. \A g \in Gens : runner'[g].pc # "off" => runner'[g].cancelled
      BY <1>0, <3>1, <3>2, CancelledStays, ZenonT(60) DEF Removal, Managed
    <3> QED BY <1>0, <3>1, <3>3, Zenon DEF Removal
  <2>13. CASE AdminStep
    BY <2>1, <2>3, <2>6, <2>7, <2>8, <2>9, <2>10, <2>11, <2>12, <2>13, Zenon DEF AdminStep
  <2> QED BY <1>6, <2>3, <2>4, <2>5, <2>7, <2>13, Zenon
<1> QED BY <1>2, <1>3, <1>4, <1>5, <1>6, Zenon DEF Next, Step

-----------------------------------------------------------------------------
(* Theorems.                                                               *)

\* LaneInv holds in every reachable state.
THEOREM LaneInvariance == Spec => []LaneInv
<1>1. Init => LaneInv
  <2> SUFFICES ASSUME Init PROVE LaneInv BY Zenon
  <2>1. env \in Environment /\ 0 \notin Gens BY LaneConstantsOK, SMTT(40) DEF Init, Gens
  <2>2. TypeOK
    <3>1. row \in [Missions -> Row] BY ZenonT(60) DEF Init, Row
    <3>2. run \in [Missions -> Run] /\ kch \in [Missions -> {"unregistered", "empty"} \cup KillReasons]
      BY ZenonT(60) DEF Init, Run, NoRun
    <3>3. runner \in [Gens -> Runner] BY ZenonT(60) DEF Init, Runner, Off
    <3>4. lane \in Lane BY <2>1, SMTT(40) DEF Init, Lane, Environment
    <3>5. admin \in Admin /\ coord \in Coord BY LaneConstantsOK, SMTT(40) DEF Init, Admin, Coord
    <3>6. errors \in 0 .. env.errors BY <2>1 DEF Init, Environment
    <3> QED BY <3>1, <3>2, <3>3, <3>4, <3>5, <3>6, ZenonT(60) DEF Init, TypeOK
  <2>3. \A m \in Missions : run[m].pc = "none" /\ row[m].status # "running" BY ZenonT(60) DEF Init, NoRun
  <2>4. \A g \in Gens : runner[g].pc = "off" /\ runner[g].job = 0 /\ runner[g].inflight = 0
                        /\ runner[g].gate = 0 /\ ~runner[g].acked
    BY ZenonT(60) DEF Init, Off
  <2>5. /\ lane.used = 0 /\ lane.managed = 0
        /\ admin.ops = 0 /\ admin.pc = "reconcile" /\ admin.gen = 0
    BY SMTT(40) DEF Init
  <2>6. Generations BY <2>3, <2>4, <2>5 DEF Generations, Spawned
  <2>7. Claims
    <3>1. \A m \in Missions : request[m] = "idle" => row[m].status = "none" BY ZenonT(60) DEF Init
    <3>2. \A m \in Missions : request[m] \in {"idle", "answered"} BY ZenonT(60) DEF Init
    <3> QED BY <2>3, <2>4, <2>5, <3>1, <3>2, LaneConstantsOK, ZenonT(60) DEF Claims, Works
  <2>8. Slots
    <3>1. \A g \in Gens : Holders(g) = {} BY <2>3, <2>4, <2>5, Zenon DEF Holders
    <3>2. IsFiniteSet({}) /\ Cardinality({}) = 0 BY FS_EmptySet, Zenon
    <3> SUFFICES ASSUME NEW g \in Gens
                 PROVE  /\ IsFiniteSet(Holders(g)) /\ runner[g].inflight = Cardinality(Holders(g))
                        /\ runner[g].inflight + (IF runner[g].pc \in {"pick", "picked"} THEN 1 ELSE 0)
                             <= runner[g].gate
      BY Zenon DEF Slots
    <3>3. IsFiniteSet(Holders(g)) /\ Cardinality(Holders(g)) = 0 BY <3>1, <3>2, Zenon
    <3> QED BY <2>3, <2>4, <2>5, <3>3, SMTT(40)
  <2>9. Channels BY <2>3, <2>4, <2>5, Zenon DEF Channels, Spawned
  <2>10. Removal BY <2>3, <2>4, <2>5, Zenon DEF Removal, Managed
  <2> QED BY <2>2, <2>6, <2>7, <2>8, <2>9, <2>10, Zenon DEF LaneInv
<1>2. LaneInv /\ [Next]_vars => LaneInv'
  <2>1. ASSUME LaneInv, Next PROVE LaneInv'
    BY <2>1, TypeKept, GenerationsKept, ClaimsKept, SlotsKept, ChannelsPreserved, RemovalKept, Zenon DEF LaneInv
  <2>2. ASSUME LaneInv, UNCHANGED vars PROVE LaneInv'
    <3>1. TypeOK' BY <2>2, Zenon DEF vars, LaneInv, TypeOK
    <3>2. Generations' BY <2>2, Zenon DEF vars, LaneInv, Generations, Spawned
    <3>3. Claims' BY <2>2, Zenon DEF vars, LaneInv, Claims, Works
    <3>4. Slots' BY <2>2, Zenon DEF vars, LaneInv, Slots, Holders
    <3>5. Channels' BY <2>2, Zenon DEF vars, LaneInv, Channels, Works, Spawned
    <3>6. Removal' BY <2>2, Zenon DEF vars, LaneInv, Removal, Managed
    <3> QED BY <3>1, <3>2, <3>3, <3>4, <3>5, <3>6, Zenon DEF LaneInv
  <2> QED BY <2>1, <2>2, Zenon
<1> QED BY <1>1, <1>2, PTL DEF Spec

\* The values of the daemon's state, whatever requests, failures and signals arrive.
THEOREM LaneTypes == Spec => []TypeOK
<1>1. LaneInv => TypeOK BY Zenon DEF LaneInv
<1> QED BY <1>1, LaneInvariance, PTL

\* No runner exceeds the limit under which it took its last slot, whatever the limits
\* and however often it is resized, paused, removed and started again.
THEOREM SlotsAreBounded == Spec => []SlotsBounded
<1>1. LaneInv => SlotsBounded
  <2> SUFFICES ASSUME LaneInv, NEW g \in Gens
               PROVE  Cardinality(Holders(g)) + (IF runner[g].pc = "picked" THEN 1 ELSE 0) <= runner[g].gate
    BY Zenon DEF SlotsBounded
  <2>1. /\ runner[g].inflight = Cardinality(Holders(g))
        /\ runner[g].inflight + (IF runner[g].pc \in {"pick", "picked"} THEN 1 ELSE 0) <= runner[g].gate
    BY Zenon DEF LaneInv, Slots
  <2>2. runner[g].inflight \in Nat /\ runner[g].gate \in {0} \cup Limits BY Zenon DEF LaneInv, TypeOK, Runner
  <2> QED BY <2>1, <2>2, LimitsAreNumbers
<1> QED BY <1>1, LaneInvariance, PTL

\* Every mission is claimed at most once, by any number of overlapping runners.
THEOREM ClaimedOnce == Spec => []OneClaim
<1>1. LaneInv => OneClaim
  <2> SUFFICES ASSUME LaneInv, NEW m \in Missions
               PROVE  LET loops == {g \in Gens : runner[g].job = m}
                          works == run[m].pc \in {"start", "exec", "finalize"} IN
                      /\ Cardinality(loops) <= 1
                      /\ loops # {} => run[m].pc = "none"
                      /\ loops # {} \/ works => row[m].status = "running"
    BY Zenon DEF OneClaim
  <2> DEFINE loops == {g \in Gens : runner[g].job = m}
  <2>1. m # 0 /\ Claims BY LaneConstantsOK, Zenon DEF LaneInv
  <2>2. loops = {} \/ \E g \in Gens : loops = {g} BY <2>1 DEF Claims
  <2>3. Cardinality(loops) <= 1
    <3> HIDE DEF loops
    <3>1. CASE loops = {} BY <3>1, FS_EmptySet
    <3>2. CASE \E g \in Gens : loops = {g}
      <4>1. PICK g \in Gens : loops = {g} BY <3>2, Zenon
      <4>2. Cardinality({g}) = 1 BY FS_Singleton, Zenon
      <4> QED BY <4>1, <4>2
    <3> QED BY <2>2, <3>1, <3>2, Zenon
  <2>4. loops # {} => run[m].pc = "none" /\ row[m].status = "running" BY <2>1, Zenon DEF Claims
  <2> QED BY <2>1, <2>3, <2>4, Zenon DEF Claims, Works
<1> QED BY <1>1, LaneInvariance, PTL

\* Unless an outcome cannot be stored, every running row is reached by a kill and waited
\* for by a drain.
THEOREM RunningRowsAreLive ==
  ASSUME \A e \in Environments : "finalizeError" \notin e.faults
  PROVE  Spec => []RunningIsLive
<1>1. LaneInv => RunningIsLive
  <2> SUFFICES ASSUME LaneInv, NEW m \in Missions, row[m].status = "running"
               PROVE  kch[m] # "unregistered"
                      \/ \E g \in Gens : runner[g].pc = "picked" /\ runner[g].job = m
    BY Zenon DEF RunningIsLive, WithStatus
  <2>1. "finalizeError" \notin env.faults /\ m # 0 BY LaneConstantsOK, Zenon DEF LaneInv, TypeOK
  <2>2. CASE Works(m) BY <2>2, Zenon DEF LaneInv, Channels, Works, Spawned
  <2>3. CASE \E g \in Gens : runner[g].job = m BY <2>1, <2>3, Zenon DEF LaneInv, Claims
  <2> QED BY <2>1, <2>2, <2>3, Zenon DEF LaneInv, Channels
<1> QED BY <1>1, LaneInvariance, PTL

\* After the acknowledgement nothing of the lane is picked up until the prune is over.
THEOREM RemovalStopsPickup == Spec => AckStopsPickup
<1> DEFINE Pruning == admin.force /\ admin.gen # 0
         /\ admin.pc \in {"list", "killQueued", "persist", "remove", "stop", "stopLanes", "stopWait"}
<1>1. LaneInv /\ [Next]_vars =>
        [Pruning => \A m \in Missions : row[m].status = "queued" => row'[m].status # "running"]_vars
  <2> SUFFICES ASSUME LaneInv, Next, Pruning, NEW m \in Missions, row[m].status = "queued",
                      row'[m].status = "running"
               PROVE  FALSE
    BY Zenon
  <2>1. PICK g \in Gens : Claimed(g, m)
    <3>1. Kinds /\ Claims BY StepKinds, Zenon DEF LaneInv
    <3>2. CASE UNCHANGED row BY <3>2, Zenon
    <3>3. ASSUME NEW k \in Missions, Stored(k) \/ Inserted(k) \/ QueuedEnded(k) PROVE FALSE
      BY <3>1, <3>3, Zenon DEF Stored, Inserted, QueuedEnded, Claims, Works
    <3>4. ASSUME NEW h \in Gens, NEW k \in Missions, Claimed(h, k) PROVE k = m
      BY <3>4, Zenon DEF Claimed
    <3> QED BY <3>1, <3>2, <3>3, <3>4, ZenonT(60) DEF Kinds
  <2>2. g = lane.managed BY <2>1, Zenon DEF Claimed, LaneInv, Removal
  <2>3. 0 \notin Gens BY DEF Gens
  <2>4. g = admin.gen /\ runner[g].acked BY <2>2, <2>3, ZenonT(60) DEF LaneInv, Removal
  <2> QED BY <2>1, <2>4, Zenon DEF Claimed, LaneInv, Removal
<1> QED BY <1>1, LaneInvariance, PTL DEF Spec, AckStopsPickup

\* No apply takes an operator's pause away.
THEOREM OperatorsPauseHolds == Spec => OperatorPauseHolds
<1>1. TypeOK /\ [Next]_vars =>
        [lane.applied /\ lane.pause = "ctl" /\ lane'.pause # "ctl"
           => admin.pc = "persistContinue" \/ ~lane'.applied]_vars
  <2> SUFFICES ASSUME TypeOK, Next, lane.applied, lane.pause = "ctl", lane'.pause # "ctl"
               PROVE  admin.pc = "persistContinue" \/ ~lane'.applied
    BY Zenon
  <2> lane \in Lane BY Zenon DEF TypeOK
  <2>1. ASSUME NEW g \in Gens, Loop(g) \/ WaitTimesOut(g) \/ PickFails(g) PROVE FALSE
    BY <2>1, ZenonT(60) DEF Loop, LoopTop, WaitBegins, WaitEnds, WaitTimesOut, Pick, PickBusy,
       PickFails, Register
  <2>2. ASSUME NEW m \in Missions, Goroutine(m) \/ WatchTimeout(m) \/ ProcessExit(m) \/ FinalizeFails(m)
        PROVE  FALSE
    BY <2>2, Zenon DEF Goroutine, Start, WatchKillCh, WatchCtx, Finalize, Release, Unregister, WatchTimeout,
       ProcessExit, FinalizeFails
  <2>3. ASSUME NEW m \in Missions,
               Handler(m) \/ CheckLane(m) \/ InsertFails(m) \/ KillRead(m) \/ KillQueued(m) \/ KillRunning(m)
        PROVE  FALSE
    BY <2>3, Zenon DEF Handler, BeginInsert, RecheckLane, Insert, Notify, CheckLane, InsertFails, KillRead,
       KillQueued, KillRunning, Lane
  <2>4. CASE Apply
    <3>1. PICK n, p : ApplyLane(n, p) /\ (p = TRUE \/ p = FALSE) BY <2>4, ZenonT(60) DEF Apply
    <3>2. lane'.pause = Provenance(p) BY <3>1, Zenon DEF ApplyLane, Lane
    <3> QED BY <3>1, <3>2, Zenon DEF Provenance
  <2>5. CASE PersistRemoval
    BY <2>5, Zenon DEF PersistRemoval, Lane
  <2>6. CASE SetLanePausedInConfig
    BY <2>6, Zenon DEF SetLanePausedInConfig, Lane
  <2>7. CASE Reconcile \/ ReconcilePause \/ StopRemoved \/ RemovedStopped \/ StopLanes
    BY <2>7, ZenonT(60) DEF Reconcile, ReconcilePause, StopRemoved, RemovedStopped, StopLanes, Lane
  <2>8. CASE RemovalAcked \/ ListQueued \/ (\E m \in Missions : PruneQueued(m)) \/ PruneRunning \/ LanesStopped
             \/ Prune \/ ForcePrune \/ PruneFails \/ PauseLane \/ ContinueLane \/ RollBack
    BY <2>8, Zenon DEF RemovalAcked, ListQueued, PruneQueued, PruneRunning, LanesStopped, Prune, ForcePrune,
       PruneFails, PauseLane, ContinueLane, RollBack
  <2>9. CASE CoordStep \/ SigTerm \/ AggressiveKill \/ Exit
    BY <2>9, Zenon DEF CoordStep, PauseAllLanes, DrainComplete, StopAll, AllStopped, SigTerm, AggressiveKill, Exit,
       Lane
  <2> QED BY <2>1, <2>2, <2>3, <2>4, <2>5, <2>6, <2>7, <2>8, <2>9, ZenonT(60) DEF Next, Step, AdminStep
<1> QED BY <1>1, LaneTypes, PTL DEF Spec, OperatorPauseHolds


-----------------------------------------------------------------------------
(* The pause of the runner and the pause of the configuration.             *)

\* Nobody touches a pause, the managed runner or the place of the handler.
PauseSame ==
    /\ admin' = admin /\ coord' = coord
    /\ lane'.applied = lane.applied /\ lane'.pause = lane.pause /\ lane'.managed = lane.managed
    /\ \A g \in Gens : runner'[g].paused = runner[g].paused

LEMMA PauseFrame ==
  ASSUME TypeOK, PauseInOrder, PauseSame
  PROVE  PauseInOrder' /\ PauseSettles
<1>1. lane.managed # 0 => lane.managed \in Gens
  BY Zenon DEF TypeOK, Lane
<1>2. Managed' = Managed
  BY Zenon DEF PauseSame, Managed
<1>3. lane.managed # 0 => runner'[lane'.managed].paused = runner[lane.managed].paused
  BY <1>1, Zenon DEF PauseSame
<1>4. PauseInOrder'
  BY <1>2, <1>3, Zenon DEF PauseInOrder, PauseSame, Managed
<1>5. PauseSettles
  BY <1>2, <1>3, Zenon DEF PauseSame, PauseSettles, PauseAgreed, Managed
<1> QED BY <1>4, <1>5, Zenon

\* Loops, goroutines and requests for missions leave it alone.
LEMMA PauseUntouched ==
  ASSUME TypeOK,
         \/ \E g \in Gens : Loop(g) \/ WaitTimesOut(g) \/ PickFails(g)
         \/ \E m \in Missions :
              \/ Goroutine(m) \/ WatchTimeout(m) \/ ProcessExit(m) \/ FinalizeFails(m)
              \/ Handler(m) \/ CheckLane(m) \/ InsertFails(m) \/ KillRead(m) \/ KillQueued(m) \/ KillRunning(m)
  PROVE  PauseSame
<1>0. lane \in Lane /\ runner \in [Gens -> Runner] /\ (lane.managed # 0 => lane.managed \in Gens)
  BY Zenon DEF TypeOK, Lane
<1>1. ASSUME NEW g \in Gens, Loop(g) \/ WaitTimesOut(g) \/ PickFails(g) PROVE PauseSame
  <2>1. admin' = admin /\ coord' = coord /\ lane' = lane
    BY <1>1, ZenonT(60) DEF Loop, LoopTop, WaitBegins, WaitEnds, WaitTimesOut, Pick, PickBusy, PickFails, Register
  <2>2. PICK r : r = runner[g]
    BY Zenon
  <2>3. r \in Runner
    BY <1>0, <2>2, Zenon
  <2>4. ASSUME NEW q, runner' = [runner EXCEPT ![g] = q], q.paused = r.paused PROVE PauseSame
    BY <1>0, <2>1, <2>2, <2>4, Zenon DEF PauseSame
  <2>5. \A s : [r EXCEPT !.pc = s].paused = r.paused
    BY <2>3, Zenon DEF Runner
  <2>6. ASSUME NEW s, runner' = [runner EXCEPT ![g] = [r EXCEPT !.pc = s]] PROVE PauseSame
    BY <2>4, <2>5, <2>6, Zenon
  <2>7. CASE LoopTop(g)
    <3>1. [r EXCEPT !.pc = "acked", !.acked = TRUE].paused = r.paused /\ [r EXCEPT !.pc = "pick", !.gate = r.limit].paused = r.paused
      BY <2>3, Zenon DEF Runner
    <3>2. CASE runner' = [runner EXCEPT ![g] = [r EXCEPT !.pc = "acked", !.acked = TRUE]]
      BY <2>4, <3>1, <3>2, Zenon
    <3>3. CASE runner' = [runner EXCEPT ![g] = [r EXCEPT !.pc = "pick", !.gate = r.limit]]
      BY <2>4, <3>1, <3>3, Zenon
    <3> QED BY <2>2, <2>6, <2>7, <3>2, <3>3, ZenonT(60) DEF LoopTop
  <2>8. CASE WaitBegins(g)
    <3>1. runner' = [runner EXCEPT ![g] = [r EXCEPT !.pc = "wake"]] \/ runner' = [runner EXCEPT ![g] = [r EXCEPT !.pc = "avail"]]
      BY <2>2, <2>8, Zenon DEF WaitBegins
    <3> QED BY <2>6, <3>1, Zenon
  <2>9. CASE WaitEnds(g)
    <3>1. [r EXCEPT !.pc = "top", !.notify = FALSE].paused = r.paused /\ [r EXCEPT !.pc = "top", !.avail = FALSE].paused = r.paused
      BY <2>3, Zenon DEF Runner
    <3>2. \/ runner' = [runner EXCEPT ![g] = [r EXCEPT !.pc = "top", !.notify = FALSE]]
          \/ runner' = [runner EXCEPT ![g] = [r EXCEPT !.pc = "top", !.avail = FALSE]]
          \/ runner' = [runner EXCEPT ![g] = [r EXCEPT !.pc = "top"]] \/ runner' = [runner EXCEPT ![g] = [r EXCEPT !.pc = "exit"]]
      BY <2>2, <2>9, Zenon DEF WaitEnds
    <3>3. CASE runner' = [runner EXCEPT ![g] = [r EXCEPT !.pc = "top", !.notify = FALSE]]
      BY <2>4, <3>1, <3>3, Zenon
    <3>4. CASE runner' = [runner EXCEPT ![g] = [r EXCEPT !.pc = "top", !.avail = FALSE]]
      BY <2>4, <3>1, <3>4, Zenon
    <3> QED BY <2>6, <3>2, <3>3, <3>4, Zenon
  <2>10. CASE WaitTimesOut(g) \/ PickBusy(g) \/ PickFails(g)
    <3>1. runner' = [runner EXCEPT ![g] = [r EXCEPT !.pc = "top"]] \/ runner' = [runner EXCEPT ![g] = [r EXCEPT !.pc = "toWake"]]
      BY <2>2, <2>10, Zenon DEF WaitTimesOut, PickBusy, PickFails
    <3> QED BY <2>6, <3>1, Zenon
  <2>11. CASE Pick(g)
    <3>1. \A m : [r EXCEPT !.pc = "picked", !.job = m].paused = r.paused
      BY <2>3, Zenon DEF Runner
    <3>2. ASSUME NEW m, runner' = [runner EXCEPT ![g] = [r EXCEPT !.pc = "picked", !.job = m]] PROVE PauseSame
      BY <2>4, <3>1, <3>2, Zenon
    <3>3. \/ runner' = [runner EXCEPT ![g] = [r EXCEPT !.pc = "toWake"]]
          \/ \E m \in WithStatus("queued") : runner' = [runner EXCEPT ![g] = [r EXCEPT !.pc = "picked", !.job = m]]
      BY <2>2, <2>11, Zenon DEF Pick
    <3> QED BY <2>6, <3>2, <3>3, Zenon
  <2>12. CASE Register(g)
    <3>1. \A h \in Gens : runner'[h].paused = runner[h].paused
      BY <1>0, <2>12, Zenon DEF Register, Runner
    <3> QED BY <2>1, <3>1, Zenon DEF PauseSame
  <2> QED BY <1>1, <2>7, <2>8, <2>9, <2>10, <2>11, <2>12, Zenon DEF Loop
<1>2. ASSUME NEW m \in Missions, Goroutine(m) \/ WatchTimeout(m) \/ ProcessExit(m) \/ FinalizeFails(m)
      PROVE  PauseSame
  <2>1. CASE Release(m)
    <3>1. admin' = admin /\ coord' = coord /\ lane' = lane
      BY <2>1, Zenon DEF Release
    <3>2. \A h \in Gens : runner'[h].paused = runner[h].paused
      BY <1>0, <2>1 DEF Release, Runner
    <3> QED BY <3>1, <3>2, Zenon DEF PauseSame
  <2>2. CASE Start(m) \/ WatchKillCh(m) \/ WatchCtx(m) \/ WatchTimeout(m)
    <3>1. admin' = admin /\ coord' = coord /\ lane' = lane /\ runner' = runner
      BY <2>2, Zenon DEF Start, WatchKillCh, WatchCtx, WatchTimeout
    <3> QED BY <3>1, Zenon DEF PauseSame
  <2>3. CASE Finalize(m) \/ Unregister(m) \/ ProcessExit(m) \/ FinalizeFails(m)
    <3>1. admin' = admin /\ coord' = coord /\ lane' = lane /\ runner' = runner
      BY <2>3, Zenon DEF Finalize, Unregister, ProcessExit, FinalizeFails
    <3> QED BY <3>1, Zenon DEF PauseSame
  <2> QED BY <1>2, <2>1, <2>2, <2>3, Zenon DEF Goroutine
<1>3. ASSUME NEW m \in Missions,
             Handler(m) \/ CheckLane(m) \/ InsertFails(m) \/ KillRead(m) \/ KillQueued(m) \/ KillRunning(m)
      PROVE  PauseSame
  <2>1. admin' = admin /\ coord' = coord
    BY <1>3, Zenon DEF Handler, BeginInsert, RecheckLane, Insert, Notify, CheckLane, InsertFails, KillRead,
       KillQueued, KillRunning
  <2>2. lane'.applied = lane.applied /\ lane'.pause = lane.pause /\ lane'.managed = lane.managed
    BY <1>0, <1>3, Zenon DEF Handler, BeginInsert, RecheckLane, Insert, Notify, CheckLane, InsertFails, KillRead,
       KillQueued, KillRunning, Lane
  <2>3. CASE Notify(m)
    <3>1. \A h \in Gens : runner'[h].paused = runner[h].paused
      BY <1>0, <2>3, Zenon DEF Notify, Runner, Managed
    <3> QED BY <2>1, <2>2, <3>1, Zenon DEF PauseSame
  <2>4. CASE ~Notify(m)
    <3>1. runner' = runner
      BY <1>3, <2>4, Zenon DEF Handler, BeginInsert, RecheckLane, Insert, CheckLane, InsertFails, KillRead,
         KillQueued, KillRunning
    <3> QED BY <2>1, <2>2, <3>1, Zenon DEF PauseSame
  <2> QED BY <2>3, <2>4, Zenon
<1> QED BY <1>1, <1>2, <1>3, Zenon

\* The handlers and the shutdown.
LEMMA PauseKept ==
  ASSUME LaneInv, PauseInOrder, Next
  PROVE  PauseInOrder' /\ PauseSettles
<1>0. /\ TypeOK /\ lane \in Lane /\ admin \in Admin /\ coord \in Coord /\ runner \in [Gens -> Runner]
      /\ lane.managed # 0 => lane.managed \in Gens
  BY Zenon DEF LaneInv, TypeOK, Lane
<1>1. CASE \/ \E g \in Gens : Loop(g) \/ WaitTimesOut(g) \/ PickFails(g)
           \/ \E m \in Missions :
                \/ Goroutine(m) \/ WatchTimeout(m) \/ ProcessExit(m) \/ FinalizeFails(m)
                \/ Handler(m) \/ CheckLane(m) \/ InsertFails(m) \/ KillRead(m) \/ KillQueued(m) \/ KillRunning(m)
  BY <1>0, <1>1, PauseUntouched, PauseFrame, Zenon
<1>2. CASE Apply
  <2>1. PICK n, p : ApplyLane(n, p)
    BY <1>2, ZenonT(60) DEF Apply
  <2>2. /\ lane'.applied /\ lane'.managed = lane.managed /\ admin'.pc = "reconcile"
        /\ coord' = coord /\ runner' = runner
    BY <1>0, <2>1, Zenon DEF ApplyLane, Lane, Admin
  <2> QED BY <2>2, Zenon DEF PauseInOrder, PauseSettles, PauseAgreed, Managed
<1>3. CASE Reconcile
  <2>1. coord' = coord /\ admin.pc = "reconcile" /\ admin'.pc = "pause" /\ lane'.applied = lane.applied
        /\ admin'.fresh = ~Managed
    BY <1>0, <1>3, Zenon DEF Reconcile, Lane, Admin
  <2>2. CASE Managed
    <3>1. lane'.managed = lane.managed
      BY <1>0, <1>3, <2>2, Zenon DEF Reconcile, Lane
    <3> QED BY <2>1, <2>2, <3>1, Zenon DEF PauseInOrder, PauseSettles, PauseAgreed, Managed
  <2>3. CASE ~Managed
    <3>1. lane'.managed = lane.used + 1 /\ runner' = [runner EXCEPT ![lane.used + 1] = Started(lane.limit)]
      BY <1>0, <1>3, <2>3, Zenon DEF Reconcile, Lane
    <3>2. lane.used \in Nat
      BY <1>0, LaneConstantsOK, SMTT(40) DEF Lane, Gens
    <3>3. lane'.managed # 0
      BY <3>1, <3>2
    <3>4. lane'.managed \in Gens => ~runner'[lane'.managed].paused
      BY <1>0, <3>1, Zenon DEF Started, Off
    <3>5. lane'.managed \in Gens
      <4>1. lane' \in Lane
        BY TypeKept, Zenon DEF TypeOK
      <4> QED BY <3>3, <4>1, Zenon DEF Lane
    <3> QED BY <2>1, <3>3, <3>4, <3>5, Zenon DEF PauseInOrder, PauseSettles, PauseAgreed, Managed
  <2> QED BY <2>2, <2>3, Zenon
<1>4. CASE ReconcilePause
  <2>1. /\ admin.pc = "pause" /\ admin'.pc = "idle" /\ lane'.managed = lane.managed /\ lane'.applied = lane.applied
        /\ lane'.pause = lane.pause /\ coord'.phase = coord.phase
        /\ coord'.pc = IF coord.pc = "boot" THEN "idle" ELSE coord.pc
    BY <1>0, <1>4, Zenon DEF ReconcilePause, Lane, Admin, Coord
  <2>2. ASSUME coord.phase = "running"
        PROVE  runner'[lane.managed].paused <=> lane.pause # "none"
    <3>1. lane.managed \in Gens /\ (admin.fresh => ~runner[lane.managed].paused)
      BY <1>0, <2>1, <2>2, Zenon DEF PauseInOrder, Managed
    <3>2. runner'[lane.managed] = IF lane.pause # "none" THEN [runner[lane.managed] EXCEPT !.paused = TRUE]
                                  ELSE IF admin.fresh THEN runner[lane.managed]
                                  ELSE [runner[lane.managed] EXCEPT !.paused = FALSE, !.notify = TRUE]
      BY <1>0, <1>4, <3>1, Zenon DEF ReconcilePause
    <3>3. runner[lane.managed] \in Runner
      BY <1>0, <3>1, Zenon
    <3> QED BY <3>1, <3>2, <3>3, Zenon DEF Runner
  <2> QED BY <2>1, <2>2, Zenon DEF PauseInOrder, PauseSettles, PauseAgreed, Managed
<1>5. CASE RemovalAcked \/ ListQueued \/ (\E m \in Missions : PruneQueued(m)) \/ PruneRunning \/ Prune \/ ForcePrune \/ PruneFails
  <2>1. coord' = coord /\ lane' = lane
    BY <1>5, ZenonT(60) DEF RemovalAcked, ListQueued, PruneQueued, PruneRunning, Prune, ForcePrune, PruneFails
  <2>2. CASE RemovalAcked \/ ListQueued \/ (\E m \in Missions : PruneQueued(m)) \/ PruneRunning
    <3>1. admin'.pc \in {"list", "killQueued", "persist"}
      BY <1>0, <2>2, Zenon DEF RemovalAcked, ListQueued, PruneQueued, PruneRunning, Admin
    <3> QED BY <2>1, <3>1, Zenon DEF PauseInOrder, PauseSettles, PauseAgreed, Managed
  <2>3. CASE Prune \/ ForcePrune \/ PruneFails
    <3>1. admin'.pc \in {"ack", "list", "persist", "stopLanes"}
      BY <1>0, <2>3, Zenon DEF Prune, ForcePrune, PruneFails, Admin
    <3> QED BY <2>1, <3>1, Zenon DEF PauseInOrder, PauseSettles, PauseAgreed, Managed
  <2> QED BY <1>5, <2>2, <2>3, Zenon
<1>6. CASE PersistRemoval
  <2>1. coord' = coord /\ admin'.pc = "remove"
    BY <1>0, <1>6, Zenon DEF PersistRemoval, Admin
  <2> QED BY <2>1, Zenon DEF PauseInOrder, PauseSettles
<1>7. CASE StopRemoved \/ RemovedStopped \/ StopLanes \/ LanesStopped
  <2>1. coord' = coord
    BY <1>7, Zenon DEF StopRemoved, RemovedStopped, StopLanes, LanesStopped
  <2>2. admin'.pc = "stop" \/ (admin'.pc \in {"idle", "stopWait"} /\ (coord.phase = "running" => lane'.managed = 0))
    <3>1. CASE StopRemoved
      BY <1>0, <3>1, Zenon DEF StopRemoved, Managed, Admin
    <3>2. CASE RemovedStopped
      BY <1>0, <3>2, Zenon DEF RemovedStopped, Admin, Lane
    <3>3. CASE StopLanes
      BY <1>0, <3>3, Zenon DEF StopLanes, Managed, Admin, Lane
    <3>4. CASE LanesStopped
      BY <1>0, <3>4, Zenon DEF LanesStopped, Managed, Admin, PauseInOrder
    <3> QED BY <1>7, <3>1, <3>2, <3>3, <3>4, Zenon
  <2> QED BY <2>1, <2>2, Zenon DEF PauseInOrder, PauseSettles, PauseAgreed, Managed
<1>8. CASE PauseLane \/ ContinueLane
  <2>1. /\ coord' = coord /\ lane' = lane /\ Managed /\ admin.pc = "idle"
        /\ \/ admin'.pc = "persistPause" /\ runner' = Paused(lane.managed)
           \/ admin'.pc = "persistContinue" /\ runner' = Resumed(lane.managed)
    BY <1>0, <1>8, Zenon DEF PauseLane, ContinueLane, AdminStarts, Admin
  <2>2. lane.managed \in Gens /\ runner[lane.managed] \in Runner
    BY <1>0, <2>1, Zenon DEF Managed
  <2>3. admin'.pc = "persistPause" => runner'[lane.managed].paused
    BY <1>0, <2>1, <2>2 DEF Paused, Runner
  <2>4. admin'.pc = "persistContinue" => ~runner'[lane.managed].paused
    BY <1>0, <2>1, <2>2, ZenonT(60) DEF Resumed, Runner
  <2> QED BY <2>1, <2>3, <2>4, Zenon DEF PauseInOrder, PauseSettles, PauseAgreed, Managed
<1>9. CASE SetLanePausedInConfig
  <2>1. /\ coord' = coord /\ runner' = runner /\ admin'.pc = "idle" /\ lane'.managed = lane.managed
        /\ lane'.applied = lane.applied /\ admin.pc \in {"persistPause", "persistContinue"}
        /\ lane.applied => lane'.pause = IF admin.pc = "persistPause" THEN "ctl" ELSE "none"
    BY <1>0, <1>9, Zenon DEF SetLanePausedInConfig, Lane, Admin
  <2> QED BY <2>1, Zenon DEF PauseInOrder, PauseSettles, PauseAgreed, Managed
<1>10. CASE RollBack
  <2>1. /\ coord' = coord /\ lane' = lane /\ admin'.pc = "idle" /\ errors' = errors + 1
        /\ admin.pc \in {"persistPause", "persistContinue"}
        /\ runner' = IF ~Managed THEN runner
                     ELSE IF admin.pc = "persistPause" THEN Resumed(lane.managed) ELSE Paused(lane.managed)
    BY <1>0, <1>10, Zenon DEF RollBack, Admin
  <2>2. errors' # errors
    <3>1. errors \in Nat
      BY <1>0, LaneConstantsOK DEF TypeOK, Environment
    <3> QED BY <2>1, <3>1
  <2>3. Managed => lane.managed \in Gens /\ runner[lane.managed] \in Runner
    BY <1>0, Zenon DEF Managed
  <2>4. Managed /\ admin.pc = "persistPause" => ~runner'[lane.managed].paused
    BY <1>0, <2>1, <2>3, ZenonT(60) DEF Resumed, Runner
  <2>5. Managed /\ admin.pc = "persistContinue" => runner'[lane.managed].paused
    BY <1>0, <2>1, <2>3 DEF Paused, Runner
  <2>6. PauseInOrder'
    BY <2>1, Zenon DEF PauseInOrder, Managed
  <2>7. PauseSettles
    BY <2>1, <2>2, <2>4, <2>5, Zenon DEF PauseSettles, PauseAgreed, Repeated, Managed
  <2> QED BY <2>6, <2>7, Zenon
<1>11. CASE CoordStep \/ SigTerm \/ AggressiveKill \/ Exit
  <2>1. CASE coord.phase = "running"
    <3>1. SigTerm
      BY <1>11, <2>1, Zenon DEF CoordStep, PauseAllLanes, DrainComplete, StopAll, AllStopped, AggressiveKill, Exit,
         PauseInOrder
    <3>2. coord'.phase = "draining"
      BY <1>0, <2>1, <3>1, Zenon DEF SigTerm, Coord
    <3> QED BY <3>2, Zenon DEF PauseInOrder, PauseSettles
  <2>2. CASE coord.phase # "running"
    <3>1. CASE SigTerm
      BY <1>0, <2>2, <3>1, Zenon DEF SigTerm, Coord, PauseInOrder, PauseSettles
    <3>2. CASE PauseAllLanes \/ DrainComplete \/ StopAll
      BY <1>0, <2>2, <3>2, Zenon DEF PauseAllLanes, DrainComplete, StopAll, Coord, PauseInOrder, PauseSettles
    <3>3. CASE AllStopped \/ AggressiveKill \/ Exit
      BY <1>0, <2>2, <3>3, Zenon DEF AllStopped, AggressiveKill, Exit, Coord, PauseInOrder, PauseSettles
    <3> QED BY <1>11, <3>1, <3>2, <3>3, Zenon DEF CoordStep
  <2> QED BY <2>1, <2>2, Zenon
<1> QED BY <1>1, <1>2, <1>3, <1>4, <1>5, <1>6, <1>7, <1>8, <1>9, <1>10, <1>11, ZenonT(60) DEF Next, Step, AdminStep

\* When apply, pause, continue or prune returns, the runner of the lane is paused exactly
\* if the stored configuration says so, whatever went wrong before, so that a restart
\* changes nothing; only the roll-back of a request that asked for what the configuration
\* said already sets the two apart (PauseLane, ContinueLane, Manager.Apply).
THEOREM PauseAgrees == Spec => PauseMatchesConfig
<1>1. Init => PauseInOrder
  <2> SUFFICES ASSUME Init PROVE PauseInOrder
    BY Zenon
  <2>1. lane.managed = 0 /\ lane.applied /\ admin.pc = "reconcile" /\ coord.pc = "boot"
    BY DEF Init
  <2> QED BY <2>1, Zenon DEF PauseInOrder, Managed
<1>2. LaneInv /\ PauseInOrder /\ [Next]_vars => PauseInOrder' /\ [PauseSettles]_vars
  <2>1. ASSUME LaneInv, PauseInOrder, Next PROVE PauseInOrder' /\ PauseSettles
    BY <2>1, PauseKept, Zenon
  <2>2. ASSUME LaneInv, PauseInOrder, UNCHANGED vars PROVE PauseInOrder' /\ PauseSettles
    <3>1. TypeOK /\ PauseSame
      BY <2>2, Zenon DEF LaneInv, PauseSame, vars
    <3> QED BY <2>2, <3>1, PauseFrame, Zenon
  <2> QED BY <2>1, <2>2, Zenon
<1> QED BY <1>1, <1>2, LaneInvariance, PTL DEF Spec, PauseMatchesConfig

=============================================================================
