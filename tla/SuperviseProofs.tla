-------------------------- MODULE SuperviseProofs --------------------------
(***************************************************************************)
(* The supervision of a process is correct for every process (whatever it  *)
(* writes, in whatever order, however it ends and whatever it leaves       *)
(* behind), every limit, every kill, and every interleaving of the         *)
(* goroutines of Run.                                                      *)
(***************************************************************************)
EXTENDS Supervise, TLAPS

-----------------------------------------------------------------------------
(* Who changes what.                                                       *)

\* The process, its descendant and its fd3 pipe.
LEMMA WhoProc ==
  ASSUME Next
  PROVE  \/ Spawn \/ OpenEventsFails \/ (\E w \in Watchers : SendSignal(w)) \/ Operate \/ Quit \/ TakeSignal
         \/ Linger \/ Reap \/ Reading \/ UNCHANGED <<proc, desc, fd3>>
<1>1. (\E w \in Watchers : Watching(w)) => (\E w \in Watchers : SendSignal(w)) \/ UNCHANGED <<proc, desc, fd3>>
  BY Zenon DEF Watching, Watch, killProcess, CheckExited, Grace
<1>2. Supervisor => Reap \/ UNCHANGED <<proc, desc, fd3>>
  BY ZenonT(60) DEF Supervisor, OpenEvents, WaitDelay, WaitReturns, JoinKillers, JoinReader, JoinWriter, Derive, Collected, collectOne
<1>3. SpawnFails \/ CollectRefused \/ Copying \/ (\E x \in Streams : CopyFails(x)) \/ Writing \/ SignalKill \/ Cancel \/ Ended
      => UNCHANGED <<proc, desc, fd3>>
  BY Zenon DEF SpawnFails, CollectRefused, Copying, Copy, CopyFails, Writing, WriterChecks, WriterTakes, WriterWakes,
     SignalKill, Cancel, Ended, vars
<1> QED BY <1>1, <1>2, <1>3, Zenon DEF Next

\* The pipes of os/exec and what is captured of them.
LEMMA WhoOut ==
  ASSUME Next
  PROVE  Operate \/ Copying \/ (\E x \in Streams : CopyFails(x)) \/ WaitDelay \/ UNCHANGED <<pipes, out>>
<1>1. (\E w \in Watchers : Watching(w)) => UNCHANGED <<pipes, out>>
  BY Zenon DEF Watching, Watch, killProcess, CheckExited, Grace, SendSignal
<1>2. Supervisor => WaitDelay \/ UNCHANGED <<pipes, out>>
  BY ZenonT(60) DEF Supervisor, OpenEvents, Reap, WaitReturns, JoinKillers, JoinReader, JoinWriter, Derive, Collected, collectOne
<1>3. Spawn \/ SpawnFails \/ OpenEventsFails \/ CollectRefused \/ Quit \/ TakeSignal \/ Linger \/ Reading \/ Writing
      \/ SignalKill \/ Cancel \/ Ended => UNCHANGED <<pipes, out>>
  BY Zenon DEF Spawn, SpawnFails, OpenEventsFails, CollectRefused, Quit, TakeSignal, Linger, Reading, ReaderChecks,
     ReadFd3, ReadEOF, Writing, WriterChecks, WriterTakes, WriterWakes, SignalKill, Cancel, Ended, vars
<1> QED BY <1>1, <1>2, <1>3, Zenon DEF Next

\* The reader and the writer of fd3.
LEMMA WhoFd3 ==
  ASSUME Next
  PROVE  OpenEvents \/ Reading \/ Writing \/ JoinReader \/ UNCHANGED goroutines
<1>1. (\E w \in Watchers : Watching(w)) => UNCHANGED goroutines
  BY Zenon DEF Watching, Watch, killProcess, CheckExited, Grace, SendSignal
<1>2. Supervisor => OpenEvents \/ JoinReader \/ UNCHANGED goroutines
  BY ZenonT(60) DEF Supervisor, WaitDelay, Reap, WaitReturns, JoinKillers, JoinWriter, Derive, Collected, collectOne
<1>3. Spawn \/ SpawnFails \/ OpenEventsFails \/ CollectRefused \/ Operate \/ Quit \/ TakeSignal \/ Linger \/ Copying
      \/ (\E x \in Streams : CopyFails(x)) \/ SignalKill \/ Cancel \/ Ended => UNCHANGED goroutines
  BY Zenon DEF Spawn, SpawnFails, OpenEventsFails, CollectRefused, Operate, Quit, TakeSignal, Linger, Copying, Copy,
     CopyFails, SignalKill, Cancel, Ended, vars, goroutines
<1> QED BY <1>1, <1>2, <1>3, Zenon DEF Next

\* The watchers and the kill.
LEMMA WhoKill ==
  ASSUME Next
  PROVE  OpenEvents \/ OpenEventsFails \/ SignalKill \/ Cancel \/ (\E w \in Watchers : Watching(w)) \/ UNCHANGED <<watch, kill>>
<1>1. Supervisor => OpenEvents \/ UNCHANGED <<watch, kill>>
  BY ZenonT(60) DEF Supervisor, WaitDelay, Reap, WaitReturns, JoinKillers, JoinReader, JoinWriter, Derive, Collected, collectOne
<1>2. Spawn \/ SpawnFails \/ CollectRefused \/ Operate \/ Quit \/ TakeSignal \/ Linger \/ Copying
      \/ (\E x \in Streams : CopyFails(x)) \/ Reading \/ Writing \/ Ended => UNCHANGED <<watch, kill>>
  BY Zenon DEF Spawn, SpawnFails, CollectRefused, Operate, Quit, TakeSignal, Linger, Copying, Copy, CopyFails,
     Reading, ReaderChecks, ReadFd3, ReadEOF, Writing, WriterChecks, WriterTakes, WriterWakes, Ended, vars
<1> QED BY <1>1, <1>2, Zenon DEF Next

\* Run itself.
LEMMA WhoMain ==
  ASSUME Next
  PROVE  \/ Spawn \/ SpawnFails \/ OpenEvents \/ OpenEventsFails \/ WaitReturns \/ JoinKillers \/ JoinReader \/ JoinWriter
         \/ Derive \/ CollectRefused \/ (\E k \in Keys : collectOne(k)) \/ Collected \/ UNCHANGED <<main, done>>
<1>1. (\E w \in Watchers : Watching(w)) => UNCHANGED <<main, done>>
  BY Zenon DEF Watching, Watch, killProcess, CheckExited, Grace, SendSignal
<1>2. Operate \/ Quit \/ TakeSignal \/ Linger \/ Copying \/ (\E x \in Streams : CopyFails(x)) \/ Reading \/ Writing
      \/ SignalKill \/ Cancel \/ WaitDelay \/ Reap \/ Ended => UNCHANGED <<main, done>>
  BY Zenon DEF Operate, Quit, TakeSignal, Linger, Copying, Copy, CopyFails, Reading, ReaderChecks, ReadFd3, ReadEOF,
     Writing, WriterChecks, WriterTakes, WriterWakes, SignalKill, Cancel, WaitDelay, Reap, Ended, vars
<1> QED BY <1>1, <1>2, Zenon DEF Next, Supervisor

-----------------------------------------------------------------------------
(* Types.                                                                  *)

\* The sets of TypeOK that depend on the process do not change.
LEMMA SameTypes ==
  ASSUME UNCHANGED env
  PROVE  ProcType' = ProcType /\ DescType' = DescType
BY Zenon DEF ProcType, DescType

LEMMA SameEnv ==
  ASSUME Next
  PROVE  UNCHANGED env
BY ZenonT(60) DEF Next, Spawn, SpawnFails, OpenEventsFails, Supervisor, OpenEvents, Reap, WaitDelay, WaitReturns,
       JoinKillers, JoinReader, JoinWriter, Derive, Collected, collectOne, CollectRefused, Operate, Quit,
       TakeSignal, Linger, Copying, Copy, CopyFails, Reading, ReaderChecks, ReadFd3, ReadEOF, Writing,
       WriterChecks, WriterTakes, WriterWakes, SignalKill, Cancel, Watching, Watch, killProcess, CheckExited,
       SendSignal, Grace, Ended, vars

\* What a process may be.
LEMMA EnvFields ==
  ASSUME TypeOK
  PROVE  /\ env.kind \in {"mission", "exec"}
         /\ env.ops \in Seq([to : {"fd3"}, line : Fd3Line] \cup [to : Streams, line : Token])
         /\ Len(env.ops) \in Nat /\ env.code \in Nat /\ env.sig \in SignalNames \cup {None}
         /\ env.late \in Seq(Fd3Line) /\ Len(env.late) \in Nat /\ env.timeout \in BOOLEAN
         /\ env.kills \subseteq KillReasons /\ env.keys \subseteq Keys
         /\ ~IsMission => env.late = <<>> /\ \A i \in DOMAIN env.ops : env.ops[i].to # "fd3"
BY DEF TypeOK, Environment, IsMission

LEMMA Limits ==
  /\ MaxOutputFiles \in Nat /\ MaxProgressRate \in Nat /\ MaxOutputBuffer \in Nat
  /\ MaxRecordedViolations \in Nat /\ MaxRecordedViolations > 0 /\ ProgressSlots \in Nat /\ ProgressSlots > 0
BY LimitsAssumption

\* The fields of the state.
LEMMA ProcFields ==
  ASSUME TypeOK
  PROVE  /\ proc \in ProcType /\ proc.at \in 0 .. Len(env.ops) /\ proc.code \in Int /\ proc.sig \in SignalNames \cup {None}
         /\ proc.wrote \in [fd3 : Seq(Fd3Line), stdout : Seq(Token), stderr : Seq(Token)]
         /\ Lines \in Seq(Fd3Line) /\ Len(Lines) \in Nat
         /\ proc.wrote.stderr \in Seq(Token) /\ Len(proc.wrote.stderr) \in Nat
         /\ fd3 \in Seq(Fd3Line) /\ Len(fd3) \in Nat
BY DEF TypeOK, ProcType, Lines

LEMMA ReaderFields ==
  ASSUME TypeOK
  PROVE  /\ reader \in ReaderType /\ reader.pc \in {"off", "check", "read", "done"}
         /\ reader.final \in {None, "success", "fail"} /\ reader.viol \in Seq(Violation)
         /\ Len(reader.viol) \in Nat /\ reader.outs \subseteq Keys /\ reader.drops \in Nat
         /\ progress \in ProgressType /\ progress.queued \in 0 .. ProgressSlots /\ progress.closed \in BOOLEAN
         /\ writer \in WriterType /\ writer.pc \in {"off", "check", "select", "done"}
         /\ writer.tokens \in 0 .. MaxProgressRate /\ writer.appended \in Nat /\ writer.dropped \in Nat
BY DEF TypeOK, ReaderType, ProgressType, WriterType

LEMMA DiesTyped ==
  ASSUME TypeOK, NEW c \in Int, NEW s \in SignalNames \cup {None}, Dies(c, s)
  PROVE  proc' \in ProcType
BY Zenon DEF TypeOK, Dies, ProcType

\* The process.
LEMMA ProcTyped ==
  ASSUME TypeOK, Next
  PROVE  proc' \in ProcType' /\ desc' \in DescType' /\ fd3' \in Seq(Fd3Line)
<1>0. UNCHANGED env /\ ProcType' = ProcType /\ DescType' = DescType
  BY SameEnv, SameTypes, Zenon
<1>1. proc \in ProcType /\ desc \in DescType /\ fd3 \in Seq(Fd3Line)
  BY Zenon DEF TypeOK
<1>2. CASE Spawn
  BY <1>0, <1>1, <1>2, ZenonT(60) DEF Spawn, ProcType, DescType
<1>3. ASSUME NEW sig \in {"TERM", "KILL"}, killProcessGroup(sig)
      PROVE  proc' \in ProcType /\ desc' \in DescType
  <2>1. proc' \in ProcType
    BY <1>1, <1>3, Zenon DEF killProcessGroup, ProcType
  <2>2. desc' \in DescType
    BY <1>1, <1>3, Zenon DEF killProcessGroup, DescType
  <2> QED BY <2>1, <2>2, Zenon
<1>4. CASE OpenEventsFails
  BY <1>0, <1>1, <1>3, <1>4, Zenon DEF OpenEventsFails
<1>5. ASSUME NEW w \in Watchers, SendSignal(w) PROVE proc' \in ProcType /\ desc' \in DescType /\ fd3' = fd3
  BY <1>3, <1>5, Zenon DEF SendSignal
<1>6. CASE Operate
  <2>1. PICK op : op = env.ops[proc.at + 1]
    BY Zenon
  <2>2. op \in [to : {"fd3"}, line : Fd3Line] \cup [to : Streams, line : Token] /\ proc.at + 1 \in 0 .. Len(env.ops)
    <3>0. proc.at < Len(env.ops)
      BY <1>6, ZenonT(60) DEF Operate
    <3>1. proc.at + 1 \in 1 .. Len(env.ops)
      BY <3>0, ProcFields, EnvFields, SMTT(40)
    <3>2. proc.at + 1 \in 0 .. Len(env.ops)
      BY <3>1, EnvFields
    <3> QED BY <2>1, <3>1, <3>2, EnvFields
  <2>3. CASE op.to = "fd3"
    <3>1. op.line \in Fd3Line
      BY <2>2, <2>3, Zenon DEF Streams
    <3>2. proc' = [proc EXCEPT !.at = @ + 1, !.wrote.fd3 = Append(@, op.line)] /\ fd3' = Append(fd3, op.line) /\ desc' = desc
      BY <1>6, <2>1, <2>3, Zenon DEF Operate
    <3>3. Append(proc.wrote.fd3, op.line) \in Seq(Fd3Line) /\ fd3' \in Seq(Fd3Line)
      BY <3>1, <3>2, ProcFields DEF Lines
    <3>4. proc' \in ProcType
      BY <1>1, <2>2, <3>2, <3>3, Zenon DEF ProcType
    <3> QED BY <1>0, <1>1, <3>2, <3>3, <3>4, Zenon
  <2>4. CASE op.to \in Streams /\ pipes[op.to].open
    <3>1. op.line \in Token /\ op.to # "fd3"
      BY <2>2, <2>4, Zenon DEF Streams
    <3>2. proc' = [proc EXCEPT !.at = @ + 1, !.wrote[op.to] = Append(@, op.line)] /\ fd3' = fd3 /\ desc' = desc
      BY <1>6, <2>1, <2>4, <3>1, ZenonT(60) DEF Operate
    <3>3. Append(proc.wrote[op.to], op.line) \in Seq(Token)
      BY <2>4, <3>1, ProcFields DEF Streams
    <3>4. proc' \in ProcType
      BY <1>1, <2>2, <2>4, <3>2, <3>3, Zenon DEF ProcType, Streams
    <3> QED BY <1>0, <1>1, <3>2, <3>4, Zenon
  <2>5. CASE op.to \in Streams /\ ~pipes[op.to].open
    <3>1. Dies(-1, "PIPE") /\ fd3' = fd3 /\ desc' = desc
      BY <1>6, <2>1, <2>5, Zenon DEF Operate, Streams
    <3>2. -1 \in Int /\ "PIPE" \in SignalNames \cup {None}
      BY DEF SignalNames
    <3>3. proc' \in ProcType
      BY <3>1, <3>2, DiesTyped, Zenon
    <3> QED BY <1>0, <1>1, <3>1, <3>3, Zenon
  <2> QED BY <2>2, <2>3, <2>4, <2>5, Zenon
<1>7. CASE Quit
  <2>1. PICK c : c = IF env.sig = None THEN env.code ELSE -1
    BY Zenon
  <2>2. c \in Int /\ env.sig \in SignalNames \cup {None}
    BY <2>1, EnvFields
  <2>3. Dies(c, env.sig) /\ UNCHANGED <<desc, fd3>>
    BY <1>7, <2>1, Zenon DEF Quit
  <2>4. proc' \in ProcType
    BY <2>2, <2>3, DiesTyped, Zenon
  <2> QED BY <1>0, <1>1, <2>3, <2>4, Zenon
<1>8. CASE TakeSignal
  <2>1. {"KILL", "TERM", None} \subseteq SignalNames \cup {None} /\ -1 \in Int /\ 0 \in Int
    BY DEF SignalNames
  <2>2. (Dies(-1, "KILL") \/ Dies(-1, "TERM") \/ Dies(0, None)) /\ UNCHANGED <<desc, fd3>>
    BY <1>8, Zenon DEF TakeSignal
  <2>3. proc' \in ProcType
    BY <2>1, <2>2, DiesTyped, Zenon
  <2> QED BY <1>0, <1>1, <2>2, <2>3, Zenon
<1>9. CASE Linger
  <2>1. CASE desc' = [desc EXCEPT !.st = "gone"] /\ UNCHANGED fd3
    BY <1>0, <1>1, <1>9, <2>1, Zenon DEF Linger, DescType
  <2>2. CASE desc.at < Len(env.late) /\ desc' = [desc EXCEPT !.at = @ + 1] /\ fd3' = Append(fd3, env.late[desc.at + 1])
    <3>1. desc.at \in 0 .. Len(env.late)
      BY <1>1, Zenon DEF DescType
    <3>2. desc.at + 1 \in 0 .. Len(env.late) /\ env.late[desc.at + 1] \in Fd3Line
      BY <2>2, <3>1, EnvFields
    <3>3. desc' \in DescType
      BY <1>1, <2>2, <3>2, ZenonT(60) DEF DescType
    <3> QED BY <1>0, <1>1, <1>9, <2>2, <3>2, <3>3 DEF Linger
  <2> QED BY <1>9, <2>1, <2>2, Zenon DEF Linger
<1>10. CASE Reap
  BY <1>0, <1>1, <1>10, Zenon DEF Reap, ProcType
<1>11. CASE Reading
  <2>1. proc' = proc /\ desc' = desc
    BY <1>11, Zenon DEF Reading, ReaderChecks, ReadFd3, ReadEOF
  <2>2. fd3' \in Seq(Fd3Line)
    <3>1. CASE ReadFd3
      BY <1>1, <3>1 DEF ReadFd3
    <3> QED BY <1>1, <1>11, <3>1, Zenon DEF Reading, ReaderChecks, ReadEOF
  <2> QED BY <1>0, <1>1, <2>1, <2>2, Zenon
<1>12. CASE UNCHANGED <<proc, desc, fd3>>
  BY <1>0, <1>1, <1>12, Zenon
<1> QED
  <2>1. CASE \E w \in Watchers : SendSignal(w)
    BY <1>0, <1>1, <1>5, <2>1, Zenon
  <2> QED BY <1>2, <1>4, <1>6, <1>7, <1>8, <1>9, <1>10, <1>11, <1>12, <2>1, WhoProc, Zenon

-----------------------------------------------------------------------------
(* What is captured.                                                       *)

LEMMA WriteKeeps ==
  ASSUME SuperviseIInv, NEW x \in Streams, NEW n \in Nat
  PROVE  LET w == Write(x, n)
         IN /\ w \in Capture /\ w.kept <= w.taken /\ (w.kept < w.taken <=> w.trunc)
            /\ w.kept - out[x].kept <= MaxOutputBuffer - Total
<1>1. out[x] \in Capture /\ out.stdout \in Capture /\ out.stderr \in Capture
  BY Zenon DEF SuperviseIInv, SuperviseInv, TypeOK, OutType, Streams
<1>2. Total \in Nat /\ MaxOutputBuffer \in Nat /\ Total <= MaxOutputBuffer
  BY <1>1, Limits DEF SuperviseIInv, SuperviseInv, TruncationIsMarked, Total, Capture
<1>3. out[x].kept <= out[x].taken /\ (out[x].kept < out[x].taken <=> out[x].trunc)
  BY Zenon DEF SuperviseIInv, SuperviseInv, TruncationIsMarked, OutputInOrder
<1>4. CASE out[x].trunc
  <2>1. Write(x, n) = [out[x] EXCEPT !.taken = @ + n]
    BY <1>4, Zenon DEF Write
  <2> QED BY <1>1, <1>2, <1>3, <1>4, <2>1 DEF Capture
<1>5. CASE ~out[x].trunc
  <2>1. PICK room : room = MaxOutputBuffer - Total
    BY Zenon
  <2>2. Write(x, n) = [kept |-> out[x].kept + (IF n > room THEN room ELSE n), taken |-> out[x].taken + n, trunc |-> n > room]
    BY <1>5, <2>1, Zenon DEF Write
  <2>3. room \in Nat
    BY <1>2, <2>1
  <2>4. PICK c : c = out[x]
    BY Zenon
  <2>5. c.kept \in Nat /\ c.taken \in Nat /\ c.kept = c.taken
    BY <1>1, <1>3, <1>5, <2>4 DEF Capture
  <2>6. CASE n > room
    <3>1. Write(x, n) = [kept |-> c.kept + room, taken |-> c.taken + n, trunc |-> TRUE]
      BY <2>2, <2>4, <2>6, Zenon
    <3> QED BY <2>1, <2>3, <2>4, <2>5, <2>6, <3>1 DEF Capture
  <2>7. CASE ~(n > room)
    <3>1. Write(x, n) = [kept |-> c.kept + n, taken |-> c.taken + n, trunc |-> n > room]
      BY <2>2, <2>4, <2>7, Zenon
    <3>2. (n > room) = FALSE
      BY <2>7
    <3>3. Write(x, n) = [kept |-> c.kept + n, taken |-> c.taken + n, trunc |-> FALSE]
      BY <3>1, <3>2, Zenon
    <3> QED BY <2>1, <2>3, <2>4, <2>5, <2>7, <3>3 DEF Capture
  <2> QED BY <2>6, <2>7, Zenon
<1> QED BY <1>1, <1>4, <1>5, Zenon DEF Capture

\* What one copy takes from a pipe.
LEMMA CopyFacts ==
  ASSUME SuperviseIInv, NEW x \in Streams, NEW n \in 1 .. Len(pipes[x].buf)
  PROVE  /\ pipes[x].buf \in Seq(Token) /\ Len(pipes[x].buf) \in Nat /\ n \in Nat
         /\ SubSeq(pipes[x].buf, n + 1, Len(pipes[x].buf)) \in Seq(Token)
         /\ Len(SubSeq(pipes[x].buf, n + 1, Len(pipes[x].buf))) = Len(pipes[x].buf) - n
         /\ \A i \in 1 .. Len(pipes[x].buf) - n : SubSeq(pipes[x].buf, n + 1, Len(pipes[x].buf))[i] = pipes[x].buf[n + i]
         /\ SubSeq(pipes[x].buf, 1, n) \in Seq(Token) /\ Len(SubSeq(pipes[x].buf, 1, n)) = n
         /\ \A i \in 1 .. n : SubSeq(pipes[x].buf, 1, n)[i] = pipes[x].buf[i]
<1>1. pipes[x].buf \in Seq(Token) /\ Len(pipes[x].buf) \in Nat
  BY DEF SuperviseIInv, SuperviseInv, TypeOK
<1>2. PICK b : b = pipes[x].buf
  BY Zenon
<1>3. n \in 1 .. Len(b) /\ b \in Seq(Token) /\ Len(b) \in Nat
  BY <1>1, <1>2, Zenon
<1>4. n \in Nat /\ SubSeq(b, 1, n) \in Seq(Token) /\ Len(SubSeq(b, 1, n)) = n /\ \A i \in 1 .. n : SubSeq(b, 1, n)[i] = b[i]
  BY <1>3
<1>5. /\ SubSeq(b, n + 1, Len(b)) \in Seq(Token) /\ Len(SubSeq(b, n + 1, Len(b))) = Len(b) - n
      /\ \A i \in 1 .. Len(b) - n : SubSeq(b, n + 1, Len(b))[i] = b[n + i]
  BY <1>3
<1> QED BY <1>2, <1>3, <1>4, <1>5, Zenon

\* The detector keeps the last piece it has seen, and finds the marker across two chunks.
LEMMA ScanFacts ==
  ASSUME NEW cur \in Token, NEW found \in BOOLEAN, NEW chunk \in Seq(Token), Len(chunk) > 0
  PROVE  LET o == scan([found |-> found, cur |-> cur], chunk)
         IN /\ o \in [found : BOOLEAN, cur : Token] /\ o.cur = chunk[Len(chunk)]
            /\ o.found <=> \/ found \/ (cur = "m1" /\ chunk[1] = "m2")
                           \/ \E i \in 1 .. Len(chunk) - 1 : chunk[i] = "m1" /\ chunk[i + 1] = "m2"
<1>1. PICK t : t = <<cur>> \o chunk
  BY ZenonT(60)
<1>2. t \in Seq(Token) /\ Len(t) = Len(chunk) + 1 /\ Len(chunk) \in Nat
  BY <1>1
<1>3. t[1] = cur /\ \A i \in 1 .. Len(chunk) : t[i + 1] = chunk[i]
  BY <1>1
<1>4. PICK o : o = [found |-> found \/ (\E i \in 1 .. Len(t) - 1 : t[i] = "m1" /\ t[i + 1] = "m2"), cur |-> t[Len(t)]]
  BY Zenon
<1>5. scan([found |-> found, cur |-> cur], chunk) = o
  BY <1>1, <1>4, Zenon DEF scan
<1>6. o.cur = chunk[Len(chunk)] /\ o.cur \in Token
  BY <1>2, <1>3, <1>4
<1>7. (\E i \in 1 .. Len(t) - 1 : t[i] = "m1" /\ t[i + 1] = "m2")
      <=> (cur = "m1" /\ chunk[1] = "m2") \/ \E i \in 1 .. Len(chunk) - 1 : chunk[i] = "m1" /\ chunk[i + 1] = "m2"
  <2>1. ASSUME NEW i \in 1 .. Len(t) - 1, t[i] = "m1" /\ t[i + 1] = "m2"
        PROVE  (cur = "m1" /\ chunk[1] = "m2") \/ \E j \in 1 .. Len(chunk) - 1 : chunk[j] = "m1" /\ chunk[j + 1] = "m2"
    <3>1. CASE i = 1
      <4>1. t[2] = chunk[1]
        BY <1>2, <1>3
      <4> QED BY <1>3, <2>1, <3>1, <4>1
    <3>2. CASE i > 1
      <4>1. i - 1 \in 1 .. Len(chunk) - 1 /\ i - 1 \in 1 .. Len(chunk) /\ i \in 1 .. Len(chunk) /\ (i - 1) + 1 = i
        BY <1>2, <2>1, <3>2
      <4>2. t[i] = chunk[i - 1] /\ t[i + 1] = chunk[i]
        BY <1>3, <4>1, Zenon
      <4> QED BY <2>1, <4>1, <4>2, Zenon
    <3> QED BY <1>2, <2>1, <3>1, <3>2
  <2>2. ASSUME NEW i \in 1 .. Len(chunk) - 1, chunk[i] = "m1" /\ chunk[i + 1] = "m2"
        PROVE  \E j \in 1 .. Len(t) - 1 : t[j] = "m1" /\ t[j + 1] = "m2"
    <3>1. i + 1 \in 1 .. Len(t) - 1 /\ i \in 1 .. Len(chunk) /\ i + 1 \in 1 .. Len(chunk)
      BY <1>2, <2>2
    <3>2. t[i + 1] = chunk[i] /\ t[(i + 1) + 1] = chunk[i + 1]
      BY <1>3, <3>1, Zenon
    <3> QED BY <2>2, <3>1, <3>2, Zenon
  <2>3. ASSUME cur = "m1" /\ chunk[1] = "m2" PROVE \E j \in 1 .. Len(t) - 1 : t[j] = "m1" /\ t[j + 1] = "m2"
    <3>1. 1 \in 1 .. Len(t) - 1 /\ t[1 + 1] = chunk[1]
      BY <1>2, <1>3
    <3> QED BY <1>3, <2>3, <3>1, Zenon
  <2> QED BY <2>1, <2>2, <2>3, Zenon
<1>8. o \in [found : BOOLEAN, cur : Token]
  BY <1>4, <1>6, Zenon
<1>9. o.found <=> \/ found \/ (cur = "m1" /\ chunk[1] = "m2")
                  \/ \E i \in 1 .. Len(chunk) - 1 : chunk[i] = "m1" /\ chunk[i + 1] = "m2"
  BY <1>4, <1>7, ZenonT(60)
<1> QED BY <1>5, <1>6, <1>8, <1>9, Zenon

\* A copy keeps the capture within the budget, and the detector in step with stderr.
LEMMA CopyKeeps ==
  ASSUME SuperviseIInv, NEW x \in Streams, Copy(x), UNCHANGED env
  PROVE  /\ pipes' \in [Streams -> [buf : Seq(Token), open : BOOLEAN]] /\ out' \in OutType
         /\ TruncationIsMarked' /\ OutputInOrder'
<1>1. PICK n \in 1 .. Len(pipes[x].buf) :
        /\ pipes' = [pipes EXCEPT ![x].buf = SubSeq(@, n + 1, Len(@))]
        /\ out' = [out EXCEPT ![x] = Write(x, n),
                     !.oom = IF x = "stderr" /\ IsMission THEN scan(@, SubSeq(pipes[x].buf, 1, n)) ELSE @]
  BY Zenon DEF Copy
<1>2. PICK w : w = Write(x, n)
  BY Zenon
<1>3. n \in Nat /\ pipes[x].buf \in Seq(Token) /\ Len(pipes[x].buf) \in Nat
  BY CopyFacts, Zenon
<1>4. /\ w \in Capture /\ w.kept <= w.taken /\ (w.kept < w.taken <=> w.trunc)
      /\ w.kept - out[x].kept <= MaxOutputBuffer - Total
  BY <1>2, <1>3, WriteKeeps, Zenon
<1>5. pipes \in [Streams -> [buf : Seq(Token), open : BOOLEAN]] /\ out \in OutType
  BY Zenon DEF SuperviseIInv, SuperviseInv, TypeOK
<1>6. pipes' \in [Streams -> [buf : Seq(Token), open : BOOLEAN]]
  <2>1. PICK rest : rest = SubSeq(pipes[x].buf, n + 1, Len(pipes[x].buf))
    BY Zenon
  <2>2. rest \in Seq(Token)
    BY <2>1, CopyFacts, Zenon
  <2>3. pipes' = [pipes EXCEPT ![x].buf = rest]
    BY <1>1, <2>1, Zenon
  <2> QED BY <1>5, <2>2, <2>3, ZenonT(60)
<1>7. PICK o : o = IF x = "stderr" /\ IsMission THEN scan(out.oom, SubSeq(pipes[x].buf, 1, n)) ELSE out.oom
  BY Zenon
<1>8. out.oom \in [found : BOOLEAN, cur : Token] /\ out.oom = [found |-> out.oom.found, cur |-> out.oom.cur]
  BY <1>5, Zenon DEF OutType
<1>9. o \in [found : BOOLEAN, cur : Token]
  <2>1. PICK chunk : chunk = SubSeq(pipes[x].buf, 1, n)
    BY Zenon
  <2>2. chunk \in Seq(Token) /\ Len(chunk) > 0
    BY <2>1, CopyFacts
  <2>3. scan(out.oom, chunk) \in [found : BOOLEAN, cur : Token]
    BY <1>8, <2>2, ScanFacts, Zenon
  <2> QED BY <1>7, <1>8, <2>1, <2>3, Zenon
<1>10. out' = [out EXCEPT ![x] = w, !.oom = o]
  BY <1>1, <1>2, <1>7, Zenon DEF Streams
<1>11. out' \in OutType /\ out'[x] = w /\ out'.oom = o /\ \A y \in Streams \ {x} : out'[y] = out[y]
  <2>1. CASE x = "stdout"
    BY <1>4, <1>5, <1>9, <1>10, <2>1, Zenon DEF OutType, Streams
  <2>2. CASE x = "stderr"
    BY <1>4, <1>5, <1>9, <1>10, <2>2, Zenon DEF OutType, Streams
  <2> QED BY <2>1, <2>2, Zenon DEF Streams
<1>12. \A y \in Streams : out'[y].kept <= out'[y].taken /\ (out'[y].kept < out'[y].taken <=> out'[y].trunc)
  BY <1>4, <1>11, Zenon DEF SuperviseIInv, SuperviseInv, TruncationIsMarked, OutputInOrder
<1>13. TruncationIsMarked'
  <2>1. out.stdout.kept \in Nat /\ out.stderr.kept \in Nat /\ w.kept \in Nat
    BY <1>4, <1>5, Zenon DEF OutType, Capture
  <2>2. Total' <= MaxOutputBuffer
    <3>0. w.kept - out[x].kept <= MaxOutputBuffer - (out.stdout.kept + out.stderr.kept) /\ MaxOutputBuffer \in Nat
      BY <1>4, Limits, Zenon DEF Total
    <3>1. CASE x = "stdout"
      <4>1. out'.stdout.kept = w.kept /\ out'.stderr.kept = out.stderr.kept
        BY <1>11, <3>1, Zenon DEF Streams
      <4>2. w.kept - out.stdout.kept <= MaxOutputBuffer - (out.stdout.kept + out.stderr.kept)
        BY <3>0, <3>1, Zenon
      <4>3. w.kept + out.stderr.kept <= MaxOutputBuffer
        BY <2>1, <3>0, <4>2
      <4> QED BY <4>1, <4>3, Zenon DEF Total
    <3>2. CASE x = "stderr"
      <4>1. out'.stderr.kept = w.kept /\ out'.stdout.kept = out.stdout.kept
        BY <1>11, <3>2, Zenon DEF Streams
      <4>2. w.kept - out.stderr.kept <= MaxOutputBuffer - (out.stdout.kept + out.stderr.kept)
        BY <3>0, <3>2, Zenon
      <4>3. out.stdout.kept + w.kept <= MaxOutputBuffer
        BY <2>1, <3>0, <4>2
      <4> QED BY <4>1, <4>3, Zenon DEF Total
    <3> QED BY <3>1, <3>2, Zenon DEF Streams
  <2> QED BY <1>12, <2>2, Zenon DEF TruncationIsMarked
<1>14. ASSUME IsMission, ~May("disk"), ~May("slow")
       PROVE  LET err == proc.wrote.stderr
                  buf == pipes'["stderr"].buf
              IN /\ Scanned' >= 0
                 /\ \A i \in 1 .. Len(buf) : buf[i] = err[Scanned' + i]
                 /\ out'.oom.cur = IF Scanned' = 0 THEN "nl" ELSE err[Scanned']
                 /\ out'.oom.found <=> \E i \in 1 .. Scanned' - 1 : err[i] = "m1" /\ err[i + 1] = "m2"
  <2>1. PICK err, buf, S : err = proc.wrote.stderr /\ buf = pipes["stderr"].buf /\ S = Scanned
    BY Zenon
  <2>2. /\ S >= 0 /\ \A i \in 1 .. Len(buf) : buf[i] = err[S + i]
        /\ out.oom.cur = IF S = 0 THEN "nl" ELSE err[S]
        /\ out.oom.found <=> \E i \in 1 .. S - 1 : err[i] = "m1" /\ err[i + 1] = "m2"
    BY <1>14, <2>1, Zenon DEF SuperviseIInv, OutputInOrder
  <2>3. err \in Seq(Token) /\ buf \in Seq(Token) /\ Len(err) \in Nat /\ Len(buf) \in Nat /\ S = Len(err) - Len(buf)
    BY <1>5, <2>1, ProcFields, SMTT(40) DEF SuperviseIInv, SuperviseInv, Scanned, Streams
  <2>4. proc' = proc
    BY ZenonT(60) DEF Copy
  <2>5. CASE x = "stdout"
    <3>1. pipes'["stderr"] = pipes["stderr"] /\ out'.oom = out.oom
      BY <1>1, <1>5, <1>7, <1>11, <2>5, Zenon DEF Streams
    <3>2. Scanned' = S
      BY <2>1, <2>4, <3>1, Zenon DEF Scanned
    <3> QED BY <2>1, <2>2, <2>4, <3>1, <3>2
  <2>6. CASE x = "stderr"
    <3>1. PICK rest, chunk : rest = SubSeq(buf, n + 1, Len(buf)) /\ chunk = SubSeq(buf, 1, n)
      BY ZenonT(60)
    <3>2. /\ n \in 1 .. Len(buf) /\ Len(rest) = Len(buf) - n /\ \A i \in 1 .. Len(buf) - n : rest[i] = buf[n + i]
          /\ chunk \in Seq(Token) /\ Len(chunk) = n /\ \A i \in 1 .. n : chunk[i] = buf[i]
      BY <2>1, <2>6, <3>1, CopyFacts, Zenon
    <3>3. pipes'["stderr"].buf = rest
      BY <1>1, <1>5, <2>1, <2>6, <3>1, Zenon
    <3>0. n \in Nat /\ n >= 1 /\ n <= Len(buf) /\ S \in Nat
      BY <2>2, <2>3, <3>2
    <3>4. Scanned' = S + n
      <4>1. Scanned' = Len(err) - Len(rest)
        BY <2>1, <2>4, <3>3, Zenon DEF Scanned
      <4>2. Len(rest) = Len(buf) - n
        BY <3>2, Zenon
      <4> QED BY <2>3, <3>0, <4>1, <4>2
    <3>5. o = scan(out.oom, chunk)
      BY <1>7, <1>14, <2>1, <2>6, <3>1, Zenon
    <3>6. \A i \in 1 .. n : chunk[i] = err[S + i]
      <4>1. 1 .. n \subseteq 1 .. Len(buf)
        BY <2>3, <3>0
      <4> QED BY <2>2, <3>2, <4>1, Zenon
    <3>7. o.cur = err[S + n]
      <4>1. Len(chunk) > 0 /\ n \in 1 .. n
        BY <3>2
      <4>2. o.cur = chunk[n]
        BY <1>8, <3>2, <3>5, <4>1, ScanFacts
      <4> QED BY <3>6, <4>1, <4>2, Zenon
    <3>8. o.found <=> \E i \in 1 .. (S + n) - 1 : err[i] = "m1" /\ err[i + 1] = "m2"
      <4>0. Len(chunk) > 0 /\ 1 \in 1 .. n
        BY <3>2
      <4>1. o.found <=> \/ out.oom.found \/ (out.oom.cur = "m1" /\ chunk[1] = "m2")
                        \/ \E i \in 1 .. n - 1 : chunk[i] = "m1" /\ chunk[i + 1] = "m2"
        BY <1>8, <3>2, <3>5, <4>0, ScanFacts, Zenon
      <4>2. ASSUME NEW i \in 1 .. S - 1, err[i] = "m1" /\ err[i + 1] = "m2"
            PROVE  \E j \in 1 .. (S + n) - 1 : err[j] = "m1" /\ err[j + 1] = "m2"
        <5>1. i \in 1 .. (S + n) - 1
          BY <3>0
        <5> QED BY <4>2, <5>1, Zenon
      <4>3. ASSUME out.oom.cur = "m1" /\ chunk[1] = "m2"
            PROVE  \E j \in 1 .. (S + n) - 1 : err[j] = "m1" /\ err[j + 1] = "m2"
        <5>1. S # 0 /\ err[S] = "m1" /\ err[S + 1] = "m2"
          BY <2>2, <3>6, <4>0, <4>3, Zenon
        <5>2. S \in 1 .. (S + n) - 1
          BY <3>0, <5>1
        <5> QED BY <5>1, <5>2, Zenon
      <4>4. ASSUME NEW i \in 1 .. n - 1, chunk[i] = "m1" /\ chunk[i + 1] = "m2"
            PROVE  \E j \in 1 .. (S + n) - 1 : err[j] = "m1" /\ err[j + 1] = "m2"
        <5>1. i \in 1 .. n /\ i + 1 \in 1 .. n /\ S + i \in 1 .. (S + n) - 1 /\ S + (i + 1) = (S + i) + 1
          BY <3>0
        <5>2. err[S + i] = "m1" /\ err[(S + i) + 1] = "m2"
          BY <3>6, <4>4, <5>1, Zenon
        <5> QED BY <5>1, <5>2, Zenon
      <4>5. ASSUME NEW i \in 1 .. (S + n) - 1, err[i] = "m1" /\ err[i + 1] = "m2" PROVE o.found
        <5>1. CASE i <= S - 1
          <6>1. i \in 1 .. S - 1
            BY <3>0, <5>1
          <6> QED BY <2>2, <4>1, <4>5, <6>1, Zenon
        <5>2. CASE i = S
          BY <2>2, <3>0, <3>6, <4>0, <4>1, <4>5, <5>2
        <5>3. CASE i > S
          <6>1. /\ i - S \in 1 .. n - 1 /\ i - S \in 1 .. n /\ (i - S) + 1 \in 1 .. n
                /\ S + (i - S) = i /\ S + ((i - S) + 1) = i + 1
            BY <3>0, <5>3
          <6>2. chunk[i - S] = "m1" /\ chunk[(i - S) + 1] = "m2"
            BY <3>6, <4>5, <6>1, Zenon
          <6> QED BY <4>1, <6>1, <6>2, Zenon
        <5> QED BY <3>0, <5>1, <5>2, <5>3
      <4> QED BY <2>2, <4>1, <4>2, <4>3, <4>4, <4>5, Zenon
    <3>9. \A i \in 1 .. Len(rest) : rest[i] = err[(S + n) + i]
      <4>1. SUFFICES ASSUME NEW i \in 1 .. Len(rest) PROVE rest[i] = err[(S + n) + i]
        BY Zenon
      <4>2. i \in 1 .. Len(buf) - n /\ n + i \in 1 .. Len(buf) /\ S + (n + i) = (S + n) + i
        BY <2>3, <3>2, SMTT(40)
      <4> QED BY <2>2, <3>2, <4>2, Zenon
    <3>10. S + n >= 0 /\ S + n # 0
      BY <3>0
    <3> QED BY <1>11, <2>1, <3>3, <3>4, <3>7, <3>8, <3>9, <3>10, Zenon
  <2> QED BY <2>5, <2>6, Zenon DEF Streams
<1>15. OutputInOrder'
  <2>1. IsMission' = IsMission /\ May("disk")' = May("disk") /\ May("slow")' = May("slow") /\ proc' = proc
    BY Zenon DEF IsMission, May, Copy
  <2> QED BY <1>12, <1>14, <2>1, Zenon DEF OutputInOrder
<1> QED BY <1>6, <1>11, <1>13, <1>15, Zenon


\* What one operation of the process does: it writes a line to fd3, or to a stream, or dies.
LEMMA OperateFacts ==
  ASSUME TypeOK, Operate
  PROVE  /\ proc.st = "run"
         /\ \/ \E l \in Fd3Line : /\ IsMission /\ fd3' = Append(fd3, l) /\ pipes' = pipes
                                  /\ proc' = [proc EXCEPT !.at = @ + 1, !.wrote.fd3 = Append(@, l)]
            \/ \E x \in Streams, l \in Token : /\ pipes[x].open /\ fd3' = fd3
                                               /\ pipes' = [pipes EXCEPT ![x].buf = Append(@, l)]
                                               /\ proc' = [proc EXCEPT !.at = @ + 1, !.wrote[x] = Append(@, l)]
            \/ Dies(-1, "PIPE") /\ UNCHANGED <<fd3, pipes>>
<1>1. PICK op : op = env.ops[proc.at + 1]
  BY Zenon
<1>2. proc.at < Len(env.ops) /\ proc.st = "run"
  BY ZenonT(60) DEF Operate, Alive
<1>3. proc.at + 1 \in 1 .. Len(env.ops)
  BY <1>2, ProcFields, EnvFields, SMTT(40)
<1>4. op \in [to : {"fd3"}, line : Fd3Line] \cup [to : Streams, line : Token]
  BY <1>1, <1>3, EnvFields
<1>5. CASE op.to = "fd3"
  <2>1. op.line \in Fd3Line
    BY <1>4, <1>5, Zenon DEF Streams
  <2>2. IsMission
    <3>1. proc.at + 1 \in DOMAIN env.ops
      BY <1>3, EnvFields
    <3> QED BY <1>1, <1>5, <3>1, EnvFields, Zenon
  <2>3. fd3' = Append(fd3, op.line) /\ pipes' = pipes /\ proc' = [proc EXCEPT !.at = @ + 1, !.wrote.fd3 = Append(@, op.line)]
    BY <1>1, <1>5, Zenon DEF Operate
  <2> QED BY <1>2, <2>1, <2>2, <2>3, ZenonT(60)
<1>6. CASE op.to \in Streams /\ pipes[op.to].open
  <2>1. op.line \in Token /\ op.to # "fd3"
    BY <1>4, <1>6, Zenon DEF Streams
  <2>2. /\ pipes' = [pipes EXCEPT ![op.to].buf = Append(@, op.line)] /\ fd3' = fd3
        /\ proc' = [proc EXCEPT !.at = @ + 1, !.wrote[op.to] = Append(@, op.line)]
    BY <1>1, <1>6, <2>1, ZenonT(60) DEF Operate
  <2> QED BY <1>2, <1>6, <2>1, <2>2, ZenonT(60)
<1>7. CASE op.to \in Streams /\ ~pipes[op.to].open
  <2>1. Dies(-1, "PIPE") /\ UNCHANGED <<fd3, pipes>>
    BY <1>1, <1>7, Zenon DEF Operate, Streams
  <2> QED BY <1>2, <2>1, ZenonT(60)
<1> QED BY <1>4, <1>5, <1>6, <1>7, ZenonT(60)

\* Only the process writes.
LEMMA WroteSame ==
  ASSUME TypeOK, Next, ~Operate
  PROVE  proc'.wrote = proc.wrote /\ proc'.at = proc.at
<1>1. proc \in ProcType
  BY Zenon DEF TypeOK
<1>2. ASSUME NEW sig, killProcessGroup(sig) PROVE proc'.wrote = proc.wrote /\ proc'.at = proc.at
  BY <1>1, <1>2, Zenon DEF killProcessGroup, ProcType
<1>3. ASSUME NEW c, NEW sig, Dies(c, sig) PROVE proc'.wrote = proc.wrote /\ proc'.at = proc.at
  BY <1>1, <1>3, Zenon DEF Dies, ProcType
<1>4. Spawn \/ Reap => proc'.wrote = proc.wrote /\ proc'.at = proc.at
  BY <1>1, Zenon DEF Spawn, Reap, ProcType
<1>5. OpenEventsFails \/ (\E w \in Watchers : SendSignal(w)) => proc'.wrote = proc.wrote /\ proc'.at = proc.at
  BY <1>2, Zenon DEF OpenEventsFails, SendSignal
<1>6. Quit => proc'.wrote = proc.wrote /\ proc'.at = proc.at
  BY <1>3, Zenon DEF Quit
<1>7. TakeSignal => proc'.wrote = proc.wrote /\ proc'.at = proc.at
  BY <1>3, Zenon DEF TakeSignal
<1>8. Linger \/ Reading => proc'.wrote = proc.wrote /\ proc'.at = proc.at
  BY Zenon DEF Linger, Reading, ReaderChecks, ReadFd3, ReadEOF
<1> QED BY <1>4, <1>5, <1>6, <1>7, <1>8, WhoProc, Zenon

\* The capture and the detector, whoever moves.
LEMMA OutputKept ==
  ASSUME SuperviseIInv, Next
  PROVE  /\ pipes' \in [Streams -> [buf : Seq(Token), open : BOOLEAN]] /\ out' \in OutType
         /\ TruncationIsMarked' /\ OutputInOrder'
<1>0. TypeOK /\ UNCHANGED env /\ IsMission' = IsMission /\ May("disk")' = May("disk") /\ May("slow")' = May("slow")
  BY SameEnv, Zenon DEF SuperviseIInv, SuperviseInv, IsMission, May
<1>1. pipes \in [Streams -> [buf : Seq(Token), open : BOOLEAN]] /\ out \in OutType
  BY <1>0, Zenon DEF TypeOK
<1>2. ASSUME out' = out PROVE out' \in OutType /\ TruncationIsMarked' /\ \A x \in Streams : out'[x].kept <= out'[x].taken
  BY <1>1, <1>2, Zenon DEF SuperviseIInv, SuperviseInv, TruncationIsMarked, OutputInOrder, Total
<1>3. ASSUME out' = out, proc'.wrote.stderr = proc.wrote.stderr, pipes'["stderr"].buf = pipes["stderr"].buf
      PROVE  OutputInOrder'
  <2>1. Scanned' = Scanned
    BY <1>3, Zenon DEF Scanned
  <2> QED BY <1>0, <1>2, <1>3, <2>1, Zenon DEF SuperviseIInv, OutputInOrder
<1>4. CASE Operate
  <2>0. out' = out
    BY <1>4, ZenonT(60) DEF Operate
  <2>1. proc \in ProcType
    BY <1>0, Zenon DEF TypeOK
  <2>2. CASE \E l \in Fd3Line : pipes' = pipes /\ proc' = [proc EXCEPT !.at = @ + 1, !.wrote.fd3 = Append(@, l)]
    <3>1. proc'.wrote.stderr = proc.wrote.stderr
      BY <2>1, <2>2 DEF ProcType
    <3> QED BY <1>1, <1>2, <1>3, <2>0, <2>2, <3>1, Zenon
  <2>3. ASSUME NEW x \in Streams, NEW l \in Token, pipes' = [pipes EXCEPT ![x].buf = Append(@, l)],
               proc' = [proc EXCEPT !.at = @ + 1, !.wrote[x] = Append(@, l)]
        PROVE  pipes' \in [Streams -> [buf : Seq(Token), open : BOOLEAN]] /\ OutputInOrder'
    <3>1. PICK b : b = Append(pipes[x].buf, l)
      BY ZenonT(60)
    <3>2. b \in Seq(Token) /\ pipes' = [pipes EXCEPT ![x].buf = b] /\ pipes[x].buf \in Seq(Token)
      BY <1>1, <2>3, <3>1
    <3>3. pipes' \in [Streams -> [buf : Seq(Token), open : BOOLEAN]]
      BY <1>1, <3>2, Zenon
    <3>4. CASE x = "stdout"
      <4>1. proc'.wrote.stderr = proc.wrote.stderr
        BY <2>1, <2>3, <3>4, Zenon DEF ProcType
      <4>2. pipes'["stderr"].buf = pipes["stderr"].buf
        BY <1>1, <3>2, <3>4, Zenon DEF Streams
      <4> QED BY <1>3, <2>0, <3>3, <4>1, <4>2, Zenon
    <3>5. CASE x = "stderr"
      <4>1. PICK err, buf, S : err = proc.wrote.stderr /\ buf = pipes["stderr"].buf /\ S = Scanned
        BY Zenon
      <4>2. err \in Seq(Token) /\ buf \in Seq(Token) /\ Len(err) \in Nat /\ Len(buf) \in Nat /\ S = Len(err) - Len(buf)
        BY <1>0, <1>1, <4>1, ProcFields DEF Scanned, Streams
      <4>3. proc'.wrote.stderr = Append(err, l) /\ pipes'["stderr"].buf = Append(buf, l)
        BY <1>1, <2>1, <2>3, <3>5, <4>1, Zenon DEF ProcType
      <4>4. Scanned' = S
        BY <4>2, <4>3 DEF Scanned
      <4>5. ASSUME IsMission, ~May("disk"), ~May("slow")
            PROVE  /\ S >= 0 /\ \A i \in 1 .. Len(Append(buf, l)) : Append(buf, l)[i] = Append(err, l)[S + i]
                   /\ out.oom.cur = IF S = 0 THEN "nl" ELSE Append(err, l)[S]
                   /\ out.oom.found <=> \E i \in 1 .. S - 1 : Append(err, l)[i] = "m1" /\ Append(err, l)[i + 1] = "m2"
        <5>1. /\ S >= 0 /\ \A i \in 1 .. Len(buf) : buf[i] = err[S + i]
              /\ out.oom.cur = IF S = 0 THEN "nl" ELSE err[S]
              /\ out.oom.found <=> \E i \in 1 .. S - 1 : err[i] = "m1" /\ err[i + 1] = "m2"
          BY <4>1, <4>5, Zenon DEF SuperviseIInv, OutputInOrder
        <5>2. S \in Nat /\ S <= Len(err) /\ Len(Append(buf, l)) = Len(buf) + 1
          BY <4>2, <5>1
        <5>3. /\ \A i \in 1 .. Len(err) : Append(err, l)[i] = err[i]
              /\ \A i \in 1 .. Len(buf) : Append(buf, l)[i] = buf[i]
              /\ Append(buf, l)[Len(buf) + 1] = l /\ Append(err, l)[Len(err) + 1] = l
          BY <4>2, <2>3
        <5>4. \A i \in 1 .. Len(Append(buf, l)) : Append(buf, l)[i] = Append(err, l)[S + i]
          <6>1. SUFFICES ASSUME NEW i \in 1 .. Len(buf) + 1 PROVE Append(buf, l)[i] = Append(err, l)[S + i]
            BY <5>2, Zenon
          <6>2. CASE i \in 1 .. Len(buf)
            <7>1. S + i \in 1 .. Len(err)
              BY <4>2, <5>2, <6>2
            <7> QED BY <5>1, <5>3, <6>2, <7>1, Zenon
          <6>3. CASE i = Len(buf) + 1
            <7>1. S + i = Len(err) + 1
              BY <4>2, <6>3
            <7> QED BY <5>3, <6>3, <7>1, Zenon
          <6>4. i \in 1 .. Len(buf) \/ i = Len(buf) + 1
            BY <4>2
          <6> QED BY <6>2, <6>3, <6>4, ZenonT(60)
        <5>5. \A i \in 1 .. S - 1 : i \in 1 .. Len(err) /\ i + 1 \in 1 .. Len(err)
          BY <4>2, <5>2
        <5>6. S # 0 => S \in 1 .. Len(err)
          BY <4>2, <5>2
        <5> QED BY <5>1, <5>3, <5>4, <5>5, <5>6, ZenonT(60)
      <4>6. OutputInOrder'
        BY <1>0, <1>2, <2>0, <4>3, <4>4, <4>5, Zenon DEF OutputInOrder
      <4> QED BY <3>3, <4>6, Zenon
    <3> QED BY <3>4, <3>5, Zenon DEF Streams
  <2>4. CASE Dies(-1, "PIPE") /\ UNCHANGED <<fd3, pipes>>
    <3>1. proc'.wrote = proc.wrote
      BY <2>1, <2>4, Zenon DEF Dies, ProcType
    <3> QED BY <1>1, <1>2, <1>3, <2>0, <2>4, <3>1, Zenon
  <2> QED BY <1>0, <1>2, <1>4, <2>0, <2>2, <2>3, <2>4, OperateFacts, ZenonT(60)
<1>5. CASE ~Operate
  <2>1. proc'.wrote = proc.wrote
    BY <1>0, <1>5, WroteSame, Zenon
  <2>2. CASE Copying
    BY <1>0, <2>2, CopyKeeps, Zenon DEF Copying
  <2>3. ASSUME NEW x \in Streams, CopyFails(x)
        PROVE  pipes' \in [Streams -> [buf : Seq(Token), open : BOOLEAN]] /\ out' = out /\ OutputInOrder'
    <3>1. pipes' = [pipes EXCEPT ![x] = [buf |-> <<>>, open |-> FALSE]] /\ out' = out /\ May("disk")
      BY <2>3, Zenon DEF CopyFails
    <3> QED BY <1>0, <1>1, <1>2, <3>1 DEF OutputInOrder
  <2>4. CASE WaitDelay
    <3>1. pipes' = [x \in Streams |-> [buf |-> <<>>, open |-> FALSE]] /\ out' = out
      BY <2>4, Zenon DEF WaitDelay
    <3>2. pipes' \in [Streams -> [buf : Seq(Token), open : BOOLEAN]] /\ pipes'["stderr"].buf = <<>>
      BY <3>1 DEF Streams
    <3>3. CASE May("slow")
      BY <1>0, <1>2, <3>1, <3>2, <3>3, Zenon DEF OutputInOrder
    <3>4. CASE ~May("slow")
      <4>1. pipes["stderr"].buf = <<>>
        BY <2>4, <3>4, Zenon DEF WaitDelay, Streams
      <4> QED BY <1>2, <1>3, <2>1, <3>1, <3>2, <4>1, Zenon
    <3> QED BY <1>2, <3>1, <3>2, <3>3, <3>4, Zenon
  <2>5. CASE UNCHANGED <<pipes, out>>
    BY <1>1, <1>2, <1>3, <2>1, <2>5, Zenon
  <2>6. CASE \E x \in Streams : CopyFails(x)
    BY <1>2, <2>3, <2>6, Zenon
  <2> QED BY <1>5, <2>2, <2>4, <2>5, <2>6, WhoOut, Zenon
<1> QED BY <1>4, <1>5, Zenon


-----------------------------------------------------------------------------
(* The kill.                                                               *)

LEMMA KillFields ==
  ASSUME TypeOK
  PROVE  /\ kill \in KillType /\ kill.reason \in KillReasons \cup {None, "timeout", "dugdale_shutdown"}
         /\ kill.chan \in KillReasons \cup {None} /\ kill.cancelled \in BOOLEAN /\ kill.sent \subseteq {"TERM", "KILL"}
         /\ watch \in [Watchers -> {"off", "wait", "enter", "check", "term", "grace", "recheck", "kill", "done"}]
BY Zenon DEF TypeOK, KillType

\* How a step changes the kill, field by field.
LEMMA KillMoves ==
  ASSUME TypeOK, Next
  PROVE  /\ kill' \in KillType
         /\ \/ kill' = kill
            \/ \E r \in env.kills : SignalKill /\ kill.chan = None /\ kill' = [kill EXCEPT !.chan = r]
            \/ Cancel /\ kill' = [kill EXCEPT !.cancelled = TRUE]
            \/ \E sig \in {"TERM", "KILL"} : kill' = [kill EXCEPT !.sent = @ \cup {sig}]
            \/ \E w \in Watchers : /\ watch[w] = "enter" /\ kill.reason = None /\ ~WaitReturned
                                   /\ kill' = [kill EXCEPT !.reason = Reason(w)] /\ watch' = [watch EXCEPT ![w] = "check"]
<1>1. kill \in KillType
  BY Zenon DEF TypeOK
<1>2. CASE SignalKill
  <2>1. PICK r \in env.kills : kill' = [kill EXCEPT !.chan = r] /\ kill.chan = None
    BY <1>2, Zenon DEF SignalKill
  <2>2. r \in KillReasons
    BY <2>1, EnvFields, Zenon
  <2> QED BY <1>1, <1>2, <2>1, <2>2, Zenon DEF KillType
<1>3. CASE Cancel
  BY <1>1, <1>3, Zenon DEF Cancel, KillType
<1>4. ASSUME NEW sig \in {"TERM", "KILL"}, killProcessGroup(sig) PROVE kill' \in KillType /\ kill' = [kill EXCEPT !.sent = @ \cup {sig}]
  BY <1>1, <1>4, Zenon DEF killProcessGroup, KillType
<1>5. CASE OpenEventsFails
  BY <1>4, <1>5, Zenon DEF OpenEventsFails
<1>6. ASSUME NEW w \in Watchers, SendSignal(w)
      PROVE  kill' \in KillType /\ \E sig \in {"TERM", "KILL"} : kill' = [kill EXCEPT !.sent = @ \cup {sig}]
  BY <1>4, <1>6, Zenon DEF SendSignal
<1>7. ASSUME NEW w \in Watchers, killProcess(w)
      PROVE  /\ kill' \in KillType
             /\ kill' # kill => /\ watch[w] = "enter" /\ kill.reason = None /\ ~WaitReturned
                                /\ kill' = [kill EXCEPT !.reason = Reason(w)] /\ watch' = [watch EXCEPT ![w] = "check"]
  <2>1. Reason(w) \in KillReasons \cup {None, "timeout", "dugdale_shutdown"}
    BY <1>1, Zenon DEF Reason, KillType, Watchers
  <2> QED BY <1>1, <1>7, <2>1, Zenon DEF killProcess, KillType, Goto
<1>8. ASSUME NEW w \in Watchers, Watch(w) \/ CheckExited(w) \/ Grace(w) PROVE kill' = kill
  BY <1>8, Zenon DEF Watch, CheckExited, Grace
<1>9. OpenEvents => kill' = kill
  BY Zenon DEF OpenEvents
<1>10. CASE \E w \in Watchers : Watching(w)
  BY <1>1, <1>6, <1>7, <1>8, <1>10, Zenon DEF Watching
<1> QED BY <1>1, <1>2, <1>3, <1>5, <1>9, <1>10, WhoKill, Zenon

\* A reason, once given, and the exit of the process, forbid any other; a signal of the
\* API and a cancelled context stay.
LEMMA KillOnce ==
  ASSUME TypeOK, Next
  PROVE  /\ WaitReturned \/ kill.reason # None => kill'.reason = kill.reason
         /\ kill.chan # None => kill'.chan = kill.chan
         /\ kill.cancelled => kill'.cancelled
         /\ kill.sent # {} => kill'.sent # {}
<1>1. kill \in KillType
  BY Zenon DEF TypeOK
<1> QED BY <1>1, KillMoves DEF KillType

\* The watchers.
LEMMA WatchTyped ==
  ASSUME TypeOK, Next
  PROVE  watch' \in [Watchers -> {"off", "wait", "enter", "check", "term", "grace", "recheck", "kill", "done"}]
<1>1. watch \in [Watchers -> {"off", "wait", "enter", "check", "term", "grace", "recheck", "kill", "done"}]
  BY Zenon DEF TypeOK
<1>2. CASE OpenEvents
  BY <1>2, Zenon DEF OpenEvents
<1>3. ASSUME NEW w \in Watchers, Watching(w)
      PROVE  \E pc \in {"enter", "done", "check", "term", "kill", "grace", "recheck"} : watch' = [watch EXCEPT ![w] = pc]
  <2>1. ASSUME NEW pc, Goto(w, pc) PROVE watch' = [watch EXCEPT ![w] = pc]
    BY <2>1, Zenon DEF Goto
  <2>2. CASE Watch(w)
    BY <2>1, <2>2, Zenon DEF Watch
  <2>3. CASE killProcess(w)
    BY <2>1, <2>3, Zenon DEF killProcess
  <2>4. CASE CheckExited(w)
    BY <2>1, <2>4, Zenon DEF CheckExited
  <2>5. CASE SendSignal(w)
    BY <2>1, <2>5, Zenon DEF SendSignal
  <2>6. CASE Grace(w)
    BY <2>1, <2>6, Zenon DEF Grace
  <2> QED BY <1>3, <2>2, <2>3, <2>4, <2>5, <2>6, Zenon DEF Watching
<1>4. CASE \E w \in Watchers : Watching(w)
  BY <1>1, <1>3, <1>4, Zenon
<1>5. OpenEventsFails \/ SignalKill \/ Cancel \/ UNCHANGED <<watch, kill>> => watch' = watch
  BY Zenon DEF OpenEventsFails, SignalKill, Cancel
<1> QED BY <1>1, <1>2, <1>4, <1>5, WhoKill, Zenon

\* What a step makes of one watcher.
LEMMA WatchMoves ==
  ASSUME TypeOK, Next, NEW w \in Watchers
  PROVE  \/ watch'[w] = watch[w]
         \/ watch'[w] = "done"
         \/ OpenEvents /\ watch'[w] = "wait" /\ (w = "timeout" => env.timeout)
         \/ watch[w] = "wait" /\ watch'[w] = "enter" /\ Ready(w) /\ kill' = kill
         \/ watch[w] = "enter" /\ watch'[w] = "check" /\ kill' = [kill EXCEPT !.reason = Reason(w)]
         \/ /\ watch[w] \in {"check", "recheck", "term", "grace"} /\ kill'.reason = kill.reason
            /\ watch'[w] \in {"term", "kill", "grace", "recheck"}
<1>1. watch \in [Watchers -> {"off", "wait", "enter", "check", "term", "grace", "recheck", "kill", "done"}] /\ kill \in KillType
  BY Zenon DEF TypeOK
<1>2. CASE OpenEvents
  BY <1>2, Zenon DEF OpenEvents
<1>3. ASSUME NEW v \in Watchers, Watching(v), v # w PROVE watch'[w] = watch[w]
  BY <1>1, <1>3, Zenon DEF Watching, Watch, killProcess, CheckExited, SendSignal, Grace, Goto
<1>4. CASE Watch(w)
  BY <1>1, <1>4, Zenon DEF Watch, Goto
<1>5. CASE killProcess(w)
  BY <1>1, <1>5, Zenon DEF killProcess, Goto
<1>6. CASE CheckExited(w)
  BY <1>1, <1>6, Zenon DEF CheckExited, Goto
<1>7. CASE SendSignal(w)
  <2>1. kill'.reason = kill.reason
    BY <1>1, <1>7, Zenon DEF SendSignal, killProcessGroup, KillType
  <2> QED BY <1>1, <1>7, <2>1, Zenon DEF SendSignal, Goto
<1>8. CASE Grace(w)
  BY <1>1, <1>8, Zenon DEF Grace, Goto
<1>9. OpenEventsFails \/ SignalKill \/ Cancel \/ UNCHANGED <<watch, kill>> => watch' = watch
  BY Zenon DEF OpenEventsFails, SignalKill, Cancel
<1>10. CASE \E v \in Watchers : Watching(v)
  BY <1>3, <1>4, <1>5, <1>6, <1>7, <1>8, <1>10, Zenon DEF Watching
<1> QED BY <1>2, <1>9, <1>10, WhoKill, Zenon


-----------------------------------------------------------------------------
(* What does not move any more.                                            *)

\* A process that is not running, or that has been reaped, stays as it is.
LEMMA DeadStays ==
  ASSUME TypeOK, Next, proc.st \in {None, "reaped"}, ~Spawn
  PROVE  proc' = proc
<1>0. proc.st # "run" /\ proc.st # "zombie"
  BY Zenon DEF None
<1>1. OpenEventsFails \/ (\E w \in Watchers : SendSignal(w)) => proc' = proc
  BY <1>0, Zenon DEF OpenEventsFails, SendSignal, killProcessGroup, Alive
<1>2. ~Operate /\ ~Quit /\ ~TakeSignal /\ ~Reap
  BY <1>0, ZenonT(60) DEF Operate, Quit, TakeSignal, Reap, Alive
<1>3. Linger \/ Reading => proc' = proc
  BY Zenon DEF Linger, Reading, ReaderChecks, ReadFd3, ReadEOF
<1> QED BY <1>1, <1>2, <1>3, WhoProc, Zenon

\* Once all of its output is read, none is taken from the pipes.
LEMMA ReadStays ==
  ASSUME Next, proc.st # "run", \A x \in Streams : AllRead(x), main.pc \notin {"wait", "abort"}
  PROVE  UNCHANGED <<pipes, out>>
<1>1. ~Operate /\ ~WaitDelay
  BY ZenonT(60) DEF Operate, WaitDelay, Alive
<1>2. ~Copying /\ ~\E x \in Streams : CopyFails(x)
  BY Zenon DEF Copying, Copy, CopyFails, AllRead
<1> QED BY <1>1, <1>2, WhoOut, Zenon

\* A reader and a writer that have stopped, or have not started, do not move.
LEMMA ReaderRests ==
  ASSUME Next, ~OpenEvents, reader.pc = "done" \/ (reader.pc = "off" /\ main.pc # "drain")
  PROVE  reader' = reader
<1>1. ~Reading
  BY Zenon DEF Reading, ReaderChecks, ReadFd3, ReadEOF
<1>2. JoinReader => reader' = reader
  BY Zenon DEF JoinReader
<1>3. Writing => reader' = reader
  BY Zenon DEF Writing, WriterChecks, WriterTakes, WriterWakes
<1> QED BY <1>1, <1>2, <1>3, WhoFd3, Zenon DEF goroutines

LEMMA WriterRests ==
  ASSUME Next, ~OpenEvents, writer.pc \in {"off", "done"}
  PROVE  writer' = writer
<1>1. ~Writing
  BY Zenon DEF Writing, WriterChecks, WriterTakes, WriterWakes
<1>2. JoinReader \/ Reading => writer' = writer
  BY Zenon DEF JoinReader, Reading, ReaderChecks, ReadFd3, ReadEOF
<1> QED BY <1>1, <1>2, WhoFd3, Zenon DEF goroutines

\* Watchers that are gone, or have not started, give no reason and send no signal.
LEMMA WatchRests ==
  ASSUME TypeOK, Next, ~OpenEvents, \A w \in Watchers : watch[w] \in {"off", "done"}
  PROVE  watch' = watch /\ kill'.reason = kill.reason
<1>1. ~\E w \in Watchers : Watching(w)
  BY Zenon DEF Watching, Watch, killProcess, CheckExited, SendSignal, Grace
<1>2. kill \in KillType
  BY Zenon DEF TypeOK
<1>3. OpenEventsFails => watch' = watch /\ kill'.reason = kill.reason
  BY <1>2, Zenon DEF OpenEventsFails, killProcessGroup, KillType
<1>4. SignalKill \/ Cancel => watch' = watch /\ kill'.reason = kill.reason
  BY <1>2, Zenon DEF SignalKill, Cancel, KillType
<1> QED BY <1>1, <1>3, <1>4, WhoKill, Zenon

\* When everything is settled nothing that the outcome is made of changes.
LEMMA SettledStays ==
  ASSUME TypeOK, Next, Settled, WaitReturned
  PROVE  /\ Settled' /\ proc' = proc /\ UNCHANGED <<pipes, out>> /\ watch' = watch /\ reader' = reader /\ writer' = writer
         /\ kill'.reason = kill.reason /\ Outcome' = Outcome /\ Declared' = Declared /\ ProgressDropped' = ProgressDropped
<1>1. main.pc \notin {"prep", "open", "abort", "wait"}
  BY Zenon DEF WaitReturned
<1>2. ~Spawn /\ ~OpenEvents
  BY <1>1, Zenon DEF Spawn, OpenEvents
<1>3. proc' = proc
  BY <1>2, DeadStays, Zenon DEF Settled
<1>4. UNCHANGED <<pipes, out>>
  BY <1>1, ReadStays, Zenon DEF Settled
<1>5. reader' = reader /\ writer' = writer
  BY <1>2, ReaderRests, WriterRests, Zenon DEF Settled
<1>6. watch' = watch /\ kill'.reason = kill.reason
  BY <1>2, WatchRests, Zenon DEF Settled, KillersDone
<1>7. Settled'
  BY <1>3, <1>4, <1>5, <1>6, Zenon DEF Settled, AllRead, KillersDone
<1>8. UNCHANGED env
  BY SameEnv, Zenon
<1>9. Outcome' = Outcome
  BY <1>3, <1>4, <1>5, <1>6, <1>8, Zenon DEF Outcome, IsMission
<1>10. Declared' = Declared /\ ProgressDropped' = ProgressDropped
  BY <1>5, <1>8, Zenon DEF Declared, ProgressDropped, IsMission
<1> QED BY <1>3, <1>4, <1>5, <1>6, <1>7, <1>9, <1>10, Zenon

-----------------------------------------------------------------------------
(* Run itself.                                                             *)

LEMMA SignalReasons ==
  ASSUME NEW sig \in SignalNames
  PROVE  signalToFailReason(sig) \in Reasons /\ signalToFailReason(sig) \notin {None, "unknown_sigkill", "signal"}
<1>1. signalToFailReason(sig) \in Reasons
  BY Zenon DEF Reasons
<1>2. PICK f : f = [SEGV |-> "segfault", BUS |-> "sigbus", ILL |-> "sigill", FPE |-> "sigfpe", TRAP |-> "sigtrap",
                    ABRT |-> "sigabrt", KILL |-> "signal_KILL", TERM |-> "signal_TERM", INT |-> "signal_INT",
                    QUIT |-> "signal_QUIT", HUP |-> "signal_HUP", PIPE |-> "signal_PIPE"]
  BY ZenonT(60)
<1>3. /\ f["SEGV"] = "segfault" /\ f["BUS"] = "sigbus" /\ f["ILL"] = "sigill" /\ f["FPE"] = "sigfpe" /\ f["TRAP"] = "sigtrap"
      /\ f["ABRT"] = "sigabrt" /\ f["KILL"] = "signal_KILL" /\ f["TERM"] = "signal_TERM" /\ f["PIPE"] = "signal_PIPE"
      /\ f["INT"] = "signal_INT" /\ f["QUIT"] = "signal_QUIT" /\ f["HUP"] = "signal_HUP"
  BY <1>2, Zenon
<1>4. f[sig] \notin {None, "unknown_sigkill", "signal"}
  BY <1>3, Zenon DEF SignalNames, None
<1> QED BY <1>1, <1>2, <1>4, Zenon DEF signalToFailReason

\* Compute and DeriveExecOutcome: their rows.
LEMMA OutcomeFacts ==
  ASSUME TypeOK
  PROVE  /\ Outcome \in ResultType /\ Outcome.outcome # "crashed"
         /\ kill.reason # None => /\ Outcome = IF IsMission THEN Killed(kill.reason)
                                               ELSE DeriveExecOutcome(kill.reason, proc.code, proc.sig)
                                  /\ Outcome.outcome # "success" /\ Outcome.reason \notin {"unknown_sigkill", "signal"}
<1>1. kill.reason \in KillReasons \cup {None, "timeout", "dugdale_shutdown"}
  BY KillFields, Zenon
<1>2. kill.reason \in Reasons /\ kill.reason \notin {"unknown_sigkill", "signal"}
  BY <1>1, Zenon DEF KillReasons, Reasons, None
<1>3. {None, "timeout"} \subseteq Reasons
  BY Zenon DEF Reasons
<1>4. CASE kill.reason # None
  <2>1. \/ Outcome = [outcome |-> "timeout", reason |-> None, ret |-> None]
        \/ Outcome = [outcome |-> "timeout", reason |-> "timeout", ret |-> None]
        \/ Outcome = [outcome |-> "killed", reason |-> kill.reason, ret |-> None]
    BY <1>4, Zenon DEF Outcome, Compute, DeriveExecOutcome, Killed, Result
  <2>2. Outcome = IF IsMission THEN Killed(kill.reason) ELSE DeriveExecOutcome(kill.reason, proc.code, proc.sig)
    BY <1>4, Zenon DEF Outcome, Compute
  <2> QED BY <1>2, <1>3, <1>4, <2>1, <2>2 DEF ResultType, None
<1>5. CASE kill.reason = None
  <2>1. proc.sig # None => signalToFailReason(proc.sig) \in Reasons
    BY ProcFields, SignalReasons, Zenon
  <2>2. reader.viol # <<>> => Head(reader.viol) \in Reasons
    BY ReaderFields DEF Reasons
  <2>3. {"php_memory_limit", "unknown_sigkill", "signal", "exit_nonzero", "success_then_failed_exit", "fail_then_zero_exit",
         "explicit", "no_event_nonzero_exit"} \subseteq Reasons
    BY Zenon DEF Reasons
  <2>4. ASSUME NEW o \in {"success", "failed", "killed", "oom"}, NEW q \in Reasons, NEW t \in {None, "returned"}
        PROVE  Result(o, q, t) \in ResultType /\ Result(o, q, t).outcome # "crashed"
    BY Zenon DEF Result, ResultType
  <2>5. CASE IsMission
    <3>1. \/ Outcome = Result("oom", "php_memory_limit", None) \/ Outcome = Result("killed", "unknown_sigkill", None)
          \/ proc.sig # None /\ Outcome = Result("failed", signalToFailReason(proc.sig), None)
          \/ reader.viol # <<>> /\ Outcome = Result("failed", Head(reader.viol), None)
          \/ Outcome = Result("success", None, "returned") \/ Outcome = Result("failed", "success_then_failed_exit", None)
          \/ Outcome = Result("failed", "fail_then_zero_exit", None) \/ Outcome = Result("failed", "explicit", None)
          \/ Outcome = Result("success", None, None) \/ Outcome = Result("failed", "no_event_nonzero_exit", None)
      BY <1>5, <2>5, ZenonT(60) DEF Outcome, Compute
    <3> QED BY <1>3, <1>5, <2>1, <2>2, <2>3, <2>4, <3>1, Zenon
  <2>6. CASE ~IsMission
    <3>1. \/ Outcome = Result("killed", "signal", None) \/ Outcome = Result("success", None, None)
          \/ Outcome = Result("failed", "exit_nonzero", None)
      BY <1>5, <2>6, Zenon DEF Outcome, DeriveExecOutcome, None
    <3> QED BY <1>3, <1>5, <2>3, <2>4, <3>1, Zenon
  <2> QED BY <2>5, <2>6, Zenon
<1> QED BY <1>4, <1>5, Zenon

LEMMA CollectReasons ==
  ASSUME NEW f \in {"missing", "link", "dir", "big", "full", "io"}
  PROVE  mapCollectErrorToReason(f) \in Reasons \ {"unknown_sigkill", "signal"}
<1>1. {"missing_output", "output_path_escape", "output_not_regular_file", "output_too_large", "disk_quota_exceeded",
       "output_collect_failed"} \subseteq Reasons
  BY Zenon DEF Reasons
<1> QED BY <1>1, Zenon DEF mapCollectErrorToReason


LEMMA EndTyped ==
  ASSUME TypeOK, NEW res \in ResultType, NEW outs \in SUBSET Keys, NEW n \in Nat, End(res, outs, n)
  PROVE  main' \in MainType /\ done' \in DoneType
BY Zenon DEF TypeOK, End, MainType, DoneType

LEMMA CrashedTyped ==
  ASSUME TypeOK, NEW q \in Reasons, finalizeCrashed(q)
  PROVE  main' \in MainType /\ done' \in DoneType
<1>1. Result("crashed", q, None) \in ResultType
  BY Zenon DEF Result, ResultType
<1> QED BY <1>1, EndTyped, Zenon DEF finalizeCrashed

LEMMA CollectErrorTyped ==
  ASSUME TypeOK, NEW f \in {"missing", "link", "dir", "big", "full", "io"}, CollectError(f)
  PROVE  /\ main' \in MainType /\ done' \in DoneType
         /\ main'.pc = "end" /\ main'.tmps = {} /\ done'.outputs = {} /\ done'.dropped = ProgressDropped
         /\ done'.result.outcome = "failed" /\ done'.result.reason \notin {"unknown_sigkill", "signal"}
<1>1. PICK q \in Reasons \ {"unknown_sigkill", "signal"} : q = mapCollectErrorToReason(f)
  BY CollectReasons, Zenon
<1>2. PICK res : res = Result("failed", q, None)
  BY Zenon
<1>3. res \in ResultType /\ res.outcome = "failed" /\ res.reason \notin {"unknown_sigkill", "signal"}
  BY <1>1, <1>2, Zenon DEF Result, ResultType
<1>4. done' = [result |-> res, outputs |-> {}, dropped |-> ProgressDropped]
  BY <1>1, <1>2, Zenon DEF CollectError
<1>5. main' = [main EXCEPT !.pc = "end", !.todo = {}, !.tmps = {}, !.result = res]
  <2>1. done'.result = res
    BY <1>4, Zenon
  <2>2. main' = [main EXCEPT !.pc = "end", !.todo = {}, !.tmps = {}, !.result = done'.result]
    BY Zenon DEF CollectError
  <2> QED BY <2>1, <2>2, Zenon
<1>6. ProgressDropped \in Nat
  BY ReaderFields DEF ProgressDropped
<1>7. main' \in MainType /\ main'.pc = "end" /\ main'.tmps = {}
  BY <1>3, <1>5, ZenonT(60) DEF TypeOK, MainType
<1> QED BY <1>3, <1>4, <1>6, <1>7, Zenon DEF DoneType

\* The two ways out of the derivation.
LEMMA DeriveFacts ==
  ASSUME TypeOK, Derive
  PROVE  /\ main.pc = "derive" /\ main' \in MainType /\ done' \in DoneType
         /\ \/ /\ main' = [main EXCEPT !.pc = "collect", !.todo = Declared, !.result = Outcome]
               /\ done' = done /\ Outcome.outcome = "success" /\ Declared # {}
            \/ End(Outcome, {}, ProgressDropped) /\ (Outcome.outcome = "success" => Declared = {})
            \/ End(Result("crashed", "no_process_state", None), {}, ProgressDropped)
<1>1. PICK o \in {Outcome, Result("crashed", "no_process_state", None)} :
        IF o.outcome = "success" /\ Declared # {}
        THEN main' = [main EXCEPT !.pc = "collect", !.todo = Declared, !.result = o] /\ done' = done
        ELSE End(o, {}, ProgressDropped)
  BY ZenonT(60) DEF Derive
<1>2. Result("crashed", "no_process_state", None) \in ResultType /\ Result("crashed", "no_process_state", None).outcome # "success"
  BY Zenon DEF Result, ResultType, Reasons
<1>3. o \in ResultType
  BY <1>1, <1>2, OutcomeFacts, Zenon
<1>4. ProgressDropped \in Nat /\ Declared \subseteq Keys /\ {} \subseteq Keys
  BY ReaderFields, EnvFields, SMTT(40) DEF ProgressDropped, Declared
<1>5. main \in MainType /\ done \in DoneType
  BY Zenon DEF TypeOK
<1>6. CASE o.outcome = "success" /\ Declared # {}
  <2>1. o = Outcome
    BY <1>1, <1>2, <1>6, Zenon
  <2>2. main' = [main EXCEPT !.pc = "collect", !.todo = Declared, !.result = o] /\ done' = done
    BY <1>1, <1>6, Zenon
  <2>3. main' \in MainType
    BY <1>3, <1>4, <1>5, <2>2, ZenonT(60) DEF MainType
  <2> QED BY <1>5, <1>6, <2>1, <2>2, <2>3, Zenon DEF Derive
<1>7. CASE ~(o.outcome = "success" /\ Declared # {})
  <2>1. End(o, {}, ProgressDropped)
    BY <1>1, <1>7, Zenon
  <2>2. main' \in MainType /\ done' \in DoneType
    BY <1>3, <1>4, <2>1, EndTyped, Zenon
  <2> QED BY <1>1, <1>7, <2>1, <2>2, Zenon DEF Derive
<1> QED BY <1>6, <1>7, Zenon

LEMMA MainTyped ==
  ASSUME TypeOK, Next
  PROVE  main' \in MainType /\ done' \in DoneType
<1>1. main \in MainType /\ done \in DoneType
  BY Zenon DEF TypeOK
<1>2. CASE Spawn
  BY <1>1, <1>2, Zenon DEF Spawn, MainType
<1>3. CASE SpawnFails
  <2>1. SpawnFailures \cup CancelledReads \subseteq Reasons
    BY Zenon DEF SpawnFailures, CancelledReads, Reasons, ResolveCommand, LoadInputs, PrepareWorkdir,
       PrepareExecWorkdir, OpenOutputs, writeStdinEnvelope, crashedReasonFromOS
  <2>2. PICK q \in SpawnFailures \cup CancelledReads : finalizeCrashed(q)
    BY <1>3, Zenon DEF SpawnFails
  <2> QED BY <2>1, <2>2, CrashedTyped, Zenon
<1>4. CASE OpenEvents \/ OpenEventsFails
  BY <1>1, <1>4, Zenon DEF OpenEvents, OpenEventsFails, MainType
<1>5. CASE WaitReturns
  <2>1. CASE At("join") /\ UNCHANGED done
    BY <1>1, <2>1, Zenon DEF At, MainType
  <2>2. CASE finalizeCrashed("spawn_failed")
    <3>1. "spawn_failed" \in Reasons
      BY Zenon DEF Reasons
    <3> QED BY <2>2, <3>1, CrashedTyped, Zenon
  <2> QED BY <1>5, <2>1, <2>2, Zenon DEF WaitReturns
<1>6. CASE JoinKillers \/ JoinReader \/ JoinWriter
  BY <1>1, <1>6, Zenon DEF JoinKillers, JoinReader, JoinWriter, At, MainType
<1>7. CASE Derive
  BY <1>7, DeriveFacts, Zenon
<1>8. CASE CollectRefused
  BY <1>8, CollectErrorTyped, Zenon DEF CollectRefused
<1>9. ASSUME NEW k \in Keys, collectOne(k) PROVE main' \in MainType /\ done' \in DoneType
  <2>1. CASE main' = [main EXCEPT !.todo = @ \ {k}, !.tmps = @ \cup {k}] /\ UNCHANGED done
    BY <1>1, <2>1, Zenon DEF MainType
  <2> QED BY <1>9, <2>1, CollectErrorTyped, Zenon DEF collectOne
<1>10. CASE Collected
  <2>1. main.result \in ResultType /\ main.tmps \in SUBSET Keys /\ ProgressDropped \in Nat
    BY <1>1, ReaderFields DEF MainType, ProgressDropped
  <2>2. End(main.result, main.tmps, ProgressDropped)
    BY <1>10, Zenon DEF Collected
  <2> QED BY <2>1, <2>2, EndTyped, Zenon
<1> QED BY <1>1, <1>2, <1>3, <1>4, <1>5, <1>6, <1>7, <1>8, <1>9, <1>10, WhoMain, Zenon


\* Where a step takes Run.
LEMMA MainMoves ==
  ASSUME TypeOK, Next
  PROVE  \/ UNCHANGED <<main, done>>
         \/ Spawn /\ main.pc = "prep" /\ main'.pc = "open" /\ main'.tmps = main.tmps /\ done' = done
         \/ SpawnFails /\ main.pc = "prep" /\ main'.pc = "end" /\ done'.result.outcome = "crashed"
            /\ main'.tmps = main.tmps /\ done'.outputs = {}
         \/ OpenEvents /\ main.pc = "open" /\ main'.pc = "wait" /\ main'.tmps = main.tmps /\ done' = done
         \/ OpenEventsFails /\ main.pc = "open" /\ main'.pc = "abort" /\ main'.tmps = main.tmps /\ done' = done
         \/ WaitReturns /\ main.pc = "wait" /\ main'.pc = "join" /\ main'.tmps = main.tmps /\ done' = done
         \/ WaitReturns /\ main.pc = "abort" /\ main'.pc = "end" /\ done'.result.outcome = "crashed"
            /\ main'.tmps = main.tmps /\ done'.outputs = {}
         \/ JoinKillers /\ main.pc = "join" /\ main'.pc = (IF IsMission THEN "drain" ELSE "derive")
            /\ main'.tmps = main.tmps /\ done' = done
         \/ JoinReader /\ main.pc = "drain" /\ main'.pc = "flush" /\ main'.tmps = main.tmps /\ done' = done
         \/ JoinWriter /\ main.pc = "flush" /\ main'.pc = "derive" /\ main'.tmps = main.tmps /\ done' = done
         \/ /\ main.pc \in {"derive", "collect"} /\ main'.pc \in {"collect", "end"}
            /\ Derive \/ CollectRefused \/ Collected \/ \E k \in Keys : collectOne(k)
<1>1. main \in MainType /\ done \in DoneType
  BY Zenon DEF TypeOK
<1>2. CASE Spawn
  BY <1>1, <1>2, Zenon DEF Spawn, MainType
<1>3. CASE OpenEvents
  BY <1>1, <1>3, Zenon DEF OpenEvents, MainType
<1>4. CASE OpenEventsFails
  BY <1>1, <1>4, Zenon DEF OpenEventsFails, MainType
<1>5. ASSUME NEW q, finalizeCrashed(q)
      PROVE  main'.pc = "end" /\ done'.result.outcome = "crashed" /\ main'.tmps = main.tmps /\ done'.outputs = {}
  BY <1>1, <1>5, Zenon DEF finalizeCrashed, End, Result, MainType
<1>6. CASE SpawnFails
  BY <1>5, <1>6, ZenonT(60) DEF SpawnFails
<1>7. CASE WaitReturns
  <2>1. CASE main.pc = "wait" /\ At("join") /\ UNCHANGED done
    BY <1>1, <1>7, <2>1, Zenon DEF At, MainType
  <2>2. CASE main.pc = "abort" /\ finalizeCrashed("spawn_failed")
    BY <1>5, <1>7, <2>2, ZenonT(60)
  <2> QED BY <1>7, <2>1, <2>2, ZenonT(60) DEF WaitReturns
<1>8. CASE JoinKillers
  BY <1>1, <1>8, Zenon DEF JoinKillers, At, MainType
<1>9. CASE JoinReader
  BY <1>1, <1>9, Zenon DEF JoinReader, At, MainType
<1>10. CASE JoinWriter
  BY <1>1, <1>10, Zenon DEF JoinWriter, At, MainType
<1>11. CASE Derive
  <2>1. main' = [main EXCEPT !.pc = "collect", !.todo = Declared, !.result = Outcome] => main'.pc = "collect"
    BY <1>1, Zenon DEF MainType
  <2>2. ASSUME NEW o, NEW n, End(o, {}, n) PROVE main'.pc = "end"
    BY <1>1, <2>2, Zenon DEF End, MainType
  <2> QED BY <1>11, <2>1, <2>2, DeriveFacts, Zenon
<1>12. CASE CollectRefused
  BY <1>12, CollectErrorTyped, Zenon DEF CollectRefused
<1>13. ASSUME NEW k \in Keys, collectOne(k) PROVE main.pc = "collect" /\ main'.pc \in {"collect", "end"}
  <2>1. CASE main' = [main EXCEPT !.todo = @ \ {k}, !.tmps = @ \cup {k}]
    BY <1>1, <1>13, <2>1, Zenon DEF MainType, collectOne
  <2>2. CASE \E f \in {"missing", "link", "dir", "big", "full", "io"} : CollectError(f)
    BY <1>13, <2>2, CollectErrorTyped, Zenon DEF collectOne
  <2> QED BY <1>13, <2>1, <2>2, Zenon DEF collectOne
<1>14. CASE Collected
  BY <1>1, <1>14, Zenon DEF Collected, End, MainType
<1> QED BY <1>2, <1>3, <1>4, <1>6, <1>7, <1>8, <1>9, <1>10, <1>11, <1>12, <1>13, <1>14, WhoMain, ZenonT(60)

\* Until the goroutines start there is nobody to kill, read or write.
LEMMA EarlyKept ==
  ASSUME TypeOK, RunInOrder, Next
  PROVE  /\ main'.pc = "prep" => proc'.st = None
         /\ Early' => /\ \A w \in Watchers : watch'[w] = "off"
                      /\ reader'.pc = "off" /\ writer'.pc = "off" /\ kill'.reason = None
<1>0. (OpenEvents => main'.pc = "wait") /\ (Spawn => main'.pc = "open")
  BY Zenon DEF OpenEvents, Spawn, TypeOK, MainType
<1>1. ASSUME main'.pc \in {"prep", "open", "abort"} PROVE Early /\ ~OpenEvents
  BY <1>0, <1>1, MainMoves, Zenon DEF Early
<1>2. ASSUME Early' PROVE watch' = watch /\ kill'.reason = kill.reason /\ reader' = reader /\ writer' = writer
  <2>1. Early /\ ~OpenEvents
    BY <1>1, <1>2, Zenon DEF Early
  <2>2. (\A w \in Watchers : watch[w] = "off") /\ reader.pc = "off" /\ writer.pc = "off" /\ main.pc # "drain"
    BY <2>1, Zenon DEF RunInOrder, Early
  <2> QED BY <2>1, <2>2, WatchRests, ReaderRests, WriterRests, Zenon
<1>3. ASSUME main'.pc = "prep" PROVE proc'.st = None
  <2>1. main.pc = "prep" /\ ~Spawn
    BY <1>0, <1>3, MainMoves, Zenon
  <2> QED BY <2>1, DeadStays, Zenon DEF RunInOrder
<1> QED
  <2>1. ASSUME Early' PROVE Early
    BY <1>1, <2>1, Zenon DEF Early
  <2> QED BY <1>2, <1>3, <2>1, Zenon DEF RunInOrder

\* Once cmd.Wait has returned the process and its output stay as they are.
LEMMA WaitedKept ==
  ASSUME TypeOK, RunInOrder, Next
  PROVE  main'.pc \in {"join", "drain", "flush"} => proc'.st = "reaped" /\ \A x \in Streams : AllRead(x)'
<1>1. SUFFICES ASSUME main'.pc \in {"join", "drain", "flush"}
               PROVE  proc'.st = "reaped" /\ \A x \in Streams : AllRead(x)'
  BY Zenon
<1>2. CASE main.pc \in {"join", "drain", "flush"}
  <2>1. proc.st = "reaped" /\ (\A x \in Streams : AllRead(x)) /\ ~Spawn
    BY <1>2, Zenon DEF RunInOrder, Spawn
  <2>2. proc' = proc /\ UNCHANGED <<pipes, out>>
    BY <1>2, <2>1, DeadStays, ReadStays, Zenon
  <2> QED BY <2>1, <2>2, Zenon DEF AllRead
<1>3. CASE main.pc \notin {"join", "drain", "flush"}
  <2>1. WaitReturns
    BY <1>1, <1>3, MainMoves, Zenon
  <2>2. proc.st = "reaped" /\ (\A x \in Streams : Copied(x)) /\ UNCHANGED <<proc, pipes>>
    BY <2>1, Zenon DEF WaitReturns
  <2> QED BY <2>2, Zenon DEF Copied, AllRead
<1> QED BY <1>2, <1>3, Zenon

\* What is settled stays so, and Run derives nothing before.
LEMMA SettledKept ==
  ASSUME TypeOK, RunInOrder, Next
  PROVE  /\ main'.pc \in {"drain", "flush"} => KillersDone'
         /\ main'.pc = "flush" => reader'.pc = "done"
         /\ main'.pc \in {"derive", "collect"} \/ Ran' => Settled'
<1>1. ASSUME main'.pc \in {"drain", "flush"} PROVE KillersDone'
  <2>1. CASE main.pc \in {"drain", "flush"}
    <3>1. KillersDone /\ ~OpenEvents
      BY <2>1, Zenon DEF RunInOrder, OpenEvents
    <3>2. watch' = watch
      BY <3>1, WatchRests, Zenon DEF KillersDone
    <3> QED BY <3>1, <3>2, Zenon DEF KillersDone
  <2>2. CASE main.pc \notin {"drain", "flush"}
    <3>1. JoinKillers
      BY <1>1, <2>2, MainMoves, Zenon
    <3> QED BY <3>1, Zenon DEF JoinKillers, KillersDone
  <2> QED BY <2>1, <2>2, Zenon
<1>2. ASSUME main'.pc = "flush" PROVE reader'.pc = "done"
  <2>1. CASE main.pc = "flush"
    <3>1. reader.pc = "done" /\ ~OpenEvents
      BY <2>1, Zenon DEF RunInOrder, OpenEvents
    <3> QED BY <3>1, ReaderRests, Zenon
  <2>2. CASE main.pc # "flush"
    <3>1. JoinReader
      BY <1>2, <2>2, MainMoves, Zenon
    <3>2. reader \in ReaderType
      BY Zenon DEF TypeOK
    <3> QED BY <3>1, <3>2, Zenon DEF JoinReader, ReaderStops, ReaderType
  <2> QED BY <2>1, <2>2, Zenon
<1>3. ASSUME main'.pc \in {"derive", "collect"} \/ Ran' PROVE Settled'
  <2>1. CASE main.pc \in {"derive", "collect"} \/ Ran
    <3>1. Settled /\ WaitReturned
      BY <2>1, Zenon DEF RunInOrder, WaitReturned, Ran, Finished
    <3> QED BY <3>1, SettledStays, Zenon
  <2>2. CASE ~(main.pc \in {"derive", "collect"} \/ Ran)
    <3>1. (JoinKillers /\ main.pc = "join" /\ ~IsMission) \/ (JoinWriter /\ main.pc = "flush")
      BY <1>3, <2>2, MainMoves, Zenon DEF Ran, Finished
    <3>2. proc.st = "reaped" /\ (\A x \in Streams : AllRead(x)) /\ UNCHANGED <<proc, pipes, goroutines, watch>>
      BY <3>1, Zenon DEF RunInOrder, JoinKillers, JoinWriter
    <3>3. KillersDone /\ reader.pc = "done" /\ writer.pc = "done"
      BY <3>1, Zenon DEF RunInOrder, JoinKillers, JoinWriter, Early, Finished
    <3> QED BY <3>2, <3>3, Zenon DEF Settled, AllRead, KillersDone, goroutines
  <2> QED BY <2>1, <2>2, Zenon
<1> QED BY <1>1, <1>2, <1>3, Zenon

LEMMA RunKept ==
  ASSUME TypeOK, RunInOrder, Next
  PROVE  RunInOrder'
<1>1. ASSUME ~Early', ~Finished', ~IsMission' PROVE reader'.pc = "done" /\ writer'.pc = "done"
  <2>0. ~IsMission
    BY <1>1, SameEnv, Zenon DEF IsMission
  <2>1. CASE OpenEvents
    <3>1. reader \in ReaderType /\ writer \in WriterType
      BY Zenon DEF TypeOK
    <3> QED BY <2>0, <2>1, <3>1, Zenon DEF OpenEvents, ReaderType, WriterType
  <2>2. CASE ~OpenEvents
    <3>1. ~Early /\ ~Finished
      BY <1>1, <2>2, MainMoves, Zenon DEF Early, Finished
    <3>2. reader.pc = "done" /\ writer.pc = "done"
      BY <2>0, <3>1, Zenon DEF RunInOrder
    <3> QED BY <2>2, <3>2, ReaderRests, WriterRests, Zenon
  <2> QED BY <2>1, <2>2, Zenon
<1> QED BY <1>1, EarlyKept, WaitedKept, SettledKept, Zenon DEF RunInOrder

\* When Run is over nothing that it has started is left.
LEMMA NothingLeftKept ==
  ASSUME SuperviseIInv, Next
  PROVE  NothingLeftRunning'
<1>0. TypeOK /\ RunInOrder /\ RunInOrder' /\ NothingLeftRunning
  BY RunKept, Zenon DEF SuperviseIInv, SuperviseInv
<1>1. SUFFICES ASSUME Finished'
               PROVE  /\ proc'.st \in {None, "reaped"} /\ \A w \in Watchers : watch'[w] \in {"off", "done"}
                      /\ reader'.pc \in {"off", "done"} /\ writer'.pc \in {"off", "done"}
  BY Zenon DEF NothingLeftRunning
<1>2. ASSUME ~Spawn, ~OpenEvents, proc.st \in {None, "reaped"}, \A w \in Watchers : watch[w] \in {"off", "done"},
             reader.pc = "done" \/ (reader.pc = "off" /\ main.pc # "drain"), writer.pc \in {"off", "done"}
      PROVE  /\ proc'.st \in {None, "reaped"} /\ \A w \in Watchers : watch'[w] \in {"off", "done"}
             /\ reader'.pc \in {"off", "done"} /\ writer'.pc \in {"off", "done"}
  BY <1>0, <1>2, DeadStays, WatchRests, ReaderRests, WriterRests, Zenon
<1>3. CASE main.pc = "end"
  BY <1>0, <1>2, <1>3, Zenon DEF NothingLeftRunning, Finished, Spawn, OpenEvents
<1>4. CASE main.pc \in {"derive", "collect"}
  BY <1>0, <1>2, <1>4, Zenon DEF RunInOrder, Settled, KillersDone, Spawn, OpenEvents
<1>5. CASE main.pc \notin {"end", "derive", "collect"}
  <2>1. (SpawnFails /\ main.pc = "prep") \/ (WaitReturns /\ main.pc = "abort")
    BY <1>0, <1>1, <1>5, MainMoves, Zenon DEF Finished
  <2>2. UNCHANGED <<proc, watch, reader, writer>> /\ proc.st \in {None, "reaped"}
    BY <1>0, <2>1, Zenon DEF SpawnFails, WaitReturns, goroutines, RunInOrder
  <2> QED BY <1>0, <2>1, <2>2, Zenon DEF RunInOrder, Early
<1> QED BY <1>3, <1>4, <1>5, Zenon


\* Who kills has a reason, and who sends a signal has given it.
LEMMA KillKept ==
  ASSUME SuperviseIInv, Next
  PROVE  KillInOrder'
<1>0. TypeOK /\ KillInOrder /\ RunInOrder /\ kill \in KillType /\ UNCHANGED env
  BY SameEnv, Zenon DEF SuperviseIInv, SuperviseInv, TypeOK
<1>1. ASSUME NEW w \in Watchers, watch[w] = "enter", kill' = [kill EXCEPT !.reason = Reason(w)]
      PROVE  /\ kill'.reason = Reason(w) /\ kill'.reason # None /\ kill'.cancelled = kill.cancelled /\ kill'.sent = kill.sent
             /\ kill'.reason = "timeout" => w = "timeout"
             /\ kill'.reason = "dugdale_shutdown" => w = "ctx"
  <2>1. kill'.reason = Reason(w) /\ kill'.cancelled = kill.cancelled /\ kill'.sent = kill.sent
    BY <1>0, <1>1, Zenon DEF KillType
  <2>2. Reason("timeout") = "timeout" /\ Reason("api") = kill.chan /\ Reason("ctx") = "dugdale_shutdown"
    BY Zenon DEF Reason
  <2>3. kill.chan \in KillReasons \cup {None} /\ (w = "api" => kill.chan # None)
    BY <1>0, <1>1, Zenon DEF KillType, KillInOrder
  <2>4. Reason(w) # None /\ (Reason(w) = "timeout" => w = "timeout") /\ (Reason(w) = "dugdale_shutdown" => w = "ctx")
    <3>1. CASE w = "api"
      BY <2>2, <2>3, <3>1, Zenon DEF KillReasons, None
    <3> QED BY <2>2, <3>1, Zenon DEF Watchers, None
  <2> QED BY <2>1, <2>4, Zenon
<1>2. ASSUME NEW w \in Watchers, watch'[w] \in {"check", "term", "grace", "recheck", "kill"} PROVE kill'.reason # None
  <2>1. CASE watch[w] \in {"check", "term", "grace", "recheck", "kill"}
    BY <1>0, <2>1, KillOnce, Zenon DEF KillInOrder
  <2>2. CASE watch[w] \notin {"check", "term", "grace", "recheck", "kill"}
    <3>1. watch[w] = "enter" /\ kill' = [kill EXCEPT !.reason = Reason(w)]
      BY <1>0, <1>2, <2>2, WatchMoves, Zenon
    <3> QED BY <1>1, <3>1, Zenon
  <2> QED BY <2>1, <2>2, Zenon
<1>3. watch'["timeout"] \notin {"off", "done"} => env.timeout
  <2>1. "timeout" \in Watchers
    BY Zenon DEF Watchers
  <2>2. watch["timeout"] \notin {"off", "done"} => env.timeout
    BY <1>0, Zenon DEF KillInOrder
  <2> QED BY <1>0, <2>1, <2>2, WatchMoves, Zenon
<1>4. watch'["api"] = "enter" => kill'.chan # None
  <2>1. "api" \in Watchers /\ (Ready("api") => kill.chan # None)
    BY Zenon DEF Watchers, Ready
  <2>2. watch["api"] = "enter" => kill.chan # None
    BY <1>0, Zenon DEF KillInOrder
  <2>3. watch'["api"] = "enter" => kill.chan # None
    BY <1>0, <2>1, <2>2, WatchMoves, Zenon
  <2> QED BY <1>0, <2>3, KillOnce, Zenon
<1>5. watch'["ctx"] = "enter" => kill'.cancelled
  <2>1. "ctx" \in Watchers /\ (Ready("ctx") => kill.cancelled)
    BY Zenon DEF Watchers, Ready
  <2>2. watch["ctx"] = "enter" => kill.cancelled
    BY <1>0, Zenon DEF KillInOrder
  <2>3. watch'["ctx"] = "enter" => kill.cancelled
    BY <1>0, <2>1, <2>2, WatchMoves, Zenon
  <2> QED BY <1>0, <2>3, KillOnce, Zenon
<1>6. (kill'.reason = "timeout" => env.timeout) /\ (kill'.reason = "dugdale_shutdown" => kill'.cancelled)
  <2>0. (kill.reason = "timeout" => env.timeout) /\ (kill.reason = "dugdale_shutdown" => kill.cancelled)
    BY <1>0, Zenon DEF KillInOrder
  <2>1. CASE \E w \in Watchers : watch[w] = "enter" /\ kill' = [kill EXCEPT !.reason = Reason(w)]
    <3>1. PICK w \in Watchers : watch[w] = "enter" /\ kill' = [kill EXCEPT !.reason = Reason(w)]
      BY <2>1, Zenon
    <3>2. (w = "timeout" => env.timeout) /\ (w = "ctx" => kill.cancelled)
      BY <1>0, <3>1, Zenon DEF KillInOrder
    <3> QED BY <1>1, <3>1, <3>2, Zenon
  <2>2. CASE kill'.reason = kill.reason
    BY <1>0, <2>0, <2>2, KillOnce, Zenon
  <2>3. kill'.reason = kill.reason \/ \E w \in Watchers : watch[w] = "enter" /\ kill' = [kill EXCEPT !.reason = Reason(w)]
    BY <1>0, KillMoves, Zenon DEF KillType
  <2> QED BY <2>1, <2>2, <2>3, Zenon
<1>7. kill'.sent # {} => kill'.reason # None \/ main'.pc = "abort" \/ (Finished' /\ ~Ran')
  <2>1. SUFFICES ASSUME kill'.sent # {}, kill'.reason = None PROVE main'.pc = "abort" \/ (Finished' /\ ~Ran')
    BY Zenon
  <2>2. kill.reason = None
    BY <1>0, <2>1, KillOnce, Zenon
  <2>3. CASE kill.sent # {}
    <3>1. main.pc = "abort" \/ (Finished /\ ~Ran)
      BY <1>0, <2>2, <2>3, Zenon DEF KillInOrder
    <3> QED BY <1>0, <3>1, MainMoves, Zenon DEF Finished, Ran
  <2>4. CASE kill.sent = {}
    <3>1. kill'.sent # kill.sent
      BY <2>1, <2>4, Zenon
    <3>2. OpenEventsFails \/ \E w \in Watchers : SendSignal(w)
      <4>1. SignalKill \/ Cancel => kill'.sent = kill.sent
        BY <1>0, Zenon DEF SignalKill, Cancel, KillType
      <4>2. ASSUME NEW w \in Watchers, killProcess(w) PROVE kill'.sent = kill.sent
        BY <1>0, <4>2, Zenon DEF killProcess, KillType
      <4>3. OpenEvents => kill'.sent = kill.sent
        BY Zenon DEF OpenEvents
      <4>4. ASSUME NEW w \in Watchers, Watch(w) \/ CheckExited(w) \/ Grace(w) PROVE kill'.sent = kill.sent
        BY <4>4, Zenon DEF Watch, CheckExited, Grace
      <4> QED BY <3>1, <4>1, <4>2, <4>3, <4>4, WhoKill, Zenon DEF Watching
    <3>3. CASE OpenEventsFails
      BY <1>0, <3>3, Zenon DEF OpenEventsFails, TypeOK, MainType
    <3>4. ~\E w \in Watchers : SendSignal(w)
      BY <1>0, <2>2, Zenon DEF SendSignal, KillInOrder
    <3> QED BY <3>2, <3>3, <3>4, Zenon
  <2> QED BY <2>3, <2>4, Zenon
<1> QED BY <1>0, <1>2, <1>3, <1>4, <1>5, <1>6, <1>7, Zenon DEF KillInOrder

\* What Run is about to hand over, and has handed over, is the outcome of what is settled.
LEMMA ResultKept ==
  ASSUME SuperviseIInv, Next
  PROVE  ResultInOrder' /\ OutputsAllOrNone'
<1>0. /\ TypeOK /\ RunInOrder /\ ResultInOrder /\ OutputsAllOrNone /\ UNCHANGED env
      /\ main \in MainType /\ done \in DoneType /\ proc \in ProcType
  BY SameEnv, ZenonT(60) DEF SuperviseIInv, SuperviseInv, TypeOK
<1>1. proc'.sig # None => proc'.code # 0
  <2>0. proc.sig # None => proc.code # 0
    BY <1>0, ZenonT(60) DEF ResultInOrder
  <2>1. ASSUME NEW c, NEW sig, Dies(c, sig) PROVE proc'.sig = sig /\ proc'.code = c
    BY <1>0, <2>1, Zenon DEF Dies, ProcType
  <2>2. ASSUME NEW sig, killProcessGroup(sig) PROVE proc'.sig = proc.sig /\ proc'.code = proc.code
    BY <1>0, <2>2, Zenon DEF killProcessGroup, ProcType
  <2>3. Spawn \/ Reap => proc'.sig = proc.sig /\ proc'.code = proc.code
    BY <1>0, Zenon DEF Spawn, Reap, ProcType
  <2>4. OpenEventsFails \/ (\E w \in Watchers : SendSignal(w)) => proc'.sig = proc.sig /\ proc'.code = proc.code
    BY <2>2, Zenon DEF OpenEventsFails, SendSignal
  <2>5. CASE Quit
    BY <2>1, <2>5, SMTT(40) DEF Quit
  <2>6. CASE TakeSignal
    BY <2>1, <2>6 DEF TakeSignal
  <2>7. CASE Operate
    <3>1. ASSUME NEW l, proc' = [proc EXCEPT !.at = @ + 1, !.wrote.fd3 = Append(@, l)]
          PROVE  proc'.sig = proc.sig /\ proc'.code = proc.code
      BY <1>0, <3>1, Zenon DEF ProcType
    <3>2. ASSUME NEW x, NEW l, proc' = [proc EXCEPT !.at = @ + 1, !.wrote[x] = Append(@, l)]
          PROVE  proc'.sig = proc.sig /\ proc'.code = proc.code
      BY <1>0, <3>2, Zenon DEF ProcType
    <3>3. CASE Dies(-1, "PIPE")
      BY <2>1, <3>3
    <3> QED BY <1>0, <2>0, <2>7, <3>1, <3>2, <3>3, OperateFacts, ZenonT(60)
  <2>8. Linger \/ Reading => proc' = proc
    BY Zenon DEF Linger, Reading, ReaderChecks, ReadFd3, ReadEOF
  <2> QED BY <2>0, <2>3, <2>4, <2>5, <2>6, <2>7, <2>8, WhoProc, Zenon
<1>2. ASSUME main.pc \in {"derive", "collect"} \/ Ran
      PROVE  Outcome' = Outcome /\ Declared' = Declared /\ ProgressDropped' = ProgressDropped
  <2>1. Settled /\ WaitReturned
    BY <1>0, <1>2, Zenon DEF RunInOrder, WaitReturned, Ran, Finished
  <2> QED BY <1>0, <2>1, SettledStays, Zenon
<1>3. CASE UNCHANGED <<main, done>>
  <2>1. Finished' = Finished /\ Ran' = Ran /\ May("files")' = May("files")
    BY <1>0, <1>3, Zenon DEF Finished, Ran, May
  <2>2. ResultInOrder'
    <3>1. main'.pc \notin {"collect", "end"} => main'.tmps = {}
      BY <1>0, <1>3, Zenon DEF ResultInOrder
    <3>2. main'.pc = "collect" => main'.result = Outcome' /\ Outcome'.outcome = "success" /\ main'.todo \cup main'.tmps = Declared'
      BY <1>0, <1>2, <1>3, Zenon DEF ResultInOrder
    <3>3. Ran' => /\ done'.dropped = ProgressDropped'
                  /\ \/ done'.result = Outcome'
                     \/ /\ May("files")' /\ Outcome'.outcome = "success" /\ done'.result.outcome = "failed"
                        /\ done'.result.reason \notin {"unknown_sigkill", "signal"}
      BY <1>0, <1>2, <1>3, <2>1, Zenon DEF ResultInOrder
    <3> QED BY <1>1, <3>1, <3>2, <3>3, Zenon DEF ResultInOrder
  <2>3. OutputsAllOrNone'
    <3>1. Finished /\ done.result.outcome = "success" => Ran
      BY Zenon DEF Ran
    <3> QED BY <1>0, <1>2, <1>3, <2>1, <3>1, Zenon DEF OutputsAllOrNone
  <2> QED BY <2>2, <2>3, Zenon
<1>4. ASSUME main'.pc \notin {"collect", "end"}, main'.tmps = main.tmps, main.pc \notin {"collect", "end"}
      PROVE  ResultInOrder' /\ OutputsAllOrNone'
  BY <1>0, <1>1, <1>4, Zenon DEF ResultInOrder, OutputsAllOrNone, Finished, Ran
<1>5. ASSUME main'.pc = "end", done'.result.outcome = "crashed", main'.tmps = main.tmps, done'.outputs = {}, main.pc \notin {"collect", "end"}
      PROVE  ResultInOrder' /\ OutputsAllOrNone'
  BY <1>0, <1>1, <1>5, Zenon DEF ResultInOrder, OutputsAllOrNone, Finished, Ran
<1>6. CASE Derive
  <2>0. main.pc = "derive" /\ main.tmps = {}
    BY <1>0, <1>6, Zenon DEF Derive, ResultInOrder
  <2>1. Outcome' = Outcome /\ Declared' = Declared /\ ProgressDropped' = ProgressDropped
    BY <1>2, <2>0, Zenon
  <2>2. ASSUME NEW o, End(o, {}, ProgressDropped)
        PROVE  main'.pc = "end" /\ main'.tmps = main.tmps /\ done'.result = o /\ done'.outputs = {} /\ done'.dropped = ProgressDropped
    BY <1>0, <2>2, Zenon DEF End, MainType
  <2>3. CASE /\ main' = [main EXCEPT !.pc = "collect", !.todo = Declared, !.result = Outcome]
             /\ done' = done /\ Outcome.outcome = "success" /\ Declared # {}
    <3>1. main'.pc = "collect" /\ main'.todo = Declared /\ main'.tmps = {} /\ main'.result = Outcome
      BY <1>0, <2>0, <2>3, Zenon DEF MainType
    <3> QED BY <1>1, <2>1, <2>3, <3>1, Zenon DEF ResultInOrder, OutputsAllOrNone, Finished, Ran
  <2>4. CASE End(Outcome, {}, ProgressDropped) /\ (Outcome.outcome = "success" => Declared = {})
    BY <1>1, <2>0, <2>1, <2>2, <2>4, Zenon DEF ResultInOrder, OutputsAllOrNone, Finished, Ran
  <2>5. CASE End(Result("crashed", "no_process_state", None), {}, ProgressDropped)
    <3>1. Result("crashed", "no_process_state", None).outcome = "crashed"
      BY Zenon DEF Result
    <3> QED BY <1>5, <2>0, <2>2, <2>5, <3>1, Zenon
  <2> QED BY <1>0, <1>6, <2>3, <2>4, <2>5, DeriveFacts, Zenon
<1>7. ASSUME NEW f \in {"missing", "link", "dir", "big", "full", "io"}, CollectError(f), main.pc = "collect", May("files")
      PROVE  ResultInOrder' /\ OutputsAllOrNone'
  <2>1. /\ main'.pc = "end" /\ main'.tmps = {} /\ done'.outputs = {} /\ done'.dropped = ProgressDropped
        /\ done'.result.outcome = "failed" /\ done'.result.reason \notin {"unknown_sigkill", "signal"}
    BY <1>0, <1>7, CollectErrorTyped, Zenon
  <2>2. Outcome' = Outcome /\ Declared' = Declared /\ ProgressDropped' = ProgressDropped /\ Outcome.outcome = "success" /\ May("files")'
    BY <1>0, <1>2, <1>7, Zenon DEF ResultInOrder, May
  <2> QED BY <1>1, <2>1, <2>2, Zenon DEF ResultInOrder, OutputsAllOrNone, Finished, Ran
<1>8. CASE CollectRefused
  BY <1>7, <1>8, Zenon DEF CollectRefused
<1>9. ASSUME NEW k \in Keys, collectOne(k) PROVE ResultInOrder' /\ OutputsAllOrNone'
  <2>0. main.pc = "collect" /\ k \in main.todo
    BY <1>9, Zenon DEF collectOne
  <2>1. CASE main' = [main EXCEPT !.todo = @ \ {k}, !.tmps = @ \cup {k}] /\ UNCHANGED done
    <3>1. main'.pc = "collect" /\ main'.todo \cup main'.tmps = main.todo \cup main.tmps /\ main'.result = main.result
      BY <1>0, <2>0, <2>1, Zenon DEF MainType
    <3> QED BY <1>0, <1>1, <1>2, <2>0, <3>1, Zenon DEF ResultInOrder, OutputsAllOrNone, Finished, Ran
  <2> QED BY <1>7, <1>9, <2>0, <2>1, Zenon DEF collectOne
<1>10. CASE Collected
  <2>0. main.pc = "collect" /\ main.todo = {} /\ End(main.result, main.tmps, ProgressDropped)
    BY <1>10, ZenonT(60) DEF Collected
  <2>1. /\ main'.pc = "end" /\ main'.tmps = main.tmps /\ done'.result = main.result /\ done'.outputs = main.tmps
        /\ done'.dropped = ProgressDropped
    BY <1>0, <2>0, Zenon DEF End, MainType
  <2>2. main.result = Outcome /\ Outcome.outcome = "success" /\ main.tmps = Declared
    BY <1>0, <2>0, Zenon DEF ResultInOrder
  <2>3. Outcome' = Outcome /\ Declared' = Declared /\ ProgressDropped' = ProgressDropped
    BY <1>2, <2>0, Zenon
  <2> QED BY <1>1, <2>1, <2>2, <2>3, Zenon DEF ResultInOrder, OutputsAllOrNone, Finished, Ran
<1> QED BY <1>0, <1>3, <1>4, <1>5, <1>6, <1>8, <1>9, <1>10, MainMoves, Zenon


-----------------------------------------------------------------------------
(* The lines of fd3.                                                       *)

\* A line is one of six.
LEMMA LineKinds ==
  ASSUME NEW l \in Fd3Line
  PROVE  /\ l.event \in {"output_file", "progress", "success", "fail", "malformed", "oversized"}
         /\ l.event = "output_file" => l.key \in Keys
BY Zenon DEF Fd3Line

\* The rows of Offence.
LEMMA OffenceRows ==
  ASSUME TypeOK, NEW i \in 1 .. Len(Lines)
  PROVE  /\ Lines[i] \in Fd3Line
         /\ i \in Finals <=> Lines[i].event \in {"success", "fail"}
         /\ Lines[i].event = "malformed" => Offence(i) = "event_protocol_error"
         /\ Lines[i].event = "oversized" => Offence(i) = "event_line_too_large"
         /\ Lines[i].event = "progress" => Offence(i) = None
         /\ Lines[i].event \in {"success", "fail"}
              => Offence(i) = IF \E j \in Finals : j < i THEN "duplicate_final_event" ELSE None
         /\ Lines[i].event = "output_file"
              => Offence(i) = IF /\ MaxOutputFiles > 0 /\ Lines[i].key \notin KeysBefore(i)
                                 /\ Cardinality(KeysBefore(i)) >= MaxOutputFiles
                              THEN "too_many_output_files" ELSE None
<1>1. Lines[i] \in Fd3Line
  BY ProcFields, SMTT(40)
<1>2. i \in Finals <=> Lines[i].event \in {"success", "fail"}
  BY Zenon DEF Finals, Events
<1>3. Lines[i].event = "malformed" => Offence(i) = "event_protocol_error"
  BY <1>2, Zenon DEF Offence
<1>4. Lines[i].event = "oversized" => Offence(i) = "event_line_too_large"
  BY <1>2, Zenon DEF Offence
<1>5. Lines[i].event = "progress" => Offence(i) = None
  BY <1>2, Zenon DEF Offence
<1>6. ASSUME Lines[i].event \in {"success", "fail"}
      PROVE  Offence(i) = IF \E j \in Finals : j < i THEN "duplicate_final_event" ELSE None
  BY <1>2, <1>6, Zenon DEF Offence
<1>7. ASSUME Lines[i].event = "output_file"
      PROVE  Offence(i) = IF /\ MaxOutputFiles > 0 /\ Lines[i].key \notin KeysBefore(i)
                             /\ Cardinality(KeysBefore(i)) >= MaxOutputFiles
                          THEN "too_many_output_files" ELSE None
  BY <1>2, <1>7, Zenon DEF Offence
<1> QED BY <1>1, <1>2, <1>3, <1>4, <1>5, <1>6, <1>7, Zenon

\* One more line changes nothing of what is said of those before it.
LEMMA LinesGrow ==
  ASSUME TypeOK, NEW l \in Fd3Line, Lines' = Append(Lines, l)
  PROVE  /\ Len(Lines') = Len(Lines) + 1 /\ \A i \in 1 .. Len(Lines) : Lines'[i] = Lines[i]
         /\ \A kind : Events(kind)' \cap (1 .. Len(Lines)) = Events(kind)
         /\ Finals' \cap (1 .. Len(Lines)) = Finals /\ Finals \subseteq 1 .. Len(Lines) /\ Finals' \subseteq 1 .. Len(Lines) + 1
         /\ \A i \in 1 .. Len(Lines) + 1 : KeysBefore(i)' = KeysBefore(i)
         /\ \A i \in 1 .. Len(Lines) : Offence(i)' = Offence(i)
         /\ Offending' \cap (1 .. Len(Lines)) = Offending /\ Offending' \subseteq 1 .. Len(Lines) + 1
<1>1. Lines \in Seq(Fd3Line) /\ Len(Lines) \in Nat
  BY ProcFields, Zenon
<1>2. Len(Lines') = Len(Lines) + 1 /\ \A i \in 1 .. Len(Lines) : Lines'[i] = Lines[i]
  BY <1>1
<1>3. 1 .. Len(Lines) \subseteq 1 .. Len(Lines')
  BY <1>1, <1>2
<1>4. ASSUME NEW kind PROVE Events(kind)' \cap (1 .. Len(Lines)) = Events(kind) /\ Events(kind) \subseteq 1 .. Len(Lines)
  BY <1>2, <1>3, Zenon DEF Events
<1>5. /\ Finals' \cap (1 .. Len(Lines)) = Finals /\ Finals \subseteq 1 .. Len(Lines)
      /\ Finals' \subseteq 1 .. Len(Lines) + 1
  BY <1>2, <1>4, SMTT(40) DEF Finals, Events
<1>6. ASSUME NEW i \in 1 .. Len(Lines) + 1 PROVE KeysBefore(i)' = KeysBefore(i)
  <2>1. {j \in Events("output_file")' : j < i} = {j \in Events("output_file") : j < i}
    <3>1. \A j \in Events("output_file")' : j < i => j \in 1 .. Len(Lines)
      BY <1>1, <1>2, SMTT(40) DEF Events
    <3> QED BY <1>4, <3>1, Zenon
  <2>2. \A j \in {j \in Events("output_file") : j < i} : Lines'[j].key = Lines[j].key
    BY <1>2, <1>4, Zenon
  <2> QED BY <2>1, <2>2, Zenon DEF KeysBefore
<1>7. ASSUME NEW i \in 1 .. Len(Lines) PROVE Offence(i)' = Offence(i)
  <2>1. i \in 1 .. Len(Lines') /\ i \in 1 .. Len(Lines) + 1 /\ Lines'[i] = Lines[i] /\ KeysBefore(i)' = KeysBefore(i)
    BY <1>1, <1>2, <1>3, <1>6, Zenon
  <2>2. (\E j \in Finals' : j < i) <=> (\E j \in Finals : j < i)
    <3>1. \A j \in Finals' : j < i => j \in 1 .. Len(Lines)
      BY <1>1, <1>5
    <3> QED BY <1>5, <3>1, Zenon
  <2>3. i \in Finals' <=> i \in Finals
    BY <1>5, Zenon
  <2> QED BY <2>1, <2>2, <2>3, Zenon DEF Offence
<1>8. Offending' \cap (1 .. Len(Lines)) = Offending /\ Offending' \subseteq 1 .. Len(Lines) + 1
  BY <1>2, <1>3, <1>7, Zenon DEF Offending
<1> QED BY <1>2, <1>4, <1>5, <1>6, <1>7, <1>8, Zenon

\* The definitions that speak of the lines speak of nothing else.
LEMMA SameLines ==
  ASSUME Lines' = Lines
  PROVE  /\ \A kind : Events(kind)' = Events(kind)
         /\ Finals' = Finals /\ \A i : KeysBefore(i)' = KeysBefore(i) /\ Offence(i)' = Offence(i)
         /\ Offending' = Offending
<1>1. \A kind : Events(kind)' = Events(kind)
  BY Zenon DEF Events
<1>2. Finals' = Finals /\ \A i : KeysBefore(i)' = KeysBefore(i)
  BY <1>1, Zenon DEF Finals, KeysBefore
<1>3. \A i : Offence(i)' = Offence(i)
  BY <1>2, Zenon DEF Offence
<1> QED BY <1>1, <1>2, <1>3, Zenon DEF Offending

-----------------------------------------------------------------------------
(* The reader.                                                             *)

\* The first violation is kept whatever comes after it.
LEMMA RecordFacts ==
  ASSUME NEW s \in ReaderType, Len(s.viol) <= MaxRecordedViolations, NEW v \in Violation
  PROVE  LET r == recordViolation(s, v)
         IN /\ r \in ReaderType /\ Len(r.viol) <= MaxRecordedViolations /\ r.viol # <<>>
            /\ r.viol[1] = IF s.viol = <<>> THEN v ELSE s.viol[1]
            /\ r.pc = s.pc /\ r.final = s.final /\ r.outs = s.outs /\ r.drops = s.drops
<1>1. s.viol \in Seq(Violation) /\ Len(s.viol) \in Nat
  BY SMTT(40) DEF ReaderType
<1>2. CASE Len(s.viol) >= MaxRecordedViolations
  <2>1. recordViolation(s, v) = s
    BY <1>2, Zenon DEF recordViolation
  <2>2. s.viol # <<>>
    BY <1>1, <1>2, Limits
  <2> QED BY <2>1, <2>2, Zenon
<1>3. CASE ~(Len(s.viol) >= MaxRecordedViolations)
  <2>1. PICK t : t = Append(s.viol, v)
    BY Zenon
  <2>2. recordViolation(s, v) = [s EXCEPT !.viol = t]
    BY <1>3, <2>1, Zenon DEF recordViolation
  <2>3. t \in Seq(Violation) /\ Len(t) = Len(s.viol) + 1 /\ t # <<>> /\ t[1] = IF s.viol = <<>> THEN v ELSE s.viol[1]
    BY <1>1, <2>1, SMTT(40)
  <2>4. Len(t) <= MaxRecordedViolations
    BY <1>1, <1>3, <2>3, Limits
  <2> QED BY <2>2, <2>3, <2>4, Zenon DEF ReaderType
<1> QED BY <1>2, <1>3, Zenon

\* What the reader makes of a line, kind by kind.
LEMMA HandleFacts ==
  ASSUME TypeOK, NEW l \in Fd3Line
  PROVE  LET h == handleLine(reader, l)
         IN /\ l.event = "progress" => h = IF progress.queued < ProgressSlots THEN reader ELSE [reader EXCEPT !.drops = @ + 1]
            /\ l.event = "output_file" => h = declareOutput(reader, l.key)
            /\ l.event \in {"success", "fail"} => h = setFinal(reader, l.event)
            /\ l.event = "oversized" => h = recordViolation(reader, "event_line_too_large")
            /\ l.event = "malformed" => h = recordViolation(reader, "event_protocol_error")
BY Zenon DEF handleLine

\* A line that is not accepted adds a violation and changes nothing else; one that is
\* accepted adds none.
Refused(l) ==
    \/ l.event \in {"oversized", "malformed"}
    \/ l.event \in {"success", "fail"} /\ reader.final # None
    \/ /\ l.event = "output_file" /\ MaxOutputFiles > 0 /\ l.key \notin reader.outs
       /\ Cardinality(reader.outs) >= MaxOutputFiles
Fault(l) == CASE l.event = "oversized" -> "event_line_too_large"
              [] l.event = "malformed" -> "event_protocol_error"
              [] l.event = "output_file" -> "too_many_output_files"
              [] OTHER -> "duplicate_final_event"

LEMMA RefusedFacts ==
  ASSUME TypeOK, NEW l \in Fd3Line, Refused(l)
  PROVE  handleLine(reader, l) = recordViolation(reader, Fault(l)) /\ Fault(l) \in Violation
<1>1. CASE l.event = "oversized"
  BY <1>1, Zenon DEF handleLine, Fault, Violation
<1>2. CASE l.event = "malformed"
  BY <1>2, Zenon DEF handleLine, Fault, Violation
<1>3. CASE l.event \in {"success", "fail"}
  <2>1. reader.final # None
    BY <1>3, Zenon DEF Refused
  <2> QED BY <1>3, <2>1, HandleFacts, Zenon DEF setFinal, Fault, Violation
<1>4. CASE l.event = "output_file"
  <2>1. MaxOutputFiles > 0 /\ l.key \notin reader.outs /\ Cardinality(reader.outs) >= MaxOutputFiles
    BY <1>4, Zenon DEF Refused
  <2> QED BY <1>4, <2>1, HandleFacts, Zenon DEF declareOutput, Fault, Violation
<1>5. l.event # "progress"
  BY Zenon DEF Refused
<1> QED BY <1>1, <1>2, <1>3, <1>4, <1>5, LineKinds, Zenon

LEMMA AcceptedFacts ==
  ASSUME TypeOK, NEW l \in Fd3Line, ~Refused(l)
  PROVE  LET h == handleLine(reader, l)
         IN /\ h \in ReaderType /\ h.viol = reader.viol /\ h.pc = reader.pc
            /\ h.final = IF l.event \in {"success", "fail"} THEN l.event ELSE reader.final
            /\ h.outs = IF l.event = "output_file" THEN reader.outs \cup {l.key} ELSE reader.outs
            /\ h.drops = IF l.event = "progress" /\ ~(progress.queued < ProgressSlots) THEN reader.drops + 1 ELSE reader.drops
<1>0. reader \in ReaderType /\ l.event \in {"progress", "success", "fail", "output_file"}
  BY LineKinds, ZenonT(60) DEF TypeOK, Refused
<1>1. CASE l.event = "progress"
  BY <1>0, <1>1, HandleFacts DEF ReaderType
<1>2. CASE l.event \in {"success", "fail"}
  <2>1. reader.final = None
    BY <1>2, Zenon DEF Refused
  <2>2. handleLine(reader, l) = [reader EXCEPT !.final = l.event]
    BY <1>2, <2>1, HandleFacts, Zenon DEF setFinal
  <2> QED BY <1>0, <1>2, <2>2, Zenon DEF ReaderType
<1>3. CASE l.event = "output_file"
  <2>1. handleLine(reader, l) = [reader EXCEPT !.outs = @ \cup {l.key}]
    BY <1>3, HandleFacts, Zenon DEF declareOutput, Refused
  <2>2. l.key \in Keys
    BY <1>3, LineKinds, Zenon
  <2> QED BY <1>0, <1>3, <2>1, <2>2 DEF ReaderType
<1> QED BY <1>0, <1>1, <1>2, <1>3, ZenonT(60)


\* One line read.
LEMMA ReadReader ==
  ASSUME TypeOK, ReadFd3
  PROVE  LET l == Head(fd3)
         IN /\ l \in Fd3Line /\ reader' \in ReaderType /\ Len(reader'.viol) <= MaxRecordedViolations /\ reader'.pc = "check"
            /\ Refused(l) => /\ reader'.viol # <<>> /\ reader'.viol[1] = (IF reader.viol = <<>> THEN Fault(l) ELSE reader.viol[1])
                             /\ reader'.final = reader.final /\ reader'.outs = reader.outs /\ reader'.drops = reader.drops
            /\ ~Refused(l) =>
                 /\ reader'.viol = reader.viol
                 /\ reader'.final = IF l.event \in {"success", "fail"} THEN l.event ELSE reader.final
                 /\ reader'.outs = IF l.event = "output_file" THEN reader.outs \cup {l.key} ELSE reader.outs
                 /\ reader'.drops = IF l.event = "progress" /\ ~(progress.queued < ProgressSlots) THEN reader.drops + 1 ELSE reader.drops
<1>1. PICK l : l = Head(fd3)
  BY Zenon
<1>2. l \in Fd3Line
  BY <1>1, ProcFields DEF ReadFd3
<1>3. PICK h : h = handleLine(reader, l)
  BY Zenon
<1>4. reader' = [h EXCEPT !.pc = "check"]
  BY <1>1, <1>3, Zenon DEF ReadFd3
<1>5. reader \in ReaderType /\ Len(reader.viol) <= MaxRecordedViolations
  BY Zenon DEF TypeOK
<1>6. CASE Refused(l)
  <2>1. PICK v \in Violation : v = Fault(l) /\ h = recordViolation(reader, v)
    BY <1>2, <1>3, <1>6, RefusedFacts, Zenon
  <2>2. /\ h \in ReaderType /\ Len(h.viol) <= MaxRecordedViolations /\ h.viol # <<>>
        /\ h.viol[1] = IF reader.viol = <<>> THEN v ELSE reader.viol[1]
        /\ h.final = reader.final /\ h.outs = reader.outs /\ h.drops = reader.drops
    BY <1>5, <2>1, RecordFacts, Zenon
  <2> QED BY <1>1, <1>2, <1>4, <1>6, <2>1, <2>2, Zenon DEF ReaderType
<1>7. CASE ~Refused(l)
  <2>1. /\ h \in ReaderType /\ h.viol = reader.viol
        /\ h.final = IF l.event \in {"success", "fail"} THEN l.event ELSE reader.final
        /\ h.outs = IF l.event = "output_file" THEN reader.outs \cup {l.key} ELSE reader.outs
        /\ h.drops = IF l.event = "progress" /\ ~(progress.queued < ProgressSlots) THEN reader.drops + 1 ELSE reader.drops
    BY <1>2, <1>3, <1>7, AcceptedFacts, Zenon
  <2>2. /\ reader' \in ReaderType /\ reader'.viol = h.viol /\ reader'.final = h.final /\ reader'.outs = h.outs
        /\ reader'.drops = h.drops /\ reader'.pc = "check"
    BY <1>4, <2>1, Zenon DEF ReaderType
  <2> QED BY <1>1, <1>2, <1>5, <1>7, <2>1, <2>2, ZenonT(60)
<1> QED BY <1>6, <1>7, ZenonT(60)

\* The line that is read is the first that has not been.
LEMMA ReadPlace ==
  ASSUME TypeOK, LinesInOrder, ReadFd3, env.late = <<>>
  PROVE  /\ Handled \in Nat /\ Handled + 1 \in 1 .. Len(Lines) /\ Head(fd3) = Lines[Handled + 1]
         /\ Lines' = Lines /\ Handled' = Handled + 1
         /\ \A i \in 1 .. Len(fd3') : fd3'[i] = Lines[Handled' + i]
<1>1. fd3 \in Seq(Fd3Line) /\ Len(fd3) \in Nat /\ Len(Lines) \in Nat /\ fd3 # <<>> /\ fd3' = Tail(fd3) /\ proc' = proc
  BY ProcFields, Zenon DEF ReadFd3
<1>2. Handled >= 0 /\ \A i \in 1 .. Len(fd3) : fd3[i] = Lines[Handled + i]
  BY Zenon DEF LinesInOrder
<1>3. Len(fd3) >= 1 /\ Len(fd3') = Len(fd3) - 1 /\ Head(fd3) = fd3[1] /\ \A i \in 1 .. Len(fd3) - 1 : fd3'[i] = fd3[i + 1]
  BY <1>1, SMTT(40)
<1>4. Handled \in Nat /\ Handled + 1 \in 1 .. Len(Lines) /\ 1 \in 1 .. Len(fd3)
  BY <1>1, <1>2, <1>3 DEF Handled
<1>5. Lines' = Lines
  BY <1>1, Zenon DEF Lines
<1>6. Handled' = Handled + 1
  BY <1>1, <1>3, <1>5, SMTT(40) DEF Handled
<1>7. ASSUME NEW i \in 1 .. Len(fd3') PROVE fd3'[i] = Lines[Handled' + i]
  <2>1. i \in 1 .. Len(fd3) - 1 /\ i + 1 \in 1 .. Len(fd3) /\ Handled + (i + 1) = (Handled + 1) + i
    BY <1>1, <1>3, <1>4, SMTT(40)
  <2> QED BY <1>2, <1>3, <1>6, <2>1, Zenon
<1> QED BY <1>2, <1>3, <1>4, <1>5, <1>6, <1>7, ZenonT(60)

\* The reader keeps the first final event.
LEMMA ReadFinal ==
  ASSUME TypeOK, LinesInOrder, ReadFd3, env.late = <<>>
  PROVE  FinalIsFirst'
<1>1. PICK H, l : H = Handled /\ l = Lines[H + 1]
  BY Zenon
<1>2. H \in Nat /\ H + 1 \in 1 .. Len(Lines) /\ Head(fd3) = l /\ Lines' = Lines /\ Handled' = H + 1 /\ Finals' = Finals
  BY <1>1, ReadPlace, SameLines, Zenon
<1>3. H + 1 \in Finals <=> l.event \in {"success", "fail"}
  BY <1>1, <1>2, OffenceRows, Zenon
<1>4. Finals \subseteq Nat
  BY SMTT(40) DEF Finals, Events
<1>5. CASE reader.final = None /\ \A i \in Finals : i > H
  <2>1. CASE H + 1 \in Finals
    <3>1. ~Refused(l) /\ reader'.final = l.event
      BY <1>2, <1>3, <1>5, <2>1, ReadReader, Zenon DEF Refused
    <3>2. \A j \in Finals : H + 1 <= j
      BY <1>2, <1>4, <1>5
    <3>3. H + 1 <= H + 1
      BY <1>2, SMTT(40)
    <3> QED BY <1>1, <1>2, <2>1, <3>1, <3>2, <3>3, Zenon DEF FinalIsFirst
  <2>2. CASE H + 1 \notin Finals
    <3>1. reader'.final = None
      BY <1>2, <1>3, <1>5, <2>2, ReadReader, Zenon
    <3>2. \A i \in Finals : i > H + 1
      BY <1>2, <1>4, <1>5, <2>2, SMTT(40)
    <3> QED BY <1>2, <3>1, <3>2, Zenon DEF FinalIsFirst
  <2> QED BY <2>1, <2>2, Zenon
<1>6. CASE \E i \in Finals : i <= H /\ reader.final = Lines[i].event /\ \A j \in Finals : i <= j
  <2>1. PICK i \in Finals : i <= H /\ reader.final = Lines[i].event /\ \A j \in Finals : i <= j
    BY <1>6, Zenon
  <2>2. reader.final # None
    BY <2>1, Zenon DEF Finals, Events, None
  <2>3. reader'.final = reader.final
    BY <1>2, <2>2, ReadReader, Zenon DEF Refused
  <2>4. i <= H + 1
    BY <1>2, <1>4, <2>1
  <2> QED BY <1>2, <2>1, <2>3, <2>4, Zenon DEF FinalIsFirst
<1> QED BY <1>1, <1>5, <1>6, Zenon DEF LinesInOrder, FinalIsFirst

\* The reader refuses what offends, and keeps the first offence.
LEMMA ReadViolation ==
  ASSUME TypeOK, LinesInOrder, ReadFd3, env.late = <<>>
  PROVE  ViolationIsFirst'
<1>1. PICK H, l : H = Handled /\ l = Lines[H + 1]
  BY Zenon
<1>2. /\ H \in Nat /\ H + 1 \in 1 .. Len(Lines) /\ Head(fd3) = l /\ l \in Fd3Line /\ Lines' = Lines /\ Handled' = H + 1
      /\ Offending' = Offending
  BY <1>1, ReadPlace, SameLines, ReadReader, Zenon
<1>3. Offending \subseteq Nat /\ \A i : KeysBefore(i)' = KeysBefore(i) /\ Offence(i)' = Offence(i)
  BY <1>2, SameLines, SMTT(40) DEF Offending
<1>4. CASE reader.viol # <<>> /\ \E i \in Offending : i <= H /\ reader.viol[1] = Offence(i) /\ \A j \in Offending : i <= j
  <2>1. PICK i \in Offending : i <= H /\ reader.viol[1] = Offence(i) /\ \A j \in Offending : i <= j
    BY <1>4, Zenon
  <2>2. reader'.viol # <<>> /\ reader'.viol[1] = reader.viol[1] /\ i <= H + 1
    BY <1>2, <1>3, <1>4, <2>1, ReadReader, SMTT(40)
  <2> QED BY <1>2, <1>3, <2>1, <2>2, Zenon DEF ViolationIsFirst
<1>5. CASE reader.viol = <<>> /\ (\A i \in Offending : i > H) /\ reader.outs = KeysBefore(H + 1)
  <2>1. reader.final # None <=> \E j \in Finals : j < H + 1
    <3>1. Finals \subseteq Nat
      BY DEF Finals, Events
    <3>2. CASE reader.final = None /\ \A i \in Finals : i > H
      <4>1. \A j \in Nat : j > H => ~(j < H + 1)
        BY <1>2
      <4> QED BY <3>1, <3>2, <4>1, Zenon
    <3>3. CASE \E i \in Finals : i <= H /\ reader.final = Lines[i].event /\ \A j \in Finals : i <= j
      <4>1. PICK i \in Finals : i <= H /\ reader.final = Lines[i].event
        BY <3>3, Zenon
      <4>2. reader.final # None /\ i < H + 1
        BY <1>2, <3>1, <4>1, SMTT(40) DEF Finals, Events, None
      <4> QED BY <4>1, <4>2, Zenon
    <3> QED BY <1>1, <3>2, <3>3, Zenon DEF LinesInOrder, FinalIsFirst
  <2>2. ASSUME Refused(l) PROVE Offence(H + 1) = Fault(l) /\ Offence(H + 1) # None
    <3>1. CASE l.event \in {"oversized", "malformed"}
      BY <1>1, <1>2, <3>1, OffenceRows, Zenon DEF Fault, None
    <3>2. CASE l.event \in {"success", "fail"}
      BY <1>1, <1>2, <2>1, <2>2, <3>2, OffenceRows, Zenon DEF Refused, Fault, None
    <3>3. CASE l.event = "output_file"
      BY <1>1, <1>2, <1>5, <2>2, <3>3, OffenceRows, Zenon DEF Refused, Fault, None
    <3> QED BY <2>2, <3>1, <3>2, <3>3, Zenon DEF Refused
  <2>3. ASSUME ~Refused(l) PROVE Offence(H + 1) = None
    <3>1. CASE l.event = "progress"
      BY <1>1, <1>2, <3>1, OffenceRows, Zenon
    <3>2. CASE l.event \in {"success", "fail"}
      BY <1>1, <1>2, <2>1, <2>3, <3>2, OffenceRows, Zenon DEF Refused
    <3>3. CASE l.event = "output_file"
      BY <1>1, <1>2, <1>5, <2>3, <3>3, OffenceRows, Zenon DEF Refused
    <3> QED BY <1>2, <2>3, <3>1, <3>2, <3>3, LineKinds, Zenon DEF Refused
  <2>4. CASE Refused(l)
    <3>1. reader'.viol # <<>> /\ reader'.viol[1] = Offence(H + 1)
      BY <1>2, <1>5, <2>2, <2>4, ReadReader, Zenon
    <3>2. H + 1 \in Offending /\ H + 1 <= H + 1 /\ \A j \in Offending : H + 1 <= j
      BY <1>2, <1>3, <1>5, <2>2, <2>4, SMTT(40) DEF Offending
    <3> QED BY <1>2, <1>3, <3>1, <3>2, Zenon DEF ViolationIsFirst
  <2>5. CASE ~Refused(l)
    <3>1. reader'.viol = <<>> /\ reader'.outs = IF l.event = "output_file" THEN reader.outs \cup {l.key} ELSE reader.outs
      BY <1>2, <1>5, <2>5, ReadReader, ZenonT(60)
    <3>2. \A i \in Offending : i > H + 1
      <4>1. H + 1 \notin Offending
        BY <2>3, <2>5, Zenon DEF Offending
      <4>2. \A i \in Nat : i > H /\ i # H + 1 => i > H + 1
        BY <1>2, SMTT(40)
      <4> QED BY <1>3, <1>5, <4>1, <4>2, Zenon
    <3>3. KeysBefore((H + 1) + 1) = IF l.event = "output_file" THEN KeysBefore(H + 1) \cup {l.key} ELSE KeysBefore(H + 1)
      <4>1. Events("output_file") \subseteq Nat /\ (H + 1 \in Events("output_file") <=> l.event = "output_file")
        BY <1>1, <1>2, SMTT(40) DEF Events
      <4>2. \A j \in Events("output_file") : j < (H + 1) + 1 <=> j < H + 1 \/ j = H + 1
        BY <1>2, <4>1, SMTT(40)
      <4> QED BY <1>1, <4>1, <4>2, Zenon DEF KeysBefore
    <3> QED BY <1>2, <1>3, <1>5, <3>1, <3>2, <3>3, Zenon DEF ViolationIsFirst
  <2> QED BY <2>4, <2>5, Zenon
<1> QED BY <1>1, <1>4, <1>5, ZenonT(60) DEF LinesInOrder, ViolationIsFirst


\* How a step changes the lines, when no descendant writes any.
LEMMA LinesMove ==
  ASSUME TypeOK, Next, env.late = <<>>
  PROVE  \/ \E l \in Fd3Line : /\ Operate /\ IsMission /\ Alive(proc) /\ Lines' = Append(Lines, l) /\ fd3' = Append(fd3, l)
         \/ ReadFd3
         \/ Lines' = Lines /\ fd3' = fd3
<1>0. proc \in ProcType /\ proc.wrote \in [fd3 : Seq(Fd3Line), stdout : Seq(Token), stderr : Seq(Token)]
  BY ProcFields, Zenon
<1>1. CASE Operate
  <2>1. ASSUME NEW l \in Fd3Line, proc' = [proc EXCEPT !.at = @ + 1, !.wrote.fd3 = Append(@, l)] PROVE Lines' = Append(Lines, l)
    BY <1>0, <2>1, Zenon DEF Lines, ProcType
  <2>2. ASSUME NEW x \in Streams, NEW l \in Token, proc' = [proc EXCEPT !.at = @ + 1, !.wrote[x] = Append(@, l)] PROVE Lines' = Lines
    BY <1>0, <2>2, Zenon DEF Lines, ProcType, Streams
  <2>3. Dies(-1, "PIPE") => Lines' = Lines
    BY <1>0, Zenon DEF Lines, Dies, ProcType
  <2> QED BY <1>1, <2>1, <2>2, <2>3, OperateFacts, ZenonT(60) DEF Alive
<1>2. CASE ~Operate
  <2>1. Lines' = Lines
    BY <1>2, WroteSame, Zenon DEF Lines
  <2>2. Linger => fd3' = fd3
    <3>1. desc.at \in Nat /\ Len(env.late) = 0
      BY DEF TypeOK, DescType
    <3> QED BY <3>1, SMTT(40) DEF Linger
  <2>3. Spawn \/ OpenEventsFails \/ (\E w \in Watchers : SendSignal(w)) \/ Quit \/ TakeSignal \/ Reap => fd3' = fd3
    BY Zenon DEF Spawn, OpenEventsFails, SendSignal, Quit, TakeSignal, Reap
  <2>4. Reading => ReadFd3 \/ fd3' = fd3
    BY Zenon DEF Reading, ReaderChecks, ReadEOF
  <2> QED BY <1>2, <2>1, <2>2, <2>3, <2>4, WhoProc, Zenon
<1> QED BY <1>1, <1>2, Zenon

\* How a step changes the reader.
LEMMA ReaderMoves ==
  ASSUME TypeOK, Next
  PROVE  /\ reader' \in ReaderType /\ Len(reader'.viol) <= MaxRecordedViolations
         /\ \/ ReadFd3
            \/ /\ reader'.final = reader.final /\ reader'.viol = reader.viol /\ reader'.outs = reader.outs
               /\ reader'.drops = reader.drops
<1>1. reader \in ReaderType /\ Len(reader.viol) <= MaxRecordedViolations
  BY Zenon DEF TypeOK
<1>2. CASE ReadFd3
  BY <1>2, ReadReader, Zenon
<1>3. ASSUME NEW pc \in {"off", "check", "read", "done"}, reader' = [reader EXCEPT !.pc = pc]
      PROVE  /\ reader' \in ReaderType /\ reader'.final = reader.final /\ reader'.viol = reader.viol
             /\ reader'.outs = reader.outs /\ reader'.drops = reader.drops
  BY <1>1, <1>3, Zenon DEF ReaderType
<1>4. CASE OpenEvents
  <2>1. reader' = [reader EXCEPT !.pc = "check"] \/ reader' = [reader EXCEPT !.pc = "done"]
    BY <1>4, Zenon DEF OpenEvents
  <2> QED BY <1>1, <1>3, <2>1, Zenon
<1>5. CASE ReaderChecks \/ ReadEOF \/ JoinReader
  <2>1. reader' = [reader EXCEPT !.pc = "read"] \/ reader' = [reader EXCEPT !.pc = "done"] \/ reader' = reader
    BY <1>5, Zenon DEF ReaderChecks, ReadEOF, JoinReader, ReaderStops
  <2> QED BY <1>1, <1>3, <2>1, Zenon
<1>6. CASE Writing \/ UNCHANGED goroutines
  BY <1>1, <1>6, Zenon DEF Writing, WriterChecks, WriterTakes, WriterWakes, goroutines
<1> QED BY <1>2, <1>4, <1>5, <1>6, WhoFd3, Zenon DEF Reading

\* What the reader has made of the lines it has read stays true of one line more.
LEMMA WrittenKept ==
  ASSUME TypeOK, LinesInOrder, env.late = <<>>, NEW l \in Fd3Line, Lines' = Append(Lines, l), fd3' = Append(fd3, l),
         reader' = reader
  PROVE  /\ Handled' = Handled /\ \A i \in 1 .. Len(fd3') : fd3'[i] = Lines'[Handled' + i]
         /\ FinalIsFirst' /\ ViolationIsFirst' /\ ProgressSeen' = ProgressSeen
<1>1. PICK H, n : H = Handled /\ n = Len(Lines)
  BY Zenon
<1>2. fd3 \in Seq(Fd3Line) /\ Len(fd3) \in Nat /\ Lines \in Seq(Fd3Line) /\ n \in Nat /\ Len(fd3') = Len(fd3) + 1 /\ Len(Lines') = n + 1
  BY <1>1, ProcFields
<1>3. H \in Nat /\ H = n - Len(fd3) /\ H <= n /\ Handled' = H
  BY <1>1, <1>2, SMTT(40) DEF Handled, LinesInOrder
<1>4. ASSUME NEW i \in 1 .. Len(fd3') PROVE fd3'[i] = Lines'[Handled' + i]
  <2>1. CASE i \in 1 .. Len(fd3)
    <3>1. fd3'[i] = fd3[i] /\ H + i \in 1 .. n /\ fd3[i] = Lines[H + i]
      BY <1>1, <1>2, <1>3, <2>1, SMTT(40) DEF LinesInOrder
    <3> QED BY <1>1, <1>3, <3>1, LinesGrow, Zenon
  <2>2. CASE i = Len(fd3) + 1
    <3>1. fd3'[i] = l /\ H + i = n + 1
      BY <1>2, <1>3, <2>2, SMTT(40)
    <3>2. Lines'[n + 1] = l
      BY <1>1, <1>2
    <3> QED BY <1>3, <3>1, <3>2, ZenonT(60)
  <2>3. i \in 1 .. Len(fd3) + 1
    BY <1>2, Zenon
  <2>4. \A m \in Nat : \A k \in 1 .. m + 1 : k \in 1 .. m \/ k = m + 1
    OBVIOUS
  <2> QED BY <1>2, <2>1, <2>2, <2>3, <2>4, ZenonT(60)
<1>5. /\ Finals' \cap (1 .. n) = Finals /\ Finals \subseteq 1 .. n /\ Finals' \subseteq 1 .. n + 1
      /\ \A i \in Finals : Lines'[i] = Lines[i]
  BY <1>1, LinesGrow, Zenon
<1>6. FinalIsFirst'
  <2>1. \A i \in Finals' : i \in Finals \/ i > n
    BY <1>2, <1>5, SMTT(40)
  <2>2. CASE reader.final = None /\ \A i \in Finals : i > H
    <3>1. \A i \in Finals' : i > H
      BY <1>2, <1>3, <1>5, <2>1, <2>2, SMTT(40)
    <3> QED BY <1>3, <2>2, <3>1, Zenon DEF FinalIsFirst
  <2>3. CASE \E i \in Finals : i <= H /\ reader.final = Lines[i].event /\ \A j \in Finals : i <= j
    <3>1. PICK i \in Finals : i <= H /\ reader.final = Lines[i].event /\ \A j \in Finals : i <= j
      BY <2>3, Zenon
    <3>2. i \in Finals' /\ Lines'[i] = Lines[i] /\ i \in Nat
      BY <1>2, <1>5
    <3>3. \A j \in Finals' : i <= j
      <4>1. i <= n /\ Finals' \subseteq Nat
        BY <1>2, <1>3, <1>5, <3>1, <3>2, SMTT(40)
      <4>2. \A j \in Nat : j > n => i <= j
        BY <1>2, <3>2, <4>1, SMTT(40)
      <4> QED BY <2>1, <3>1, <4>1, <4>2, ZenonT(60)
    <3> QED BY <1>3, <3>1, <3>2, <3>3, ZenonT(60) DEF FinalIsFirst
  <2> QED BY <1>1, <2>2, <2>3, ZenonT(60) DEF LinesInOrder, FinalIsFirst
<1>7. /\ Offending' \cap (1 .. n) = Offending /\ Offending \subseteq 1 .. n /\ Offending' \subseteq 1 .. n + 1
      /\ (\A i \in Offending : Offence(i)' = Offence(i)) /\ \A i \in 1 .. n + 1 : KeysBefore(i)' = KeysBefore(i)
  <2>1. Offending \subseteq 1 .. n
    BY <1>1, Zenon DEF Offending
  <2> QED BY <1>1, <2>1, LinesGrow, Zenon
<1>8. ViolationIsFirst'
  <2>1. \A i \in Offending' : i \in Offending \/ i > n
    BY <1>2, <1>7, SMTT(40)
  <2>2. CASE reader.viol = <<>> /\ (\A i \in Offending : i > H) /\ reader.outs = KeysBefore(H + 1)
    <3>1. \A i \in Offending' : i > H
      BY <1>2, <1>3, <1>7, <2>1, <2>2, SMTT(40)
    <3>2. H + 1 \in 1 .. n + 1
      BY <1>2, <1>3, SMTT(40)
    <3>3. reader'.outs = KeysBefore(H + 1)'
      BY <1>7, <2>2, <3>2, Zenon
    <3> QED BY <1>3, <2>2, <3>1, <3>3, Zenon DEF ViolationIsFirst
  <2>3. CASE reader.viol # <<>> /\ \E i \in Offending : i <= H /\ reader.viol[1] = Offence(i) /\ \A j \in Offending : i <= j
    <3>1. PICK i \in Offending : i <= H /\ reader.viol[1] = Offence(i) /\ \A j \in Offending : i <= j
      BY <2>3, Zenon
    <3>2. i \in Offending' /\ Offence(i)' = Offence(i) /\ i \in Nat
      BY <1>2, <1>7, SMTT(40)
    <3>3. \A j \in Offending' : i <= j
      <4>1. i <= n /\ Offending' \subseteq Nat
        BY <1>2, <1>3, <1>7, <3>1, <3>2, SMTT(40)
      <4>2. \A j \in Nat : j > n => i <= j
        BY <1>2, <3>2, <4>1, SMTT(40)
      <4> QED BY <2>1, <3>1, <4>1, <4>2, Zenon
    <3> QED BY <1>3, <2>3, <3>1, <3>2, <3>3, Zenon DEF ViolationIsFirst
  <2> QED BY <1>1, <2>2, <2>3, Zenon DEF LinesInOrder, ViolationIsFirst
<1>9. ProgressSeen' = ProgressSeen
  <2>1. Events("progress")' \cap (1 .. n) = Events("progress")
    BY <1>1, LinesGrow, Zenon
  <2>2. Events("progress")' \subseteq 1 .. n + 1 /\ \A i \in 1 .. n + 1 : i <= H => i \in 1 .. n
    BY <1>2, <1>3 DEF Events
  <2> QED BY <1>1, <1>3, <2>1, <2>2, Zenon DEF ProgressSeen
<1> QED BY <1>1, <1>3, <1>4, <1>6, <1>8, <1>9, ZenonT(60)


\* A process that does not run does not start again.
LEMMA NotRevived ==
  ASSUME TypeOK, Next, ~Alive(proc), ~Spawn
  PROVE  ~Alive(proc')
<1>0. proc \in ProcType
  BY Zenon DEF TypeOK
<1>1. ~Operate /\ ~Quit /\ ~TakeSignal
  BY ZenonT(60) DEF Operate, Quit, TakeSignal
<1>2. ASSUME NEW sig, killProcessGroup(sig) PROVE proc' = proc
  BY <1>2, Zenon DEF killProcessGroup
<1>3. OpenEventsFails \/ (\E w \in Watchers : SendSignal(w)) \/ Linger \/ Reading => proc' = proc
  BY <1>2, Zenon DEF OpenEventsFails, SendSignal, Linger, Reading, ReaderChecks, ReadFd3, ReadEOF
<1>4. Reap => proc'.st = "reaped"
  BY <1>0, Zenon DEF Reap, ProcType
<1> QED BY <1>1, <1>3, <1>4, WhoProc, Zenon DEF Alive

\* How a step changes the counts of the progress events: no event is lost between the
\* reader, the channel and the writer.
Counted == writer.appended + writer.dropped + reader.drops + progress.queued
LEMMA ProgressMoves ==
  ASSUME TypeOK, Next
  PROVE  /\ progress' \in ProgressType /\ writer' \in WriterType
         /\ Counted' = IF ReadFd3 /\ Head(fd3).event = "progress" THEN Counted + 1 ELSE Counted
<1>1. /\ progress \in ProgressType /\ progress.queued \in 0 .. ProgressSlots /\ progress.queued \in Nat /\ ProgressSlots \in Nat
      /\ writer \in WriterType /\ writer.appended \in Nat /\ writer.dropped \in Nat /\ reader.drops \in Nat
      /\ reader \in ReaderType /\ writer.tokens \in 0 .. MaxProgressRate /\ MaxProgressRate \in Nat
  BY ReaderFields, Limits, SMTT(40)
<1>2. CASE ReadFd3
  <2>1. PICK l : l = Head(fd3)
    BY Zenon
  <2>2. l \in Fd3Line /\ writer' = writer
    BY <1>2, <2>1, ReadReader, Zenon DEF ReadFd3
  <2>3. CASE l.event = "progress" /\ progress.queued < ProgressSlots
    <3>1. progress' = [progress EXCEPT !.queued = @ + 1]
      BY <1>2, <2>1, <2>3, Zenon DEF ReadFd3
    <3>2. progress.queued + 1 \in 0 .. ProgressSlots
      BY <1>1, <2>3
    <3>3. progress' \in ProgressType /\ progress'.queued = progress.queued + 1
      BY <1>1, <3>1, <3>2, Zenon DEF ProgressType
    <3>4. reader'.drops = reader.drops
      BY <1>2, <2>1, <2>3, ReadReader, Zenon DEF Refused
    <3> QED BY <1>1, <1>2, <2>1, <2>2, <2>3, <3>3, <3>4, SMTT(40) DEF Counted
  <2>4. CASE ~(l.event = "progress" /\ progress.queued < ProgressSlots)
    <3>1. progress' = progress
      BY <1>2, <2>1, <2>4, Zenon DEF ReadFd3
    <3>2. reader'.drops = IF l.event = "progress" THEN reader.drops + 1 ELSE reader.drops
      BY <1>2, <2>1, <2>4, ReadReader, Zenon DEF Refused
    <3> QED BY <1>1, <1>2, <2>1, <2>2, <3>1, <3>2, SMTT(40) DEF Counted
  <2> QED BY <2>3, <2>4, Zenon
<1>3. ASSUME ~ReadFd3 PROVE reader'.drops = reader.drops
  BY <1>3, ReaderMoves, Zenon
<1>4. ASSUME ~ReadFd3, progress' = progress \/ progress' = [progress EXCEPT !.closed = TRUE],
             writer' = writer \/ (\E pc \in {"check", "select", "done"} : writer' = [writer EXCEPT !.pc = pc])
                              \/ writer' = [writer EXCEPT !.pc = "check", !.tokens = MaxProgressRate]
      PROVE  progress' \in ProgressType /\ writer' \in WriterType /\ Counted' = Counted
  <2>1. progress' \in ProgressType /\ progress'.queued = progress.queued
    BY <1>1, <1>4, Zenon DEF ProgressType
  <2>2. MaxProgressRate \in 0 .. MaxProgressRate
    BY <1>1
  <2>3. writer' \in WriterType /\ writer'.appended = writer.appended /\ writer'.dropped = writer.dropped
    BY <1>1, <1>4, <2>2, Zenon DEF WriterType
  <2> QED BY <1>3, <1>4, <2>1, <2>3, Zenon DEF Counted
<1>5. CASE OpenEvents
  <2>1. ~ReadFd3 /\ progress' = progress /\ \E pc \in {"check", "select", "done"} : writer' = [writer EXCEPT !.pc = pc]
    <3>1. ~ReadFd3
      BY <1>5, Zenon DEF OpenEvents, ReadFd3, TypeOK, MainType
    <3> QED BY <1>5, <3>1, Zenon DEF OpenEvents
  <2> QED BY <1>4, <2>1, Zenon
<1>6. CASE (ReaderChecks \/ ReadEOF \/ JoinReader \/ UNCHANGED goroutines) /\ ~ReadFd3
  BY <1>4, <1>6, Zenon DEF ReaderChecks, ReadEOF, JoinReader, ReaderStops, goroutines
<1>7. ASSUME drainProgressOnCancel, ~ReadFd3
      PROVE  progress' \in ProgressType /\ writer' \in WriterType /\ Counted' = Counted
  <2>1. 0 \in 0 .. ProgressSlots /\ writer.dropped + progress.queued \in Nat
    BY <1>1
  <2>2. progress' \in ProgressType /\ progress'.queued = 0
    BY <1>1, <1>7, <2>1, Zenon DEF drainProgressOnCancel, ProgressType
  <2>3. writer' \in WriterType /\ writer'.appended = writer.appended /\ writer'.dropped = writer.dropped + progress.queued
    BY <1>1, <1>7, <2>1, ZenonT(60) DEF drainProgressOnCancel, WriterType
  <2> QED BY <1>1, <1>3, <1>7, <2>2, <2>3, SMTT(40) DEF Counted
<1>8. CASE (WriterChecks \/ WriterWakes) /\ ~ReadFd3
  <2>1. \/ drainProgressOnCancel
        \/ progress' = progress /\ writer' = [writer EXCEPT !.pc = "select"]
        \/ progress' = progress /\ writer' = [writer EXCEPT !.pc = "done"]
        \/ progress' = progress /\ writer' = [writer EXCEPT !.pc = "check", !.tokens = MaxProgressRate]
    BY <1>8, Zenon DEF WriterChecks, WriterWakes
  <2> QED BY <1>4, <1>7, <1>8, <2>1, Zenon
<1>9. CASE WriterTakes /\ ~ReadFd3
  <2>1. progress' = [progress EXCEPT !.queued = @ - 1] /\ progress.queued > 0
    BY <1>9, Zenon DEF WriterTakes
  <2>2. progress.queued - 1 \in 0 .. ProgressSlots
    BY <1>1, <2>1
  <2>3. progress' \in ProgressType /\ progress'.queued = progress.queued - 1
    BY <1>1, <2>1, <2>2, Zenon DEF ProgressType
  <2>4. CASE writer' = [writer EXCEPT !.pc = "check", !.dropped = @ + 1]
    <3>0. writer.dropped + 1 \in Nat
      BY <1>1
    <3>1. writer' \in WriterType /\ writer'.appended = writer.appended /\ writer'.dropped = writer.dropped + 1
      BY <1>1, <2>4, <3>0, ZenonT(60) DEF WriterType
    <3> QED BY <1>1, <1>3, <1>9, <2>3, <3>1, SMTT(40) DEF Counted
  <2>5. ASSUME NEW kept \in {0, 1}, MaxProgressRate = 0 \/ writer.tokens > 0,
               writer' = [pc |-> "check", tokens |-> IF MaxProgressRate > 0 THEN writer.tokens - 1 ELSE 0,
                          appended |-> writer.appended + kept, dropped |-> writer.dropped + (1 - kept)]
        PROVE  writer' \in WriterType /\ Counted' = Counted
    <3>1. PICK t : t = IF MaxProgressRate > 0 THEN writer.tokens - 1 ELSE 0
      BY Zenon
    <3>2. t \in 0 .. MaxProgressRate
      BY <1>1, <2>5, <3>1, SMTT(40)
    <3>3. writer.appended + kept \in Nat /\ writer.dropped + (1 - kept) \in Nat
      BY <1>1, SMTT(40)
    <3>4. writer' = [pc |-> "check", tokens |-> t, appended |-> writer.appended + kept, dropped |-> writer.dropped + (1 - kept)]
      BY <2>5, <3>1, Zenon
    <3>5. /\ writer' \in WriterType /\ writer'.appended = writer.appended + kept
          /\ writer'.dropped = writer.dropped + (1 - kept)
      BY <3>2, <3>3, <3>4, Zenon DEF WriterType
    <3> QED BY <1>1, <1>3, <1>9, <2>3, <3>5, SMTT(40) DEF Counted
  <2>6. \/ writer' = [writer EXCEPT !.pc = "check", !.dropped = @ + 1]
        \/ /\ MaxProgressRate = 0 \/ writer.tokens > 0
           /\ \E kept \in {0, 1} :
                 writer' = [pc |-> "check", tokens |-> IF MaxProgressRate > 0 THEN writer.tokens - 1 ELSE 0,
                            appended |-> writer.appended + kept, dropped |-> writer.dropped + (1 - kept)]
    BY <1>9, Zenon DEF WriterTakes
  <2> QED BY <1>9, <2>3, <2>4, <2>5, <2>6, Zenon
<1> QED BY <1>2, <1>5, <1>6, <1>8, <1>9, WhoFd3, Zenon DEF Reading, Writing


\* The reader stops at the end of the lines, and closes the channel as it does; the
\* writer stops when the channel is closed and empty.
LEMMA StopsKept ==
  ASSUME SuperviseIInv, Next, env.late = <<>>, IsMission, ~kill'.cancelled
  PROVE  /\ reader'.pc = "done" => (May("slow") \/ fd3' = <<>>) /\ ~Alive(proc)'
         /\ writer'.pc = "done" => progress'.closed /\ progress'.queued = 0
<1>0. TypeOK /\ RunInOrder /\ ReaderInOrder /\ ~kill.cancelled /\ reader \in ReaderType /\ writer \in WriterType
  BY KillOnce, Zenon DEF SuperviseIInv, SuperviseInv, TypeOK
<1>1. /\ reader.pc = "done" => (May("slow") \/ fd3 = <<>>) /\ ~Alive(proc)
      /\ writer.pc = "done" => progress.closed /\ progress.queued = 0
  BY <1>0, Zenon DEF SuperviseIInv, LinesInOrder
<1>2. main.pc = "prep" \/ main.pc = "open" => reader.pc = "off" /\ writer.pc = "off"
  BY <1>0, Zenon DEF RunInOrder, Early
<1>3. ASSUME reader'.pc = "done" PROVE (May("slow") \/ fd3' = <<>>) /\ ~Alive(proc)'
  <2>1. CASE reader.pc = "done"
    <3>1. ~Spawn /\ ~ReadFd3 /\ ~Alive(proc) /\ (May("slow") \/ fd3 = <<>>)
      BY <1>1, <1>2, <2>1, Zenon DEF Spawn, ReadFd3
    <3> QED BY <1>0, <3>1, NotRevived, LinesMove, Zenon DEF Alive
  <2>2. CASE reader.pc # "done"
    <3>0. OpenEvents => reader' = [reader EXCEPT !.pc = "check"]
      BY Zenon DEF OpenEvents
    <3>1. ~OpenEvents /\ ~ReadFd3
      BY <1>0, <1>3, <3>0, ReadReader, Zenon DEF ReaderType
    <3>2. ~ReaderChecks
      BY <1>0, <1>3, Zenon DEF ReaderChecks, ReaderType
    <3>3. ReadEOF => fd3' = <<>> /\ ~Alive(proc)'
      BY Zenon DEF ReadEOF, Held, Alive
    <3>4. JoinReader => (May("slow") \/ fd3' = <<>>) /\ ~Alive(proc)'
      BY <1>0, <2>2, ZenonT(60) DEF JoinReader, RunInOrder, Alive
    <3>5. ~Writing /\ ~UNCHANGED goroutines
      BY <1>3, <2>2, Zenon DEF Writing, WriterChecks, WriterTakes, WriterWakes, goroutines
    <3> QED BY <3>1, <3>2, <3>3, <3>4, <3>5, WhoFd3, Zenon DEF Reading
  <2> QED BY <2>1, <2>2, Zenon
<1>4. ASSUME writer'.pc = "done" PROVE progress'.closed /\ progress'.queued = 0
  <2>1. CASE writer.pc = "done"
    <3>1. progress.closed /\ progress.queued = 0 /\ reader.pc = "done"
      BY <1>0, <1>1, <2>1, Zenon DEF ReaderInOrder
    <3>2. ~OpenEvents /\ ~Reading /\ ~Writing
      BY <1>2, <2>1, <3>1, Zenon DEF OpenEvents, Reading, ReaderChecks, ReadFd3, ReadEOF, Writing, WriterChecks,
         WriterTakes, WriterWakes
    <3>3. JoinReader => progress' = progress
      BY <3>1, Zenon DEF JoinReader
    <3> QED BY <3>1, <3>2, <3>3, WhoFd3, Zenon DEF goroutines
  <2>2. CASE writer.pc # "done"
    <3>0. OpenEvents => writer' = [writer EXCEPT !.pc = "check"]
      BY Zenon DEF OpenEvents
    <3>a. ASSUME WriterTakes PROVE writer'.pc = "check"
      <4>1. \/ writer' = [writer EXCEPT !.pc = "check", !.dropped = @ + 1]
            \/ \E t, a, d : writer' = [pc |-> "check", tokens |-> t, appended |-> a, dropped |-> d]
        BY <3>a, Zenon DEF WriterTakes
      <4>2. ASSUME writer' = [writer EXCEPT !.pc = "check", !.dropped = @ + 1] PROVE writer'.pc = "check"
        BY <1>0, <4>2, Zenon DEF WriterType
      <4>3. ASSUME NEW t, NEW a, NEW d, writer' = [pc |-> "check", tokens |-> t, appended |-> a, dropped |-> d]
            PROVE  writer'.pc = "check"
        BY <4>3, Zenon
      <4> QED BY <4>1, <4>2, <4>3, Zenon
    <3>b. WriterChecks => writer' = [writer EXCEPT !.pc = "select"]
      BY <1>0, Zenon DEF WriterChecks
    <3>1. ~OpenEvents /\ ~WriterChecks /\ ~WriterTakes
      BY <1>0, <1>4, <3>0, <3>a, <3>b, Zenon DEF WriterType
    <3>2. WriterWakes => progress'.closed /\ progress'.queued = 0
      BY <1>0, <1>4, ZenonT(60) DEF WriterWakes, WriterType
    <3>3. ~Reading /\ ~JoinReader /\ ~UNCHANGED goroutines
      BY <1>4, <2>2, Zenon DEF Reading, ReaderChecks, ReadFd3, ReadEOF, JoinReader, goroutines
    <3> QED BY <3>1, <3>2, <3>3, WhoFd3, Zenon DEF Writing
  <2> QED BY <2>1, <2>2, Zenon
<1> QED BY <1>3, <1>4, Zenon

LEMMA ClosedKept ==
  ASSUME SuperviseIInv, Next
  PROVE  progress'.closed => reader'.pc = "done"
<1>0. TypeOK /\ RunInOrder /\ reader \in ReaderType /\ progress \in ProgressType /\ (progress.closed => reader.pc = "done")
  BY ZenonT(60) DEF SuperviseIInv, SuperviseInv, TypeOK, ReaderInOrder
<1>1. CASE OpenEvents
  <2>1. reader.pc = "off" /\ progress' = progress
    BY <1>0, <1>1, Zenon DEF OpenEvents, RunInOrder, Early
  <2> QED BY <1>0, <2>1, Zenon
<1>2. CASE ReaderChecks \/ ReadEOF \/ JoinReader
  <2>1. \/ progress' = progress /\ reader' = [reader EXCEPT !.pc = "read"] /\ reader.pc = "check"
        \/ reader' = [reader EXCEPT !.pc = "done"]
        \/ progress' = progress /\ reader' = reader
    BY <1>2, Zenon DEF ReaderChecks, ReadEOF, JoinReader, ReaderStops
  <2> QED BY <1>0, <2>1, Zenon DEF ReaderType
<1>3. CASE ReadFd3
  <2>1. ~progress.closed /\ (progress' = progress \/ progress' = [progress EXCEPT !.queued = @ + 1])
    BY <1>0, <1>3, Zenon DEF ReadFd3
  <2> QED BY <1>0, <2>1, Zenon DEF ProgressType
<1>4. CASE Writing
  <2>1. reader' = reader /\ \/ progress' = progress \/ progress' = [progress EXCEPT !.queued = @ - 1]
                            \/ progress' = [progress EXCEPT !.queued = 0]
    BY <1>4, Zenon DEF Writing, WriterChecks, WriterTakes, WriterWakes, drainProgressOnCancel
  <2> QED BY <1>0, <2>1, Zenon DEF ProgressType
<1>5. CASE UNCHANGED goroutines
  BY <1>0, <1>5, Zenon DEF goroutines
<1> QED BY <1>1, <1>2, <1>3, <1>4, <1>5, WhoFd3, Zenon DEF Reading

\* What the reader has made of the lines, after any step.
LEMMA FirstsKept ==
  ASSUME SuperviseIInv, Next, env.late = <<>>
  PROVE  /\ Handled' >= 0 /\ \A i \in 1 .. Len(fd3') : fd3'[i] = Lines'[Handled' + i]
         /\ FinalIsFirst' /\ ViolationIsFirst'
         /\ ~IsMission => Lines' = <<>> /\ fd3' = <<>>
<1>0. TypeOK /\ LinesInOrder /\ Handled >= 0 /\ (\A i \in 1 .. Len(fd3) : fd3[i] = Lines[Handled + i])
      /\ FinalIsFirst /\ ViolationIsFirst /\ (~IsMission => Lines = <<>> /\ fd3 = <<>>)
  BY Zenon DEF SuperviseIInv, SuperviseInv, LinesInOrder
<1>1. ASSUME NEW l \in Fd3Line, Operate, IsMission, Lines' = Append(Lines, l), fd3' = Append(fd3, l)
      PROVE  /\ Handled' >= 0 /\ \A i \in 1 .. Len(fd3') : fd3'[i] = Lines'[Handled' + i]
             /\ FinalIsFirst' /\ ViolationIsFirst'
  <2>1. reader' = reader
    BY <1>1, ZenonT(60) DEF Operate, goroutines
  <2> QED BY <1>0, <1>1, <2>1, WrittenKept, ZenonT(60)
<1>2. CASE ReadFd3
  <2>1. Handled \in Nat /\ Handled' = Handled + 1 /\ Lines' = Lines /\ \A i \in 1 .. Len(fd3') : fd3'[i] = Lines[Handled' + i]
    BY <1>0, <1>2, ReadPlace, Zenon
  <2>2. FinalIsFirst' /\ ViolationIsFirst'
    BY <1>0, <1>2, ReadFinal, ReadViolation, Zenon
  <2>3. IsMission
    BY <1>0, <1>2, Zenon DEF ReadFd3
  <2>4. Handled' >= 0
    BY <2>1, SMTT(40)
  <2> QED BY <2>1, <2>2, <2>3, <2>4, Zenon
<1>3. CASE Lines' = Lines /\ fd3' = fd3 /\ ~ReadFd3
  <2>1. Handled' = Handled
    BY <1>3, Zenon DEF Handled
  <2>2. reader'.final = reader.final /\ reader'.viol = reader.viol /\ reader'.outs = reader.outs
    BY <1>0, <1>3, ReaderMoves, Zenon
  <2>3. Finals' = Finals /\ Offending' = Offending /\ \A i : KeysBefore(i)' = KeysBefore(i) /\ Offence(i)' = Offence(i)
    BY <1>3, SameLines, Zenon
  <2>4. PICK H : H = Handled
    BY Zenon
  <2>5. FinalIsFirst'
    <3>1. Handled' = H /\ Lines' = Lines
      BY <1>3, <2>1, <2>4, Zenon
    <3>2. \/ reader.final = None /\ \A i \in Finals : i > H
          \/ \E i \in Finals : i <= H /\ reader.final = Lines[i].event /\ \A j \in Finals : i <= j
      BY <1>0, <2>4, Zenon DEF FinalIsFirst
    <3> QED BY <2>2, <2>3, <3>1, <3>2, Zenon DEF FinalIsFirst
  <2>6. ViolationIsFirst'
    <3>1. Handled' = H
      BY <2>1, <2>4, Zenon
    <3>2. \/ reader.viol = <<>> /\ (\A i \in Offending : i > H) /\ reader.outs = KeysBefore(H + 1)
          \/ reader.viol # <<>> /\ \E i \in Offending : i <= H /\ reader.viol[1] = Offence(i) /\ \A j \in Offending : i <= j
      BY <1>0, <2>4, Zenon DEF ViolationIsFirst
    <3> QED BY <2>2, <2>3, <3>1, <3>2, Zenon DEF ViolationIsFirst
  <2> QED BY <1>0, <1>3, <2>1, <2>5, <2>6, Zenon
<1> QED BY <1>0, <1>1, <1>2, <1>3, LinesMove, Zenon


LEMMA PipesKept ==
  ASSUME SuperviseIInv, Next
  PROVE  PipesInOrder'
<1>1. /\ pipes \in [Streams -> [buf : Seq(Token), open : BOOLEAN]] /\ TypeOK
      /\ \A x \in Streams : ~pipes[x].open => pipes[x].buf = <<>>
  BY Zenon DEF SuperviseIInv, SuperviseInv, TypeOK, PipesInOrder
<1>2. ASSUME NEW x \in Streams, NEW b, pipes[x].open, pipes' = [pipes EXCEPT ![x].buf = b]
      PROVE  PipesInOrder'
  <2>1. pipes'[x].open = pipes[x].open /\ \A y \in Streams \ {x} : pipes'[y] = pipes[y]
    BY <1>1, <1>2, Zenon
  <2> QED BY <1>1, <1>2, <2>1, Zenon DEF PipesInOrder
<1>3. CASE Operate
  BY <1>1, <1>2, <1>3, OperateFacts, ZenonT(60) DEF PipesInOrder
<1>4. CASE Copying
  BY <1>2, <1>4, ZenonT(60) DEF Copying, Copy
<1>5. ASSUME NEW x \in Streams, CopyFails(x) PROVE PipesInOrder'
  <2>1. pipes' = [pipes EXCEPT ![x] = [buf |-> <<>>, open |-> FALSE]]
    BY <1>5, Zenon DEF CopyFails
  <2>2. pipes'[x].buf = <<>> /\ \A y \in Streams \ {x} : pipes'[y] = pipes[y]
    BY <1>1, <2>1, Zenon
  <2> QED BY <1>1, <2>2, Zenon DEF PipesInOrder
<1>6. CASE WaitDelay
  BY <1>6, Zenon DEF WaitDelay, PipesInOrder
<1> QED BY <1>1, <1>3, <1>4, <1>5, <1>6, WhoOut, Zenon DEF PipesInOrder

-----------------------------------------------------------------------------
(* Counting.                                                               *)

\* What is used of finite sets.  It is proved at the end of the module, where the theorems
\* of the library are brought in: everything before is checked without them.
CountingFacts ==
    /\ \A S, x : IsFiniteSet(S) /\ x \notin S
                   => IsFiniteSet(S \cup {x}) /\ Cardinality(S \cup {x}) = Cardinality(S) + 1
    /\ \A S : IsFiniteSet(S) => Cardinality(S) \in Nat
    /\ \A n \in Nat : \A S \in SUBSET (1 .. n) : IsFiniteSet(S)
    /\ IsFiniteSet({}) /\ Cardinality({}) = 0

\* The reader takes no more keys than the limit.
LEMMA OutsKept ==
  ASSUME CountingFacts, SuperviseIInv, Next
  PROVE  IsFiniteSet(reader'.outs) /\ (MaxOutputFiles > 0 => Cardinality(reader'.outs) <= MaxOutputFiles)
<1>1. TypeOK /\ IsFiniteSet(reader.outs) /\ (MaxOutputFiles > 0 => Cardinality(reader.outs) <= MaxOutputFiles)
  BY ZenonT(60) DEF SuperviseIInv, SuperviseInv, TypeOK, ReaderInOrder
<1>2. CASE reader'.outs = reader.outs
  BY <1>1, <1>2, Zenon
<1>3. CASE ReadFd3 /\ reader'.outs # reader.outs
  <2>1. PICK k : /\ reader'.outs = reader.outs \cup {k} /\ k \notin reader.outs
                 /\ MaxOutputFiles > 0 => ~(Cardinality(reader.outs) >= MaxOutputFiles)
    <3>1. PICK l : l = Head(fd3)
      BY Zenon
    <3>2. ~Refused(l) /\ l.event = "output_file" /\ reader'.outs = reader.outs \cup {l.key} /\ l.key \notin reader.outs
      BY <1>1, <1>3, <3>1, ReadReader, ZenonT(60)
    <3> QED BY <3>2, Zenon DEF Refused
  <2>2. /\ IsFiniteSet(reader'.outs) /\ Cardinality(reader'.outs) = Cardinality(reader.outs) + 1
        /\ Cardinality(reader.outs) \in Nat
    BY <1>1, <2>1, Zenon DEF CountingFacts
  <2> QED BY <2>1, <2>2, Limits, SMTT(40)
<1> QED BY <1>1, <1>2, <1>3, ReaderMoves, Zenon

\* Every progress event that has been read is counted once.
LEMMA SeenKept ==
  ASSUME CountingFacts, SuperviseIInv, Next, env.late = <<>>
  PROVE  Cardinality(ProgressSeen') = Counted'
<1>1. TypeOK /\ LinesInOrder /\ Cardinality(ProgressSeen) = Counted
  BY Zenon DEF SuperviseIInv, SuperviseInv, LinesInOrder, Counted
<1>2. ASSUME NEW l \in Fd3Line, Operate, Lines' = Append(Lines, l), fd3' = Append(fd3, l)
      PROVE  Cardinality(ProgressSeen') = Counted'
  <2>1. UNCHANGED goroutines /\ reader' = reader
    BY <1>2, ZenonT(60) DEF Operate, goroutines
  <2>2. ProgressSeen' = ProgressSeen
    BY <1>1, <1>2, <2>1, WrittenKept, Zenon
  <2> QED BY <1>1, <2>1, <2>2, Zenon DEF goroutines, Counted
<1>3. CASE ReadFd3
  <2>1. PICK H : H = Handled
    BY Zenon
  <2>2. H \in Nat /\ H + 1 \in 1 .. Len(Lines) /\ Head(fd3) = Lines[H + 1] /\ Lines' = Lines /\ Handled' = H + 1
    BY <1>1, <1>3, <2>1, ReadPlace, Zenon
  <2>3. ProgressSeen' = {i \in Events("progress") : i <= H + 1} /\ ProgressSeen = {i \in Events("progress") : i <= H}
    BY <2>1, <2>2, SameLines, SMTT(40) DEF ProgressSeen
  <2>4. Events("progress") \subseteq Nat /\ \A i \in Nat : i <= H + 1 <=> i <= H \/ i = H + 1
    BY <2>2, SMTT(40) DEF Events
  <2>5. CASE Head(fd3).event = "progress"
    <3>1. H + 1 \in Events("progress") /\ ~(H + 1 <= H)
      BY <2>2, <2>5 DEF Events
    <3>2. ProgressSeen' = ProgressSeen \cup {H + 1} /\ H + 1 \notin ProgressSeen
      BY <2>3, <2>4, <3>1, Zenon
    <3>3. IsFiniteSet(ProgressSeen)
      <4>1. ProgressSeen \subseteq 1 .. Len(Lines) /\ Len(Lines) \in Nat
        BY <1>1, ProcFields, Zenon DEF ProgressSeen, Events
      <4> QED BY <4>1, ZenonT(60) DEF CountingFacts
    <3>4. Cardinality(ProgressSeen') = Cardinality(ProgressSeen) + 1
      BY <3>2, <3>3, Zenon DEF CountingFacts
    <3> QED BY <1>1, <1>3, <2>5, <3>4, ProgressMoves, Zenon
  <2>6. CASE Head(fd3).event # "progress"
    <3>1. H + 1 \notin Events("progress")
      BY <2>2, <2>6, Zenon DEF Events
    <3>2. ProgressSeen' = ProgressSeen
      BY <2>3, <2>4, <3>1, Zenon
    <3> QED BY <1>1, <2>6, <3>2, ProgressMoves, Zenon
  <2> QED BY <2>5, <2>6, Zenon
<1>4. CASE Lines' = Lines /\ fd3' = fd3 /\ ~ReadFd3
  <2>1. ProgressSeen' = ProgressSeen
    BY <1>4, SameLines, SMTT(40) DEF ProgressSeen, Handled
  <2> QED BY <1>1, <1>4, <2>1, ProgressMoves, Zenon
<1> QED BY <1>1, <1>2, <1>3, <1>4, LinesMove, Zenon


-----------------------------------------------------------------------------
(* The inductive invariant.                                                *)

LEMMA InitTypes ==
  ASSUME CountingFacts, Init
  PROVE  TypeOK
<1>1. env \in Environment /\ Len(env.ops) \in Nat /\ Len(env.late) \in Nat
  <2>1. env \in Environments
    BY ZenonT(60) DEF Init
  <2> QED BY <2>1, LimitsAssumption, SMTT(40) DEF Environment
<1>2. proc \in ProcType /\ desc \in DescType /\ fd3 \in Seq(Fd3Line)
  <2>1. 0 \in 0 .. Len(env.ops) /\ 0 \in 0 .. Len(env.late) /\ 0 \in Int
    BY <1>1
  <2>2. /\ <<>> \in Seq(Fd3Line) /\ <<>> \in Seq(Token) /\ {} \subseteq {"TERM", "KILL"}
    OBVIOUS
  <2>3. desc \in DescType
    BY <2>1, ZenonT(60) DEF Init, DescType
  <2>4. [fd3 |-> <<>>, stdout |-> <<>>, stderr |-> <<>>] \in [fd3 : Seq(Fd3Line), stdout : Seq(Token), stderr : Seq(Token)]
    BY <2>2, Zenon
  <2>5. proc \in ProcType
    BY <2>1, <2>2, <2>4, ZenonT(60) DEF Init, ProcType
  <2> QED BY <2>2, <2>3, <2>5, ZenonT(60) DEF Init
<1>3. pipes \in [Streams -> [buf : Seq(Token), open : BOOLEAN]]
  <2>1. pipes = [s \in Streams |-> [buf |-> <<>>, open |-> TRUE]]
    BY ZenonT(60) DEF Init
  <2> QED BY <2>1
<1>4. out \in OutType
  BY ZenonT(60) DEF Init, OutType, Capture, Token
<1>5. reader \in ReaderType /\ Len(reader.viol) <= MaxRecordedViolations
  BY Limits, SMTT(40) DEF Init, ReaderType
<1>6. MaxOutputFiles > 0 => Cardinality(reader.outs) <= MaxOutputFiles
  <2>1. reader.outs = {}
    BY ZenonT(60) DEF Init
  <2> QED BY <2>1, Limits DEF CountingFacts
<1>7. progress \in ProgressType /\ writer \in WriterType
  <2>1. 0 \in 0 .. ProgressSlots /\ MaxProgressRate \in 0 .. MaxProgressRate /\ 0 \in Nat
    BY Limits
  <2> QED BY <2>1, ZenonT(60) DEF Init, ProgressType, WriterType
<1>8. watch \in [Watchers -> {"off", "wait", "enter", "check", "term", "grace", "recheck", "kill", "done"}]
  BY ZenonT(60) DEF Init
<1>9. kill \in KillType
  BY ZenonT(60) DEF Init, KillType
<1>10. NoResult \in ResultType
  BY Zenon DEF NoResult, Result, ResultType, Reasons
<1>11. main \in MainType /\ done \in DoneType
  BY <1>10, ZenonT(60) DEF Init, MainType, DoneType
<1> QED BY <1>1, <1>2, <1>3, <1>4, <1>5, <1>6, <1>7, <1>8, <1>9, <1>11, ZenonT(60) DEF TypeOK

LEMMA InitHolds ==
  ASSUME CountingFacts, Init
  PROVE  SuperviseIInv
<1>1. TypeOK
  BY InitTypes, Zenon
<1>2. main.pc = "prep" /\ proc.st = None /\ proc.sig = None /\ main.tmps = {} /\ fd3 = <<>> /\ Lines = <<>> /\ proc.wrote.stderr = <<>>
  BY ZenonT(60) DEF Init, Lines
<1>3. /\ reader.pc = "off" /\ reader.final = None /\ reader.viol = <<>> /\ reader.outs = {} /\ reader.drops = 0
      /\ progress.queued = 0 /\ ~progress.closed /\ writer.pc = "off" /\ writer.appended = 0 /\ writer.dropped = 0
  BY ZenonT(60) DEF Init
<1>4. (\A w \in Watchers : watch[w] = "off") /\ kill.reason = None /\ ~kill.cancelled /\ kill.sent = {}
  BY ZenonT(60) DEF Init
<1>5. (\A x \in Streams : pipes[x].open /\ pipes[x].buf = <<>>) /\ out.oom.found = FALSE /\ out.oom.cur = "nl"
  BY ZenonT(60) DEF Init
<1>6. \A x \in Streams : out[x].kept = 0 /\ out[x].taken = 0 /\ out[x].trunc = FALSE
  BY SMTT(40) DEF Init, Streams
<1>7. ~Finished /\ ~Ran
  BY <1>2, Zenon DEF Finished, Ran
<1>8. NothingLeftRunning /\ OutputsAllOrNone
  BY <1>7, Zenon DEF NothingLeftRunning, OutputsAllOrNone
<1>9. TruncationIsMarked
  <2>1. Total = 0
    BY <1>6, SMTT(40) DEF Total, Streams
  <2> QED BY <1>6, <2>1, Limits, SMTT(40) DEF TruncationIsMarked
<1>10. RunInOrder
  BY <1>2, <1>3, <1>4, <1>7, Zenon DEF RunInOrder, Early
<1>11. KillInOrder
  BY <1>4, Zenon DEF KillInOrder, Watchers, None
<1>12. OutputInOrder
  <2>1. Len(proc.wrote.stderr) = 0 /\ Len(pipes["stderr"].buf) = 0 /\ Scanned = 0
    BY <1>2, <1>5, SMTT(40) DEF Scanned, Streams
  <2> QED BY <1>5, <1>6, <2>1, SMTT(40) DEF OutputInOrder
<1>13. ReaderInOrder
  BY <1>3, Zenon DEF ReaderInOrder, CountingFacts
<1>14. LinesInOrder
  <2>1. Len(Lines) = 0 /\ Len(fd3) = 0 /\ Handled = 0
    BY <1>2 DEF Handled
  <2>2. \A kind : Events(kind) = {}
    BY <2>1, SMTT(40) DEF Events
  <2>3. Finals = {} /\ Offending = {} /\ KeysBefore(1) = {} /\ ProgressSeen = {}
    BY <2>1, <2>2, SMTT(40) DEF Finals, Offending, KeysBefore, ProgressSeen
  <2>4. FinalIsFirst /\ ViolationIsFirst
    <3>1. Handled + 1 = 1
      BY <2>1, SMTT(40)
    <3> QED BY <1>3, <2>3, <3>1, Zenon DEF FinalIsFirst, ViolationIsFirst
  <2>5. Cardinality(ProgressSeen) = writer.appended + writer.dropped + reader.drops + progress.queued
    BY <1>3, <2>3, SMTT(40) DEF CountingFacts
  <2> QED BY <1>2, <1>3, <2>1, <2>4, <2>5, SMTT(40) DEF LinesInOrder
<1>15. ResultInOrder
  BY <1>2, <1>7, Zenon DEF ResultInOrder
<1>16. PipesInOrder
  BY <1>5, Zenon DEF PipesInOrder
<1> QED BY <1>1, <1>8, <1>9, <1>10, <1>11, <1>12, <1>13, <1>14, <1>15, <1>16, ZenonT(60) DEF SuperviseIInv,
           SuperviseInv

LEMMA NextKeeps ==
  ASSUME CountingFacts, SuperviseIInv, Next
  PROVE  SuperviseIInv'
<1>0. TypeOK /\ RunInOrder /\ UNCHANGED env
  BY SameEnv, Zenon DEF SuperviseIInv, SuperviseInv
<1>1. TypeOK'
  <2>1. env' \in Environment
    BY <1>0, Zenon DEF TypeOK
  <2> QED BY <1>0, <2>1, ProcTyped, OutputKept, ReaderMoves, OutsKept, ProgressMoves, WatchTyped, KillMoves,
             MainTyped, ZenonT(60) DEF TypeOK
<1>2. SuperviseInv'
  BY <1>1, NothingLeftKept, OutputKept, Zenon DEF SuperviseInv
<1>3. RunInOrder' /\ KillInOrder' /\ OutputInOrder' /\ ResultInOrder' /\ OutputsAllOrNone' /\ PipesInOrder'
  BY <1>0, RunKept, KillKept, OutputKept, ResultKept, PipesKept, Zenon
<1>4. ReaderInOrder'
  BY OutsKept, ClosedKept, Zenon DEF ReaderInOrder
<1>5. LinesInOrder'
  <2>1. CASE env.late = <<>>
    <3>1. IsMission' = IsMission /\ env'.late = <<>> /\ May("slow")' = May("slow")
      BY <1>0, <2>1, Zenon DEF IsMission, May
    <3>2. Cardinality(ProgressSeen') = writer'.appended + writer'.dropped + reader'.drops + progress'.queued
      BY <2>1, SeenKept, Zenon DEF Counted
    <3>3. IsMission' /\ ~kill'.cancelled => /\ reader'.pc = "done" => (May("slow") \/ fd3' = <<>>) /\ ~Alive(proc)'
                                            /\ writer'.pc = "done" => progress'.closed /\ progress'.queued = 0
      BY <2>1, <3>1, StopsKept, Zenon
    <3> QED BY <2>1, <3>1, <3>2, <3>3, FirstsKept, Zenon DEF LinesInOrder
  <2>2. CASE env.late # <<>>
    BY <1>0, <2>2, Zenon DEF LinesInOrder
  <2> QED BY <2>1, <2>2, Zenon
<1> QED BY <1>2, <1>3, <1>4, <1>5, Zenon DEF SuperviseIInv


LEMMA StutterKeeps ==
  ASSUME SuperviseIInv, UNCHANGED vars
  PROVE  SuperviseIInv'
<1>0. /\ env' = env /\ proc' = proc /\ desc' = desc /\ fd3' = fd3 /\ pipes' = pipes /\ out' = out /\ reader' = reader
      /\ progress' = progress /\ writer' = writer /\ watch' = watch /\ kill' = kill /\ main' = main /\ done' = done
  BY Zenon DEF vars
<1>1. IsMission' = IsMission /\ ProcType' = ProcType /\ DescType' = DescType /\ \A f : May(f)' = May(f)
  BY <1>0, SameTypes, Zenon DEF IsMission, May
<1>2. TypeOK'
  <2>1. TypeOK
    BY Zenon DEF SuperviseIInv, SuperviseInv
  <2> QED BY <1>0, <1>1, <2>1, ZenonT(60) DEF TypeOK
<1>3. /\ Finished' = Finished /\ Ran' = Ran /\ Early' = Early /\ Lines' = Lines /\ Handled' = Handled
      /\ KillersDone' = KillersDone /\ \A x \in Streams : AllRead(x)' = AllRead(x)
  BY <1>0, Zenon DEF Finished, Ran, Early, Lines, Handled, KillersDone, AllRead
<1>4. Outcome' = Outcome /\ Declared' = Declared /\ ProgressDropped' = ProgressDropped
  BY <1>0, <1>1 DEF Outcome, Declared, ProgressDropped, Compute, DeriveExecOutcome
<1>5. NothingLeftRunning' /\ TruncationIsMarked'
  BY <1>0, <1>3, ZenonT(60) DEF SuperviseIInv, SuperviseInv, NothingLeftRunning, TruncationIsMarked, Total
<1>6. RunInOrder'
  BY <1>0, <1>1, <1>3, Zenon DEF SuperviseIInv, RunInOrder, Settled
<1>7. KillInOrder' /\ PipesInOrder' /\ ReaderInOrder'
  BY <1>0, <1>3, ZenonT(60) DEF SuperviseIInv, KillInOrder, PipesInOrder, ReaderInOrder
<1>8. OutputInOrder'
  BY <1>0, <1>1, ZenonT(60) DEF SuperviseIInv, OutputInOrder, Scanned
<1>9. ResultInOrder' /\ OutputsAllOrNone'
  BY <1>0, <1>1, <1>3, <1>4, ZenonT(60) DEF SuperviseIInv, ResultInOrder, OutputsAllOrNone
<1>10. LinesInOrder'
  <2>1. Finals' = Finals /\ Offending' = Offending /\ ProgressSeen' = ProgressSeen
    BY <1>3, SameLines DEF ProgressSeen
  <2>2. FinalIsFirst' = FinalIsFirst
    BY <1>0, <1>3, <2>1, ZenonT(60) DEF FinalIsFirst
  <2>3. PICK H : H = Handled
    BY Zenon
  <2>4. \A i : KeysBefore(i)' = KeysBefore(i) /\ Offence(i)' = Offence(i)
    BY <1>3, SameLines, Zenon
  <2>5. ViolationIsFirst => ViolationIsFirst'
    <3>1. Handled' = H
      BY <1>3, <2>3, Zenon
    <3> QED BY <1>0, <2>1, <2>3, <2>4, <3>1, Zenon DEF ViolationIsFirst
  <2> QED BY <1>0, <1>1, <1>3, <2>1, <2>2, <2>5, ZenonT(60) DEF SuperviseIInv, LinesInOrder, Alive
<1> QED BY <1>2, <1>5, <1>6, <1>7, <1>8, <1>9, <1>10, Zenon DEF SuperviseIInv, SuperviseInv

-----------------------------------------------------------------------------
(* What Run returns.                                                       *)

\* When a mission is over whose events Run had the time to read, it has read them all.
LEMMA AllHandled ==
  ASSUME SuperviseIInv, Ran, IsMission, ~kill.cancelled, env.late = <<>>, ~May("slow")
  PROVE  Settled /\ fd3 = <<>> /\ Handled = Len(Lines) /\ progress.queued = 0
<1>1. TypeOK /\ Settled /\ LinesInOrder
  BY Zenon DEF SuperviseIInv, SuperviseInv, RunInOrder
<1>2. fd3 = <<>> /\ progress.queued = 0
  BY <1>1, Zenon DEF Settled, LinesInOrder
<1>3. Len(fd3) = 0 /\ Len(Lines) \in Nat
  BY <1>1, <1>2, ProcFields, Zenon
<1> QED BY <1>1, <1>2, <1>3, SMTT(40) DEF Handled

\* The reader's record of an undisturbed mission that is over.
LEMMA WhatWasRead ==
  ASSUME SuperviseIInv, Ran, IsMission, Undisturbed
  PROVE  /\ done.result = Outcome
         /\ out.oom.found <=> OutOfMemory
         /\ reader.viol = <<>> <=> Offending = {}
         /\ reader.viol # <<>> => \E i \in Offending : reader.viol[1] = Offence(i) /\ \A j \in Offending : i <= j
         /\ reader.final = None <=> Finals = {}
         /\ reader.final # None => \E i \in Finals : reader.final = Lines[i].event
<1>0. ~kill.cancelled /\ env.late = <<>> /\ ~May("disk") /\ ~May("files") /\ ~May("slow")
  BY Zenon DEF Undisturbed, May
<1>1. Settled /\ fd3 = <<>> /\ Handled = Len(Lines) /\ TypeOK
  BY <1>0, AllHandled, Zenon DEF SuperviseIInv, SuperviseInv
<1>2. done.result = Outcome
  BY <1>0, Zenon DEF SuperviseIInv, ResultInOrder
<1>3. out.oom.found <=> OutOfMemory
  <2>1. pipes["stderr"].buf = <<>>
    BY <1>1, Zenon DEF Settled, AllRead, SuperviseIInv, PipesInOrder, Streams
  <2>2. Scanned = Len(proc.wrote.stderr)
    BY <1>1, <2>1, ProcFields, SMTT(40) DEF Scanned
  <2> QED BY <1>0, <2>2, Zenon DEF SuperviseIInv, OutputInOrder, OutOfMemory
<1>4. FinalIsFirst /\ ViolationIsFirst
  BY <1>0, Zenon DEF SuperviseIInv, LinesInOrder
<1>5. (\A i \in Offending : ~(i > Handled)) /\ (\A i \in Finals : ~(i > Handled))
  <2>1. Handled = Len(Lines) /\ Len(Lines) \in Nat
    BY <1>1, ProcFields, Zenon
  <2>2. \A i \in 1 .. Len(Lines) : ~(i > Handled)
    BY <2>1
  <2>3. \A i \in Offending : i \in 1 .. Len(Lines)
    BY Zenon DEF Offending
  <2>4. \A i \in Finals : i \in 1 .. Len(Lines)
    BY Zenon DEF Finals, Events
  <2> QED BY <2>2, <2>3, <2>4, Zenon
<1>6. \A i \in Finals : Lines[i].event # None
  BY Zenon DEF Finals, Events, None
<1>7. /\ reader.viol = <<>> <=> Offending = {}
      /\ reader.viol # <<>> => \E i \in Offending : reader.viol[1] = Offence(i) /\ \A j \in Offending : i <= j
  BY <1>4, <1>5, Zenon DEF ViolationIsFirst
<1>8. /\ reader.final = None <=> Finals = {}
      /\ reader.final # None => \E i \in Finals : reader.final = Lines[i].event
  BY <1>4, <1>5, <1>6, Zenon DEF FinalIsFirst
<1> QED BY <1>2, <1>3, <1>7, <1>8, Zenon

\* Without an offending line there is at most one final event.
LEMMA OneFinal ==
  ASSUME TypeOK, Offending = {}, NEW i \in Finals, NEW j \in Finals
  PROVE  i = j
<1>1. i \in 1 .. Len(Lines) /\ j \in 1 .. Len(Lines) /\ Len(Lines) \in Nat
  BY ProcFields, Zenon DEF Finals, Events
<1>2. ASSUME NEW a \in Finals, NEW b \in Finals, a < b PROVE FALSE
  <2>1. b \in 1 .. Len(Lines)
    BY Zenon DEF Finals, Events
  <2>2. Offence(b) = "duplicate_final_event"
    BY <1>2, <2>1, OffenceRows, Zenon
  <2> QED BY <2>1, <2>2, Zenon DEF Offending, None
<1>3. i < j \/ j < i \/ i = j
  BY <1>1, SMTT(40)
<1> QED BY <1>2, <1>3, Zenon

LEMMA SuccessIsClean ==
  ASSUME SuperviseIInv
  PROVE  SuccessIffClean
<1> SUFFICES ASSUME Ran, IsMission, Undisturbed
             PROVE  /\ (done.result.outcome = "success") <=>
                          /\ kill.reason = None /\ proc.code = 0 /\ proc.sig = None
                          /\ ~OutOfMemory /\ Offending = {} /\ Events("fail") = {}
                    /\ (done.result.ret # None) <=> (done.result.outcome = "success" /\ Events("success") # {})
  BY Zenon DEF SuccessIffClean
<1>0. TypeOK /\ reader.final \in {None, "success", "fail"} /\ (proc.sig # None => proc.code # 0) /\ done.result = Outcome
  BY ReaderFields, WhatWasRead, ZenonT(60) DEF SuperviseIInv, SuperviseInv, ResultInOrder
<1>1. CASE kill.reason # None
  <2>1. Outcome = Killed(kill.reason)
    BY <1>0, <1>1, OutcomeFacts, Zenon
  <2>2. Outcome.outcome # "success" /\ Outcome.ret = None
    BY <2>1, Zenon DEF Killed, Result
  <2> QED BY <1>0, <1>1, <2>2, Zenon
<1>2. CASE kill.reason = None
  <2>1. PICK o : o = Outcome
    BY Zenon
  <2>2. o = Compute(None, out.oom.found, proc.code, proc.sig, reader)
    BY <1>2, <2>1, Zenon DEF Outcome
  <2>3. /\ o.outcome = "success" <=> /\ ~out.oom.found /\ proc.sig = None /\ reader.viol = <<>>
                                     /\ reader.final # "fail" /\ proc.code = 0
        /\ o.ret # None <=> o.outcome = "success" /\ reader.final = "success"
    BY <1>0, <2>2, ZenonT(60) DEF Compute, Result, None
  <2>4. (reader.viol = <<>> <=> Offending = {}) /\ (out.oom.found <=> OutOfMemory) /\ (reader.final = None <=> Finals = {})
        /\ (reader.final # None => \E i \in Finals : reader.final = Lines[i].event)
    BY WhatWasRead, Zenon
  <2>5. ASSUME Offending = {}
        PROVE  (reader.final # "fail" <=> Events("fail") = {}) /\ (reader.final = "success" <=> Events("success") # {})
    <3>1. CASE Finals = {}
      BY <2>4, <3>1, Zenon DEF Finals, None
    <3>2. CASE Finals # {}
      <4>1. PICK i \in Finals : reader.final = Lines[i].event
        BY <2>4, <3>2, Zenon
      <4>2. \A j \in Finals : j = i
        BY <1>0, <2>5, OneFinal, Zenon
      <4>3. \A kind : \A j \in Events(kind) : Lines[j].event = kind
        BY Zenon DEF Events
      <4>4. Events("fail") \subseteq Finals /\ Events("success") \subseteq Finals /\ i \in Events("fail") \cup Events("success")
        BY Zenon DEF Finals
      <4> QED BY <4>1, <4>2, <4>3, <4>4, Zenon
    <3> QED BY <3>1, <3>2, Zenon
  <2> QED BY <1>0, <1>2, <2>1, <2>3, <2>4, <2>5, ZenonT(60)
<1> QED BY <1>1, <1>2, Zenon

LEMMA OffenceIsNamed ==
  ASSUME SuperviseIInv
  PROVE  FirstOffenceNamed
<1> SUFFICES ASSUME Ran, IsMission, Undisturbed, kill.reason = None, proc.sig = None, ~OutOfMemory, Offending # {}
             PROVE  done.result.reason = Offence(CHOOSE i \in Offending : \A j \in Offending : i <= j)
  BY Zenon DEF FirstOffenceNamed
<1>0. TypeOK /\ done.result = Outcome /\ reader.viol \in Seq(Violation) /\ ~out.oom.found /\ reader.viol # <<>>
  BY ReaderFields, WhatWasRead, Zenon DEF SuperviseIInv, SuperviseInv
<1>1. PICK i \in Offending : reader.viol[1] = Offence(i) /\ \A j \in Offending : i <= j
  BY <1>0, WhatWasRead, Zenon
<1>2. PICK c : c = CHOOSE k \in Offending : \A j \in Offending : k <= j
  BY Zenon
<1>3. c \in Offending /\ \A j \in Offending : c <= j
  BY <1>1, <1>2, Zenon
<1>4. i <= c /\ c <= i /\ i \in Nat /\ c \in Nat
  BY <1>1, <1>3, SMTT(40) DEF Offending
<1>5. i = c
  BY <1>4
<1>6. Outcome = Result("failed", Head(reader.viol), None)
  BY <1>0, ZenonT(60) DEF Outcome, Compute, None
<1>7. Head(reader.viol) = reader.viol[1]
  BY <1>0, SMTT(40)
<1> QED BY <1>0, <1>1, <1>2, <1>5, <1>6, <1>7, SMTT(40) DEF Result

LEMMA KillReported ==
  ASSUME SuperviseIInv
  PROVE  KillIsReported
<1> SUFFICES ASSUME Ran
             PROVE  /\ kill.reason # None => done.result = IF IsMission THEN Killed(kill.reason)
                                                           ELSE DeriveExecOutcome(kill.reason, proc.code, proc.sig)
                    /\ kill.sent # {} => kill.reason # None
                    /\ done.result.reason \in {"unknown_sigkill", "signal"} => kill.sent = {}
                    /\ kill.reason = "timeout" => env.timeout
                    /\ kill.reason = "dugdale_shutdown" => kill.cancelled
  BY ZenonT(60) DEF KillIsReported
<1>0. TypeOK /\ KillInOrder /\ main.pc = "end"
  BY Zenon DEF SuperviseIInv, SuperviseInv, Ran, Finished
<1>1. kill.sent # {} => kill.reason # None
  BY <1>0, Zenon DEF KillInOrder
<1>2. \/ done.result = Outcome
      \/ Outcome.outcome = "success" /\ done.result.reason \notin {"unknown_sigkill", "signal"}
  BY Zenon DEF SuperviseIInv, ResultInOrder
<1> QED BY <1>0, <1>1, <1>2, OutcomeFacts, Zenon DEF KillInOrder

\* The counts of an undisturbed run.
LEMMA ProgressCounted ==
  ASSUME CountingFacts, SuperviseIInv
  PROVE  ProgressAccounted
<1> SUFFICES ASSUME Ran, ~kill.cancelled, env.late = <<>>, ~May("slow")
             PROVE  Cardinality(Events("progress")) = writer.appended + done.dropped
  BY Zenon DEF ProgressAccounted
<1>0. TypeOK /\ LinesInOrder /\ done.dropped = reader.drops + writer.dropped
  BY Zenon DEF SuperviseIInv, SuperviseInv, ResultInOrder, ProgressDropped
<1>1. /\ Cardinality(ProgressSeen) = writer.appended + writer.dropped + reader.drops + progress.queued
      /\ writer.appended \in Nat /\ writer.dropped \in Nat /\ reader.drops \in Nat /\ progress.queued \in Nat
  BY <1>0, ReaderFields, Limits, SMTT(40) DEF LinesInOrder
<1>2. CASE IsMission
  <2>1. Handled = Len(Lines) /\ progress.queued = 0 /\ Len(Lines) \in Nat
    BY <1>0, <1>2, AllHandled, ProcFields, Zenon
  <2>2. ProgressSeen = Events("progress")
    BY <2>1, SMTT(40) DEF ProgressSeen, Events
  <2> QED BY <1>0, <1>1, <2>1, <2>2, SMTT(40)
<1>3. CASE ~IsMission
  <2>1. Lines = <<>>
    BY <1>0, <1>3, Zenon DEF LinesInOrder
  <2>2. Events("progress") = {} /\ ProgressSeen = {}
    BY <2>1, SMTT(40) DEF Events, ProgressSeen
  <2>3. Cardinality(ProgressSeen) = 0 /\ Cardinality(Events("progress")) = 0
    BY <2>2, ZenonT(60) DEF CountingFacts
  <2> QED BY <1>0, <1>1, <2>3, SMTT(40)
<1> QED BY <1>2, <1>3, Zenon


-----------------------------------------------------------------------------
(* Counting finite sets.  The facts come from FiniteSetTheorems, which brings its own       *)
(* IsFiniteSet and Cardinality; both are identified with those of the model by their        *)
(* definitions.                                                                             *)

Finite(S) == IsFiniteSet(S)
Size(S) == Cardinality(S)
CountOf(S) ==
    LET CS[T \in SUBSET S] == IF T = {} THEN 0 ELSE 1 + CS[T \ {CHOOSE x : x \in T}]
    IN  CS[S]

\* A finite set is one that some sequence enumerates.
LEMMA FiniteSays ==
  \A S : Finite(S) <=> \E seq \in Seq(S) : \A s \in S : \E n \in 1 .. Len(seq) : seq[n] = s
  BY Zenon DEF Finite, IsFiniteSet

\* A set has as many elements as can be removed from it one by one.
LEMMA SizeSays == \A S : Size(S) = CountOf(S)
  BY Zenon DEF Size, Cardinality, CountOf

\* The facts about counting, in the vocabulary of FiniteSetTheorems.
LEMMA CountingFrom ==
  ASSUME \A S, x : Finite(S) /\ x \notin S => Finite(S \cup {x}) /\ Size(S \cup {x}) = Size(S) + 1,
         \A S : Finite(S) => Size(S) \in Nat,
         \A n \in Nat : \A S \in SUBSET (1 .. n) : Finite(S),
         Finite({}), Size({}) = 0
  PROVE  CountingFacts
  BY Zenon DEF CountingFacts, Finite, Size

LOCAL INSTANCE FiniteSetTheorems

\* The facts about counting that the proofs above rest on.
LEMMA Counting == CountingFacts
<1>1. \A S : Finite(S) <=> IsFiniteSet(S)
  BY FiniteSays, Zenon, ZenonT(60) DEF IsFiniteSet
<1>2. \A S : Size(S) = Cardinality(S)
  BY SizeSays, Zenon, ZenonT(60) DEF Cardinality, CountOf
<1>3. ASSUME NEW S, NEW x, Finite(S), x \notin S
      PROVE  Finite(S \cup {x}) /\ Size(S \cup {x}) = Size(S) + 1
  BY <1>1, <1>2, <1>3, FS_AddElement, ZenonT(60)
<1>4. ASSUME NEW S, Finite(S) PROVE Size(S) \in Nat
  BY <1>1, <1>2, <1>4, FS_CardinalityType, ZenonT(60)
<1>5. ASSUME NEW n \in Nat, NEW S \in SUBSET (1 .. n) PROVE Finite(S)
  <2>1. IsFiniteSet(1 .. n)
    BY FS_Interval, SMTT(40)
  <2> QED BY <1>1, <2>1, FS_Subset, ZenonT(60)
<1>6. Finite({}) /\ Size({}) = 0
  BY <1>1, <1>2, FS_EmptySet, ZenonT(60)
<1> QED BY <1>3, <1>4, <1>5, <1>6, CountingFrom, ZenonT(60)

-----------------------------------------------------------------------------
(* The theorems.                                                           *)

\* The inductive invariant holds in every state of every behaviour of Run.
LEMMA AlwaysInOrder == Spec => []SuperviseIInv
<1>1. Init => SuperviseIInv
  BY Counting, InitHolds, Zenon
<1>2. SuperviseIInv /\ [Next]_vars => SuperviseIInv'
  BY Counting, NextKeeps, StutterKeeps, ZenonT(60)
<1> QED BY <1>1, <1>2, PTL DEF Spec

\* When Run is over the process has been reaped or was never started, and the watchers, the
\* fd3 reader and the progress writer have all returned; what is captured stays within the
\* budget of both streams and a stream that lost anything says so (waiter.go Run,
\* truncate_writer.go Write).
THEOREM NothingIsLeftRunning == Spec => []SuperviseInv
<1>1. SuperviseIInv => SuperviseInv
  BY ZenonT(60) DEF SuperviseIInv
<1> QED BY <1>1, AlwaysInOrder, PTL

\* A mission is reported as a success, and with a return value, exactly when it was not
\* killed, left with 0, kept the fd3 protocol and did not report a failure; the first
\* offence is the one named; output files are collected all or none (outcome.go Compute,
\* fd3reader.go handleLine, output_collect.go CollectOutputs).
THEOREM OutcomeIsAlwaysEarned == Spec => []OutcomeIsEarned
<1>1. SuperviseIInv => OutcomeIsEarned
  BY SuccessIsClean, OffenceIsNamed, ZenonT(60) DEF OutcomeIsEarned, SuperviseIInv
<1> QED BY <1>1, AlwaysInOrder, PTL

\* Every progress line of a run that dugdale does not cut short, and whose fd3 reader keeps
\* ahead of the join timer, is either appended to the events file or counted as dropped, however the limiter, the queue and the writer
\* interleave (fd3reader.go handleLine, fd3writer.go RunFd3Writer).
THEOREM ProgressIsAccounted == Spec => []ProgressAccounted
<1>1. SuperviseIInv => ProgressAccounted
  BY Counting, ProgressCounted, Zenon
<1> QED BY <1>1, AlwaysInOrder, PTL

\* The first kill is the one that counts, none is recorded once cmd.Wait has returned, and
\* the result reports the recorded kill and no other cause (waiter.go killProcess).  Until
\* then one may be, also for a process that has left by itself and whose pipes Wait drains.
THEOREM KillIsAlwaysTrue == Spec => KillIsTrue
<1>1. SuperviseIInv => KillIsReported
  BY KillReported, Zenon
<1>2. SuperviseIInv /\ [Next]_vars => [WaitReturned \/ kill.reason # None => kill.reason' = kill.reason]_vars
  BY KillOnce, Zenon DEF SuperviseIInv, SuperviseInv
<1> QED BY <1>1, <1>2, AlwaysInOrder, PTL DEF Spec, KillIsTrue

=============================================================================
