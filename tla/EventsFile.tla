----------------------------- MODULE EventsFile -----------------------------
(***************************************************************************)
(* The events file of one mission, byte tears included: the writer of the  *)
(* running mission, the finalizer and the start-up repair append to it     *)
(* (eventfile/writer.go), a streaming handler reads it (eventfile/reader.go,*)
(* handlers/events.go), and a client follows the stream over connections   *)
(* that break (lettsclient/events.go).                                     *)
(*                                                                         *)
(* A line of the file is a record; a line whose JSON is torn is junk.  The *)
(* wire between handler and client is left out: a line the handler sends   *)
(* on a connection that breaks is, to a client that resumes from its own   *)
(* cursor, a line that was never sent.                                     *)
(***************************************************************************)
EXTENDS Naturals, Sequences

CONSTANTS
    MaxProgress,   \* bound: progress events the mission emits
    EventsBuffer,  \* Limits.MaxEventsBuffer, in progress lines
    Froms,         \* the positions a client may ask for
    FaultSets,     \* what may go wrong: a behaviour has the faults of one of these sets
    MaxFaults,     \* bound: how often
    None

AllFaults == {"ioError", "crash", "powerLoss", "eventsLost", "idleCut", "disconnect", "delete"}

VARIABLES
    may,     \* the faults of this behaviour; constant
    file,    \* the lines of the events file
    linked,  \* the file has its name (a deleted one lives on in open handles)
    synced,  \* how many of its lines are durable
    db,      \* missions.status and the finalize intent
    wal,     \* the database states a power loss may leave
    daemon,  \* down, a phase of the start-up repair, or up
    w,       \* eventfile.Writer of the job that writes, and that job's progress
    stream,  \* eventfile.Stream of the client's connection
    client,  \* lettsclient.StreamEvents
    faults   \* faults so far

vars == <<may, file, linked, synced, db, wal, daemon, w, stream, client, faults>>

Kinds == {"queued", "running", "progress", "done"}
Outcomes == {"own", "lost"}
Seqs == Nat \ {0}

\* outcome stands for the fields of a done event.
Line == [kind : {"junk"}, seq : {0}, outcome : {None}, ended : BOOLEAN]
        \cup [kind : Kinds \ {"done"}, seq : Seqs, outcome : {None}, ended : BOOLEAN]
        \cup [kind : {"done"}, seq : Seqs, outcome : Outcomes, ended : BOOLEAN]
Event(k, n, o) == [kind |-> k, seq |-> n, outcome |-> o, ended |-> TRUE]
Junk == [kind |-> "junk", seq |-> 0, outcome |-> None, ended |-> FALSE]

Intent == [seq : Seqs, outcome : Outcomes]
Database == [row : {"queued"}, outcome : {None}, intent : {None}]
            \cup [row : {"running"}, outcome : {None}, intent : Intent \cup {None}]
            \cup [row : {"done", "deleting", "gone"}, outcome : Outcomes, intent : {None}]
            \cup [row : {"deleting", "gone"}, outcome : {None}, intent : {None}]

ASSUME EventsConstantsOK ==
    /\ MaxProgress \in Nat /\ EventsBuffer \in Nat /\ Froms \subseteq Nat
    /\ FaultSets \subseteq SUBSET AllFaults /\ MaxFaults \in Nat
    /\ None \notin Intent \cup Outcomes

\* job: what the writer is for; pc: where that job is; line, landed: the line being
\* written and how much of it is in the file; outcome: what the job finalizes with.
Writer == [job : {"none", "run", "finalize", "repair", "terminal"},
           pc : {"idle", "open", "announce", "ready", "writing", "intend", "append", "commit"},
           seq : Nat, pending : BOOLEAN, buffered : Nat, emitted : 0 .. MaxProgress,
           line : Line \cup {None}, landed : {"nothing", "fragment", "bare"},
           outcome : Outcomes]
Idle == [job |-> "none", pc |-> "idle", seq |-> 0, pending |-> FALSE, buffered |-> 0,
         emitted |-> 0, line |-> None, landed |-> "nothing", outcome |-> "own"]

Stream == [open : BOOLEAN, pos : Nat, partial : BOOLEAN, follow : BOOLEAN, from : Nat]
NoStream == [open |-> FALSE, pos |-> 0, partial |-> FALSE, follow |-> FALSE, from |-> 0]

\* cursor: lastSeq; start: its value when the connection began; got: the events
\* handed to the callback.
Returned == {"ok", "refused", "noDone", "transport", "callback", "decode"}
Client == [pc : {"connect", "reading", "ended", "broken"} \cup Returned, follow : BOOLEAN,
           from : Froms, cursor : Nat, start : Nat, sawDone : BOOLEAN, got : Seq(Line)]

\* Dispatch has written and fsynced the queued event and inserted the row.
Init ==
    /\ may \in FaultSets
    /\ file = <<Event("queued", 1, None)>> /\ linked = TRUE /\ synced = 1
    /\ db = [row |-> "queued", outcome |-> None, intent |-> None]
    /\ wal = IF "powerLoss" \in may THEN {db} ELSE {}
    /\ daemon = "up" /\ w = Idle /\ stream = NoStream /\ faults = 0
    /\ \E n \in Froms, f \in BOOLEAN :
         client = [pc |-> "connect", follow |-> f, from |-> n, cursor |-> n, start |-> n,
                   sawDone |-> FALSE, got |-> <<>>]

-----------------------------------------------------------------------------
(* The bytes of the file.                                                  *)

Torn(f) == f # <<>> /\ ~f[Len(f)].ended
Parseable(l) == l.kind # "junk"

\* A write of l: on an unfinished line it can only make that line longer.
Put(f, l) == IF Torn(f) THEN [f EXCEPT ![Len(f)] = [Junk EXCEPT !.ended = l.ended]]
                        ELSE Append(f, l)
Newline(f) == IF Torn(f) THEN [f EXCEPT ![Len(f)].ended = TRUE]
                         ELSE Append(f, [Junk EXCEPT !.ended = TRUE])

\* scanLastSeq and the scan of AppendDoneIdempotent: a scanner returns the last line
\* of a file even without its newline.
LastSeqOf(f) == LET seqs == {f[i].seq : i \in DOMAIN f} \cup {0}
                IN CHOOSE n \in seqs : \A k \in seqs : k <= n
DoneLines(f) == {i \in DOMAIN f : f[i].kind = "done"}
TailHasDoneEvent == linked /\ \E i \in DoneLines(file) : file[i].ended

\* terminateTornTail.
Opened(f) == IF Torn(f) THEN Newline(f) ELSE f

\* ensureEventsFile before Open: a missing file is made again with a running event.
Ensured == IF linked THEN file ELSE <<Event("running", 1, None)>>

\* What the log holds matters only where the power may fail.
Commit(d) == db' = d /\ wal' = IF "powerLoss" \in may THEN wal \cup {d} ELSE {}

-----------------------------------------------------------------------------
(* Writer.Append.  A write may be seen, or may stop, part way: nothing, a  *)
(* fragment, or all but the newline (bare) has landed.                     *)

\* The line l is the next one; the healing newline of an earlier failure goes first.
AppendBegins(l) ==
    \E landed \in {"nothing", "fragment", "bare"} :
       LET healed == IF w.pending THEN Newline(file) ELSE file
           whole  == IF Torn(healed) THEN [Junk EXCEPT !.ended = TRUE] ELSE l
       IN /\ w' = [w EXCEPT !.pc = "writing", !.line = whole, !.landed = landed, !.pending = FALSE,
                            !.emitted = IF l.kind = "progress" THEN @ + 1 ELSE @]
          /\ file' = CASE landed = "nothing"  -> healed
                       [] landed = "fragment" -> Put(healed, Junk)
                       [] landed = "bare"     -> Put(healed, [l EXCEPT !.ended = FALSE])

\* The write returns without an error.  Only a done event is fsynced here.
AppendEnds ==
    LET l == w.line IN
    /\ w.pc = "writing"
    /\ file' = IF w.landed = "nothing" THEN Put(file, l) ELSE [file EXCEPT ![Len(file)] = l]
    /\ w' = [w EXCEPT !.pc = IF w.job = "run" THEN "ready" ELSE "commit", !.seq = @ + 1,
                      !.line = None, !.landed = "nothing",
                      !.buffered = IF l.kind = "progress" THEN @ + 1 ELSE @]
    /\ synced' = IF w.job = "run" THEN synced ELSE Len(file')
    /\ UNCHANGED <<linked, db, wal, daemon, stream, client, faults>>

\* The write fails after the part that has landed.  A running mission goes on; a
\* finalize or a repair returns the error and closes its writer.
AppendFails ==
    /\ w.pc = "writing" /\ "ioError" \in may /\ faults < MaxFaults
    /\ faults' = faults + 1
    /\ w' = IF w.job = "run"
            THEN [w EXCEPT !.pc = "ready", !.pending = w.landed # "nothing",
                           !.seq = IF w.landed # "nothing" THEN @ + 1 ELSE @,
                           !.line = None, !.landed = "nothing"]
            ELSE Idle
    /\ UNCHANGED <<file, linked, synced, db, wal, daemon, stream, client>>

\* The line is whole but the fsync after it fails: Append returns an error.
SyncFails ==
    /\ w.pc = "writing" /\ w.job # "run" /\ "ioError" \in may /\ faults < MaxFaults
    /\ faults' = faults + 1
    /\ file' = IF w.landed = "nothing" THEN Put(file, w.line) ELSE [file EXCEPT ![Len(file)] = w.line]
    /\ w' = Idle
    /\ UNCHANGED <<linked, synced, db, wal, daemon, stream, client>>

-----------------------------------------------------------------------------
(* The running mission.                                                    *)

\* The lane runner marks the row running.
PickUp ==
    /\ daemon = "up" /\ w.job = "none" /\ db.row = "queued"
    /\ Commit([db EXCEPT !.row = "running"])
    /\ w' = [Idle EXCEPT !.job = "run", !.pc = "open"]
    /\ UNCHANGED <<file, linked, synced, daemon, stream, client, faults>>

\* The waiter of the spawned mission opens the file (or makes it) and appends the running event; an
\* error of that append is only logged.
RunOpens ==
    /\ w.job = "run" /\ w.pc = "open"
    /\ file' = IF linked THEN Opened(file) ELSE <<>>
    /\ linked' = TRUE
    /\ w' = [w EXCEPT !.pc = "announce", !.seq = LastSeqOf(file')]
    /\ UNCHANGED <<synced, db, wal, daemon, stream, client, faults>>

Announce ==
    /\ w.pc = "announce" /\ AppendBegins(Event("running", w.seq + 1, None))
    /\ UNCHANGED <<linked, synced, db, wal, daemon, stream, client, faults>>

\* The mission cannot be started (finalizeCrashed): it goes straight to Finalize.
RunCrashes ==
    /\ w.job = "run" /\ w.pc = "open"
    /\ w' = [Idle EXCEPT !.job = "finalize", !.pc = "open"]
    /\ UNCHANGED <<file, linked, synced, db, wal, daemon, stream, client, faults>>

\* A progress event is written, or dropped when the buffer is full or its line is too
\* large (an input); either way the torn line before it is finished first.
Progress ==
    /\ w.job = "run" /\ w.pc = "ready" /\ w.emitted < MaxProgress
    /\ \/ w.buffered < EventsBuffer /\ AppendBegins(Event("progress", w.seq + 1, None))
       \/ /\ file' = IF w.pending THEN Newline(file) ELSE file
          /\ w' = [w EXCEPT !.emitted = @ + 1, !.pending = FALSE]
    /\ UNCHANGED <<linked, synced, db, wal, daemon, stream, client, faults>>

\* The healing newline itself fails: the event is not written, the line stays torn.
HealFails ==
    /\ w.job = "run" /\ w.pc = "ready" /\ w.pending /\ w.emitted < MaxProgress
    /\ "ioError" \in may /\ faults < MaxFaults
    /\ faults' = faults + 1 /\ w' = [w EXCEPT !.emitted = @ + 1]
    /\ UNCHANGED <<file, linked, synced, db, wal, daemon, stream, client>>

\* The process has exited and the fd3 writer is gone: the waiter closes the file.
RunCloses ==
    /\ w.job = "run" /\ w.pc = "ready"
    /\ w' = [Idle EXCEPT !.job = "finalize", !.pc = "open"]
    /\ UNCHANGED <<file, linked, synced, db, wal, daemon, stream, client, faults>>

-----------------------------------------------------------------------------
(* Finalize and the tail it shares with the repair.                        *)

\* Finalize opens the file and takes the next seq for the done event.
FinalizeOpens ==
    /\ w.job = "finalize" /\ w.pc = "open"
    /\ file' = Opened(Ensured) /\ linked' = TRUE
    /\ w' = [w EXCEPT !.pc = "intend", !.seq = LastSeqOf(file')]
    /\ UNCHANGED <<synced, db, wal, daemon, stream, client, faults>>

\* Phase A2 makes the intent durable; a failure leaves the row running.
WriteIntent ==
    /\ w.pc = "intend"
    /\ Commit([db EXCEPT !.intent = [seq |-> w.seq + 1, outcome |-> w.outcome]])
    /\ w' = [w EXCEPT !.pc = "append"]
    /\ UNCHANGED <<file, linked, synced, daemon, stream, client, faults>>

\* doneEventsMatch: the fields of the last done event against the intent's.
DoneEventsMatch(f) == f[CHOOSE i \in DoneLines(f) : \A k \in DoneLines(f) : k <= i].outcome
                         = db.intent.outcome
Larger(a, b) == IF a > b THEN a ELSE b

\* AppendDoneIdempotent of commitFinalize.
\* Mutant: no look for an earlier done event.
AppendDoneBlind ==
    /\ w.pc = "append"
    /\ AppendBegins(Event("done", Larger(db.intent.seq, LastSeqOf(file) + 1), db.intent.outcome))
    /\ UNCHANGED <<linked, synced, db, wal, daemon, stream, client, faults>>
AppendDone ==
    /\ w.pc = "append"
    /\ \/ /\ w.job # "terminal" /\ DoneLines(file) = {}
          /\ AppendBegins(Event("done", Larger(db.intent.seq, LastSeqOf(file) + 1), db.intent.outcome))
       \/ /\ w.job # "terminal" /\ DoneLines(file) # {} /\ DoneEventsMatch(file)
          /\ w' = [w EXCEPT !.pc = "commit"] /\ UNCHANGED file
       \/ /\ w.job # "terminal" /\ DoneLines(file) # {} /\ ~DoneEventsMatch(file)
          /\ w' = Idle /\ UNCHANGED file                        \* ErrTerminalEventConflict
    /\ UNCHANGED <<linked, synced, db, wal, daemon, stream, client, faults>>

\* appendReconstructedDone has no intent to look at: it appends.
AppendReconstructedDone ==
    /\ w.pc = "append" /\ w.job = "terminal"
    /\ AppendBegins(Event("done", w.seq + 1, db.outcome))
    /\ UNCHANGED <<linked, synced, db, wal, daemon, stream, client, faults>>

\* The final UPDATE.  The reconstructed done event of a done row changes no row.
CommitDone ==
    /\ w.pc = "commit"
    /\ IF w.job = "terminal" THEN UNCHANGED <<db, wal>>
                             ELSE Commit([row |-> "done", outcome |-> db.intent.outcome, intent |-> None])
    /\ w' = Idle
    /\ UNCHANGED <<file, linked, synced, daemon, stream, client, faults>>

\* A transaction of the finalizer fails for good.
TxFails ==
    /\ w.pc \in {"intend", "commit"} /\ w.job # "terminal"
    /\ "ioError" \in may /\ faults < MaxFaults
    /\ faults' = faults + 1 /\ w' = Idle
    /\ UNCHANGED <<file, linked, synced, db, wal, daemon, stream, client>>

\* deleteOne marks a queued or a finished mission; a queued one gets no done event.
MarkMissionDeleting ==
    db.row \in {"queued", "done"} /\ Commit([db EXCEPT !.row = "deleting"]) /\ UNCHANGED <<linked, synced>>

\* Cleanup removes what is marked: the file, under whoever reads it, and then the row.
Delete ==
    /\ "delete" \in may /\ daemon = "up" /\ w.job = "none"
    /\ \/ MarkMissionDeleting
       \/ db.row = "deleting" /\ linked /\ linked' = FALSE /\ synced' = 0 /\ UNCHANGED <<db, wal>>
       \/ db.row = "deleting" /\ ~linked /\ Commit([db EXCEPT !.row = "gone"]) /\ UNCHANGED <<linked, synced>>
    /\ UNCHANGED <<file, daemon, w, stream, client, faults>>

-----------------------------------------------------------------------------
(* Failures of the daemon and of the machine, and the start-up repair.     *)

\* The connection breaks, between two lines or inside the one that is sent: the client's
\* scanner hands over what it has of that line, which does not decode, and that is not
\* retried.  (A line that lacks only its newline is one that was delivered before.)
InsideLine == /\ stream.pos < Len(file)
              /\ LET l == file[stream.pos + 1] IN l.ended /\ Parseable(l) /\ stream.from < l.seq
Breaks == \E p \in {"broken", "decode"} : (p = "decode" => InsideLine) /\ client' = [client EXCEPT !.pc = p]

Dies ==
    /\ daemon # "down" /\ daemon' = "down" /\ faults' = faults + 1
    /\ w' = Idle /\ stream' = NoStream
    /\ IF stream.open THEN Breaks ELSE UNCHANGED client

\* The process dies; what it has written stays.
Crash == /\ "crash" \in may /\ faults < MaxFaults /\ Dies
         /\ UNCHANGED <<file, linked, synced, db, wal>>

\* The machine dies: of the lines after the durable ones any number is left, the last
\* of them perhaps torn, and the database is one of the states since its checkpoint.
PowerLoss ==
    /\ "powerLoss" \in may /\ faults < MaxFaults /\ Dies
    /\ db' \in wal /\ wal' = {db'}
    /\ \E k \in synced .. Len(file) :
         \/ file' = SubSeq(file, 1, k)
         \/ /\ k > synced
            /\ \E l \in {Junk, [file[k] EXCEPT !.ended = FALSE]} : file' = [SubSeq(file, 1, k) EXCEPT ![k] = l]
    /\ synced' = IF linked THEN Len(file') ELSE 0
    /\ UNCHANGED linked

\* The file is lost to manual cleanup or disk repair while the daemon is down.
EventsLost ==
    /\ "eventsLost" \in may /\ faults < MaxFaults /\ daemon = "down" /\ linked
    /\ db.row \in {"running", "done"}
    /\ faults' = faults + 1 /\ linked' = FALSE /\ file' = <<>> /\ synced' = 0
    /\ UNCHANGED <<db, wal, daemon, w, stream, client>>

\* SQLite copies the log into the database file.
Checkpoint == /\ wal \notin {{}, {db}} /\ wal' = {db}
              /\ UNCHANGED <<file, linked, synced, db, daemon, w, stream, client, faults>>

Start == /\ daemon = "down" /\ daemon' = "intents"
         /\ UNCHANGED <<file, linked, synced, db, wal, w, stream, client, faults>>

\* RepairFinalizeIntents: the prepared intent is committed.  done_seq comes from it.
RepairIntent ==
    /\ daemon = "intents" /\ w.job = "none" /\ daemon' = "terminal"
    /\ IF db.intent = None
       THEN UNCHANGED <<file, linked, w>>
       ELSE /\ file' = Opened(Ensured) /\ linked' = TRUE
            /\ w' = [Idle EXCEPT !.job = "repair", !.pc = "append", !.seq = LastSeqOf(file')]
    /\ UNCHANGED <<synced, db, wal, stream, client, faults>>

\* EnsureTerminalEvents: a done row without a done line gets one from the row.
EnsureTerminalEvents ==
    /\ daemon = "terminal" /\ w.job = "none" /\ daemon' = "lost"
    /\ IF db.row = "done" /\ ~TailHasDoneEvent
       THEN /\ file' = Opened(Ensured) /\ linked' = TRUE
            /\ w' = [Idle EXCEPT !.job = "terminal", !.pc = "append", !.seq = LastSeqOf(file')]
       ELSE UNCHANGED <<file, linked, w>>
    /\ UNCHANGED <<synced, db, wal, stream, client, faults>>

\* SweepRunningToLost: a running row without an intent is finalized as lost.
SweepRunningToLost ==
    /\ daemon = "lost" /\ w.job = "none" /\ daemon' = "repaired"
    /\ w' = IF db.row = "running" /\ db.intent = None
            THEN [Idle EXCEPT !.job = "finalize", !.pc = "open", !.outcome = "lost"] ELSE w
    /\ UNCHANGED <<file, linked, synced, db, wal, stream, client, faults>>

Serve == /\ daemon = "repaired" /\ w.job = "none" /\ daemon' = "up"
         /\ UNCHANGED <<file, linked, synced, db, wal, w, stream, client, faults>>

-----------------------------------------------------------------------------
(* EventsHandler.Stream and eventfile.Stream.                              *)

StreamEnds(pc) == stream' = NoStream /\ client' = [client EXCEPT !.pc = pc]

\* streamOnce asks; the handler reads the row and opens the file.  A done mission is
\* read as an archive.
\* Mutant: every connection asks for the first one's position.
ConnectAfresh ==
    /\ client.pc = "connect"
    /\ \/ daemon # "up" /\ ~client.follow /\ StreamEnds("transport")
       \/ daemon = "up" /\ db.row \in {"deleting", "gone"} /\ StreamEnds("refused")
       \/ /\ daemon = "up" /\ db.row \notin {"deleting", "gone"} /\ linked
          /\ stream' = [open |-> TRUE, pos |-> 0, partial |-> FALSE, from |-> client.from,
                        follow |-> client.follow /\ db.row # "done"]
          /\ client' = [client EXCEPT !.pc = "reading", !.start = client.cursor]
    /\ UNCHANGED <<file, linked, synced, db, wal, daemon, w, faults>>
Connect ==
    /\ client.pc = "connect"
    /\ \/ daemon # "up" /\ ~client.follow /\ StreamEnds("transport")
       \/ daemon = "up" /\ db.row \in {"deleting", "gone"} /\ StreamEnds("refused")
       \/ /\ daemon = "up" /\ db.row \notin {"deleting", "gone"} /\ linked
          /\ stream' = [open |-> TRUE, pos |-> 0, partial |-> FALSE, from |-> client.cursor,
                        follow |-> client.follow /\ db.row # "done"]
          /\ client' = [client EXCEPT !.pc = "reading", !.start = client.cursor]
    /\ UNCHANGED <<file, linked, synced, db, wal, daemon, w, faults>>

\* The callback took the event: streamOnce moves the cursor and stops at done.
Delivered(l) == [client EXCEPT !.got = Append(@, [l EXCEPT !.ended = TRUE]),
                               !.cursor = Larger(@, l.seq),
                               !.pc = IF l.kind = "done" THEN "ok" ELSE @]

\* One complete line.  Lines at or before the position asked for are passed over, but
\* a done event among them still ends the stream.
\* Mutant: only a line that is sent can end the stream.
ReadLineFollowsPast ==
    LET l == file[stream.pos + 1]
        read == [stream EXCEPT !.pos = @ + 1, !.partial = FALSE] IN
    /\ stream.open /\ stream.pos < Len(file) /\ l.ended
    /\ IF ~Parseable(l) \/ (stream.from > 0 /\ l.seq <= stream.from)
       THEN stream' = read /\ UNCHANGED client
       ELSE /\ client' = Delivered(l)
            /\ stream' = IF l.kind = "done" THEN NoStream ELSE read
    /\ UNCHANGED <<file, linked, synced, db, wal, daemon, w, faults>>
ReadLine ==
    LET l == file[stream.pos + 1]
        read == [stream EXCEPT !.pos = @ + 1, !.partial = FALSE]
        skip == stream.from > 0 /\ l.seq <= stream.from IN
    /\ stream.open /\ stream.pos < Len(file) /\ l.ended
    /\ \/ ~Parseable(l) /\ stream' = read /\ UNCHANGED client
       \/ Parseable(l) /\ skip /\ l.kind # "done" /\ stream' = read /\ UNCHANGED client
       \/ Parseable(l) /\ skip /\ l.kind = "done" /\ StreamEnds("ended")
       \/ /\ Parseable(l) /\ ~skip /\ client' = Delivered(l)
          /\ stream' = IF l.kind = "done" THEN NoStream ELSE read
       \/ Parseable(l) /\ ~skip /\ StreamEnds("callback")
    /\ UNCHANGED <<file, linked, synced, db, wal, daemon, w, faults>>

\* The end of the file: the bytes of an unfinished line are kept for the next poll,
\* or dropped when nobody follows.
AtEnd == stream.open /\ (stream.pos = Len(file) \/ (stream.pos + 1 = Len(file) /\ Torn(file)))
ReadPartial ==
    /\ AtEnd /\ Torn(file) /\ stream.follow /\ ~stream.partial
    /\ stream' = [stream EXCEPT !.partial = TRUE]
    /\ UNCHANGED <<file, linked, synced, db, wal, daemon, w, client, faults>>
ReadEOF ==
    /\ AtEnd /\ ~stream.follow /\ StreamEnds("ended")
    /\ UNCHANGED <<file, linked, synced, db, wal, daemon, w, faults>>

\* A proxy on the way gives up on a stream that has nothing to say: to the client the
\* body ends cleanly.
IdleCut ==
    /\ "idleCut" \in may /\ faults < MaxFaults /\ AtEnd /\ stream.follow
    /\ faults' = faults + 1 /\ StreamEnds("ended")
    /\ UNCHANGED <<file, linked, synced, db, wal, daemon, w>>

Disconnect ==
    /\ "disconnect" \in may /\ faults < MaxFaults /\ stream.open
    /\ faults' = faults + 1 /\ stream' = NoStream /\ Breaks
    /\ UNCHANGED <<file, linked, synced, db, wal, daemon, w>>

-----------------------------------------------------------------------------
(* StreamEvents after streamOnce.                                          *)

Progressed == client.cursor > client.start

\* A transport error: a follower connects again.
Reconnect ==
    /\ client.pc = "broken"
    /\ client' = [client EXCEPT !.pc = IF client.follow THEN "connect" ELSE "transport",
                                !.sawDone = @ /\ ~Progressed]
    /\ UNCHANGED <<file, linked, synced, db, wal, daemon, w, stream, faults>>

\* The stream ended without done.  A follower that got nothing new asks for the row:
\* when it is done, one more read must bring the done event.
\* Mutant: the first look at a done row is the verdict.
StreamEndedHasty ==
    /\ client.pc = "ended"
    /\ client' = [client EXCEPT !.pc = IF ~client.follow THEN "ok"
                                       ELSE IF ~Progressed /\ daemon = "up" /\ db.row = "done" THEN "noDone"
                                       ELSE "connect"]
    /\ UNCHANGED <<file, linked, synced, db, wal, daemon, w, stream, faults>>
StreamEnded ==
    /\ client.pc = "ended"
    /\ \/ ~client.follow /\ client' = [client EXCEPT !.pc = "ok"]
       \/ client.follow /\ Progressed /\ client' = [client EXCEPT !.pc = "connect", !.sawDone = FALSE]
       \/ /\ client.follow /\ ~Progressed /\ daemon = "up" /\ db.row = "done"
          /\ client' = [client EXCEPT !.pc = IF client.sawDone THEN "noDone" ELSE "connect",
                                      !.sawDone = TRUE]
       \/ /\ client.follow /\ ~Progressed /\ ~(daemon = "up" /\ db.row = "done")
          /\ client' = [client EXCEPT !.pc = "connect"]
    /\ UNCHANGED <<file, linked, synced, db, wal, daemon, w, stream, faults>>

-----------------------------------------------------------------------------
Mission == PickUp \/ RunOpens \/ Announce \/ RunCrashes \/ Progress \/ RunCloses
Finalizer == FinalizeOpens \/ WriteIntent \/ AppendDone \/ AppendReconstructedDone \/ CommitDone \/ AppendEnds
Repair == Start \/ RepairIntent \/ EnsureTerminalEvents \/ SweepRunningToLost \/ Serve
Reader == ReadLine \/ ReadPartial \/ ReadEOF
Follower == Connect \/ Reconnect \/ StreamEnded
Failure == AppendFails \/ SyncFails \/ HealFails \/ TxFails \/ Crash \/ PowerLoss \/ EventsLost
           \/ IdleCut \/ Disconnect

Step == Mission \/ Finalizer \/ Repair \/ Reader \/ Follower \/ Failure \/ Delete \/ Checkpoint
Next == UNCHANGED may /\ Step

\* The daemon, once started, does its work; it is started again after it dies (the
\* service manager); the client retries for as long as its context lives.  Nothing
\* makes the mission emit, an operator delete, or a fault happen.
Fairness ==
    /\ WF_vars(UNCHANGED may /\ Finalizer) /\ WF_vars(UNCHANGED may /\ Repair)
    /\ WF_vars(UNCHANGED may /\ Reader) /\ WF_vars(UNCHANGED may /\ Follower)

Spec == Init /\ [][Next]_vars
FairSpec == Spec /\ Fairness

-----------------------------------------------------------------------------
(* Properties.                                                             *)

TypeOK ==
    /\ may \in FaultSets /\ file \in Seq(Line) /\ linked \in BOOLEAN /\ synced \in 0 .. Len(file)
    /\ db \in Database /\ wal \subseteq Database
    /\ daemon \in {"down", "intents", "terminal", "lost", "repaired", "up"}
    /\ w \in Writer /\ stream \in Stream /\ client \in Client /\ faults \in 0 .. MaxFaults

\* A line that every reader takes for an event.
Readable(l) == l.ended /\ Parseable(l)

\* Nothing that was written has been taken back: neither by a power loss nor by hand.
Intact == faults = 0 \/ may \cap {"powerLoss", "eventsLost"} = {}

\* Whatever writes failed, tore, or were lost with the power, the events that can be
\* read from the file have strictly increasing seq: from=<seq> resumes at one place.
SeqsIncrease ==
    \A i, k \in DOMAIN file : i < k /\ Readable(file[i]) /\ Readable(file[k]) => file[i].seq < file[k].seq

\* The terminal events of the file tell one story, whatever was lost, torn and repaired,
\* and as long as nothing was lost there is one of them: not two after a done that tore
\* at its newline, nor after a repair of a repair.  The pass over done rows, which
\* rebuilds a lost one, does not see its own done event when that tears at the newline,
\* and appends a second one like it.
OneDone ==
    \A i, k \in DoneLines(file) : file[i].outcome = file[k].outcome /\ (Intact => i = k)

\* commitFinalize appends before it updates, and every writer first ends the line an
\* earlier one tore: the stream of a done row has its done event, whole, on a line of
\* its own.
DoneIsReadable == db.row = "done" /\ Intact => TailHasDoneEvent

\* What is in the file, through failed, torn and lost writes and the repairs of three
\* kinds of writers (Append, AppendDoneIdempotent, terminateTornTail).
EventsInv == TypeOK /\ SeqsIncrease /\ OneDone /\ DoneIsReadable

\* Across any number of connections, restarts and half-written lines the callback got
\* the readable events after the position asked for, each of them and no other.
GotAll ==
    Intact => {client.got[i] : i \in DOMAIN client.got}
                = {l \in {file[i] : i \in DOMAIN file} :
                     Readable(l) /\ client.from < l.seq /\ l.seq <= client.cursor}

\* Even when a power loss takes back events that were delivered, the callback never
\* sees a seq twice or out of order.
GotInOrder == \A i, k \in DOMAIN client.got : i < k => client.got[i].seq < client.got[k].seq

\* What the callback of StreamEvents gets over all its connections: every event once and
\* in order.
Delivery == GotAll /\ GotInOrder

\* "mission is done but has no done event after seq n" is the truth: no read from
\* that cursor can bring a done event.  (A file that is lost may be rebuilt with a done
\* event behind the old one, while a client is about to say so.)
NoFalseAlarm ==
    client.pc = "noDone" /\ linked /\ Intact
    => \A i \in DoneLines(file) : file[i].ended => file[i].seq <= client.cursor

\* The mission was deleted while it was queued, under a live stream: the handler polls a
\* file without a name, to which nobody will write, and never looks at the row again.
Orphaned == stream.open /\ stream.follow /\ db.row \in {"deleting", "gone"} /\ db.outcome = None

\* When the mission is done or deleted for good (a power loss can undo the commit) every
\* client returns, also one that asked for a position behind the done event, that lost
\* its connection, or whose events a power loss took.  The one that does not is the
\* follower of a mission that was deleted before it ran (Orphaned), for as long as its
\* connection holds.
FollowEnds ==
    <>[](db.row \in {"done", "deleting", "gone"}) => <>[](client.pc \in Returned \/ Orphaned)

-----------------------------------------------------------------------------
(* The inductive invariant.                                                *)

\* Only the last line of a file may lack its newline, and also the events that lack it
\* are in order.
InOrder(f) ==
    /\ \A i \in DOMAIN f : i < Len(f) => f[i].ended
    /\ \A i, k \in DOMAIN f : i < k /\ Parseable(f[i]) /\ Parseable(f[k]) => f[i].seq < f[k].seq

\* The line that is being written comes after all others, as far as it has landed.
LineInOrder ==
    /\ w.line \in Line /\ Readable(w.line)
    /\ \A i \in DOMAIN file : i < Len(file) \/ w.landed = "nothing" => file[i].seq < w.line.seq
    /\ w.landed = "nothing" => ~Torn(file)
    /\ w.landed = "fragment" => file # <<>> /\ file[Len(file)] = Junk
    /\ w.landed = "bare" => file # <<>> /\ file[Len(file)] = [w.line EXCEPT !.ended = FALSE]
    /\ IF w.job = "run" THEN w.line.kind # "done" /\ w.line.seq = w.seq + 1 ELSE w.line.kind = "done"

\* Where each job can be; when it may append the file is not torn, or the writer knows.
WriterInOrder ==
    /\ w.job = "none" => w = Idle
    /\ w.job = "run" => w.pc \in {"open", "announce", "ready", "writing"}
    /\ w.job = "finalize" => w.pc \in {"open", "intend", "append", "writing", "commit"}
    /\ w.job \in {"repair", "terminal"} => w.pc \in {"append", "writing", "commit"}
    /\ w.job # "none" /\ w.pc # "open" => linked
    /\ w.pc \in {"announce", "intend", "append"} => ~Torn(file)
    /\ IF w.pc = "ready" THEN w.pending <=> Torn(file) ELSE ~w.pending
    /\ w.pc \in {"announce", "ready"} \/ (w.pc = "append" /\ w.job = "terminal")
          => \A i \in DOMAIN file : file[i].seq <= w.seq
    /\ w.pc = "writing" => LineInOrder

\* A job dies with the daemon.
JobAlive == w.job # "none" => daemon # "down"

\* The outcome that a row, or its intent, names.
Verdict(d) == IF d.intent = None THEN d.outcome ELSE d.intent.outcome
Final == db.row \in {"done", "deleting", "gone"} /\ db.outcome # None

\* The row and the done events a job finds, and the done event it is writing.
JobInOrder ==
    /\ w.job = "run" \/ (w.job = "finalize" /\ w.pc \in {"open", "intend"})
          => db.row = "running" /\ db.intent = None
    /\ w.job = "repair" \/ (w.job = "finalize" /\ w.pc \in {"append", "writing", "commit"}) => db.intent # None
    /\ w.job = "terminal" => db.row = "done"
    /\ w.pc = "writing" /\ w.job # "run" => w.line.outcome = Verdict(db)
    /\ w.pc = "writing" /\ w.job \in {"finalize", "repair"}
          => \A i \in DoneLines(file) : i = Len(file) /\ w.landed = "bare"
    /\ w.pc = "commit" /\ w.job # "terminal"
          => /\ \E i \in DoneLines(file) : file[i].ended
             /\ \A i \in DoneLines(file) : file[i].outcome = Verdict(db)

\* Whatever state of the database the power leaves, the done events of the file, if any,
\* tell the outcome of a finished row.
RowInOrder ==
    /\ \A d \in wal : Verdict(d) \in {None, Verdict(db)}
    /\ \A d \in wal \cup {db} : d.outcome # None => \A i \in DoneLines(file) : file[i].outcome = d.outcome
    /\ ~linked => synced = 0

\* As long as nothing is lost the file is there, and ends with the done event of its row.
NothingMissing ==
    Intact => /\ linked \/ db.row \in {"deleting", "gone"}
              /\ w.job # "terminal"
              /\ Final => \E i \in DoneLines(file) : file[i].ended

\* A stream has passed whole lines only, and sent those after the position it was asked
\* for; nothing replaces the file under it.
StreamInOrder ==
    stream.open =>
        /\ daemon = "up" /\ client.pc = "reading" /\ (linked \/ db.row \in {"deleting", "gone"})
        /\ stream.pos <= Len(file) /\ stream.from <= client.cursor
        /\ \A i \in 1 .. stream.pos : file[i].ended /\ file[i].seq <= client.cursor
        /\ client.cursor = stream.from
           \/ \E i \in 1 .. stream.pos : Parseable(file[i]) /\ file[i].seq = client.cursor

\* The cursor is the position asked for or the last event the callback got.
CursorInOrder ==
    /\ client.from <= client.cursor /\ \A i \in DOMAIN client.got : client.got[i].seq <= client.cursor
    /\ Intact => client.cursor = client.from
                 \/ \E i \in DOMAIN file : Readable(file[i]) /\ file[i].seq = client.cursor

\* A follower that has seen the row done reads an archive.
AlarmInOrder ==
    /\ client.pc = "noDone" => client.sawDone
    /\ Intact /\ client.sawDone =>
          /\ Final /\ (stream.open => ~stream.follow)
          /\ client.pc \in {"ended", "noDone"}
             => \A i \in DoneLines(file) : file[i].ended => file[i].seq <= client.cursor

EventsIInv ==
    /\ EventsInv /\ Delivery /\ InOrder(file) /\ WriterInOrder /\ JobAlive /\ JobInOrder /\ RowInOrder
    /\ NothingMissing /\ StreamInOrder /\ CursorInOrder /\ AlarmInOrder

=============================================================================
