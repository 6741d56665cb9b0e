------------------------------ MODULE Staging ------------------------------
(***************************************************************************)
(* One staging file: clients upload it with retries (lettsclient/upload.go,*)
(* staging.go), PUT handlers stream it to disk under the per-id upload     *)
(* lock (handlers/staging.go, stagingstore/upload_lock.go), a mission is   *)
(* dispatched on it, an operator deletes it, the collector expires,        *)
(* tombstones and unlinks it (cleanup/staging_gc.go), and the disk scanner *)
(* removes what has no row.                                                *)
(*                                                                         *)
(* A file is a sequence of blocks; block i of the content c is <<c, i>>,   *)
(* and a sha256 is the sequence that was hashed.                           *)
(***************************************************************************)
EXTENDS Naturals, Sequences, FiniteSets

CONSTANTS
    Contents,      \* what may be uploaded
    Total,         \* the declared size, in blocks
    MaxTries,      \* stagingPutMaxAttempts
    Environments,  \* [may, contents, puts, rows, faults]: what may go wrong, what each
                   \* client uploads, and the bounds on PUT requests, on inserted rows and
                   \* on faults
    None

AllFaults == {"idle", "quota", "disconnect", "dbError", "restart", "delete", "mission", "download"}

Content(c) == [i \in 1 .. Total |-> <<c, i>>]
Block == (Contents \X (1 .. Total)) \cup {None}

\* exp: time_expires lies ahead, is over, is MaxInt64, or is the trigger's 0.
Row == [state : {"uploading", "complete", "deleting"}, sha : Contents, got : 0 .. Total,
        exp : {"live", "past", "forever", "zero"}]

ASSUME StagingConstantsOK ==
    /\ {Total, MaxTries} \subseteq Nat \ {0}
    /\ \A e \in Environments :
          /\ e.may \subseteq AllFaults /\ {e.puts, e.rows, e.faults} \subseteq Nat
          /\ \A k \in DOMAIN e.contents : e.contents[k] \in Contents
    /\ None \notin Row

VARIABLES
    env,      \* constant: what may happen in this behaviour
    row,      \* the staging_files row, or None
    disk,     \* inodes, and which of them the two names of the file denote
    puts,     \* the PUT handlers, in order of arrival
    lock,     \* UploadLock: the handler whose entry the map holds, and callbacks to run
    client,   \* the uploading clients
    mission,  \* a mission with the file as input, and the dispatch that makes it
    gc,       \* the collector's pass
    del,      \* a DELETE request
    get,      \* a GET request
    scan,     \* the disk scanner, and whether it has ever removed the file of a row
    faults, made  \* bounded counters

vars == <<env, row, disk, puts, lock, client, mission, gc, del, get, scan, faults, made>>

Clients == DOMAIN env.contents

Disk == [inode : Seq(Seq(Block)), path : Nat, tomb : Nat]
Handler == [by : Clients, start : 0 .. Total - 1, body : 0 .. Total,
            pc : {"acquire", "look", "insert", "open", "prefix", "stream", "progress", "sync",
                  "complete", "discard", "remove", "release", "gone"},
            resume : BOOLEAN, written : 0 .. Total, hash : Seq(Block), inode : Nat,
            cancelled : BOOLEAN, evicted : BOOLEAN, answer : {None, "2xx", "4xx", "5xx", "broken"}]
Client == [pc : {"probe", "put", "wait", "ok", "failed"}, tries : 0 .. MaxTries,
           start : 0 .. Total - 1, body : 0 .. Total, req : 0 .. env.puts]
Scan == [found : BOOLEAN, robbed : BOOLEAN]

Init ==
    /\ env \in Environments
    /\ row = None /\ disk = [inode |-> <<>>, path |-> 0, tomb |-> 0]
    /\ puts = <<>> /\ lock = [entry |-> 0, fire |-> {}]
    /\ client = [k \in DOMAIN env.contents |->
                   [pc |-> "probe", tries |-> 0, start |-> 0, body |-> 0, req |-> 0]]
    /\ mission = [status |-> "none", dispatch |-> "idle"]
    /\ gc = "idle" /\ del = [pc |-> "idle", force |-> FALSE]
    /\ get = [pc |-> "idle", sha |-> None, inode |-> 0]
    /\ scan = [found |-> FALSE, robbed |-> FALSE] /\ faults = 0 /\ made = 0

May(f) == f \in env.may
Fault(f) == May(f) /\ faults < env.faults /\ faults' = faults + 1

-----------------------------------------------------------------------------
(* UploadFile and doStagingPut.                                            *)

Sha(k) == env.contents[k]

\* HEAD, or the by-content lookup of uploadOrReuse: a complete file is used as it is, a
\* partial one is resumed where it ends unless all of it has arrived, a deleted one
\* counts as absent.
Probe(k) ==
    /\ client[k].pc = "probe"
    /\ client' = [client EXCEPT ![k] =
         IF row = None \/ row.state = "deleting" THEN [@ EXCEPT !.pc = "put"]
         ELSE IF row.sha # Sha(k) THEN [@ EXCEPT !.pc = "failed"]
         ELSE IF row.state = "complete" THEN [@ EXCEPT !.pc = "ok"]
         ELSE IF row.got >= Total THEN [@ EXCEPT !.pc = "failed"]
         ELSE [@ EXCEPT !.pc = "put", !.start = row.got, !.body = row.got]]
    /\ UNCHANGED <<row, disk, puts, lock, mission, gc, del, get, scan, faults, made>>

\* One attempt: the request reaches a handler of its own.
SendPut(k) ==
    /\ client[k].pc = "put" /\ Len(puts) < env.puts
    /\ puts' = Append(puts, [by |-> k, start |-> client[k].start, body |-> client[k].body,
                             pc |-> "acquire", resume |-> FALSE, written |-> 0, hash |-> <<>>,
                             inode |-> 0, cancelled |-> FALSE, evicted |-> FALSE, answer |-> None])
    /\ client' = [client EXCEPT ![k].pc = "wait", ![k].req = Len(puts) + 1]
    /\ UNCHANGED <<row, disk, lock, mission, gc, del, get, scan, faults, made>>

\* The answer.  A network error or a 5xx is tried again with the body rewound to the
\* start of the file, whatever the range.
ReceiveAnswer(k) ==
    LET a == puts[client[k].req].answer
        n == client[k].tries + 1 IN
    /\ client[k].pc = "wait" /\ a # None
    /\ client' = [client EXCEPT ![k] =
         IF a = "2xx" THEN [@ EXCEPT !.pc = "ok"]
         ELSE IF a = "4xx" \/ n >= MaxTries THEN [@ EXCEPT !.pc = "failed"]
         ELSE [@ EXCEPT !.pc = "put", !.tries = n, !.body = 0]]
    /\ UNCHANGED <<row, disk, puts, lock, mission, gc, del, get, scan, faults, made>>

\* The client loses its connection: to the handler, the body's next read fails.
Disconnect(h) ==
    /\ puts[h].answer = None /\ Fault("disconnect")
    /\ puts' = [puts EXCEPT ![h].answer = "broken"]
    /\ UNCHANGED <<row, disk, lock, client, mission, gc, del, get, scan, made>>

-----------------------------------------------------------------------------
(* StagingHandler.Put                                                      *)

Declared(h) == Sha(puts[h].by)
Answered(p, a) == [p EXCEPT !.pc = "release", !.answer = IF @ = None THEN a ELSE @]
Gone(p) == [p EXCEPT !.pc = "gone", !.start = 0, !.body = 0, !.resume = FALSE, !.written = 0,
                     !.hash = <<>>, !.inode = 0]

\* The gates before the lock, and TryAcquire.
Acquire(h) ==
    /\ puts[h].pc = "acquire"
    /\ \/ /\ May("quota") /\ puts' = [puts EXCEPT ![h] = Gone(Answered(@, "5xx"))]
          /\ UNCHANGED lock
       \/ /\ lock.entry # 0 /\ puts' = [puts EXCEPT ![h] = Gone(Answered(@, "4xx"))]
          /\ UNCHANGED lock
       \/ /\ lock.entry = 0 /\ lock' = [lock EXCEPT !.entry = h]
          /\ puts' = [puts EXCEPT ![h].pc = "look"]
    /\ UNCHANGED <<row, disk, client, mission, gc, del, get, scan, faults, made>>

\* verifyPartialFile
PartialMatches(n) == IF disk.path = 0 THEN n = 0 ELSE Len(disk.inode[disk.path]) = n

\* GetStaging and what follows from it.
Look(h) ==
    /\ puts[h].pc = "look"
    /\ puts' = [puts EXCEPT ![h] =
         IF row = None
         THEN IF @.start # 0 THEN Answered(@, "4xx") ELSE [@ EXCEPT !.pc = "insert"]
         ELSE IF row.sha # Declared(h) \/ row.state = "deleting" THEN Answered(@, "4xx")
         ELSE IF row.state = "complete" THEN Answered(@, "2xx")
         ELSE IF ~PartialMatches(row.got) \/ @.start # row.got THEN Answered(@, "4xx")
         ELSE [@ EXCEPT !.pc = "open", !.resume = TRUE, !.written = row.got]]
    /\ UNCHANGED <<row, disk, lock, client, mission, gc, del, get, scan, faults, made>>

\* InsertStaging, unless too many uploads are incomplete or the key is taken.
Insert(h) ==
    /\ puts[h].pc = "insert"
    /\ \/ /\ row = None /\ made < env.rows /\ made' = made + 1
          /\ row' = [state |-> "uploading", sha |-> Declared(h), got |-> 0, exp |-> "live"]
          /\ puts' = [puts EXCEPT ![h].pc = "open"]
       \/ /\ May("quota") \/ row # None \/ made = env.rows \/ puts[h].answer = "broken"
          /\ puts' = [puts EXCEPT ![h] = Answered(@, "5xx")]
          /\ UNCHANGED <<row, made>>
    /\ UNCHANGED <<disk, lock, client, mission, gc, del, get, scan, faults>>

\* A fresh upload creates or truncates the file; a resumed one needs it.
Open(h) ==
    /\ puts[h].pc = "open"
    /\ \/ /\ ~puts[h].resume /\ disk.path = 0
          /\ disk' = [disk EXCEPT !.inode = Append(@, <<>>), !.path = Len(disk.inode) + 1]
          /\ puts' = [puts EXCEPT ![h].pc = "stream", ![h].inode = disk'.path]
       \/ /\ ~puts[h].resume /\ disk.path # 0
          /\ disk' = [disk EXCEPT !.inode[disk.path] = <<>>]
          /\ puts' = [puts EXCEPT ![h].pc = "stream", ![h].inode = disk.path]
       \/ /\ puts[h].resume /\ disk.path # 0
          /\ puts' = [puts EXCEPT ![h].pc = "prefix", ![h].inode = disk.path] /\ UNCHANGED disk
       \/ /\ puts[h].resume /\ disk.path = 0
          /\ puts' = [puts EXCEPT ![h] = Answered(@, "5xx")] /\ UNCHANGED disk
    /\ UNCHANGED <<row, lock, client, mission, gc, del, get, scan, faults, made>>

\* The prefix is hashed from the file, all of it; nothing is read when nothing is there.
HashPrefix(h) ==
    /\ puts[h].pc = "prefix"
    /\ puts' = [puts EXCEPT ![h] =
         IF @.written = 0 THEN [@ EXCEPT !.pc = "stream"]
         ELSE IF disk.path = 0 THEN Answered(@, "5xx")
         ELSE [@ EXCEPT !.pc = "stream", !.hash = disk.inode[disk.path]]]
    /\ UNCHANGED <<row, disk, lock, client, mission, gc, del, get, scan, faults, made>>

\* A resumed upload appends; a fresh one writes at its own position.
Written(f, p, b) ==
    IF p.resume \/ p.written = Len(f) THEN Append(f, b)
    ELSE [i \in 1 .. (IF p.written < Len(f) THEN Len(f) ELSE p.written + 1) |->
            IF i = p.written + 1 THEN b ELSE IF i <= Len(f) THEN f[i] ELSE None]

\* A chunk of the body is written and hashed.
Chunk(h) ==
    LET p == puts[h]
        b == <<Declared(h), p.body + 1>> IN
    /\ p.pc = "stream" /\ p.written < Total /\ p.answer # "broken"
    /\ disk' = [disk EXCEPT !.inode[p.inode] = Written(@, p, b)]
    /\ puts' = [puts EXCEPT ![h].pc = "progress", ![h].hash = Append(@, b),
                            ![h].written = @ + 1, ![h].body = @ + 1]
    /\ UNCHANGED <<row, lock, client, mission, gc, del, get, scan, faults, made>>

\* UpdateStagingProgress; its error, also that of a cancelled request, is ignored.  The
\* quota may be found exceeded.
Progress(h) ==
    LET p == puts[h] IN
    /\ p.pc = "progress"
    /\ \/ /\ row' = IF row # None /\ row.state = "uploading" /\ ~p.cancelled
                    THEN [row EXCEPT !.got = p.written, !.exp = "live"] ELSE row
          /\ UNCHANGED faults
       \/ p.answer = "broken" /\ UNCHANGED <<row, faults>>
       \/ Fault("dbError") /\ UNCHANGED row
    /\ \/ puts' = [puts EXCEPT ![h].pc = IF p.written = Total THEN "sync" ELSE "stream"]
       \/ May("quota") /\ puts' = [puts EXCEPT ![h] = [Answered(@, "5xx") EXCEPT !.pc = "discard"]]
    /\ UNCHANGED <<disk, lock, client, mission, gc, del, get, scan, made>>

\* A read of the body fails: the upload can be resumed.
ReadFails(h) ==
    /\ puts[h].pc = "stream" /\ puts[h].answer = "broken"
    /\ puts' = [puts EXCEPT ![h].pc = "release"]
    /\ UNCHANGED <<row, disk, lock, client, mission, gc, del, get, scan, faults, made>>

\* The read deadline: the partial file is discarded.
IdleDeadline(h) ==
    /\ puts[h].pc = "stream" /\ Fault("idle")
    /\ puts' = [puts EXCEPT ![h] = [Answered(@, "4xx") EXCEPT !.pc = "discard"]]
    /\ UNCHANGED <<row, disk, lock, client, mission, gc, del, get, scan, made>>

\* fsync, then the hash of what this handler has seen is compared.
\* Mutant: the hash is not compared.
SyncUnverified(h) ==
    /\ puts[h].pc = "sync"
    /\ puts' = [puts EXCEPT ![h].pc = "complete"]
    /\ UNCHANGED <<row, disk, lock, client, mission, gc, del, get, scan, faults, made>>
Sync(h) ==
    /\ puts[h].pc = "sync"
    /\ puts' = [puts EXCEPT ![h] =
         IF @.hash = Content(Declared(h)) THEN [@ EXCEPT !.pc = "complete"]
         ELSE [Answered(@, "4xx") EXCEPT !.pc = "discard"]]
    /\ UNCHANGED <<row, disk, lock, client, mission, gc, del, get, scan, faults, made>>

\* MarkStagingComplete, which may fail: the row stays as it is, beside the whole file.
Complete(h) ==
    /\ puts[h].pc = "complete"
    /\ \/ /\ row # None /\ row.state = "uploading"
          /\ row' = [row EXCEPT !.state = "complete", !.got = Total, !.exp = "live"]
          /\ puts' = [puts EXCEPT ![h] = Answered(@, "2xx")] /\ UNCHANGED faults
       \/ /\ ~(row # None /\ row.state = "uploading")
          /\ puts' = [puts EXCEPT ![h] = Answered(@, "5xx")] /\ UNCHANGED <<row, faults>>
       \/ /\ Fault("dbError")
          /\ puts' = [puts EXCEPT ![h] = Answered(@, "5xx")] /\ UNCHANGED row
    /\ UNCHANGED <<disk, lock, client, mission, gc, del, get, scan, made>>

MarkDeleting == row' = IF row # None /\ row.state \in {"uploading", "complete"}
                       THEN [row EXCEPT !.state = "deleting"] ELSE row

\* MarkStagingDeleting, whose error is ignored, then the file, whichever has the name now.
Discard(h) ==
    /\ puts[h].pc = "discard" /\ puts' = [puts EXCEPT ![h].pc = "remove"]
    /\ \/ MarkDeleting /\ UNCHANGED faults
       \/ Fault("dbError") /\ UNCHANGED row
    /\ UNCHANGED <<disk, lock, client, mission, gc, del, get, scan, made>>
Remove(h) ==
    /\ puts[h].pc = "remove"
    /\ disk' = [disk EXCEPT !.path = 0] /\ puts' = [puts EXCEPT ![h].pc = "release"]
    /\ UNCHANGED <<row, lock, client, mission, gc, del, get, scan, faults, made>>

\* Mutant: a failed upload keeps its lock.
ReleaseOnSuccess(h) ==
    /\ puts[h].pc = "release"
    /\ lock' = IF puts[h].answer = "2xx" THEN [lock EXCEPT !.entry = 0] ELSE lock
    /\ puts' = [puts EXCEPT ![h] = Gone(@)]
    /\ UNCHANGED <<row, disk, client, mission, gc, del, get, scan, faults, made>>
\* The deferred release comes after the answer and drops the entry of this id, whoever
\* holds it.
Release(h) ==
    /\ puts[h].pc = "release"
    /\ lock' = [lock EXCEPT !.entry = 0] /\ puts' = [puts EXCEPT ![h] = Gone(@)]
    /\ UNCHANGED <<row, disk, client, mission, gc, del, get, scan, faults, made>>

\* The janitor takes the entry of a handler without progress and calls back later.
Sweep ==
    /\ lock.entry # 0 /\ Fault("idle")
    /\ lock' = [entry |-> 0, fire |-> lock.fire \cup {lock.entry}]
    /\ puts' = [puts EXCEPT ![lock.entry].evicted = TRUE]
    /\ UNCHANGED <<row, disk, client, mission, gc, del, get, scan, made>>
OnIdle(h) ==
    /\ h \in lock.fire /\ lock' = [lock EXCEPT !.fire = @ \ {h}]
    /\ row' = IF row # None /\ row.state = "uploading" THEN [row EXCEPT !.exp = "past"] ELSE row
    /\ puts' = [puts EXCEPT ![h].cancelled = TRUE]
    /\ UNCHANGED <<disk, client, mission, gc, del, get, scan, faults, made>>

-----------------------------------------------------------------------------
(* The mission that has the file as input.                                 *)

Refs == mission.status \in {"queued", "running", "done", "deleting"}

\* RecalcStagingTTL
Recalculated(r) ==
    IF r = None \/ r.state = "deleting" THEN r
    ELSE [r EXCEPT !.exp = IF mission.status \in {"queued", "running", "deleting"}
                           THEN "forever" ELSE "live"]

\* Dispatch finds the file complete, and looks again in its transaction, which also
\* inserts the reference and recalculates the expiry.
Resolve ==
    /\ May("mission") /\ mission = [status |-> "none", dispatch |-> "idle"]
    /\ row # None /\ row.state = "complete"
    /\ mission' = [mission EXCEPT !.dispatch = "resolved"]
    /\ UNCHANGED <<row, disk, puts, lock, client, gc, del, get, scan, faults, made>>
\* Mutant: the transaction trusts the first look.
InsertRefBlind ==
    /\ mission.dispatch = "resolved"
    /\ mission' = [status |-> IF row = None THEN "none" ELSE "queued", dispatch |-> "idle"]
    /\ row' = IF row = None THEN row ELSE [row EXCEPT !.exp = "forever"]
    /\ UNCHANGED <<disk, puts, lock, client, gc, del, get, scan, faults, made>>
InsertRef ==
    /\ mission.dispatch = "resolved"
    /\ IF row # None /\ row.state = "complete"
       THEN mission' = [status |-> "queued", dispatch |-> "idle"] /\ row' = [row EXCEPT !.exp = "forever"]
       ELSE mission' = [mission EXCEPT !.dispatch = "idle"] /\ UNCHANGED row
    /\ UNCHANGED <<disk, puts, lock, client, gc, del, get, scan, faults, made>>

\* The mission runs, ends, and is cleaned up.  The delete trigger leaves 0, which the
\* cleaner recalculates after its commit, or the collector.
MissionStep ==
    /\ \/ mission.status = "queued" /\ mission' = [mission EXCEPT !.status = "running"] /\ UNCHANGED row
       \/ mission.status = "running" /\ mission' = [mission EXCEPT !.status = "done"] /\ UNCHANGED row
       \/ mission.status \in {"queued", "done"} /\ mission' = [mission EXCEPT !.status = "deleting"] /\ UNCHANGED row
       \/ /\ mission.status = "deleting" /\ mission' = [mission EXCEPT !.status = "gone"]
          /\ row' = IF row = None THEN row ELSE [row EXCEPT !.exp = "zero"]
       \/ /\ mission.status = "gone" /\ row # None /\ row.state # "deleting" /\ row.exp = "zero"
          /\ row' = Recalculated(row) /\ UNCHANGED mission
    /\ UNCHANGED <<disk, puts, lock, client, gc, del, get, scan, faults, made>>

-----------------------------------------------------------------------------
(* StagingHandler.Delete and Get                                           *)

\* The row and the references are read; force first kills a running mission.
DeleteBegin(force) ==
    /\ del.pc = "idle" /\ row # None /\ row.state # "deleting" /\ (Refs => force)
    /\ Fault("delete")
    /\ del' = [pc |-> IF force /\ mission.status = "running" THEN "kill" ELSE "tx", force |-> force]
    /\ UNCHANGED <<row, disk, puts, lock, client, mission, gc, get, scan, made>>

\* waitForFinalize sees the mission done, or gives up.
DeleteWait ==
    /\ del.pc = "kill"
    /\ del' = [del EXCEPT !.pc = IF mission.status = "done" THEN "tx" ELSE "idle"]
    /\ UNCHANGED <<row, disk, puts, lock, client, mission, gc, get, scan, faults, made>>

\* The transaction reads the references again.
DeleteCommit ==
    /\ del.pc = "tx" /\ del' = [del EXCEPT !.pc = "idle"]
    /\ IF row = None \/ (Refs /\ (~del.force \/ mission.status = "running"))
       THEN UNCHANGED <<row, mission>>
       ELSE /\ MarkDeleting
            /\ mission' = IF mission.status \in {"queued", "done"}
                          THEN [mission EXCEPT !.status = "deleting"] ELSE mission
    /\ UNCHANGED <<disk, puts, lock, client, gc, get, scan, faults, made>>

\* GET reads the row, then opens the file, or the tombstone it may have become.
\* Mutant: the state of the row is not looked at.
GetBeginAnyState ==
    /\ May("download") /\ get.pc = "idle" /\ row # None
    /\ get' = [pc |-> "open", sha |-> row.sha, inode |-> 0]
    /\ UNCHANGED <<row, disk, puts, lock, client, mission, gc, del, scan, faults, made>>
GetBegin ==
    /\ May("download") /\ get.pc = "idle" /\ row # None /\ row.state = "complete"
    /\ get' = [pc |-> "open", sha |-> row.sha, inode |-> 0]
    /\ UNCHANGED <<row, disk, puts, lock, client, mission, gc, del, scan, faults, made>>
GetOpen ==
    /\ get.pc = "open"
    /\ get' = IF disk.path # 0 THEN [get EXCEPT !.pc = "serve", !.inode = disk.path]
              ELSE IF disk.tomb # 0 THEN [get EXCEPT !.pc = "serve", !.inode = disk.tomb]
              ELSE [get EXCEPT !.pc = "refused"]
    /\ UNCHANGED <<row, disk, puts, lock, client, mission, gc, del, scan, faults, made>>

-----------------------------------------------------------------------------
(* StagingGC.RunOnce, the disk scanner, and time.                          *)

\* A pass begins.  One over an empty table changes nothing, and one that meets the row half
\* way does no more than one that begins then: only passes that begin with the row are taken.
DrainNeedsRecalc ==
    /\ gc = "idle" /\ row # None /\ gc' = "expire"
    /\ row' = IF row.exp = "zero" THEN Recalculated(row) ELSE row
    /\ UNCHANGED <<disk, puts, lock, client, mission, del, get, scan, faults, made>>

Expired == row # None /\ row.state \in {"uploading", "complete"} /\ row.exp = "past"

\* expireTTLs selects the expired rows, passes over locked uploads, and looks at the
\* expiry again in each update.
ExpireSelect ==
    /\ gc = "expire"
    /\ gc' = IF ~Expired THEN "tombstone" ELSE IF row.state = "uploading" THEN "locked" ELSE "flip"
    /\ UNCHANGED <<row, disk, puts, lock, client, mission, del, get, scan, faults, made>>
ExpireUnlessLocked ==
    /\ gc = "locked" /\ gc' = IF lock.entry # 0 THEN "tombstone" ELSE "flip"
    /\ UNCHANGED <<row, disk, puts, lock, client, mission, del, get, scan, faults, made>>
ExpireFlip ==
    /\ gc = "flip" /\ gc' = "tombstone"
    /\ row' = IF Expired THEN [row EXCEPT !.state = "deleting"] ELSE row
    /\ UNCHANGED <<disk, puts, lock, client, mission, del, get, scan, faults, made>>

\* tombstoneDeleting: the file is renamed; a row without one is dropped at once.  The
\* foreign key keeps a referenced row.
TombstoneSelect ==
    /\ gc = "tombstone"
    /\ gc' = IF row = None \/ row.state # "deleting" \/ disk.tomb # 0 THEN "unlink"
             ELSE IF disk.path = 0 THEN "drop" ELSE "rename"
    /\ UNCHANGED <<row, disk, puts, lock, client, mission, del, get, scan, faults, made>>
Rename ==
    /\ gc = "rename" /\ gc' = "unlink"
    /\ disk' = IF disk.path = 0 THEN disk ELSE [disk EXCEPT !.path = 0, !.tomb = disk.path]
    /\ UNCHANGED <<row, puts, lock, client, mission, del, get, scan, faults, made>>
DropMissing ==
    /\ gc = "drop" /\ gc' = "unlink"
    /\ row' = IF Refs THEN row ELSE None
    /\ UNCHANGED <<disk, puts, lock, client, mission, del, get, scan, faults, made>>

\* unlinkOldTombstones.  The grace outlasts the moment between the two steps of a GET.
UnlinkTombstone ==
    /\ gc = "unlink"
    /\ \/ gc' = "idle" /\ UNCHANGED disk
       \/ disk.tomb # 0 /\ get.pc # "open" /\ disk' = [disk EXCEPT !.tomb = 0] /\ gc' = "dropRow"
    /\ UNCHANGED <<row, puts, lock, client, mission, del, get, scan, faults, made>>
DropRow ==
    /\ gc = "dropRow" /\ gc' = "idle"
    /\ row' = IF row # None /\ row.state = "deleting" /\ ~Refs THEN None ELSE row
    /\ UNCHANGED <<disk, puts, lock, client, mission, del, get, scan, faults, made>>

\* The disk scanner meets a file that is five minutes old, which any file may be (time is
\* not modelled), later asks for its row, and removes the file of that name if there was
\* none.  Nothing keeps the file from going, or an upload of the same id from coming, between.
ScanFinds ==
    /\ ~scan.found /\ disk.inode # <<>> /\ row = None
    /\ scan' = [scan EXCEPT !.found = TRUE]
    /\ UNCHANGED <<row, disk, puts, lock, client, mission, gc, del, get, faults, made>>
ScanRemoves ==
    /\ scan.found /\ disk' = [disk EXCEPT !.path = 0]
    /\ scan' = [found |-> FALSE, robbed |-> scan.robbed \/ (row # None /\ disk.path # 0)]
    /\ UNCHANGED <<row, puts, lock, client, mission, gc, del, get, faults, made>>

\* The expiry passes.
TimePasses ==
    /\ row # None /\ row.exp = "live" /\ row' = [row EXCEPT !.exp = "past"]
    /\ UNCHANGED <<disk, puts, lock, client, mission, gc, del, get, scan, faults, made>>

\* The daemon dies and starts again: every request breaks, a running mission is lost,
\* SweepOrphans removes a file without a row and recalculates zeroed expiries.
Restart ==
    /\ Fault("restart")
    /\ puts' = [h \in DOMAIN puts |-> Gone(Answered(puts[h], "broken"))]
    /\ lock' = [entry |-> 0, fire |-> {}] /\ gc' = "idle" /\ del' = [del EXCEPT !.pc = "idle"]
    /\ get' = IF get.pc = "idle" THEN get ELSE [get EXCEPT !.pc = "refused"]
    /\ scan' = [scan EXCEPT !.found = FALSE]
    /\ mission' = [status |-> IF mission.status = "running" THEN "done" ELSE mission.status,
                   dispatch |-> "idle"]
    /\ disk' = IF row = None THEN [disk EXCEPT !.path = 0] ELSE disk
    /\ row' = IF row # None /\ row.exp = "zero" THEN Recalculated(row) ELSE row
    /\ UNCHANGED <<client, made>>

-----------------------------------------------------------------------------
Uploader == \E k \in Clients : Probe(k) \/ SendPut(k) \/ ReceiveAnswer(k)
PutStep(h) == \/ Acquire(h) \/ Look(h) \/ Insert(h) \/ Open(h) \/ HashPrefix(h) \/ Chunk(h)
              \/ Progress(h) \/ ReadFails(h) \/ Sync(h) \/ Complete(h) \/ Discard(h) \/ Remove(h)
              \/ Release(h) \/ OnIdle(h)
Putter == \E h \in DOMAIN puts : PutStep(h)
Collector == \/ DrainNeedsRecalc \/ ExpireSelect \/ ExpireUnlessLocked \/ ExpireFlip
             \/ TombstoneSelect \/ Rename \/ DropMissing \/ UnlinkTombstone \/ DropRow
Scanner == ScanFinds \/ ScanRemoves
Operator == (\E f \in BOOLEAN : DeleteBegin(f)) \/ DeleteWait \/ DeleteCommit
Download == GetBegin \/ GetOpen
Trouble == Sweep \/ Restart \/ \E h \in DOMAIN puts : Disconnect(h) \/ IdleDeadline(h)
Dispatcher == Resolve \/ InsertRef \/ MissionStep

Step == Uploader \/ Putter \/ Collector \/ Scanner \/ Operator \/ Download \/ Trouble
        \/ Dispatcher \/ TimePasses
Next == UNCHANGED env /\ Step

\* Handlers, clients and the collector run; the clock ticks; missions end and are
\* deleted when their time has come.  An old tombstone is unlinked in some pass.
Fairness ==
    /\ WF_vars(UNCHANGED env /\ Uploader) /\ WF_vars(UNCHANGED env /\ Putter)
    /\ WF_vars(UNCHANGED env /\ Collector) /\ WF_vars(UNCHANGED env /\ Operator)
    /\ WF_vars(UNCHANGED env /\ Dispatcher) /\ WF_vars(UNCHANGED env /\ TimePasses)
    /\ WF_vars(UNCHANGED env /\ Scanner) /\ WF_vars(UNCHANGED env /\ GetOpen)
    /\ SF_vars(UNCHANGED env /\ UnlinkTombstone /\ disk'.tomb = 0 /\ disk.tomb # 0)

Spec == Init /\ [][Next]_vars
FairSpec == Spec /\ Fairness

-----------------------------------------------------------------------------
(* Properties.                                                             *)

TypeOK ==
    /\ env \in Environments /\ row \in Row \cup {None} /\ disk \in Disk
    /\ disk.path \in 0 .. Len(disk.inode) /\ disk.tomb \in 0 .. Len(disk.inode)
    /\ puts \in Seq(Handler) /\ client \in [Clients -> Client]
    /\ \A k \in Clients : client[k].req \in 0 .. Len(puts)
    /\ lock \in [entry : 0 .. Len(puts), fire : SUBSET (DOMAIN puts)]
    /\ mission \in [status : {"none", "queued", "running", "done", "deleting", "gone"},
                     dispatch : {"idle", "resolved"}]
    /\ gc \in {"idle", "expire", "locked", "flip", "tombstone", "rename", "drop", "unlink", "dropRow"}
    /\ del \in [pc : {"idle", "kill", "tx"}, force : BOOLEAN]
    /\ scan \in Scan
    /\ get \in [pc : {"idle", "open", "serve", "refused"}, sha : Contents \cup {None},
                 inode : 0 .. Len(disk.inode)]
    /\ faults \in 0 .. env.faults /\ made \in 0 .. env.rows

Whole(i, c) == i # 0 /\ disk.inode[i] = Content(c)
\* Neither the janitor nor the scanner has come between a handler and its file.
NoIntruder == ~scan.robbed /\ \A h \in DOMAIN puts : ~puts[h].evicted

\* A complete row describes the bytes on disk: the hash that was verified is the hash of
\* the file, through resumes, retries that send the wrong bytes, aborts and restarts, as
\* long as the janitor has not taken the lock from a handler that still writes, and the
\* scanner has not taken for a leftover a file that a new upload was writing to.
CompleteMeansContent ==
    row # None /\ row.state = "complete" /\ NoIntruder => Whole(disk.path, row.sha)

\* The rows, handlers and files of the store are in order (Put, verifyPartialFile).
StagingInv == TypeOK /\ CompleteMeansContent

\* A queued or running mission has its input: neither the collector nor a delete with or
\* without force can take the file from under it, and the disk scanner takes no file that
\* had a row when it asked.  Two things in the code can, and are excepted.  A second handler,
\* if the janitor has let it in: its idle deadline discards the upload that the evicted
\* handler has completed (upload_lock.go:92).  And the scanner, if an upload reuses an id
\* with a leftover file between its query and its unlink (disk_scan.go:178).
InputsSurvive ==
    NoIntruder /\ mission.status \in {"queued", "running"}
    => row # None /\ row.state = "complete" /\ disk.path # 0

\* A download sends the content its X-Letts-Sha256 header names, also when the file
\* becomes a tombstone between the look at the row and the open (with the same exceptions).
ServedIsContent == get.pc = "serve" /\ NoIntruder => Whole(get.inode, get.sha)

\* A 409 content_mismatch means that the content differs: clients that upload the same
\* content never lose the partial file to it.
NoFalseMismatch ==
    \A h \in DOMAIN puts : puts[h].pc = "discard" /\ puts[h].written = Total
                           => puts[h].hash = Content(Declared(h))

\* Nothing is kept for ever: an abandoned upload, an expired or deleted file, a lost
\* handler's lock all end with neither row nor file, unless a client still has to act.
Reclaimed ==
    <>[](\A k \in Clients : client[k].pc \in {"ok", "failed"})
    => []<>(row = None /\ disk.path = 0 /\ disk.tomb = 0)

-----------------------------------------------------------------------------
(* Why this holds: what is true between the steps of a handler, of the     *)
(* collector and of a download, by induction.                              *)

Uploading == row # None /\ row.state = "uploading"
IsComplete == row # None /\ row.state = "complete"
IsDeleting == row # None /\ row.state = "deleting"

\* A handler between the look at the row and the answer may write or remove the file.
Writing == {"open", "prefix", "stream", "progress", "sync", "complete", "discard", "remove"}
Filling == {"stream", "progress", "sync", "complete"}
NobodyWrites == \A h \in DOMAIN puts : puts[h].pc \notin Writing

\* A request starts where its client has found the upload, its body there or at the
\* beginning, and the handler never reads beyond what is to be written.
InRange(p) ==
    /\ p.pc \in {"acquire", "look", "insert"} =>
          p.body <= p.start /\ ~p.resume /\ p.written = 0 /\ p.hash = <<>> /\ p.inode = 0
    /\ p.pc = "insert" => p.start = 0
    /\ p.pc \in Writing => p.body <= p.written
    /\ p.inode <= Len(disk.inode)
    /\ p.pc \in Filling \cup {"prefix"} => p.inode # 0
HandlersInOrder ==
    /\ Len(puts) <= env.puts
    /\ \A k \in Clients : client[k].body <= client[k].start /\ (client[k].pc = "wait" => client[k].req # 0)
    /\ \A h \in DOMAIN puts : InRange(puts[h])

\* As long as the janitor evicts nobody, the upload lock is one.
OneHandler ==
    NoIntruder => \A h \in DOMAIN puts : puts[h].pc \notin {"acquire", "gone"} => lock.entry = h

\* While the row is uploading, the file has its name and holds what the handler of the
\* row has hashed; a row that a handler writes for is not complete.
InStep(p) ==
    /\ p.pc = "insert" => row = None
    /\ p.pc \in Writing => ~IsComplete
    /\ p.pc = "complete" => p.hash = Content(Sha(p.by))
    /\ p.pc \in Writing /\ Uploading =>
         /\ row.sha = Sha(p.by)
         /\ p.pc = "open" => p.hash = <<>> /\ (IF p.resume THEN PartialMatches(p.written) ELSE p.written = 0)
         /\ p.pc \in Filling \cup {"prefix"} => disk.path = p.inode
         /\ p.pc = "prefix" => p.hash = <<>> /\ Len(disk.inode[p.inode]) = p.written
         /\ p.pc \in Filling => disk.inode[p.inode] = p.hash /\ Len(p.hash) = p.written
UploadInOrder == NoIntruder => \A h \in DOMAIN puts : InStep(puts[h])

\* The collector removes the files and the rows of deleted files only.
CollectorInOrder ==
    /\ gc \in {"rename", "drop", "dropRow"} \/ disk.tomb # 0 => IsDeleting
    /\ gc \in {"rename", "drop", "dropRow"} => disk.tomb = 0

\* What protects an input is its expiry, MaxInt64.
InputsForever ==
    NoIntruder /\ mission.status \in {"queued", "running"} => IsComplete /\ row.exp = "forever"

\* From the look at a complete row to the open, the file is there under one of its two
\* names; afterwards nobody writes to the inode that is served.
DownloadInOrder ==
    NoIntruder =>
        /\ get.pc = "open" =>
              /\ (IsComplete \/ IsDeleting) /\ row.sha = get.sha
              /\ NobodyWrites /\ gc \notin {"drop", "dropRow"}
              /\ \/ Whole(disk.path, get.sha) /\ disk.tomb = 0
                 \/ disk.path = 0 /\ Whole(disk.tomb, get.sha)
        /\ get.pc = "serve" =>
              /\ Whole(get.inode, get.sha)
              /\ \A h \in DOMAIN puts : puts[h].pc \in Writing => puts[h].inode # get.inode
              /\ disk.path = get.inode =>
                    (IsComplete \/ IsDeleting) /\ NobodyWrites /\ disk.tomb = 0 /\ gc \notin {"drop", "dropRow"}

StagingIInv ==
    /\ StagingInv /\ HandlersInOrder /\ OneHandler /\ UploadInOrder /\ CollectorInOrder
    /\ InputsForever /\ DownloadInOrder

=============================================================================
