------------------------------ MODULE Snapshots ------------------------------
(***************************************************************************)
(* Shadow copies, how they are made and how a restore finds its way into   *)
(* one: services/response/recovery/vss_manager.py and the parts of         *)
(* recovery.py before and around the check of a restored file (which       *)
(* GoodState.tla models).                                                  *)
(*                                                                         *)
(* A copy is made by the job of the service's scheduler or by a script     *)
(* that calls create_snapshot.  Windows makes and deletes copies on its    *)
(* own as well, between any two steps.  A request names a copy in one of   *)
(* several spellings; it is looked for in the directory the service is     *)
(* given, then among the copies Windows lists, by WMI or, if that fails,    *)
(* by vssadmin.  The root found first serves the whole request.            *)
(*                                                                         *)
(* A path is the file it means and the way it is written; every file lies  *)
(* in a directory, so a separator always matters.                          *)
(***************************************************************************)
EXTENDS Naturals, Sequences, FiniteSets

CONSTANTS
  Copy,         \* shadow copies that can come to be
  File,         \* files a request may name
  Kept,         \* the directories in the dev snapshot root
  Asked,        \* the names requests give a copy
  Request,      \* the paths of a request, in their order
  RunNow,       \* values of start_scheduler's run_immediately
  MaxWrite,     \* bound on writes to the files
  MaxAsk,       \* bound on requests
  MaxRecord,    \* bound on Len(ledger)
  MaxRun        \* bound on copies the scheduler's job tries to make

\* What the constants must satisfy.
SnapshotsAssumption ==
  /\ Kept \subseteq [copy : Copy, form : {"bare"}]
  /\ Asked \subseteq [copy : Copy, form : {"braced", "bare", "prefixed"}]
  /\ Request \subseteq Seq([file : File, drive : BOOLEAN,
                            sep : {"/", "\\"}])
  /\ RunNow \subseteq BOOLEAN
  /\ {MaxWrite, MaxAsk, MaxRecord, MaxRun} \subseteq Nat

VARIABLES
  host,    \* what this machine is and may do
  folders, \* the directories of the dev snapshot root, by name
  disk,    \* what each file holds
  writes,  \* writes so far
  copies,  \* each copy: whether it is there, what it holds
  sched,   \* the scheduler: off, its job paused, or its job running
  runs,    \* times the job has run
  maker,   \* each caller of create_snapshot
  ledger,  \* snapshot blocks, oldest first
  asks,    \* requests so far
  req      \* the request being served

vars == <<host, folders, disk, writes, copies, sched, runs, maker, ledger,
          asks, req>>
Making == <<sched, runs, maker, ledger>>
Restoring == <<asks, req>>

-------------------------------------------------------------------------------
Version == 0 .. MaxWrite
Absent == MaxWrite + 1 \* the copy has no such file
Held == [File -> Version \cup {Absent}]
Maker == {"job", "script"}
Form == {"braced", "bare", "prefixed"}
Name == [copy : Copy, form : Form]
Path == [file : File, drive : BOOLEAN, sep : {"/", "\\"}]
Hosts == {[system |-> "Windows", vss |-> v, elevated |-> e] :
            v \in BOOLEAN, e \in BOOLEAN}
         \cup {[system |-> "Linux", vss |-> FALSE, elevated |-> FALSE]}
NoRoot == [kind |-> "none"]
Folder(n) == [kind |-> "folder", name |-> n]
Device(c) == [kind |-> "device", copy |-> c]
Blank == [held |-> [f \in File |-> Absent], state |-> "unmade"]
Live == {c \in Copy : copies[c].state = "live"}

\* normalise_snapshot_id: {GUID}, GUID and vss_GUID become {GUID}.
Normalised(n) == [n EXCEPT !.form = "braced"]

\* to_relative: no drive, and forward slashes only.
ToRelative(p) == [p EXCEPT !.drive = FALSE, !.sep = "/"]

\* Not the code: os.path.join for every root.
JoinPlain(root, p) == p
\* join_under_snapshot: backslashes under the verbatim prefix of a device.
Join(root, p) ==
  IF root.kind = "device" THEN [p EXCEPT !.sep = "\\"] ELSE p

\* What a path joined to a root finds: nothing under a verbatim prefix
\* unless the separators are backslashes, nor on Linux unless they are not.
Found(root, p) ==
  LET reads == CASE root.kind = "device" -> p.sep = "\\"
                 [] root.kind = "folder" ->
                      p.sep = "/" \/ host.system = "Windows"
  IN CASE ~reads -> Absent
       [] root.kind = "device" ->
            IF root.copy \in Live THEN copies[root.copy].held[p.file]
            ELSE Absent
       [] root.kind = "folder" -> folders[root.name][p.file]

\* platform_status: Windows, new enough, with pywin32.
Supported == host.system = "Windows" /\ host.vss

\* What list_snapshots answers.  Win32_ShadowCopy and vssadmin both need an
\* elevated process and both may fail; the text of vssadmin may also be in a
\* language parse_vssadmin_output does not read.
Listings == IF host.elevated THEN {Live, {}} ELSE {}

\* Not the code: the newest copy, whatever it was asked for.
FirstListed(listed, n) == listed
\* The listed copies the name means.
Named(listed, n) ==
  {c \in listed : [copy |-> c, form |-> "braced"] = Normalised(n)}

\* Not the code: any copy's device.
AnyDevice(c) == IF Live = {} THEN {NoRoot} ELSE {Device(d) : d \in Live}
\* _device_object_for: the new copy's own, or "" when WMI fails or the copy
\* is gone already.
DeviceOf(c) ==
  {NoRoot} \cup (IF c \in Live THEN {Device(c)} ELSE {})

\* try_log_event: the block may be lost, and nobody minds.
Logged(b) ==
  \/ UNCHANGED ledger
  \/ Len(ledger) < MaxRecord /\ ledger' = Append(ledger, b)

-------------------------------------------------------------------------------
IdleMaker == [at |-> "idle", copy |-> {}, device |-> NoRoot]
IdleReq == [at |-> "idle", name |-> {}, root |-> NoRoot, left |-> <<>>,
            results |-> <<>>]

Init ==
  /\ host \in Hosts
  /\ folders = [n \in Kept |-> [f \in File |-> 0]]
  /\ disk = [f \in File |-> 0] /\ writes = 0
  /\ copies = [c \in Copy |-> Blank]
  /\ sched = "off" /\ runs = 0
  /\ maker = [m \in Maker |-> IdleMaker]
  /\ ledger = <<>> /\ asks = 0 /\ req = IdleReq

\* Another program writes a file, or deletes it.
Write(f) ==
  /\ writes < MaxWrite /\ writes' = writes + 1
  /\ \E v \in {writes + 1, Absent} : disk' = [disk EXCEPT ![f] = v]
  /\ UNCHANGED <<host, folders, copies, Making, Restoring>>

\* A copy comes to be and holds the files as they are.
Made(c) ==
  /\ copies[c].state = "unmade"
  /\ copies' = [copies EXCEPT ![c] = [held |-> disk, state |-> "live"]]

\* Windows makes a copy of its own: a restore point, a backup.
MadeByWindows(c) ==
  /\ host.system = "Windows" /\ Made(c)
  /\ UNCHANGED <<host, folders, disk, writes, Making, Restoring>>

\* The storage for copies is full, or somebody deletes one.
Deleted(c) ==
  /\ c \in Live
  /\ copies' = [copies EXCEPT ![c].state = "deleted"]
  /\ UNCHANGED <<host, folders, disk, writes, Making, Restoring>>

-------------------------------------------------------------------------------
(* The scheduler and create_snapshot.                                      *)

\* start_scheduler, from the service's lifespan.  add_job is given a time
\* for the first run, or None, which APScheduler takes for a paused job.
StartScheduler(now) ==
  /\ sched = "off" /\ Supported
  /\ sched' = IF now THEN "on" ELSE "paused"
  /\ UNCHANGED <<host, folders, disk, writes, copies, runs, maker, ledger,
                 Restoring>>

\* The service stops; a copy being made is not waited for.
StopScheduler ==
  /\ sched # "off" /\ sched' = "off"
  /\ UNCHANGED <<host, folders, disk, writes, copies, runs, maker, ledger,
                 Restoring>>

\* The interval is over.  max_instances: never beside a run still going on.
Fire ==
  /\ sched = "on" /\ maker["job"].at = "idle"
  /\ runs < MaxRun /\ runs' = runs + 1
  /\ maker' = [maker EXCEPT !["job"].at = "create"]
  /\ UNCHANGED <<host, folders, disk, writes, copies, sched, ledger,
                 Restoring>>

\* exhibition_demo.py and verify_vss.py make a copy of their own.
ScriptAsks ==
  /\ maker["script"].at = "idle"
  /\ maker' = [maker EXCEPT !["script"].at = "create"]
  /\ UNCHANGED <<host, folders, disk, writes, copies, sched, runs, ledger,
                 Restoring>>

\* The job records that it failed; a script only hears of it.
Failed(m) ==
  /\ maker' = [maker EXCEPT ![m] = IdleMaker]
  /\ IF m = "job" THEN Logged([type |-> "failed", copy |-> {},
                               device |-> NoRoot])
     ELSE UNCHANGED ledger

\* Unsupported, not elevated, or refused by VSS.
CreateFails(m) ==
  /\ maker[m].at = "create"
  /\ Failed(m)
  /\ UNCHANGED <<host, folders, disk, writes, copies, sched, runs, Restoring>>

Create(m, c) ==
  /\ maker[m].at = "create" /\ Supported /\ host.elevated
  /\ Made(c)
  /\ \/ /\ maker' = [maker EXCEPT ![m] = [@ EXCEPT !.at = "resolve",
                                                  !.copy = {c}]]
        /\ UNCHANGED ledger
     \/ Failed(m) \* made, but the call's answer was lost
  /\ UNCHANGED <<host, folders, disk, writes, sched, runs, Restoring>>

Resolve(m) ==
  /\ maker[m].at = "resolve"
  /\ \E d \in UNION {DeviceOf(c) : c \in maker[m].copy} :
       maker' = [maker EXCEPT ![m] = [@ EXCEPT !.at = "log", !.device = d]]
  /\ UNCHANGED <<host, folders, disk, writes, copies, sched, runs, ledger,
                 Restoring>>

LogCreated(m) ==
  /\ maker[m].at = "log"
  /\ Logged([type |-> "created", copy |-> maker[m].copy,
             device |-> maker[m].device])
  /\ maker' = [maker EXCEPT ![m] = IdleMaker]
  /\ UNCHANGED <<host, folders, disk, writes, copies, sched, runs, Restoring>>

-------------------------------------------------------------------------------
(* POST /response/recover, up to the check of what was restored.           *)

Ask(n, paths) ==
  /\ req.at = "idle" /\ asks < MaxAsk /\ asks' = asks + 1
  /\ req' = [IdleReq EXCEPT !.at = "root", !.name = {n}, !.left = paths]
  /\ UNCHANGED <<host, folders, disk, writes, copies, Making>>

Rooted(root) == req' = [req EXCEPT !.at = "restore", !.root = root]
Refused(why) == req' = [IdleReq EXCEPT !.at = why, !.name = req.name]

\* resolve_snapshot_root: a directory of the name as it was given, else the
\* device of a copy that is listed.  A host without VSS and a copy that is
\* not listed are answered alike; a listing that failed says so.
ResolveRoot ==
  /\ req.at = "root"
  /\ \E n \in req.name :
       IF n \in DOMAIN folders THEN Rooted(Folder(n))
       ELSE \/ ~Supported /\ Refused("not_found")
            \/ Supported /\ Refused("no_access")
            \/ /\ Supported
               /\ \E listed \in Listings :
                    \/ /\ Named(listed, n) = {}
                       /\ Refused("not_found")
                    \/ \E c \in Named(listed, n) : Rooted(Device(c))
  /\ UNCHANGED <<host, folders, disk, writes, copies, Making, asks>>

\* One file is done and how it went is kept.
Done(p, restored, put, why) ==
  req' = [req EXCEPT !.left = Tail(@),
            !.results = Append(@, [file |-> p.file, restored |-> restored,
                                   put |-> put, why |-> why])]

\* A path this host would not write where it says: on Linux a path with
\* backslashes names a file of the working directory.
Foreign(p) == host.system = "Linux" /\ (p.drive \/ p.sep = "\\")

\* restore_file: not there; or copied over; or the copying failed.
RestoreFile ==
  /\ req.at = "restore" /\ req.left # <<>>
  /\ LET p == Head(req.left)
         source == Found(req.root, Join(req.root, ToRelative(p)))
     IN \/ source = Absent /\ Done(p, FALSE, Absent, "absent") /\ UNCHANGED disk
        \/ /\ source # Absent /\ Done(p, TRUE, source, "")
           /\ disk' = IF Foreign(p) THEN disk
                      ELSE [disk EXCEPT ![p.file] = source]
        \/ source # Absent /\ Done(p, FALSE, Absent, "error") /\ UNCHANGED disk
  /\ UNCHANGED <<host, folders, writes, copies, Making, asks>>

\* The summary is logged and answered.
Answer ==
  /\ \/ req.at = "restore" /\ req.left = <<>>
     \/ req.at \in {"not_found", "no_access"}
  /\ req' = IdleReq
  /\ UNCHANGED <<host, folders, disk, writes, copies, Making, asks>>

-------------------------------------------------------------------------------
Next ==
  \/ \E f \in File : Write(f)
  \/ \E c \in Copy : MadeByWindows(c) \/ Deleted(c)
  \/ \E now \in RunNow : StartScheduler(now)
  \/ StopScheduler \/ Fire \/ ScriptAsks
  \/ \E m \in Maker :
       \/ CreateFails(m) \/ Resolve(m) \/ LogCreated(m)
       \/ \E c \in Copy : Create(m, c)
  \/ \E n \in Asked, paths \in Request : Ask(n, paths)
  \/ ResolveRoot \/ RestoreFile \/ Answer

Spec == Init /\ [][Next]_vars

\* APScheduler's thread runs a job that is due.
SchedulerFairness == WF_vars(Fire)
LiveSpec == Spec /\ SchedulerFairness

-------------------------------------------------------------------------------
Root == {NoRoot} \cup {Device(c) : c \in Copy} \cup {Folder(n) : n \in Name}

\* Every variable has its type.
TypeOK ==
  /\ host \in Hosts /\ DOMAIN folders \subseteq Name
  /\ disk \in Held /\ writes \in Version
  /\ copies \in [Copy -> [held : Held, state : {"unmade", "live", "deleted"}]]
  /\ sched \in {"off", "paused", "on"} /\ runs \in 0 .. MaxRun
  /\ maker \in [Maker -> [at : {"idle", "create", "resolve", "log"},
                          copy : SUBSET Copy, device : Root]]
  /\ Len(ledger) <= MaxRecord
  /\ \A i \in DOMAIN ledger :
       ledger[i] \in [type : {"created", "failed"}, copy : SUBSET Copy,
                     device : Root]
  /\ asks \in 0 .. MaxAsk
  /\ req.at \in {"idle", "root", "restore", "not_found", "no_access"}
  /\ req.name \subseteq Name /\ req.root \in Root
  /\ \A i \in DOMAIN req.left : req.left[i] \in Path

\* What a restore says of a file is true of the copy it was asked to use,
\* however the copy and the path are spelled and whatever is made or deleted
\* meanwhile: a file restored holds what that copy held, and a file that is
\* "not present in the snapshot" is not in it, or the copy is gone
\* (resolve_snapshot_root, to_relative, join_under_snapshot).
RestoresWhatIsNamed ==
  \A i \in DOMAIN req.results, n \in req.name :
    LET r == req.results[i]
        folder == n \in DOMAIN folders
        held == IF folder THEN folders[n][r.file]
                ELSE copies[n.copy].held[r.file]
    IN /\ r.restored => r.put = held /\ held # Absent
       /\ r.why = "absent" =>
            held = Absent \/ (~folder /\ copies[n.copy].state = "deleted")

\* A snapshot_created block names a copy that was made, and leads to that
\* copy or nowhere, however many are made at once (_device_object_for).
RecordedIsMade ==
  \A i \in DOMAIN ledger :
    ledger[i].type = "created" =>
      \A c \in ledger[i].copy :
        /\ copies[c].state # "unmade"
        /\ ledger[i].device \in {NoRoot, Device(c)}

\* start_scheduler: "Snapshot every N hours (default 6)"
\* (vss_manager.py:415).  Once started, a copy is tried, or the service
\* stops.
SnapshotsAreTaken ==
  sched # "off" ~> (maker["job"].at # "idle" \/ sched = "off")
=============================================================================
