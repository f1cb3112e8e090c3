------------------------------- MODULE GuiApp -------------------------------
(***************************************************************************)
(* The desktop application (src/src/bin/gui.rs): the UI thread, the worker  *)
(* threads it spawns for device I/O, and the keys that come and go.         *)
(*                                                                          *)
(* The UI thread runs App::update over and over; each thing a frame may do  *)
(* is one action.  A worker opens a session, does its I/O on the key the    *)
(* session reached, and sends one JobResult.  Sends may be delayed without  *)
(* bound, so the FIFO channel delivers results in any order: a result waits *)
(* in its job's slot until the UI thread handles it.                        *)
(*                                                                          *)
(* Time is abstracted: an expiry that is set may have passed at any moment. *)
(* A code is identified by the key and the profile it was computed from.    *)
(***************************************************************************)
EXTENDS Naturals, FiniteSets

CONSTANTS
  Keys, NoKey,
  Ports,          \* ways to reach a key: a subset of {"Nfc", "Hid"}
  Transports,     \* what the user may select: a subset of {"Auto", "Hid", "Nfc"}
  Profiles,       \* (app name, account name) pairs
  TouchProfiles,  \* those whose code needs a button press
  MaxJobs,        \* bound: worker threads alive at once
  MaxClicks,      \* bound: user actions
  MaxWorld,       \* bound: keys plugged in or pulled out
  MaxFaults       \* bound: I/O errors while the key is there

ASSUME GuiAssumption ==
  /\ NoKey \notin Keys
  /\ Ports \subseteq {"Nfc", "Hid"} /\ Transports \subseteq {"Auto", "Hid", "Nfc"}
  /\ TouchProfiles \subseteq Profiles
  /\ MaxJobs \in Nat /\ MaxClicks \in Nat /\ MaxWorld \in Nat /\ MaxFaults \in Nat

VARIABLES
  \* App
  transport, rows, serial, active_transport, loaded, refreshing,
  busy,            \* what the spinner says, or "none"
  info, error,     \* the two status messages; error is only told shown or not
  touch_codes,     \* the key each touch profile's code was read from, or NoKey
  confirm_delete,  \* the profile the delete dialog asks about, or "none"
  dialogs,         \* the other dialogs that are open
  really_quit,
  clear_at,        \* the code to wipe from the clipboard when it is due, or NoCode
  \* worker threads
  jobs,
  \* the world
  at, content,
  clipboard,       \* the code it holds; NoCode is any other text
  clicks, moves, faults

list     == <<rows, serial, active_transport>>
clip     == <<clipboard, clear_at>>
app      == <<transport, list, loaded, refreshing, busy, info, error, touch_codes,
              confirm_delete, dialogs, really_quit, clip>>
world    == <<at, content>>
vars     == <<app, jobs, world, clicks, moves, faults>>

Slots == 1..MaxJobs
Infos == {"none", "copied", "disconnected"}
Kinds == {"Load", "Refresh", "Touch", "Add", "Delete", "Erase"}
None  == "none"

Row(k, p) == [profile |-> p, from |-> k]
RowSet == [profile : Profiles, from : Keys]

\* A code is known by the key and the profile it is of.
NoCode == [profile |-> None, from |-> NoKey]
Codes == RowSet \cup {NoCode}

Idle == [stage |-> "idle"]
Job(kind, t, p) == [stage |-> "spawned", kind |-> kind, transport |-> t, profile |-> p]
Opened(j, q) == [stage |-> "opened", kind |-> j.kind, profile |-> j.profile,
                 port |-> q, key |-> at[q]]
Finished(j, r) == [stage |-> "finished", kind |-> j.kind, result |-> r]

\* Mutant: a failed refresh is reported like any other failure.
FailureAlwaysErr(kind) == [tag |-> "Err"]

\* job_refresh reports every failure as Disconnected, the others as Err.
Failure(kind) == [tag |-> IF kind = "Refresh" THEN "Disconnected" ELSE "Err"]

\* OtpSession::open: Auto tries PC/SC before USB-HID.
Tried(t) == IF t = "Auto" THEN {"Nfc", "Hid"} ELSE {t}
Reached(t) == {q \in Tried(t) \cap Ports : at[q] # NoKey}
OpensOn(t, q) == q \in Reached(t) /\ ("Nfc" \in Reached(t) => q = "Nfc")

\* App::new starts with the default transport; another saved choice is one
\* SelectTransport away.
Init ==
  /\ transport \in Transports \cap {"Nfc"}
  /\ rows = {} /\ serial = NoKey /\ active_transport = None
  /\ loaded = FALSE /\ refreshing = FALSE
  /\ busy = "Load" /\ info = None /\ error = FALSE
  /\ touch_codes = [p \in TouchProfiles |-> NoKey]
  /\ confirm_delete = None /\ dialogs = {} /\ really_quit = FALSE
  /\ clipboard = NoCode /\ clear_at = NoCode
  /\ jobs = [s \in Slots |-> IF s = 1 THEN Job("Load", transport, None) ELSE Idle]
  /\ at \in [Ports -> Keys \cup {NoKey}]
  /\ content \in [Keys -> SUBSET Profiles]
  /\ clicks = 0 /\ moves = 0 /\ faults = 0

-----------------------------------------------------------------------------
(* Helpers of App *)

\* A slot for one more thread; any idle one, they are alike.
FreeSlot(s) == jobs[s].stage = "idle" /\ \A r \in Slots : jobs[r].stage = "idle" => s <= r

\* Mutant: the status shows another argument than the job's label.
SpawnMislabelled(s, kind, t, p) ==
  /\ jobs' = [jobs EXCEPT ![s] = Job(kind, t, p)]
  /\ busy' = t /\ info' = None /\ error' = FALSE

\* App::spawn, in slot s.
Spawn(s, kind, t, p) ==
  /\ jobs' = [jobs EXCEPT ![s] = Job(kind, t, p)]
  /\ busy' = kind /\ info' = None /\ error' = FALSE

\* App::reload, in slot s.
Reload(s, t) ==
  /\ loaded' = FALSE
  /\ touch_codes' = [p \in TouchProfiles |-> NoKey]
  /\ Spawn(s, "Load", t, None)

Click == ~really_quit /\ clicks < MaxClicks /\ clicks' = clicks + 1
Unclicked == ~really_quit /\ UNCHANGED clicks

\* Body shows the rows, and their buttons, once something was loaded.
Visible(p) == loaded /\ \E r \in rows : r.profile = p

-----------------------------------------------------------------------------
(* The user *)

ClickRefresh ==
  /\ Click
  /\ \E s \in Slots : FreeSlot(s) /\ Reload(s, transport)
  /\ UNCHANGED <<transport, list, refreshing, confirm_delete, dialogs, really_quit, world, clip, moves, faults>>

SelectTransport ==
  /\ Click
  /\ \E t \in Transports \ {transport} : \E s \in Slots :
       transport' = t /\ FreeSlot(s) /\ Reload(s, t)
  /\ UNCHANGED <<list, refreshing, confirm_delete, dialogs, really_quit, world, clip, moves, faults>>

\* The code "Copy" is next to.
ShownCode(r) == IF r.profile \in TouchProfiles THEN Row(touch_codes[r.profile], r.profile) ELSE r

\* copy_code: the deadline is set whether or not the clipboard took the code.
ClickCopy ==
  /\ Click
  /\ \E r \in rows :
       /\ Visible(r.profile) /\ ShownCode(r).from # NoKey
       /\ clear_at' = ShownCode(r)
       /\ \/ clipboard' = ShownCode(r) /\ UNCHANGED faults
          \/ faults < MaxFaults /\ faults' = faults + 1 /\ UNCHANGED clipboard
  /\ info' = "copied" /\ error' = FALSE
  /\ UNCHANGED <<transport, list, loaded, refreshing, busy, touch_codes, confirm_delete,
                 dialogs, really_quit, jobs, world, moves>>

\* The user copies something else, in any application.
CopyOther ==
  /\ Click /\ clipboard # NoCode
  /\ clipboard' = NoCode
  /\ UNCHANGED <<transport, list, loaded, refreshing, busy, info, error, touch_codes,
                 confirm_delete, dialogs, really_quit, clear_at, jobs, world, moves, faults>>

\* "Read" on a touch row without a code.
ClickRead ==
  /\ Click
  /\ \E p \in TouchProfiles : \E s \in Slots :
       /\ Visible(p) /\ touch_codes[p] = NoKey
       /\ FreeSlot(s) /\ Spawn(s, "Touch", transport, p)
  /\ UNCHANGED <<transport, list, loaded, refreshing, touch_codes, confirm_delete,
                 dialogs, really_quit, world, clip, moves, faults>>

ClickDelete ==
  /\ Click
  /\ \E p \in Profiles : Visible(p) /\ confirm_delete' = p
  /\ UNCHANGED <<transport, list, loaded, refreshing, busy, info, error, touch_codes,
                 dialogs, really_quit, jobs, world, clip, moves, faults>>

\* delete_dialog: "Delete" spawns the job on the transport selected by now.
ConfirmDelete ==
  /\ Click /\ confirm_delete # None
  /\ confirm_delete' = None
  /\ \E s \in Slots : FreeSlot(s) /\ Spawn(s, "Delete", transport, confirm_delete)
  /\ UNCHANGED <<transport, list, loaded, refreshing, touch_codes, dialogs, really_quit, world, clip, moves, faults>>

CancelDelete ==
  /\ Click /\ confirm_delete # None
  /\ confirm_delete' = None
  /\ UNCHANGED <<transport, list, loaded, refreshing, busy, info, error, touch_codes,
                 dialogs, really_quit, jobs, world, clip, moves, faults>>

\* "+ Add", "Erase all profiles..." in the settings, "Exit" or the title bar.
OpenDialog ==
  /\ Click
  /\ \E d \in {"add", "erase", "exit"} \ dialogs : dialogs' = dialogs \cup {d}
  /\ UNCHANGED <<transport, list, loaded, refreshing, busy, info, error, touch_codes,
                 confirm_delete, really_quit, jobs, world, clip, moves, faults>>

CancelDialog ==
  /\ Click
  /\ \E d \in dialogs : dialogs' = dialogs \ {d}
  /\ UNCHANGED <<transport, list, loaded, refreshing, busy, info, error, touch_codes,
                 confirm_delete, really_quit, jobs, world, clip, moves, faults>>

\* submit_add refuses an empty account and keeps the form open.
SubmitEmpty ==
  /\ Click /\ "add" \in dialogs
  /\ error' = TRUE
  /\ UNCHANGED <<transport, list, loaded, refreshing, busy, info, touch_codes,
                 confirm_delete, dialogs, really_quit, jobs, world, clip, moves, faults>>

SubmitAdd ==
  /\ Click /\ "add" \in dialogs
  /\ dialogs' = dialogs \ {"add"}
  /\ \E p \in Profiles : \E s \in Slots : FreeSlot(s) /\ Spawn(s, "Add", transport, p)
  /\ UNCHANGED <<transport, list, loaded, refreshing, touch_codes, confirm_delete, really_quit,
                 world, clip, moves, faults>>

ConfirmErase ==
  /\ Click /\ "erase" \in dialogs
  /\ dialogs' = dialogs \ {"erase"}
  /\ \E s \in Slots : FreeSlot(s) /\ Spawn(s, "Erase", transport, None)
  /\ UNCHANGED <<transport, list, loaded, refreshing, touch_codes, confirm_delete, really_quit,
                 world, clip, moves, faults>>

\* The process ends, and its worker threads with it.
ConfirmExit ==
  /\ Click /\ "exit" \in dialogs
  /\ dialogs' = dialogs \ {"exit"}
  /\ really_quit' = TRUE
  /\ jobs' = [s \in Slots |-> Idle]
  /\ UNCHANGED <<transport, list, loaded, refreshing, busy, info, error, touch_codes,
                 confirm_delete, world, clip, moves, faults>>

User == \/ ClickRefresh \/ SelectTransport \/ ClickCopy \/ CopyOther \/ ClickRead
        \/ ClickDelete \/ ConfirmDelete \/ CancelDelete
        \/ OpenDialog \/ CancelDialog \/ SubmitEmpty \/ SubmitAdd
        \/ ConfirmErase \/ ConfirmExit

-----------------------------------------------------------------------------
(* The rest of a frame: drain_jobs, expire_info, the periodic refresh *)

Take(s, tag) ==
  /\ Unclicked
  /\ jobs[s].stage = "finished" /\ jobs[s].result.tag = tag

\* Mutant: the serial number of the key shown before is kept.
ShowListKeepSerial(snap) ==
  /\ rows' = snap.rows /\ serial' = serial /\ active_transport' = snap.active
  /\ loaded' = TRUE /\ refreshing' = FALSE /\ error' = FALSE

ShowList(snap) ==
  /\ rows' = snap.rows /\ serial' = snap.serial /\ active_transport' = snap.active
  /\ loaded' = TRUE /\ refreshing' = FALSE /\ error' = FALSE

HandleLoaded(s) ==
  /\ Take(s, "Loaded") \/ Take(s, "Refreshed")
  /\ ShowList(jobs[s].result.snap)
  /\ busy' = None
  /\ jobs' = [jobs EXCEPT ![s] = Idle]
  /\ UNCHANGED <<transport, info, touch_codes, confirm_delete, dialogs, really_quit,
                 world, clip, moves, faults>>

HandleDisconnected(s) ==
  /\ Take(s, "Disconnected")
  /\ refreshing' = FALSE /\ busy' = None
  /\ IF rows # {} \/ serial # NoKey
     THEN /\ rows' = {} /\ serial' = NoKey /\ active_transport' = None
          /\ touch_codes' = [p \in TouchProfiles |-> NoKey]
          /\ info' = "disconnected" /\ error' = FALSE
     ELSE UNCHANGED <<list, touch_codes, info, error>>
  /\ jobs' = [jobs EXCEPT ![s] = Idle]
  /\ UNCHANGED <<transport, loaded, confirm_delete, dialogs, really_quit, world, clip, moves, faults>>

\* Mutant: the touch code arrives and the spinner stays.
HandleTouchCodeBusy(s) ==
  /\ Take(s, "TouchCode")
  /\ touch_codes' = [touch_codes EXCEPT ![jobs[s].result.profile] = jobs[s].result.from]
  /\ jobs' = [jobs EXCEPT ![s] = Idle]
  /\ UNCHANGED <<transport, list, loaded, refreshing, busy, info, error, confirm_delete, dialogs,
                 really_quit, world, clip, moves, faults>>

HandleTouchCode(s) ==
  /\ Take(s, "TouchCode")
  /\ busy' = None
  /\ touch_codes' = [touch_codes EXCEPT ![jobs[s].result.profile] = jobs[s].result.from]
  /\ jobs' = [jobs EXCEPT ![s] = Idle]
  /\ UNCHANGED <<transport, list, loaded, refreshing, info, error, confirm_delete, dialogs,
                 really_quit, world, clip, moves, faults>>

\* set_info(msg), then reload(), whose spawn() sets `info` again.
HandleOk(s) ==
  /\ Take(s, "Ok")
  /\ Reload(s, transport)
  /\ UNCHANGED <<transport, list, refreshing, confirm_delete, dialogs, really_quit, world, clip, moves, faults>>

\* Mutant: a failed load leaves the window on "Reading entries...".
HandleErrUnloaded(s) ==
  /\ Take(s, "Err")
  /\ error' = TRUE /\ refreshing' = FALSE /\ busy' = None
  /\ jobs' = [jobs EXCEPT ![s] = Idle]
  /\ UNCHANGED <<transport, list, loaded, info, touch_codes, confirm_delete, dialogs,
                 really_quit, world, clip, moves, faults>>

HandleErr(s) ==
  /\ Take(s, "Err")
  /\ error' = TRUE /\ loaded' = TRUE /\ refreshing' = FALSE /\ busy' = None
  /\ jobs' = [jobs EXCEPT ![s] = Idle]
  /\ UNCHANGED <<transport, list, info, touch_codes, confirm_delete, dialogs, really_quit,
                 world, clip, moves, faults>>

DrainJobs(s) == \/ HandleLoaded(s) \/ HandleDisconnected(s) \/ HandleTouchCode(s)
                \/ HandleOk(s) \/ HandleErr(s)

ExpireInfo ==
  /\ Unclicked /\ info # None
  /\ info' = None
  /\ UNCHANGED <<transport, list, loaded, refreshing, busy, error, touch_codes,
                 confirm_delete, dialogs, really_quit, jobs, world, clip, moves, faults>>

\* Mutant: the code is wiped only while it is one of those in view.
MaybeClearShown ==
  /\ Unclicked /\ clear_at # NoCode
  /\ clear_at' = NoCode
  /\ clipboard' = IF clipboard = clear_at /\ clear_at \in rows THEN NoCode ELSE clipboard
  /\ UNCHANGED <<transport, list, loaded, refreshing, busy, info, error, touch_codes,
                 confirm_delete, dialogs, really_quit, jobs, world, moves, faults>>

\* maybe_clear_clipboard: only our own code is wiped, and the deadline is gone
\* whether or not the clipboard could be read and written.
MaybeClearClipboard ==
  /\ Unclicked /\ clear_at # NoCode
  /\ clear_at' = NoCode
  /\ \/ /\ clipboard' = IF clipboard = clear_at THEN NoCode ELSE clipboard
        /\ UNCHANGED faults
     \/ faults < MaxFaults /\ faults' = faults + 1 /\ UNCHANGED clipboard
  /\ UNCHANGED <<transport, list, loaded, refreshing, busy, info, error, touch_codes,
                 confirm_delete, dialogs, really_quit, jobs, world, moves>>

\* update() when the refresh is due, and refresh_codes().
RefreshCodes ==
  /\ Unclicked
  /\ loaded /\ ~refreshing /\ busy = None
  /\ refreshing' = TRUE
  /\ \E s \in Slots : FreeSlot(s) /\ jobs' = [jobs EXCEPT ![s] = Job("Refresh", transport, None)]
  /\ UNCHANGED <<transport, list, loaded, busy, info, error, touch_codes, confirm_delete,
                 dialogs, really_quit, world, clip, moves, faults>>

-----------------------------------------------------------------------------
(* The workers: job_load, job_refresh and the closures given to spawn() *)

Finish(s, r) == jobs' = [jobs EXCEPT ![s] = Finished(jobs[s], r)]

OpenSession(s) ==
  /\ jobs[s].stage = "spawned"
  /\ LET t == jobs[s].transport
     IN \/ /\ \E q \in Ports : OpensOn(t, q) /\ jobs' = [jobs EXCEPT ![s] = Opened(jobs[s], q)]
           /\ UNCHANGED faults
        \/ /\ Reached(t) = {}
           /\ Finish(s, Failure(jobs[s].kind))
           /\ UNCHANGED faults
        \/ \* the key is there, and the probe fails; Auto falls back to HID
           /\ Reached(t) # {} /\ faults < MaxFaults /\ faults' = faults + 1
           /\ IF {"Nfc", "Hid"} \subseteq Reached(t)
              THEN jobs' = [jobs EXCEPT ![s] = Opened(jobs[s], "Hid")]
              ELSE Finish(s, Failure(jobs[s].kind))
  /\ UNCHANGED <<app, world, clicks, moves>>

\* The I/O fails: the key was pulled out, or an exchange went wrong.
JobFails(s) ==
  /\ jobs[s].stage = "opened"
  /\ \/ jobs[s].key = NoKey /\ UNCHANGED faults
     \/ jobs[s].key # NoKey /\ faults < MaxFaults /\ faults' = faults + 1
  /\ Finish(s, Failure(jobs[s].kind))
  /\ UNCHANGED <<app, world, clicks, moves>>

OnKey(s, kinds) == jobs[s].stage = "opened" /\ jobs[s].kind \in kinds /\ jobs[s].key # NoKey

\* Serial number and entries; over USB-HID the serial number may be missing.
JobRead(s) ==
  /\ OnKey(s, {"Load", "Refresh"})
  /\ LET k == jobs[s].key
         Snap(n) == [rows |-> {Row(k, p) : p \in content[k]}, serial |-> n,
                     active |-> jobs[s].port]
         Result(n) == [tag |-> IF jobs[s].kind = "Load" THEN "Loaded" ELSE "Refreshed",
                       snap |-> Snap(n)]
     IN \/ Finish(s, Result(k)) /\ UNCHANGED faults
        \/ /\ jobs[s].port = "Hid" /\ faults < MaxFaults /\ faults' = faults + 1
           /\ Finish(s, Result(NoKey))
  /\ UNCHANGED <<app, world, clicks, moves>>

JobTouch(s) ==
  /\ OnKey(s, {"Touch"})
  /\ LET k == jobs[s].key  p == jobs[s].profile
     IN Finish(s, IF p \in content[k] THEN [tag |-> "TouchCode", profile |-> p, from |-> k]
                                      ELSE Failure("Touch"))
  /\ UNCHANGED <<app, world, clicks, moves, faults>>

\* What a write leaves on the key.
Written(kind, p, S) == CASE kind = "Add"    -> S \cup {p}
                         [] kind = "Delete" -> S \ {p}
                         [] kind = "Erase"  -> {}

\* The write is done, and its answer arrives or is lost.
JobWrite(s) ==
  /\ OnKey(s, {"Add", "Delete", "Erase"})
  /\ LET k == jobs[s].key  kind == jobs[s].kind  p == jobs[s].profile
     IN IF kind = "Delete" /\ p \notin content[k]
        THEN Finish(s, Failure(kind)) /\ UNCHANGED <<content, faults>>
        ELSE /\ content' = [content EXCEPT ![k] = Written(kind, p, @)]
             /\ \/ Finish(s, [tag |-> "Ok"]) /\ UNCHANGED faults
                \/ /\ faults < MaxFaults /\ faults' = faults + 1
                   /\ Finish(s, Failure(kind))
  /\ UNCHANGED <<app, at, clicks, moves>>

Worker(s) == OpenSession(s) \/ JobFails(s) \/ JobRead(s) \/ JobTouch(s) \/ JobWrite(s)

-----------------------------------------------------------------------------
(* The world (external) *)

Move == ~really_quit /\ moves < MaxWorld /\ moves' = moves + 1

\* A key is plugged in, or held to a reader: one port reaches it, or both.
Plug ==
  /\ Move
  /\ \E k \in Keys : \E Q \in SUBSET Ports \ {{}} :
       /\ \A q \in Ports : at[q] # k
       /\ \A q \in Q : at[q] = NoKey
       /\ at' = [q \in Ports |-> IF q \in Q THEN k ELSE at[q]]
  /\ UNCHANGED <<app, jobs, content, clicks, faults>>

\* A key is pulled out; sessions on it are broken for good.
Unplug ==
  /\ Move
  /\ \E k \in Keys :
       /\ \E q \in Ports : at[q] = k
       /\ at' = [q \in Ports |-> IF at[q] = k THEN NoKey ELSE at[q]]
       /\ jobs' = [s \in Slots |->
                     IF jobs[s].stage = "opened" /\ jobs[s].key = k
                     THEN [jobs[s] EXCEPT !.key = NoKey] ELSE jobs[s]]
  /\ UNCHANGED <<app, content, clicks, faults>>

Closed == really_quit /\ UNCHANGED vars

Next ==
  \/ User
  \/ \E s \in Slots : DrainJobs(s) \/ Worker(s)
  \/ ExpireInfo \/ MaybeClearClipboard \/ RefreshCodes
  \/ Plug \/ Unplug
  \/ Closed

\* The UI thread repaints every 250 ms and drains the channel in every frame;
\* every exchange with a key ends; the refresh and the wiping come due.
Fairness ==
  /\ \A s \in Slots : WF_vars(DrainJobs(s)) /\ WF_vars(Worker(s))
  /\ WF_vars(RefreshCodes) /\ WF_vars(MaybeClearClipboard)

Spec == Init /\ [][Next]_vars /\ Fairness

-----------------------------------------------------------------------------
(* Properties *)

\* A worker that has not sent its result yet, of one of these kinds.
Working(kinds, profiles) ==
       [stage : {"spawned"}, kind : kinds, transport : Transports, profile : profiles]
  \cup [stage : {"opened"}, kind : kinds, profile : profiles, port : Ports, key : Keys \cup {NoKey}]

Snaps   == [rows : SUBSET RowSet, serial : Keys \cup {NoKey}, active : Ports]
Results ==
       [tag : {"Loaded", "Refreshed"}, snap : Snaps]
  \cup [tag : {"TouchCode"}, profile : TouchProfiles, from : Keys]
  \cup [tag : {"Ok", "Err", "Disconnected"}]

Jobs ==
       {Idle} \cup Working({"Load", "Refresh", "Erase"}, {None})
  \cup Working({"Touch"}, TouchProfiles) \cup Working({"Add", "Delete"}, Profiles)
  \cup [stage : {"finished"}, kind : Kinds, result : Results]

\* Every field has a value its Rust type allows, and every job is in one of
\* the stages of its thread, with what its kind of job has by then.
TypeOK ==
  /\ transport \in Transports
  /\ rows \subseteq RowSet /\ serial \in Keys \cup {NoKey}
  /\ active_transport \in Ports \cup {None}
  /\ loaded \in BOOLEAN /\ refreshing \in BOOLEAN /\ really_quit \in BOOLEAN
  /\ busy \in Kinds \cup {None} /\ info \in Infos /\ error \in BOOLEAN
  /\ touch_codes \in [TouchProfiles -> Keys \cup {NoKey}]
  /\ confirm_delete \in Profiles \cup {None}
  /\ dialogs \subseteq {"add", "erase", "exit"}
  /\ jobs \in [Slots -> Jobs]
  /\ at \in [Ports -> Keys \cup {NoKey}] /\ content \in [Keys -> SUBSET Profiles]
  /\ clipboard \in Codes /\ clear_at \in Codes

\* The list is always one read of one key, never parts of two (drain_jobs takes
\* rows, serial and transport from one result).
View == [rows |-> rows, serial |-> serial, active |-> active_transport]
Pool == {View} \cup {jobs[s].result.snap : s \in {r \in Slots :
            jobs[r].stage = "finished" /\ jobs[r].result.tag \in {"Loaded", "Refreshed"}}}
LV == INSTANCE ListView WITH pool <- Pool, view <- View
ListIsOneRead == LV!Spec

\* The selected transport reaches key k over port q.
Selected(k, q) == OpensOn(transport, q) /\ at[q] = k

\* The window shows what is on the key now, or nothing if there is no key.
ListIsCurrent ==
  /\ loaded
  /\ Reached(transport) = {} => rows = {} /\ serial = NoKey
  /\ \A k \in Keys, q \in Ports : Selected(k, q) =>
       /\ rows = {Row(k, p) : p \in content[k]}
       /\ serial = k /\ active_transport = q /\ ~error

\* However results are delayed and overtake each other, once the user, the keys
\* and the errors come to rest the window shows the key's present content and
\* keeps showing it: refreshing and busy never wedge the periodic refresh.
Converges == <>[](really_quit \/ ListIsCurrent)

\* "Reading entries..." and the spinner always end.
ReadingEnds == ~loaded ~> (loaded \/ really_quit)
BusyEnds == busy # None ~> (busy = None \/ really_quit)

\* The status line's "Copied - clipboard clears in 45s": a code does not stay in
\* the clipboard, whatever is copied, read or pulled out before it is due.  (It
\* does if the window is closed first, or if the clipboard fails.)
CopiedCodeLeaves ==
  clipboard # NoCode ~> (clipboard = NoCode \/ really_quit \/ faults > 0)

\* The codes in view: those of rows, and the touch codes of rows.
ShownFrom(k) == loaded /\ \E r \in rows : ShownCode(r).from = k

\* The doc of job_refresh: the UI clears stale codes "instead of showing codes
\* for an absent device".  A key that never comes back is not shown for ever.
AbsentKeyForgotten ==
  \A k \in Keys : (<>[](\A q \in Ports : at[q] # k)) => <>[](really_quit \/ ~ShownFrom(k))

=============================================================================
