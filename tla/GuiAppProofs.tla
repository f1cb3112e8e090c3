---------------------------- MODULE GuiAppProofs ----------------------------
(***************************************************************************)
(* Proofs about the desktop application, for any number of keys, profiles,  *)
(* worker threads, clicks and failures: its fields keep their types, and    *)
(* the list it shows implements ListView.                                   *)
(***************************************************************************)
EXTENDS GuiApp, TLAPS

-----------------------------------------------------------------------------
(* The invariant.  A worker's session is on the key its port reaches, until  *)
(* that key is pulled out: what a read gives is what that port reaches.      *)

SessionsReach ==
  \A s \in Slots : jobs[s].stage = "opened" /\ jobs[s].key # NoKey => at[jobs[s].port] = jobs[s].key

IInv == TypeOK /\ SessionsReach

AppTypes ==
  /\ transport \in Transports
  /\ rows \subseteq RowSet /\ serial \in Keys \cup {NoKey}
  /\ active_transport \in Ports \cup {None}
  /\ loaded \in BOOLEAN /\ refreshing \in BOOLEAN /\ really_quit \in BOOLEAN
  /\ busy \in Kinds \cup {None} /\ info \in Infos /\ error \in BOOLEAN
  /\ touch_codes \in [TouchProfiles -> Keys \cup {NoKey}]
  /\ confirm_delete \in Profiles \cup {None}
  /\ dialogs \subseteq {"add", "erase", "exit"}
  /\ clipboard \in Codes /\ clear_at \in Codes

WorldTypes == at \in [Ports -> Keys \cup {NoKey}] /\ content \in [Keys -> SUBSET Profiles]
JobTypes   == jobs \in [Slots -> Jobs] /\ SessionsReach

LEMMA InvIff == IInv <=> AppTypes /\ WorldTypes /\ JobTypes
BY DEF IInv, TypeOK, AppTypes, WorldTypes, JobTypes

-----------------------------------------------------------------------------
(* What a job has in each of its stages. *)

\* The profile a job of this kind is about.
Fits(kind, p) ==
  /\ kind \in {"Load", "Refresh", "Erase"} => p = None
  /\ kind = "Touch" => p \in TouchProfiles
  /\ kind \in {"Add", "Delete"} => p \in Profiles

LEMMA JobFields ==
  ASSUME NEW j \in Jobs
  PROVE  /\ j.stage \in {"idle", "spawned", "opened", "finished"}
         /\ j.stage # "idle" => j.kind \in Kinds
         /\ j.stage = "spawned" => j.transport \in Transports /\ Fits(j.kind, j.profile)
         /\ j.stage = "opened" => /\ Fits(j.kind, j.profile)
                                  /\ j.port \in Ports /\ j.key \in Keys \cup {NoKey}
         /\ j.stage = "finished" => j.result \in Results
<1>1. CASE j = Idle
  BY <1>1 DEF Idle
<1>2. ASSUME NEW kinds \in {{"Load", "Refresh", "Erase"}, {"Touch"}, {"Add", "Delete"}},
             NEW profiles, j \in Working(kinds, profiles),
             \A k \in kinds, p \in profiles : Fits(k, p)
      PROVE  /\ j.stage \in {"spawned", "opened"} /\ j.kind \in Kinds /\ Fits(j.kind, j.profile)
             /\ j.stage = "spawned" => j.transport \in Transports
             /\ j.stage = "opened" => j.port \in Ports /\ j.key \in Keys \cup {NoKey}
  BY <1>2 DEF Working, Kinds
<1>3. CASE j \in Working({"Load", "Refresh", "Erase"}, {None})
  BY <1>2, <1>3 DEF Fits
<1>4. CASE j \in Working({"Touch"}, TouchProfiles)
  BY <1>2, <1>4 DEF Fits
<1>5. CASE j \in Working({"Add", "Delete"}, Profiles)
  BY <1>2, <1>5 DEF Fits
<1>6. CASE j \in [stage : {"finished"}, kind : Kinds, result : Results]
  BY <1>6
<1> QED  BY <1>1, <1>3, <1>4, <1>5, <1>6 DEF Jobs

LEMMA ResultFields ==
  ASSUME NEW r \in Results
  PROVE  /\ r.tag \in {"Loaded", "Refreshed"} =>
              r.snap.rows \subseteq RowSet /\ r.snap.serial \in Keys \cup {NoKey} /\ r.snap.active \in Ports
         /\ r.tag = "TouchCode" => r.profile \in TouchProfiles /\ r.from \in Keys
<1>1. CASE r \in [tag : {"Loaded", "Refreshed"}, snap : Snaps]
  BY <1>1 DEF Snaps
<1>2. CASE r \in [tag : {"TouchCode"}, profile : TouchProfiles, from : Keys]
  BY <1>2
<1>3. CASE r \in [tag : {"Ok", "Err", "Disconnected"}]
  BY <1>3
<1> QED  BY <1>1, <1>2, <1>3 DEF Results

LEMMA JobIs ==
  ASSUME NEW kind \in Kinds, NEW t \in Transports, NEW p, Fits(kind, p)
  PROVE  Job(kind, t, p) \in Jobs /\ Job(kind, t, p).stage = "spawned"
<1>1. CASE kind \in {"Load", "Refresh", "Erase"}
  BY <1>1 DEF Job, Jobs, Working, Fits
<1>2. CASE kind = "Touch"
  BY <1>2 DEF Job, Jobs, Working, Fits
<1>3. CASE kind \in {"Add", "Delete"}
  BY <1>3 DEF Job, Jobs, Working, Fits
<1> QED  BY <1>1, <1>2, <1>3 DEF Kinds

LEMMA FinishedIs ==
  ASSUME NEW j \in Jobs, j.stage # "idle", NEW r \in Results
  PROVE  /\ Finished(j, r) \in Jobs
         /\ Finished(j, r).stage = "finished" /\ Finished(j, r).result = r
<1>1. j.kind \in Kinds
  BY JobFields
<1> QED  BY <1>1 DEF Finished, Jobs

LEMMA FailureIs ==
  ASSUME NEW kind
  PROVE  Failure(kind) \in Results /\ Failure(kind).tag \in {"Err", "Disconnected"}
BY DEF Failure, Results

\* A session is opened over port q, on the key it reaches.
LEMMA OpenedIs ==
  ASSUME NEW j \in Jobs, j.stage = "spawned", NEW q \in Ports, WorldTypes
  PROVE  /\ Opened(j, q) \in Jobs /\ Opened(j, q).stage = "opened"
         /\ Opened(j, q).port = q /\ Opened(j, q).key = at[q]
<1>1. j.kind \in Kinds /\ Fits(j.kind, j.profile) /\ at[q] \in Keys \cup {NoKey}
  BY JobFields DEF WorldTypes
<1>2. CASE j.kind \in {"Load", "Refresh", "Erase"}
  BY <1>1, <1>2 DEF Opened, Jobs, Working, Fits
<1>3. CASE j.kind = "Touch"
  BY <1>1, <1>3 DEF Opened, Jobs, Working, Fits
<1>4. CASE j.kind \in {"Add", "Delete"}
  BY <1>1, <1>4 DEF Opened, Jobs, Working, Fits
<1> QED  BY <1>1, <1>2, <1>3, <1>4 DEF Kinds

-----------------------------------------------------------------------------
(* What a step does to the list: the reads a job still offers, and the view. *)

Reading(j) == j.stage = "finished" /\ j.result.tag \in {"Loaded", "Refreshed"}

LEMMA PoolIff ==
  ASSUME NEW x
  PROVE  x \in Pool <=> x = View \/ \E r \in Slots : Reading(jobs[r]) /\ x = jobs[r].result.snap
BY DEF Pool, Reading

LEMMA PoolNextIff ==
  ASSUME NEW x
  PROVE  x \in Pool' <=> x = View' \/ \E r \in Slots : Reading(jobs'[r]) /\ x = jobs'[r].result.snap
BY DEF Pool, Reading

\* No read is offered or taken: the list does not change, whatever the keys do.
LEMMA QuietStep ==
  ASSUME UNCHANGED list,
         \A r \in Slots : \/ jobs'[r] = jobs[r]
                          \/ ~Reading(jobs[r]) /\ ~Reading(jobs'[r])
  PROVE  [LV!Next]_LV!vars
<1>1. View' = View
  BY DEF View, list
<1>2. Pool' = Pool
  <2>1. ASSUME NEW x PROVE x \in Pool' <=> x \in Pool
    <3>1. x \in Pool <=> x = View \/ \E r \in Slots : Reading(jobs[r]) /\ x = jobs[r].result.snap
      BY PoolIff
    <3>2. x \in Pool' <=> x = View' \/ \E r \in Slots : Reading(jobs'[r]) /\ x = jobs'[r].result.snap
      BY PoolNextIff
    <3> QED  BY <1>1, <3>1, <3>2
  <2> QED  BY <2>1
<1> QED  BY <1>1, <1>2 DEF LV!Next, LV!World

\* A job's slot is filled, or its job goes on, and no read is offered or taken.
LEMMA QuietJob ==
  ASSUME NEW s \in Slots, NEW j, jobs \in [Slots -> Jobs], jobs' = [jobs EXCEPT ![s] = j],
         ~Reading(jobs[s]), ~Reading(j), UNCHANGED list
  PROVE  [LV!Next]_LV!vars
<1>1. \A r \in Slots : jobs'[r] = IF r = s THEN j ELSE jobs[r]
  OBVIOUS
<1> QED  BY <1>1, QuietStep

\* Reads are shown or dropped.
LEMMA ShowStep ==
  ASSUME View' \in Pool \cup {LV!EmptyView}, UNCHANGED world,
         \A r \in Slots : jobs'[r] = jobs[r] \/ ~Reading(jobs'[r])
  PROVE  [LV!Next]_LV!vars
<1>1. Pool' \subseteq Pool \cup {View'}
  BY PoolIff, PoolNextIff
<1> QED  BY <1>1 DEF LV!Next, LV!Show, world

\* A job replaces another in its slot.
LEMMA JobStep ==
  ASSUME NEW s \in Slots, NEW j \in Jobs, JobTypes, jobs' = [jobs EXCEPT ![s] = j], at' = at,
         j.stage = "opened" /\ j.key # NoKey => at[j.port] = j.key
  PROVE  JobTypes'
BY DEF JobTypes, SessionsReach

\* What every step of the application does.
StepInv == AppTypes' /\ WorldTypes' /\ JobTypes' /\ [LV!Next]_LV!vars


-----------------------------------------------------------------------------
(* The user.  Most of what is clicked changes neither the list nor the world, *)
(* and spawns a job or none.                                                  *)

LEMMA SpawnInv ==
  ASSUME NEW s \in Slots, ~Reading(jobs[s]),
         NEW kind \in Kinds, NEW t \in Transports, NEW p, Fits(kind, p),
         jobs' = [jobs EXCEPT ![s] = Job(kind, t, p)],
         JobTypes, AppTypes', WorldTypes', UNCHANGED <<list, at>>
  PROVE  StepInv
<1> DEFINE j == Job(kind, t, p)
<1>1. j \in Jobs /\ j.stage = "spawned"
  BY JobIs
<1> HIDE DEF j
<1>2. JobTypes'
  BY <1>1, JobStep DEF j
<1>3. ~Reading(j)
  BY <1>1 DEF Reading
<1>4. [LV!Next]_LV!vars
  BY <1>3, QuietJob DEF JobTypes, j
<1> QED  BY <1>2, <1>4 DEF StepInv

LEMMA NoJobInv ==
  ASSUME JobTypes, AppTypes', WorldTypes', UNCHANGED <<list, jobs, at>>
  PROVE  StepInv
<1>1. JobTypes'
  BY DEF JobTypes, SessionsReach
<1>2. [LV!Next]_LV!vars
  BY QuietStep
<1> QED  BY <1>1, <1>2 DEF StepInv

LEMMA ReloadInv ==
  ASSUME NEW s \in Slots, ~Reading(jobs[s]),
         NEW t \in Transports, transport' \in Transports, Reload(s, t), AppTypes, WorldTypes, JobTypes,
         UNCHANGED <<list, refreshing, confirm_delete, dialogs, really_quit, world, clip>>
  PROVE  StepInv
<1>1. /\ jobs' = [jobs EXCEPT ![s] = Job("Load", t, None)]
      /\ busy' = "Load" /\ info' = None /\ error' = FALSE /\ loaded' = FALSE
      /\ touch_codes' = [p \in TouchProfiles |-> NoKey]
  BY DEF Reload, Spawn
<1>2. AppTypes' /\ WorldTypes'
  BY <1>1 DEF AppTypes, WorldTypes, Kinds, Infos, None, list, world, clip
<1>3. Fits("Load", None) /\ "Load" \in Kinds
  BY DEF Fits, Kinds
<1> QED  BY <1>1, <1>2, <1>3, SpawnInv DEF world

LEMMA UserSpawns ==
  ASSUME AppTypes, WorldTypes, JobTypes,
         ClickRefresh \/ SelectTransport \/ ClickRead \/ ConfirmDelete \/ SubmitAdd \/ ConfirmErase
  PROVE  StepInv
<1>0. transport \in Transports
  BY DEF AppTypes
<1>1. CASE ClickRefresh
  <2>1. PICK s \in Slots : ~Reading(jobs[s]) /\ Reload(s, transport)
    BY <1>1 DEF ClickRefresh, FreeSlot, Reading
  <2> QED  BY <1>0, <1>1, <2>1, ReloadInv DEF ClickRefresh
<1>2. CASE SelectTransport
  <2>1. PICK t \in Transports, s \in Slots :
          transport' = t /\ ~Reading(jobs[s]) /\ Reload(s, t)
    BY <1>2 DEF SelectTransport, FreeSlot, Reading
  <2> QED  BY <1>2, <2>1, ReloadInv DEF SelectTransport
<1>3. ASSUME NEW s \in Slots, FreeSlot(s), NEW kind \in Kinds, NEW p, Fits(kind, p),
             Spawn(s, kind, transport, p), UNCHANGED <<transport, list, loaded, refreshing,
               touch_codes, really_quit, world, clip>>,
             confirm_delete' \in {confirm_delete, None}, dialogs' \subseteq dialogs
      PROVE  StepInv
  <2>1. AppTypes' /\ WorldTypes'
    BY <1>3 DEF AppTypes, WorldTypes, Spawn, Infos, None, list, world, clip
  <2> QED  BY <1>0, <1>3, <2>1, SpawnInv DEF Spawn, FreeSlot, Reading, world
<1>4. CASE ClickRead
  <2>1. PICK p \in TouchProfiles, s \in Slots : FreeSlot(s) /\ Spawn(s, "Touch", transport, p)
    BY <1>4 DEF ClickRead
  <2> QED  BY <1>3, <1>4, <2>1 DEF ClickRead, Fits, Kinds
<1>5. CASE ConfirmDelete
  <2>1. PICK s \in Slots : FreeSlot(s) /\ Spawn(s, "Delete", transport, confirm_delete)
    BY <1>5 DEF ConfirmDelete
  <2>2. confirm_delete \in Profiles
    BY <1>5 DEF ConfirmDelete, AppTypes
  <2> QED  BY <1>3, <1>5, <2>1, <2>2 DEF ConfirmDelete, Fits, Kinds
<1>6. CASE SubmitAdd
  <2>1. PICK p \in Profiles, s \in Slots : FreeSlot(s) /\ Spawn(s, "Add", transport, p)
    BY <1>6 DEF SubmitAdd
  <2> QED  BY <1>3, <1>6, <2>1 DEF SubmitAdd, Fits, Kinds
<1>7. CASE ConfirmErase
  <2>1. PICK s \in Slots : FreeSlot(s) /\ Spawn(s, "Erase", transport, None)
    BY <1>7 DEF ConfirmErase
  <2> QED  BY <1>3, <1>7, <2>1 DEF ConfirmErase, Fits, Kinds
<1> QED  BY <1>1, <1>2, <1>4, <1>5, <1>6, <1>7

\* A code in the clipboard or in a row is of a key and one of its profiles.
LEMMA ShownCodeIs ==
  ASSUME AppTypes, NEW r \in rows, ShownCode(r).from # NoKey
  PROVE  ShownCode(r) \in RowSet
<1>1. r \in RowSet /\ r.profile \in Profiles
  BY DEF AppTypes, RowSet
<1>2. CASE r.profile \in TouchProfiles
  <2>1. ShownCode(r) = [profile |-> r.profile, from |-> touch_codes[r.profile]]
    BY <1>2 DEF ShownCode, Row
  <2>2. touch_codes[r.profile] \in Keys
    BY <1>2, <2>1 DEF AppTypes
  <2> QED  BY <1>1, <2>1, <2>2 DEF RowSet
<1>3. CASE r.profile \notin TouchProfiles
  BY <1>1, <1>3 DEF ShownCode
<1> QED  BY <1>2, <1>3

LEMMA UserQuiet ==
  ASSUME AppTypes, WorldTypes, JobTypes,
         ClickCopy \/ CopyOther \/ ClickDelete \/ CancelDelete \/ OpenDialog \/ CancelDialog \/ SubmitEmpty
  PROVE  StepInv
<1>1. CASE ClickCopy
  <2>1. PICK r \in rows : /\ ShownCode(r).from # NoKey /\ clear_at' = ShownCode(r)
                          /\ clipboard' \in {clipboard, ShownCode(r)}
    BY <1>1 DEF ClickCopy
  <2>2. clear_at' \in Codes /\ clipboard' \in Codes
    BY <2>1, ShownCodeIs DEF Codes, AppTypes
  <2>3. AppTypes' /\ WorldTypes'
    BY <1>1, <2>2 DEF ClickCopy, AppTypes, WorldTypes, Infos, list, world
  <2> QED  BY <1>1, <2>3, NoJobInv DEF ClickCopy, world
<1>2. CASE CopyOther
  <2>1. AppTypes' /\ WorldTypes'
    BY <1>2 DEF CopyOther, AppTypes, WorldTypes, Codes, list, world
  <2> QED  BY <1>2, <2>1, NoJobInv DEF CopyOther, world
<1>3. CASE ClickDelete \/ CancelDelete
  <2>1. AppTypes' /\ WorldTypes'
    BY <1>3 DEF ClickDelete, CancelDelete, AppTypes, WorldTypes, list, world, clip
  <2> QED  BY <1>3, <2>1, NoJobInv DEF ClickDelete, CancelDelete, world
<1>4. CASE OpenDialog \/ CancelDialog
  <2>1. dialogs' \subseteq {"add", "erase", "exit"}
    BY <1>4 DEF OpenDialog, CancelDialog, AppTypes
  <2>2. AppTypes' /\ WorldTypes'
    BY <1>4, <2>1 DEF OpenDialog, CancelDialog, AppTypes, WorldTypes, list, world, clip
  <2> QED  BY <1>4, <2>2, NoJobInv DEF OpenDialog, CancelDialog, world
<1>5. CASE SubmitEmpty
  <2>1. AppTypes' /\ WorldTypes'
    BY <1>5 DEF SubmitEmpty, AppTypes, WorldTypes, list, world, clip
  <2> QED  BY <1>5, <2>1, NoJobInv DEF SubmitEmpty, world
<1> QED  BY <1>1, <1>2, <1>3, <1>4, <1>5

\* The process ends: no worker is left, and no read will be shown.
LEMMA ExitInv ==
  ASSUME AppTypes, WorldTypes, JobTypes, ConfirmExit
  PROVE  StepInv
<1>1. AppTypes' /\ WorldTypes'
  <2>1. dialogs' \subseteq {"add", "erase", "exit"}
    BY DEF ConfirmExit, AppTypes
  <2> QED  BY <2>1 DEF ConfirmExit, AppTypes, WorldTypes, list, world, clip
<1>2. \A s \in Slots : jobs'[s] = Idle /\ jobs'[s].stage = "idle"
  BY DEF ConfirmExit, Idle
<1>3. JobTypes'
  <2>1. jobs' \in [Slots -> Jobs]
    BY DEF ConfirmExit, Jobs
  <2> QED  BY <1>2, <2>1 DEF JobTypes, SessionsReach
<1>4. [LV!Next]_LV!vars
  <2>1. View' = View /\ View \in Pool
    BY DEF ConfirmExit, View, Pool, list
  <2> QED  BY <1>2, <2>1, ShowStep DEF ConfirmExit, Reading
<1> QED  BY <1>1, <1>3, <1>4 DEF StepInv

-----------------------------------------------------------------------------
(* The rest of a frame *)

\* A result is taken from its slot.
LEMMA TakeInv ==
  ASSUME NEW s \in Slots, JobTypes, jobs' = [jobs EXCEPT ![s] = Idle], at' = at
  PROVE  JobTypes' /\ \A r \in Slots : jobs'[r] = jobs[r] \/ ~Reading(jobs'[r])
<1>1. Idle \in Jobs /\ Idle.stage = "idle"
  BY DEF Idle, Jobs
<1>2. JobTypes'
  BY <1>1, JobStep
<1>3. \A r \in Slots : jobs'[r] = IF r = s THEN Idle ELSE jobs[r]
  BY DEF JobTypes
<1> QED  BY <1>1, <1>2, <1>3 DEF Reading

LEMMA HandleInv ==
  ASSUME AppTypes, WorldTypes, JobTypes, NEW s \in Slots,
         HandleLoaded(s) \/ HandleDisconnected(s) \/ HandleTouchCode(s) \/ HandleErr(s)
  PROVE  StepInv
<1>1. /\ jobs[s].stage = "finished" /\ jobs[s].result \in Results
      /\ jobs' = [jobs EXCEPT ![s] = Idle] /\ UNCHANGED world
  <2>1. jobs[s].stage = "finished" /\ jobs' = [jobs EXCEPT ![s] = Idle] /\ UNCHANGED world
    BY DEF HandleLoaded, HandleDisconnected, HandleTouchCode, HandleErr, Take
  <2> QED  BY <2>1, JobFields DEF JobTypes
<1>2. JobTypes' /\ \A r \in Slots : jobs'[r] = jobs[r] \/ ~Reading(jobs'[r])
  BY <1>1, TakeInv DEF world
<1>3. WorldTypes'
  BY <1>1 DEF WorldTypes, world
<1>4. CASE HandleLoaded(s)
  <2> DEFINE snap == jobs[s].result.snap
  <2>1. /\ rows' = snap.rows /\ serial' = snap.serial /\ active_transport' = snap.active
        /\ Reading(jobs[s]) /\ jobs[s].result.tag \in {"Loaded", "Refreshed"}
    BY <1>4 DEF HandleLoaded, ShowList, Take, Reading
  <2>2. snap \in Snaps
    <3>1. jobs[s].result \in [tag : {"Loaded", "Refreshed"}, snap : Snaps]
      BY <1>1, <2>1 DEF Results
    <3> QED  BY <3>1
  <2>3. AppTypes'
    BY <1>4, <2>1, <2>2 DEF HandleLoaded, ShowList, AppTypes, Take, Unclicked, Snaps, None, clip
  <2>4. View' = snap
    BY <2>1, <2>2 DEF View, Snaps
  <2>5. View' \in Pool
    BY <2>1, <2>4, PoolIff
  <2> QED  BY <1>1, <1>2, <1>3, <2>3, <2>5, ShowStep DEF StepInv
<1>5. CASE HandleDisconnected(s)
  <2>1. AppTypes'
    BY <1>5 DEF HandleDisconnected, AppTypes, Take, Unclicked, Infos, None, list, clip
  <2>2. View' = View \/ View' = LV!EmptyView
    BY <1>5 DEF HandleDisconnected, View, LV!EmptyView, None, list
  <2>3. View' \in Pool \cup {LV!EmptyView}
    BY <2>2, PoolIff
  <2> QED  BY <1>1, <1>2, <1>3, <2>1, <2>3, ShowStep DEF StepInv
<1>6. CASE HandleTouchCode(s) \/ HandleErr(s)
  <2>1. View' = View
    BY <1>6 DEF HandleTouchCode, HandleErr, View, list
  <2>2. View' \in Pool
    BY <2>1, PoolIff
  <2>3. AppTypes'
    <3>1. CASE HandleTouchCode(s)
      <4>1. jobs[s].result.profile \in TouchProfiles /\ jobs[s].result.from \in Keys
        BY <1>1, <3>1, ResultFields DEF HandleTouchCode, Take
      <4> QED  BY <3>1, <4>1 DEF HandleTouchCode, AppTypes, Take, Unclicked, None, list, clip
    <3>2. CASE HandleErr(s)
      BY <3>2 DEF HandleErr, AppTypes, Take, Unclicked, None, list, clip
    <3> QED  BY <1>6, <3>1, <3>2
  <2> QED  BY <1>1, <1>2, <1>3, <2>2, <2>3, ShowStep DEF StepInv
<1> QED  BY <1>4, <1>5, <1>6

LEMMA HandleOkInv ==
  ASSUME AppTypes, WorldTypes, JobTypes, NEW s \in Slots, HandleOk(s)
  PROVE  StepInv
<1>1. ~Reading(jobs[s])
  BY DEF HandleOk, Take, Reading
<1>2. transport \in Transports /\ transport' \in Transports
  BY DEF HandleOk, AppTypes
<1> QED  BY <1>1, <1>2, ReloadInv DEF HandleOk

LEMMA FrameInv ==
  ASSUME AppTypes, WorldTypes, JobTypes, ExpireInfo \/ MaybeClearClipboard \/ RefreshCodes
  PROVE  StepInv
<1>1. CASE ExpireInfo
  <2>1. AppTypes' /\ WorldTypes'
    BY <1>1 DEF ExpireInfo, Unclicked, AppTypes, WorldTypes, Infos, None, list, world, clip
  <2> QED  BY <1>1, <2>1, NoJobInv DEF ExpireInfo, world
<1>2. CASE MaybeClearClipboard
  <2>1. clear_at' \in Codes /\ clipboard' \in Codes
    BY <1>2 DEF MaybeClearClipboard, AppTypes, Codes
  <2>2. AppTypes' /\ WorldTypes'
    BY <1>2, <2>1 DEF MaybeClearClipboard, Unclicked, AppTypes, WorldTypes, list, world
  <2> QED  BY <1>2, <2>2, NoJobInv DEF MaybeClearClipboard, world
<1>3. CASE RefreshCodes
  <2>1. AppTypes' /\ WorldTypes' /\ transport \in Transports
    BY <1>3 DEF RefreshCodes, Unclicked, AppTypes, WorldTypes, list, world, clip
  <2>2. PICK s \in Slots : ~Reading(jobs[s]) /\ jobs' = [jobs EXCEPT ![s] = Job("Refresh", transport, None)]
    BY <1>3 DEF RefreshCodes, FreeSlot, Reading
  <2>3. Fits("Refresh", None) /\ "Refresh" \in Kinds
    BY DEF Fits, Kinds
  <2> QED  BY <1>3, <2>1, <2>2, <2>3, SpawnInv DEF RefreshCodes, world
<1> QED  BY <1>1, <1>2, <1>3

-----------------------------------------------------------------------------
(* The workers *)

LEMMA AppKept ==
  ASSUME AppTypes, UNCHANGED app
  PROVE  AppTypes' /\ UNCHANGED list
BY DEF app, list, clip, AppTypes

\* A job ends without a read, or with a read of the key it is on.
LEMMA FinishInv ==
  ASSUME AppTypes, WorldTypes', JobTypes, NEW s \in Slots, jobs[s].stage \in {"spawned", "opened"},
         NEW r \in Results, Finish(s, r), r.tag \notin {"Loaded", "Refreshed"}, UNCHANGED <<app, at>>
  PROVE  StepInv
<1> DEFINE j == Finished(jobs[s], r)
<1>1. j \in Jobs /\ j.stage = "finished" /\ j.result = r
  BY FinishedIs DEF JobTypes
<1>2. jobs' = [jobs EXCEPT ![s] = j]
  BY DEF Finish
<1> HIDE DEF j
<1>3. JobTypes'
  BY <1>1, <1>2, JobStep
<1>4. ~Reading(jobs[s]) /\ ~Reading(j)
  BY <1>1 DEF Reading
<1> QED  BY <1>2, <1>3, <1>4, AppKept, QuietJob DEF StepInv, JobTypes

LEMMA OpenSessionInv ==
  ASSUME AppTypes, WorldTypes, JobTypes, NEW s \in Slots, OpenSession(s)
  PROVE  StepInv
<1>1. /\ jobs[s].stage = "spawned" /\ jobs[s] \in Jobs /\ UNCHANGED <<app, world>> /\ WorldTypes'
      /\ at' = at
  BY DEF OpenSession, JobTypes, WorldTypes, world
<1>2. ASSUME NEW q \in Ports, jobs' = [jobs EXCEPT ![s] = Opened(jobs[s], q)] PROVE StepInv
  <2> DEFINE j == Opened(jobs[s], q)
  <2>1. j \in Jobs /\ j.stage = "opened" /\ j.port = q /\ j.key = at[q]
    BY <1>1, OpenedIs
  <2> HIDE DEF j
  <2>2. JobTypes'
    BY <1>1, <1>2, <2>1, JobStep DEF j
  <2>3. ~Reading(jobs[s]) /\ ~Reading(j)
    BY <1>1, <2>1 DEF Reading
  <2> QED  BY <1>1, <1>2, <2>2, <2>3, AppKept, QuietJob DEF StepInv, JobTypes, j
<1>3. ASSUME Finish(s, Failure(jobs[s].kind)) PROVE StepInv
  BY <1>1, <1>3, FailureIs, FinishInv
<1>4. \A t : Reached(t) \subseteq Ports
  BY DEF Reached
<1> QED  BY <1>2, <1>3, <1>4 DEF OpenSession

\* A read of the key that the job's port reaches: the Read of ListView.
LEMMA JobReadInv ==
  ASSUME AppTypes, WorldTypes, JobTypes, NEW s \in Slots, JobRead(s)
  PROVE  StepInv
<1> DEFINE k == jobs[s].key
           q == jobs[s].port
           Snap(n) == [rows |-> {Row(k, p) : p \in content[k]}, serial |-> n, active |-> q]
           Result(n) == [tag |-> IF jobs[s].kind = "Load" THEN "Loaded" ELSE "Refreshed", snap |-> Snap(n)]
<1>1. jobs[s].stage = "opened" /\ k # NoKey /\ UNCHANGED <<app, world>>
  BY DEF JobRead, OnKey
<1>2. q \in Ports /\ k \in Keys /\ jobs[s] \in Jobs
  BY <1>1, JobFields DEF JobTypes
<1>3. at[q] = k
  BY <1>1 DEF JobTypes, SessionsReach
<1>4. PICK n \in {k, NoKey} : Finish(s, Result(n))
  BY DEF JobRead
<1>5. Snap(n) \in Snaps
  <2>1. \A p \in content[k] : Row(k, p) \in RowSet
    BY <1>2 DEF WorldTypes, Row, RowSet
  <2> QED  BY <1>2, <2>1 DEF Snaps
<1>6. /\ Result(n) \in Results /\ Result(n).tag \in {"Loaded", "Refreshed"}
      /\ Result(n).snap = Snap(n)
  BY <1>5 DEF Results
<1> DEFINE j == Finished(jobs[s], Result(n))
<1>7. j \in Jobs /\ j.stage = "finished" /\ j.result = Result(n)
  BY <1>1, <1>2, <1>6, FinishedIs
<1>8. jobs' = [jobs EXCEPT ![s] = j] /\ at' = at
  BY <1>1, <1>4 DEF Finish, world
<1>9. Snap(n) = LV!Snapshot(at[q], q, n)
  BY <1>3 DEF LV!Snapshot, Row
<1> HIDE DEF j, Result, Snap
<1>10. JobTypes' /\ WorldTypes'
  <2>1. JobTypes'
    BY <1>7, <1>8, JobStep
  <2> QED  BY <1>1, <2>1 DEF WorldTypes, world
<1>11. View' = View
  BY <1>1, AppKept DEF View, list
<1>12. Pool' = Pool \cup {Snap(n)}
  <2>1. \A r \in Slots : jobs'[r] = IF r = s THEN j ELSE jobs[r]
    BY <1>8 DEF JobTypes
  <2>2. Reading(j) /\ ~Reading(jobs[s]) /\ j.result.snap = Snap(n)
    BY <1>1, <1>6, <1>7 DEF Reading
  <2>3. ASSUME NEW x PROVE x \in Pool' <=> x \in Pool \/ x = Snap(n)
    <3>1. x \in Pool <=> x = View \/ \E r \in Slots : Reading(jobs[r]) /\ x = jobs[r].result.snap
      BY PoolIff
    <3>2. x \in Pool' <=> x = View' \/ \E r \in Slots : Reading(jobs'[r]) /\ x = jobs'[r].result.snap
      BY PoolNextIff
    <3> QED  BY <1>11, <2>1, <2>2, <3>1, <3>2
  <2> QED  BY <2>3
<1>13. LV!Read
  BY <1>1, <1>2, <1>3, <1>4, <1>9, <1>11, <1>12 DEF LV!Read, world
<1> QED  BY <1>1, <1>10, <1>13, AppKept DEF StepInv, LV!Next

LEMMA WorkerInv ==
  ASSUME AppTypes, WorldTypes, JobTypes, NEW s \in Slots, JobFails(s) \/ JobTouch(s) \/ JobWrite(s)
  PROVE  StepInv
<1>1. /\ jobs[s].stage = "opened" /\ jobs[s] \in Jobs /\ UNCHANGED <<app, at>>
      /\ Fits(jobs[s].kind, jobs[s].profile)
  <2>1. jobs[s].stage = "opened" /\ UNCHANGED <<app, at>>
    BY DEF JobFails, JobTouch, JobWrite, OnKey, world
  <2> QED  BY <2>1, JobFields DEF JobTypes
<1>2. ASSUME WorldTypes', NEW kind, Finish(s, Failure(kind)) PROVE StepInv
  BY <1>1, <1>2, FailureIs, FinishInv
<1>3. CASE JobFails(s)
  <2>1. WorldTypes' /\ Finish(s, Failure(jobs[s].kind))
    BY <1>3 DEF JobFails, WorldTypes, world
  <2> QED  BY <1>2, <2>1
<1>4. CASE JobTouch(s)
  <2> DEFINE k == jobs[s].key
             p == jobs[s].profile
             r == [tag |-> "TouchCode", profile |-> p, from |-> k]
  <2>1. WorldTypes' /\ (Finish(s, r) \/ Finish(s, Failure("Touch")))
    BY <1>4 DEF JobTouch, WorldTypes, world
  <2>2. jobs[s].kind = "Touch" /\ k \in Keys
    BY <1>1, <1>4, JobFields DEF JobTouch, OnKey
  <2>3. r \in Results /\ r.tag = "TouchCode"
    BY <1>1, <2>2 DEF Fits, Results
  <2> HIDE DEF r
  <2>4. CASE Finish(s, r)
    BY <1>1, <2>1, <2>3, <2>4, FinishInv
  <2> QED  BY <1>2, <2>1, <2>4
<1>5. CASE JobWrite(s)
  <2>1. jobs[s].kind \in {"Add", "Delete", "Erase"} /\ jobs[s].key \in Keys
    BY <1>1, <1>5, JobFields DEF JobWrite, OnKey
  <2>2. Finish(s, Failure(jobs[s].kind)) \/ Finish(s, [tag |-> "Ok"])
    BY <1>5 DEF JobWrite
  <2>3. WorldTypes'
    <3>1. \A S \in SUBSET Profiles :
            Written(jobs[s].kind, jobs[s].profile, S) \in SUBSET Profiles
      <4>1. CASE jobs[s].kind = "Add"
        BY <1>1, <4>1 DEF Written, Fits
      <4>2. CASE jobs[s].kind = "Delete"
        BY <4>2 DEF Written
      <4>3. CASE jobs[s].kind = "Erase"
        BY <4>3 DEF Written
      <4> QED  BY <2>1, <4>1, <4>2, <4>3
    <3>2. content' = content \/ content' = [content EXCEPT ![jobs[s].key] = Written(jobs[s].kind, jobs[s].profile, @)]
      BY <1>5 DEF JobWrite
    <3> QED  BY <1>1, <2>1, <3>1, <3>2 DEF WorldTypes
  <2>4. CASE Finish(s, [tag |-> "Ok"])
    <3> DEFINE r == [tag |-> "Ok"]
    <3>1. r \in Results /\ r.tag = "Ok"
      BY DEF Results
    <3> HIDE DEF r
    <3> QED  BY <1>1, <2>3, <2>4, <3>1, FinishInv DEF r
  <2> QED  BY <1>2, <2>2, <2>3, <2>4
<1> QED  BY <1>3, <1>4, <1>5

-----------------------------------------------------------------------------
(* The world *)

LEMMA PlugInv ==
  ASSUME AppTypes, WorldTypes, JobTypes, Plug
  PROVE  StepInv
<1>1. PICK k \in Keys, Q \in SUBSET Ports :
        /\ \A q \in Q : at[q] = NoKey
        /\ at' = [q \in Ports |-> IF q \in Q THEN k ELSE at[q]]
  BY DEF Plug
<1>2. UNCHANGED <<app, jobs, content>>
  BY DEF Plug
<1>3. WorldTypes'
  BY <1>1, <1>2 DEF WorldTypes
<1>4. JobTypes'
  <2>1. \A s \in Slots : jobs[s].stage = "opened" => jobs[s].port \in Ports
    BY JobFields DEF JobTypes
  <2> QED  BY <1>1, <1>2, <2>1 DEF JobTypes, SessionsReach
<1> QED  BY <1>2, <1>3, <1>4, AppKept, QuietStep DEF StepInv

LEMMA UnplugInv ==
  ASSUME AppTypes, WorldTypes, JobTypes, Unplug
  PROVE  StepInv
<1>1. PICK k \in Keys :
        /\ at' = [q \in Ports |-> IF at[q] = k THEN NoKey ELSE at[q]]
        /\ jobs' = [s \in Slots |->
                      IF jobs[s].stage = "opened" /\ jobs[s].key = k
                      THEN [jobs[s] EXCEPT !.key = NoKey] ELSE jobs[s]]
  BY DEF Unplug
<1>2. UNCHANGED <<app, content>>
  BY DEF Unplug
<1>3. WorldTypes'
  BY <1>1, <1>2 DEF WorldTypes
<1>4. ASSUME NEW j \in Jobs, j.stage = "opened"
      PROVE  LET i == [j EXCEPT !.key = NoKey]
             IN i \in Jobs /\ i.stage = "opened" /\ i.key = NoKey
  <2>1. ASSUME NEW kinds, NEW profiles, j \in Working(kinds, profiles)
        PROVE  LET i == [j EXCEPT !.key = NoKey]
               IN i \in Working(kinds, profiles) /\ i.stage = "opened" /\ i.key = NoKey
    BY <1>4, <2>1 DEF Working
  <2> QED  BY <1>4, <2>1 DEF Jobs, Idle
<1>5. \A s \in Slots : jobs[s] \in Jobs
  BY DEF JobTypes
<1>6. \A s \in Slots : \/ /\ jobs'[s] = jobs[s]
                          /\ ~(jobs[s].stage = "opened" /\ jobs[s].key = k)
                       \/ /\ jobs'[s] \in Jobs /\ jobs'[s].key = NoKey
                          /\ jobs[s].stage = "opened" /\ jobs'[s].stage = "opened"
  BY <1>1, <1>4, <1>5
<1>7. JobTypes'
  <2>1. jobs' \in [Slots -> Jobs]
    BY <1>1, <1>5, <1>6
  <2>2. \A s \in Slots : jobs[s].stage = "opened" => jobs[s].port \in Ports
    BY <1>5, JobFields
  <2> QED  BY <1>1, <1>6, <2>1, <2>2 DEF JobTypes, SessionsReach
<1>8. [LV!Next]_LV!vars
  BY <1>2, <1>6, AppKept, QuietStep DEF Reading
<1> QED  BY <1>2, <1>3, <1>7, <1>8, AppKept DEF StepInv

-----------------------------------------------------------------------------
(* The theorems *)

LEMMA InitInv == Init => IInv /\ LV!Init
<1> SUFFICES ASSUME Init PROVE IInv /\ LV!Init
  OBVIOUS
<1>1. AppTypes /\ WorldTypes
  BY DEF Init, AppTypes, WorldTypes, Kinds, Infos, Codes, None
<1>2. \A s \in Slots : jobs[s] \in Jobs /\ jobs[s].stage \in {"idle", "spawned"}
  <2>1. transport \in Transports /\ Fits("Load", None) /\ "Load" \in Kinds
    BY DEF Init, Fits, Kinds
  <2>2. Job("Load", transport, None) \in Jobs /\ Job("Load", transport, None).stage = "spawned"
    BY <2>1, JobIs
  <2>3. Idle \in Jobs /\ Idle.stage = "idle"
    BY DEF Idle, Jobs
  <2> QED  BY <2>2, <2>3 DEF Init
<1>3. JobTypes
  <2>1. jobs \in [Slots -> Jobs]
    BY <1>2 DEF Init
  <2> QED  BY <1>2, <2>1 DEF JobTypes, SessionsReach
<1>4. LV!Init
  <2>1. View = LV!EmptyView
    BY DEF Init, View, LV!EmptyView, None
  <2>2. Pool = {View}
    <3>1. \A x : x \in Pool <=> x = View
      BY <1>2, PoolIff DEF Reading
    <3> QED  BY <3>1
  <2> QED  BY <2>1, <2>2 DEF Init, LV!Init
<1> QED  BY <1>1, <1>3, <1>4, InvIff

LEMMA NextInv == IInv /\ [Next]_vars => IInv' /\ [LV!Next]_LV!vars
<1> SUFFICES ASSUME IInv, [Next]_vars PROVE IInv' /\ [LV!Next]_LV!vars
  OBVIOUS
<1>0. AppTypes /\ WorldTypes /\ JobTypes
  BY InvIff
<1>1. CASE UNCHANGED vars
  <2>1. UNCHANGED <<app, list, jobs, world, at>> /\ AppTypes' /\ WorldTypes'
    BY <1>0, <1>1, AppKept DEF vars, world, WorldTypes
  <2>2. StepInv
    BY <1>0, <2>1, NoJobInv
  <2> QED  BY <2>2, InvIff DEF StepInv, IInv, TypeOK, AppTypes, WorldTypes, JobTypes
<1>2. ASSUME StepInv PROVE IInv' /\ [LV!Next]_LV!vars
  BY <1>2 DEF StepInv, IInv, TypeOK, AppTypes, WorldTypes, JobTypes
<1>3. CASE User
  BY <1>0, <1>2, <1>3, UserSpawns, UserQuiet, ExitInv DEF User
<1>4. ASSUME NEW s \in Slots, DrainJobs(s) \/ Worker(s) PROVE IInv' /\ [LV!Next]_LV!vars
  BY <1>0, <1>2, <1>4, HandleInv, HandleOkInv, OpenSessionInv, JobReadInv, WorkerInv DEF DrainJobs, Worker
<1>5. CASE ExpireInfo \/ MaybeClearClipboard \/ RefreshCodes
  BY <1>0, <1>2, <1>5, FrameInv
<1>6. CASE Plug \/ Unplug
  BY <1>0, <1>2, <1>6, PlugInv, UnplugInv
<1> QED  BY <1>1, <1>3, <1>4, <1>5, <1>6 DEF Next, Closed

\* The invariant holds in every state.
THEOREM IndInv == Spec => []IInv
<1>1. Init => IInv
  BY InitInv
<1>2. IInv /\ [Next]_vars => IInv'
  BY NextInv
<1> QED  BY <1>1, <1>2, PTL DEF Spec

\* Every field of App keeps a value its Rust type allows, and every job has what
\* its kind of job has at its stage, however results are delayed.
THEOREM TypeCorrect == Spec => []TypeOK
<1>1. IInv => TypeOK
  BY DEF IInv
<1> QED  BY <1>1, IndInv, PTL

\* The window implements ListView: whatever the user does, however many workers
\* run and in whatever order their results arrive, the list is one read of one
\* key that was there when it was read, or empty.
THEOREM ShowsOneRead == Spec => ListIsOneRead
<1>1. Init => LV!Init
  BY InitInv
<1>2. IInv /\ [Next]_vars => [LV!Next]_LV!vars
  BY NextInv
<1> QED  BY <1>1, <1>2, IndInv, PTL DEF Spec, ListIsOneRead, LV!Spec

=============================================================================
