------------------------------- MODULE Hotkey -------------------------------
(***************************************************************************)
(* The global Auto-OTP hotkey (src/src/gui/hotkey.rs), the window's controls *)
(* of it (src/src/bin/gui.rs) and the settings file that remembers it       *)
(* (src/src/gui/config.rs).                                                 *)
(*                                                                          *)
(* A HotkeyService registers one combination and polls for presses on a     *)
(* thread of its own.  The presses of all services come through one channel *)
(* of the process; dropping a service only tells its thread to stop, and    *)
(* the thread looks at that flag between two events.  The process may end,  *)
(* or crash while it saves, and start again from the file.                  *)
(*                                                                          *)
(* External: the registrations of the operating system, which other         *)
(* programs share, the event channel, and the file.  Only presses are       *)
(* queued; the poll threads ignore releases.  What a thread reads from the  *)
(* key is PcscSession's, the list and the status line are GuiApp's.         *)
(***************************************************************************)
EXTENDS Naturals, Sequences

CONSTANTS
  Keys,         \* the letters of a combination
  DefaultKey,
  Transports,   \* subset of {"auto", "hid", "nfc"}
  FirstFiles,   \* subset of {"unset", "saved"}: what the program finds
  MaxServices,  \* bound: services whose threads are not over
  MaxQueue      \* bound: presses waiting in the channel

ASSUME HotkeyAssumption ==
  /\ DefaultKey \in Keys
  /\ Transports \subseteq {"auto", "hid", "nfc"} /\ "nfc" \in Transports
  /\ FirstFiles \subseteq {"unset", "saved"}
  /\ MaxServices \in Nat \ {0} /\ MaxQueue \in Nat

Services == 1..MaxServices

VARIABLES
  \* App
  up,            \* the program runs
  transport, hotkey_wanted, hotkey_key,
  hotkey,        \* the service in force, or 0
  \* services and the channel of the process
  svc, events,
  \* external
  owner,         \* who has registered a combination: "us", the service in force;
                 \* "other", another program, or a dropped service of ours that
                 \* could not unregister it
  file,
  intact         \* the last attempt to save left a whole file

appVars == <<up, transport, hotkey_wanted, hotkey_key>>
regVars == <<hotkey, svc, owner>>
fileVars == <<file, intact>>
vars == <<appVars, regVars, events, fileVars>>

\* outcomes says whether one waits in the channel.
NoService == [key |-> DefaultKey, transport |-> "nfc", stop |-> FALSE,
              thread |-> "gone", outcomes |-> FALSE]
Service == [key : Keys, transport : Transports, stop : BOOLEAN,
            thread : {"top", "recv", "read", "type", "gone"}, outcomes : BOOLEAN]

-----------------------------------------------------------------------------
(* The settings file *)

\* A letter that is not offered may stand in a file edited by hand, and is what
\* a line like the README's example gives, whose comment becomes part of the value.
Contents(kinds) ==
  [kind : kinds, transport : Transports, hotkey_enabled : BOOLEAN,
   hotkey_key : Keys \cup {"unknown"}]

\* A missing, unreadable or empty file gives the defaults.
Unset == [kind |-> "unset", transport |-> "nfc", hotkey_enabled |-> FALSE,
          hotkey_key |-> DefaultKey]

\* Mutant: the letter is not validated.
LoadUnchecked(f) == f

\* load, then App::new.  (hotkey_append_enter is left out: it is a preference like
\* the letter, and decides only what type_code types after the code.)
Load(f) == IF f.hotkey_key \in Keys THEN f ELSE [f EXCEPT !.hotkey_key = DefaultKey]

\* Mutant: the registration is saved, not the intent.
SaveRegistration ==
  \/ /\ file' = [kind |-> "saved", transport |-> transport', hotkey_enabled |-> hotkey' # 0,
                 hotkey_key |-> hotkey_key']
     /\ intact' = TRUE
  \/ /\ file' \in {file, Unset}
     /\ intact' = FALSE

\* save_settings: create_dir_all or fs::write may fail, the latter after it has
\* truncated the file.
Save ==
  \/ /\ file' = [kind |-> "saved", transport |-> transport', hotkey_enabled |-> hotkey_wanted',
                 hotkey_key |-> hotkey_key']
     /\ intact' = TRUE
  \/ /\ file' \in {file, Unset}
     /\ intact' = FALSE

-----------------------------------------------------------------------------
(* HotkeyService::new and drop, on the registrations st of the process *)

Live == [hotkey |-> hotkey, svc |-> svc, owner |-> owner]
Become(st) == hotkey' = st.hotkey /\ svc' = st.svc /\ owner' = st.owner

\* An error of unregister is ignored.  The combination may then still be held, but
\* no press comes of it, for its manager is dropped: it is as if another program
\* had it, until it is free (at the latest when the process ends).
Unregistered == {"free", "other"}

\* Dropping the service closes its outcomes channel as well.  (The thread keeps its
\* copy of the transport; nothing here depends on it, and it is cleared.)
Dropped(st, left) ==
  IF st.hotkey = 0 THEN st
  ELSE [st EXCEPT !.hotkey = 0,
                  !.svc[st.hotkey].stop = TRUE,
                  !.svc[st.hotkey].outcomes = FALSE,
                  !.svc[st.hotkey].transport = "nfc",
                  !.owner[st.svc[st.hotkey].key] = left]

\* A slot no thread or event refers to.
Free(st) == {s \in Services : /\ s # st.hotkey /\ st.svc[s].thread = "gone"
                              /\ \A i \in DOMAIN events : events[i].service # s}

Registered(st, s, p) ==
  [hotkey |-> s,
   svc    |-> [st.svc EXCEPT ![s] =
                 [NoService EXCEPT !.key = p.hotkey_key, !.transport = p.transport,
                                   !.thread = "top"]],
   owner  |-> [st.owner EXCEPT ![p.hotkey_key] = "us"]]

\* enable_hotkey, with the preferences p: a failure keeps the intent.
Enable(st, p) ==
  /\ hotkey_wanted' = TRUE
  /\ \/ /\ st.owner[p.hotkey_key] = "free"
        /\ Free(st) # {}
        /\ Become(Registered(st, CHOOSE s \in Free(st) : TRUE, p))
     \/ /\ st.owner[p.hotkey_key] # "free"
        /\ Become(st)

Prefs == [transport |-> transport, hotkey_key |-> hotkey_key]

\* Mutant: switching off forgets to drop the service.
DisableKeepsService == hotkey_wanted' = FALSE /\ UNCHANGED regVars

Disable ==
  /\ hotkey_wanted' = FALSE
  /\ \E left \in Unregistered : Become(Dropped(Live, left))

-----------------------------------------------------------------------------
(* The window.  Changing the transport reloads the list as well (GuiApp).  The *)
(* settings dialog can be opened at any time, beside everything else.          *)

\* Mutant: the service in force is not told.
SelectTransportUntold(t) ==
  /\ up /\ t # transport
  /\ transport' = t
  /\ UNCHANGED <<up, hotkey_wanted, hotkey_key, regVars, events>>
  /\ Save

SelectTransport(t) ==
  /\ up /\ t # transport
  /\ transport' = t
  /\ svc' = IF hotkey = 0 THEN svc ELSE [svc EXCEPT ![hotkey].transport = t]
  /\ UNCHANGED <<up, hotkey_wanted, hotkey_key, hotkey, owner, events>>
  /\ Save

ToggleHotkey ==
  /\ up
  /\ \/ hotkey_wanted /\ Disable
     \/ ~hotkey_wanted /\ Enable(Live, Prefs)
  /\ UNCHANGED <<up, transport, hotkey_key, events>>
  /\ Save

\* The widgets of the dialog write the preferences, and nothing else.
EditSettings ==
  /\ up
  /\ \E k \in Keys \ {hotkey_key} : hotkey_key' = k
  /\ UNCHANGED <<up, transport, hotkey_wanted, regVars, events, fileVars>>

\* Mutant: the new service is made before the old one is dropped.
ApplyKeepsOld ==
  /\ up
  /\ Enable(Live, Prefs)
  /\ UNCHANGED <<up, transport, hotkey_key, events>>
  /\ Save

ApplySettings ==
  /\ up
  /\ \E left \in Unregistered : Enable(Dropped(Live, left), Prefs)
  /\ UNCHANGED <<up, transport, hotkey_key, events>>
  /\ Save

\* The dialog's Disable button does not save.
DisableInSettings ==
  /\ up /\ hotkey # 0
  /\ Disable
  /\ UNCHANGED <<up, transport, hotkey_key, events, fileVars>>

\* Close saves; leaving for the erase dialog does not, and changes nothing here.
CloseSettings ==
  /\ up
  /\ UNCHANGED <<up, transport, hotkey_wanted, hotkey_key, regVars, events>>
  /\ Save

\* poll_hotkey keeps the latest outcome for the status line.
PollHotkey ==
  /\ up /\ hotkey # 0 /\ svc[hotkey].outcomes
  /\ svc' = [svc EXCEPT ![hotkey].outcomes = FALSE]
  /\ UNCHANGED <<appVars, hotkey, owner, events, fileVars>>

Window == \/ \E t \in Transports : SelectTransport(t)
          \/ ToggleHotkey \/ EditSettings \/ ApplySettings
          \/ DisableInSettings \/ CloseSettings \/ PollHotkey

-----------------------------------------------------------------------------
(* The program starts and ends *)

Start ==
  /\ ~up /\ up' = TRUE
  /\ LET p == Load(file)
     IN /\ transport' = p.transport /\ hotkey_key' = p.hotkey_key
        /\ IF p.hotkey_enabled THEN Enable(Live, p)
                               ELSE hotkey_wanted' = FALSE /\ UNCHANGED regVars
  /\ UNCHANGED <<events, fileVars>>

\* Nothing is saved at the end.  The process takes its threads, its events and
\* its registrations with it.  (A program that does not run has no preferences:
\* its variables are reset.)
Gone ==
  /\ up' = FALSE /\ hotkey_wanted' = FALSE
  /\ transport' = "nfc" /\ hotkey_key' = DefaultKey
  /\ hotkey' = 0 /\ svc' = [s \in Services |-> NoService] /\ events' = <<>>
  /\ owner' = [k \in Keys |-> IF owner[k] = "us" THEN "free" ELSE owner[k]]

Exit == up /\ Gone /\ UNCHANGED fileVars

\* A crash inside fs::write leaves the file truncated.
CrashInSave == up /\ Gone /\ file' = Unset /\ intact' = FALSE

-----------------------------------------------------------------------------
(* The poll thread of service s *)

Thread(s, from, to) == svc[s].thread = from /\ svc' = [svc EXCEPT ![s].thread = to]
threadUnchanged == <<appVars, hotkey, owner, fileVars>>

\* Mutant: the flag is not looked at.
LoopTopEndless(s) ==
  /\ Thread(s, "top", "recv")
  /\ UNCHANGED <<threadUnchanged, events>>

\* while !stop; the slot of a thread that is over can be used again.
LoopTop(s) ==
  /\ \/ ~svc[s].stop /\ Thread(s, "top", "recv")
     \/ svc[s].stop /\ svc[s].thread = "top" /\ svc' = [svc EXCEPT ![s] = NoService]
  /\ UNCHANGED <<threadUnchanged, events>>

\* recv_timeout; the process-wide sender is never dropped.
RecvTimeout(s) ==
  /\ events = <<>>
  /\ Thread(s, "recv", "top")
  /\ UNCHANGED <<threadUnchanged, events>>

\* An event of another combination is consumed all the same.
RecvEvent(s) ==
  /\ events # <<>> /\ events' = Tail(events)
  /\ svc[s].thread = "recv"
  /\ LET e == Head(events)
     IN svc' = IF e.key = svc[s].key
               THEN [svc EXCEPT ![s].thread = "read"]
               ELSE [svc EXCEPT ![s].thread = "top"]
  /\ UNCHANGED threadUnchanged

\* The outcome is sent, or dropped with the receiver.
Reported(s) ==
  svc' = [svc EXCEPT ![s].thread = "top", ![s].outcomes = (s = hotkey)]

\* Mutant: the thread ends when a read fails.
ReadOnce(s) ==
  /\ svc[s].thread = "read"
  /\ \/ svc' = [svc EXCEPT ![s].thread = "type"]
     \/ svc' = [svc EXCEPT ![s].thread = "gone"]
  /\ UNCHANGED <<threadUnchanged, events>>

\* read_and_type, up to the code: it may end without one.
ReadCode(s) ==
  /\ svc[s].thread = "read"
  /\ \/ svc' = [svc EXCEPT ![s].thread = "type"]
     \/ Reported(s)
  /\ UNCHANGED <<threadUnchanged, events>>

\* type_code, whether it succeeds or not
TypeCode(s) ==
  /\ svc[s].thread = "type"
  /\ Reported(s)
  /\ UNCHANGED <<threadUnchanged, events>>

PollThread(s) == LoopTop(s) \/ RecvTimeout(s) \/ RecvEvent(s) \/ ReadCode(s) \/ TypeCode(s)

-----------------------------------------------------------------------------
(* The user's presses, and other programs (external) *)

Press(k) ==
  /\ owner[k] = "us" /\ Len(events) < MaxQueue
  /\ events' = Append(events, [key |-> k, service |-> hotkey])
  /\ UNCHANGED <<appVars, regVars, fileVars>>

OtherProgram(k) ==
  /\ \/ owner[k] = "free"  /\ owner' = [owner EXCEPT ![k] = "other"]
     \/ owner[k] = "other" /\ owner' = [owner EXCEPT ![k] = "free"]
  /\ UNCHANGED <<appVars, hotkey, svc, events, fileVars>>

-----------------------------------------------------------------------------
Init ==
  /\ up = FALSE /\ hotkey_wanted = FALSE
  /\ transport = "nfc" /\ hotkey_key = DefaultKey
  /\ hotkey = 0 /\ svc = [s \in Services |-> NoService] /\ events = <<>>
  /\ owner = [k \in Keys |-> "free"]
  /\ file \in {f \in {Unset} \cup Contents({"saved"}) : f.kind \in FirstFiles}
  /\ intact = TRUE

Next ==
  \/ Window \/ Start \/ Exit \/ CrashInSave
  \/ \E s \in Services : PollThread(s)
  \/ \E k \in Keys : Press(k) \/ OtherProgram(k)

\* A poll thread runs: recv_timeout, a read and the typing return.
Spec == Init /\ [][Next]_vars /\ \A s \in Services : WF_vars(PollThread(s))

-----------------------------------------------------------------------------
(* Properties *)

\* The program, its services and the file are in states their types allow.
TypeOK ==
  /\ {up, hotkey_wanted, intact} \subseteq BOOLEAN
  /\ transport \in Transports /\ hotkey_key \in Keys
  /\ hotkey \in {0} \cup Services
  /\ svc \in [Services -> Service]
  /\ events \in Seq([key : Keys, service : Services])
  /\ owner \in [Keys -> {"free", "us", "other"}]
  /\ file \in Contents({"unset", "saved"})

\* The combinations that press the hotkey are those of the service in force, and
\* there is one only while the user wants it: neither a failed registration, nor
\* a dropped service (whether it could unregister or not), nor a change of letter
\* leaves one behind.
RegistrationMatchesIntent ==
  /\ \A k \in Keys : owner[k] = "us" <=> hotkey # 0 /\ svc[hotkey].key = k
  /\ hotkey # 0 => up /\ hotkey_wanted /\ ~svc[hotkey].stop

\* "a transient registration failure doesn't erase the saved preference" (doc of
\* hotkey_wanted): as long as saving works, the file remembers that the hotkey is
\* wanted, whatever was saved since, over restarts.
PreferenceSurvives == up /\ intact /\ hotkey_wanted => file.hotkey_enabled

\* "Drop any existing registration first to free the old combo": applying a
\* combination brings a new service with that letter, unless another program has
\* it, or a service of ours could not unregister it.
ApplySucceeds ==
  [][ApplySettings /\ owner'[hotkey_key] # "other" =>
       hotkey' \notin {0, hotkey} /\ svc'[hotkey'].key = hotkey_key]_vars

\* The service in force reads over the transport that is selected.
TransportInForce == hotkey # 0 => svc[hotkey].transport = transport

\* A press is taken while the service stays in force, whatever its reads end in.
PressesAreTaken == events # <<>> /\ hotkey # 0 ~> events = <<>> \/ hotkey = 0

\* The thread of a dropped service ends.
DroppedThreadsEnd == \A s \in Services : svc[s].stop ~> svc[s].thread = "gone"

\* "The global-hotkey event receiver is a process-global channel, so draining it
\* here is correct": a poll thread takes the presses of its own registration.
ServesOwnPresses == [][\A s \in Services : RecvEvent(s) => Head(events).service = s]_vars

=============================================================================
