---------------------------- MODULE HotkeyProofs ----------------------------
(***************************************************************************)
(* Theorems about Hotkey, for every set of letters and every bound.        *)
(***************************************************************************)
EXTENDS Hotkey, TLAPS

(* Types, without the kind of the file. *)
Typed ==
  /\ up \in BOOLEAN /\ hotkey_wanted \in BOOLEAN /\ intact \in BOOLEAN
  /\ transport \in Transports /\ hotkey_key \in Keys
  /\ hotkey \in {0} \cup Services
  /\ svc \in [Services -> Service]
  /\ events \in Seq([key : Keys, service : Services])
  /\ owner \in [Keys -> {"free", "us", "other"}]
  /\ file \in Contents({"unset", "saved"})

(* The registrations st of a process agree with each other. *)
Sound(st) ==
  /\ st.hotkey \in {0} \cup Services
  /\ st.svc \in [Services -> Service]
  /\ st.owner \in [Keys -> {"free", "us", "other"}]
  /\ \A k \in Keys : st.owner[k] = "us" <=> st.hotkey # 0 /\ st.svc[st.hotkey].key = k
  /\ st.hotkey # 0 => ~st.svc[st.hotkey].stop

(* The inductive invariant: the service in force is wanted, its thread runs, and *)
(* it reads over the transport selected.                                       *)
LiveInv ==
  hotkey # 0 => /\ up /\ hotkey_wanted
                /\ svc[hotkey].thread # "gone" /\ svc[hotkey].transport = transport

IInv == Typed /\ Sound(Live) /\ LiveInv /\ PreferenceSurvives

LEMMA ServiceIds == 0 \notin Services
BY HotkeyAssumption DEF Services

(* HotkeyService::drop leaves no registration behind, or one that is not the   *)
(* program's any more.                                                        *)

LEMMA DroppedSound ==
  ASSUME NEW h \in {0} \cup Services, NEW v \in [Services -> Service],
         NEW o \in [Keys -> {"free", "us", "other"}],
         NEW left \in Unregistered, Sound([hotkey |-> h, svc |-> v, owner |-> o])
  PROVE  /\ Sound(Dropped([hotkey |-> h, svc |-> v, owner |-> o], left))
         /\ Dropped([hotkey |-> h, svc |-> v, owner |-> o], left).hotkey = 0
<1> DEFINE st == [hotkey |-> h, svc |-> v, owner |-> o]
           d  == Dropped(st, left)
<1>1. CASE h = 0
  BY <1>1 DEF Dropped
<1>2. CASE h # 0
  <2>1. h \in Services /\ v[h] \in Service /\ v[h].key \in Keys
    BY <1>2 DEF Service
  <2>2. /\ d.hotkey = 0
        /\ d.svc = [v EXCEPT ![h] = [v[h] EXCEPT !.stop = TRUE, !.outcomes = FALSE,
                                                 !.transport = "nfc"]]
        /\ d.owner = [o EXCEPT ![v[h].key] = left]
    BY <1>2, <2>1 DEF Dropped
  <2>3. d.svc \in [Services -> Service]
    <3>1. [v[h] EXCEPT !.stop = TRUE, !.outcomes = FALSE, !.transport = "nfc"] \in Service
      BY <2>1, HotkeyAssumption DEF Service
    <3> QED  BY <2>1, <2>2, <3>1
  <2>4. d.owner \in [Keys -> {"free", "us", "other"}]
    BY <2>1, <2>2 DEF Unregistered
  <2>5. \A k \in Keys : d.owner[k] # "us"
    BY <1>2, <2>1, <2>2 DEF Sound, Unregistered
  <2> QED  BY <2>2, <2>3, <2>4, <2>5 DEF Sound
<1> QED  BY <1>1, <1>2
(* HotkeyService::new adds its own registration, and nothing else.             *)
LEMMA RegisteredSound ==
  ASSUME NEW st, Sound(st), st.hotkey = 0, NEW s \in Services,
         NEW p, p.hotkey_key \in Keys, p.transport \in Transports
  PROVE  LET r == Registered(st, s, p)
         IN /\ Sound(r) /\ r.hotkey = s
            /\ r.svc[s].key = p.hotkey_key /\ r.svc[s].transport = p.transport
            /\ r.svc[s].thread = "top"
<1> DEFINE new == [NoService EXCEPT !.key = p.hotkey_key, !.transport = p.transport,
                                    !.thread = "top"]
           r   == Registered(st, s, p)
<1>1. /\ new \in Service /\ new.key = p.hotkey_key /\ new.transport = p.transport
      /\ new.thread = "top" /\ new.stop = FALSE
  BY DEF NoService, Service
<1>2. /\ r.hotkey = s /\ r.svc = [st.svc EXCEPT ![s] = new]
      /\ r.owner = [st.owner EXCEPT ![p.hotkey_key] = "us"]
  BY DEF Registered
<1> HIDE DEF new
<1>3. /\ r.svc \in [Services -> Service] /\ r.svc[s] = new
      /\ r.owner \in [Keys -> {"free", "us", "other"}]
  BY <1>1, <1>2 DEF Sound
<1>4. \A k \in Keys : r.owner[k] = "us" <=> new.key = k
  BY <1>1, <1>2 DEF Sound
<1>5. s # 0
  BY ServiceIds
<1> QED  BY <1>1, <1>2, <1>3, <1>4, <1>5 DEF Sound

(* enable_hotkey, called without a service in force.                           *)
LEMMA EnableSound ==
  ASSUME NEW st, Sound(st), st.hotkey = 0,
         NEW p, p.hotkey_key \in Keys, p.transport \in Transports, Enable(st, p)
  PROVE  /\ Sound(Live)' /\ hotkey_wanted' = TRUE
         /\ hotkey' # 0 => /\ svc'[hotkey'].key = p.hotkey_key
                           /\ svc'[hotkey'].transport = p.transport
                           /\ svc'[hotkey'].thread # "gone"
         /\ st.owner[p.hotkey_key] = "free" =>
              hotkey' \in Services /\ st.svc[hotkey'].thread = "gone"
<1>1. CASE st.owner[p.hotkey_key] = "free" /\ Free(st) # {}
  <2> DEFINE s == CHOOSE u \in Free(st) : TRUE
  <2>1. s \in Free(st)
    BY <1>1
  <2>2. s \in Services /\ st.svc[s].thread = "gone"
    BY <2>1 DEF Free
  <2>3. Become(Registered(st, s, p)) /\ hotkey_wanted' = TRUE
    BY <1>1 DEF Enable
  <2> HIDE DEF s
  <2>4. /\ Sound(Registered(st, s, p)) /\ Registered(st, s, p).hotkey = s
        /\ Registered(st, s, p).svc[s].key = p.hotkey_key
        /\ Registered(st, s, p).svc[s].transport = p.transport
        /\ Registered(st, s, p).svc[s].thread = "top"
    BY <2>2, RegisteredSound
  <2>5. /\ hotkey' = s /\ svc' = Registered(st, s, p).svc
        /\ owner' = Registered(st, s, p).owner
    BY <2>3, <2>4 DEF Become
  <2>6. Sound(Live)'
    BY <2>4, <2>5 DEF Sound, Live
  <2> QED  BY <2>2, <2>3, <2>4, <2>5, <2>6
<1>2. CASE st.owner[p.hotkey_key] # "free"
  <2>1. Become(st) /\ hotkey_wanted' = TRUE
    BY <1>2 DEF Enable
  <2> QED  BY <1>2, <2>1 DEF Become, Sound, Live
<1> QED  BY <1>1, <1>2 DEF Enable

(* save_settings writes what the window shows, or leaves the file or nothing.   *)
LEMMA SaveTyped ==
  ASSUME transport' \in Transports, hotkey_key' \in Keys, hotkey_wanted' \in BOOLEAN,
         file \in Contents({"unset", "saved"}), Save
  PROVE  /\ file' \in Contents({"unset", "saved"}) /\ intact' \in BOOLEAN
         /\ PreferenceSurvives'
<1>1. CASE /\ file' = [kind |-> "saved", transport |-> transport',
                       hotkey_enabled |-> hotkey_wanted', hotkey_key |-> hotkey_key']
          /\ intact' = TRUE
  BY <1>1 DEF Contents, PreferenceSurvives
<1>2. CASE file' \in {file, Unset} /\ intact' = FALSE
  <2>1. Unset \in Contents({"unset", "saved"})
    BY HotkeyAssumption DEF Contents, Unset
  <2>2. file' \in Contents({"unset", "saved"})
    BY <1>2, <2>1
  <2>3. PreferenceSurvives'
    BY <1>2 DEF PreferenceSurvives
  <2> QED  BY <1>2, <2>2, <2>3
<1> QED  BY <1>1, <1>2 DEF Save

(* A step of one poll thread leaves the service in force registered and running. *)
LEMMA ThreadSound ==
  ASSUME IInv, UNCHANGED threadUnchanged, NEW s \in Services, NEW r \in Service,
         svc' = [svc EXCEPT ![s] = r],
         s = hotkey => /\ r.key = svc[s].key /\ r.stop = svc[s].stop
                       /\ r.transport = svc[s].transport /\ r.thread # "gone",
         events' \in Seq([key : Keys, service : Services])
  PROVE  IInv'
<1>1. /\ UNCHANGED <<up, transport, hotkey_wanted, hotkey_key, hotkey, owner, file, intact>>
      /\ svc \in [Services -> Service]
  BY DEF threadUnchanged, appVars, fileVars, IInv, Typed
<1>2. svc' \in [Services -> Service] /\ svc'[s] = r /\ \A u \in Services \ {s} : svc'[u] = svc[u]
  BY <1>1
<1>3. Typed'
  BY <1>1, <1>2 DEF IInv, Typed
<1>4. hotkey # 0 => /\ svc'[hotkey].key = svc[hotkey].key
                    /\ svc'[hotkey].stop = svc[hotkey].stop
                    /\ svc'[hotkey].transport = svc[hotkey].transport
                    /\ svc[hotkey].thread # "gone" => svc'[hotkey].thread # "gone"
  BY <1>2 DEF IInv, Typed
<1>5. Sound(Live)'
  BY <1>1, <1>2, <1>4 DEF IInv, Sound, Live
<1>6. LiveInv' /\ PreferenceSurvives'
  BY <1>1, <1>4 DEF IInv, LiveInv, PreferenceSurvives
<1> QED  BY <1>3, <1>5, <1>6 DEF IInv
-----------------------------------------------------------------------------
LEMMA InitIInv == Init => IInv
<1> SUFFICES ASSUME Init PROVE IInv
  OBVIOUS
<1>1. NoService \in Service /\ Unset \in Contents({"unset", "saved"})
  BY HotkeyAssumption DEF NoService, Service, Unset, Contents
<1>2. file \in Contents({"unset", "saved"})
  BY <1>1 DEF Init, Contents
<1>3. svc \in [Services -> Service]
  BY <1>1 DEF Init
<1>4. Typed
  <2>1. events \in Seq([key : Keys, service : Services])
    BY DEF Init
  <2>2. owner \in [Keys -> {"free", "us", "other"}]
    BY DEF Init
  <2>3. /\ up \in BOOLEAN /\ hotkey_wanted \in BOOLEAN /\ intact \in BOOLEAN
        /\ hotkey \in {0} \cup Services /\ transport \in Transports /\ hotkey_key \in Keys
    BY HotkeyAssumption DEF Init
  <2> QED  BY <1>2, <1>3, <2>1, <2>2, <2>3 DEF Typed
<1> QED  BY <1>3, <1>4 DEF Init, IInv, Sound, Live, LiveInv, PreferenceSurvives

(* The controls that leave the registrations alone.                            *)
LEMMA PreferenceSteps ==
  ASSUME IInv, EditSettings \/ CloseSettings
  PROVE  IInv'
<1>1. CASE EditSettings
  <2>1. /\ UNCHANGED <<up, transport, hotkey_wanted, hotkey, svc, owner, events, file, intact>>
        /\ hotkey_key' \in Keys
    BY <1>1 DEF EditSettings, regVars, fileVars
  <2> QED  BY <2>1 DEF IInv, Typed, Sound, Live, LiveInv, PreferenceSurvives
<1>2. CASE CloseSettings
  <2>1. /\ UNCHANGED <<up, transport, hotkey_wanted, hotkey_key, hotkey, svc, owner, events>>
        /\ Save
    BY <1>2 DEF CloseSettings, regVars
  <2>2. /\ file' \in Contents({"unset", "saved"}) /\ intact' \in BOOLEAN
        /\ PreferenceSurvives'
    BY <2>1, SaveTyped DEF IInv, Typed
  <2> QED  BY <2>1, <2>2 DEF IInv, Typed, Sound, Live, LiveInv
<1> QED  BY <1>1, <1>2

LEMMA SelectTransportInv ==
  ASSUME IInv, NEW t \in Transports, SelectTransport(t)
  PROVE  IInv'
<1>1. /\ UNCHANGED <<up, hotkey_wanted, hotkey_key, hotkey, owner, events>>
      /\ transport' = t /\ Save
      /\ svc' = IF hotkey = 0 THEN svc ELSE [svc EXCEPT ![hotkey].transport = t]
  BY DEF SelectTransport
<1>2. /\ file' \in Contents({"unset", "saved"}) /\ intact' \in BOOLEAN
      /\ PreferenceSurvives'
  BY <1>1, SaveTyped DEF IInv, Typed
<1>3. CASE hotkey = 0
  <2>1. svc' = svc
    BY <1>1, <1>3
  <2> QED  BY <1>1, <1>2, <1>3, <2>1 DEF IInv, Typed, Sound, Live, LiveInv
<1>4. CASE hotkey # 0
  <2>1. hotkey \in Services /\ svc[hotkey] \in Service
    BY <1>4 DEF IInv, Typed
  <2> DEFINE r == [svc[hotkey] EXCEPT !.transport = t]
  <2>2. /\ r \in Service /\ r.key = svc[hotkey].key /\ r.stop = svc[hotkey].stop
        /\ r.thread = svc[hotkey].thread /\ r.transport = t
    BY <2>1 DEF Service
  <2>3. svc' = [svc EXCEPT ![hotkey] = r]
    BY <1>1, <1>4
  <2> HIDE DEF r
  <2>4. svc' \in [Services -> Service] /\ svc'[hotkey] = r
    BY <2>1, <2>2, <2>3 DEF IInv, Typed
  <2>5. Typed'
    BY <1>1, <1>2, <2>4 DEF IInv, Typed
  <2>6. Sound(Live)'
    BY <1>1, <1>4, <2>2, <2>4 DEF IInv, Sound, Live
  <2>7. LiveInv'
    BY <1>1, <1>4, <2>2, <2>4 DEF IInv, LiveInv
  <2> QED  BY <1>2, <2>5, <2>6, <2>7 DEF IInv
<1> QED  BY <1>3, <1>4

(* Disable and Enable, as the controls use them, from registrations that agree. *)
LEMMA DisableSound ==
  ASSUME IInv, Disable
  PROVE  /\ Sound(Live)' /\ hotkey' = 0 /\ hotkey_wanted' = FALSE
<1>1. PICK left \in Unregistered : Become(Dropped(Live, left))
  BY DEF Disable
<1>2. Sound(Dropped(Live, left)) /\ Dropped(Live, left).hotkey = 0
  BY DroppedSound DEF IInv, Typed, Live
<1> QED  BY <1>1, <1>2 DEF Disable, Become, Sound, Live

(* What a control that leaves the registrations sound must still give.         *)
LEMMA Reassemble ==
  ASSUME IInv, Sound(Live)', up' = TRUE, transport' \in Transports, hotkey_key' \in Keys,
         hotkey_wanted' \in BOOLEAN, UNCHANGED events,
         file' \in Contents({"unset", "saved"}), intact' \in BOOLEAN,
         hotkey' # 0 => /\ hotkey_wanted' /\ svc'[hotkey'].thread # "gone"
                        /\ svc'[hotkey'].transport = transport',
         PreferenceSurvives'
  PROVE  IInv'
<1>1. Typed'
  BY DEF IInv, Typed, Sound, Live
<1>2. LiveInv'
  BY DEF LiveInv
<1> QED  BY <1>1, <1>2 DEF IInv
LEMMA ToggleInv ==
  ASSUME IInv, ToggleHotkey
  PROVE  IInv'
<1>1. /\ UNCHANGED <<up, transport, hotkey_key, events>> /\ up = TRUE /\ Save
      /\ transport \in Transports /\ hotkey_key \in Keys
  BY DEF ToggleHotkey, IInv, Typed
<1>2. CASE hotkey_wanted /\ Disable
  <2>1. Sound(Live)' /\ hotkey' = 0 /\ hotkey_wanted' = FALSE
    BY <1>2, DisableSound
  <2>2. /\ file' \in Contents({"unset", "saved"}) /\ intact' \in BOOLEAN
        /\ PreferenceSurvives'
    BY <1>1, <2>1, SaveTyped DEF IInv, Typed
  <2> QED  BY <1>1, <2>1, <2>2, Reassemble
<1>3. CASE ~hotkey_wanted /\ Enable(Live, Prefs)
  <2>1. Live.hotkey = 0 /\ Sound(Live)
    BY <1>3 DEF IInv, LiveInv, Live
  <2>2. Prefs.hotkey_key = hotkey_key /\ Prefs.transport = transport
    BY DEF Prefs
  <2>3. /\ Sound(Live)' /\ hotkey_wanted' = TRUE
        /\ hotkey' # 0 => svc'[hotkey'].transport = transport /\ svc'[hotkey'].thread # "gone"
    BY <1>1, <1>3, <2>1, <2>2, EnableSound
  <2>4. /\ file' \in Contents({"unset", "saved"}) /\ intact' \in BOOLEAN
        /\ PreferenceSurvives'
    BY <1>1, <2>3, SaveTyped DEF IInv, Typed
  <2> QED  BY <1>1, <2>3, <2>4, Reassemble
<1> QED  BY <1>2, <1>3 DEF ToggleHotkey

(* Applying drops the service in force, registers the combination shown unless   *)
(* it is held by another, and the new service is not the old one.              *)
LEMMA ApplyLemma ==
  ASSUME IInv, ApplySettings
  PROVE  /\ Sound(Live)' /\ hotkey_wanted' = TRUE
         /\ hotkey' # 0 => /\ svc'[hotkey'].key = hotkey_key
                           /\ svc'[hotkey'].transport = transport
                           /\ svc'[hotkey'].thread # "gone"
         /\ owner'[hotkey_key] # "other" => hotkey' \notin {0, hotkey}
<1>0. PICK left \in Unregistered : Enable(Dropped(Live, left), Prefs)
  BY DEF ApplySettings
<1>1. /\ Sound(Dropped(Live, left)) /\ Dropped(Live, left).hotkey = 0
  BY DroppedSound DEF IInv, Typed, Live
<1>2. Prefs.hotkey_key = hotkey_key /\ Prefs.transport = transport
  BY DEF Prefs
<1>3. hotkey_key \in Keys /\ transport \in Transports /\ Enable(Dropped(Live, left), Prefs)
  BY <1>0 DEF IInv, Typed
<1>4. /\ Sound(Live)' /\ hotkey_wanted' = TRUE
      /\ hotkey' # 0 => /\ svc'[hotkey'].key = hotkey_key
                        /\ svc'[hotkey'].transport = transport
                        /\ svc'[hotkey'].thread # "gone"
      /\ Dropped(Live, left).owner[hotkey_key] = "free" =>
           hotkey' \in Services /\ Dropped(Live, left).svc[hotkey'].thread = "gone"
  BY <1>1, <1>2, <1>3, EnableSound
<1>5. owner'[hotkey_key] # "other" => Dropped(Live, left).owner[hotkey_key] = "free"
  <2>1. Dropped(Live, left).owner[hotkey_key] \in {"free", "other"}
    BY <1>1, <1>3 DEF Sound
  <2>2. CASE Dropped(Live, left).owner[hotkey_key] = "other"
    <3>1. Become(Dropped(Live, left))
      BY <1>2, <1>3, <2>2 DEF Enable
    <3> QED  BY <2>2, <3>1 DEF Become
  <2> QED  BY <2>1, <2>2
<1>6. hotkey # 0 => Dropped(Live, left).svc[hotkey].thread # "gone"
  <2> SUFFICES ASSUME hotkey # 0 PROVE Dropped(Live, left).svc[hotkey].thread # "gone"
    OBVIOUS
  <2>1. hotkey \in Services /\ svc[hotkey] \in Service /\ svc[hotkey].thread # "gone"
    BY DEF IInv, Typed, LiveInv
  <2>2. Dropped(Live, left).svc = [svc EXCEPT ![hotkey] =
          [svc[hotkey] EXCEPT !.stop = TRUE, !.outcomes = FALSE, !.transport = "nfc"]]
    BY DEF Dropped, Live
  <2> QED  BY <2>1, <2>2 DEF IInv, Typed, Service
<1>7. owner'[hotkey_key] # "other" => hotkey' \notin {0, hotkey}
  BY <1>4, <1>5, <1>6, ServiceIds
<1> QED  BY <1>4, <1>7

LEMMA ApplyInv ==
  ASSUME IInv, ApplySettings
  PROVE  IInv'
<1>1. /\ UNCHANGED <<up, transport, hotkey_key, events>> /\ up = TRUE /\ Save
      /\ transport \in Transports /\ hotkey_key \in Keys
  BY DEF ApplySettings, IInv, Typed
<1>2. /\ Sound(Live)' /\ hotkey_wanted' = TRUE
      /\ hotkey' # 0 => svc'[hotkey'].transport = transport /\ svc'[hotkey'].thread # "gone"
  BY ApplyLemma
<1>3. /\ file' \in Contents({"unset", "saved"}) /\ intact' \in BOOLEAN
      /\ PreferenceSurvives'
  BY <1>1, <1>2, SaveTyped DEF IInv, Typed
<1> QED  BY <1>1, <1>2, <1>3, Reassemble

LEMMA DisableInSettingsInv ==
  ASSUME IInv, DisableInSettings
  PROVE  IInv'
<1>1. /\ UNCHANGED <<up, transport, hotkey_key, events, file, intact>> /\ up = TRUE /\ Disable
      /\ transport \in Transports /\ hotkey_key \in Keys
      /\ file \in Contents({"unset", "saved"}) /\ intact \in BOOLEAN
  BY DEF DisableInSettings, fileVars, IInv, Typed
<1>2. Sound(Live)' /\ hotkey' = 0 /\ hotkey_wanted' = FALSE
  BY <1>1, DisableSound
<1>3. PreferenceSurvives'
  BY <1>2 DEF PreferenceSurvives
<1> QED  BY <1>1, <1>2, <1>3, Reassemble

LEMMA StartInv ==
  ASSUME IInv, Start
  PROVE  IInv'
<1> DEFINE p == Load(file)
<1>1. /\ ~up /\ up' = TRUE /\ UNCHANGED <<events, file, intact>>
      /\ transport' = p.transport /\ hotkey_key' = p.hotkey_key
      /\ IF p.hotkey_enabled THEN Enable(Live, p) ELSE hotkey_wanted' = FALSE /\ UNCHANGED regVars
  BY DEF Start, fileVars
<1>2. /\ file \in Contents({"unset", "saved"}) /\ intact \in BOOLEAN
  BY DEF IInv, Typed
<1>3. /\ p.transport \in Transports /\ p.hotkey_key \in Keys
      /\ p.hotkey_enabled = file.hotkey_enabled
  BY <1>2, HotkeyAssumption DEF Load, Contents
<1>4. Live.hotkey = 0 /\ Sound(Live) /\ hotkey = 0
  BY <1>1 DEF IInv, LiveInv, Live
<1> HIDE DEF p
<1>5. CASE p.hotkey_enabled
  <2>1. Enable(Live, p)
    BY <1>1, <1>5
  <2>2. /\ Sound(Live)' /\ hotkey_wanted' = TRUE
        /\ hotkey' # 0 => svc'[hotkey'].transport = p.transport /\ svc'[hotkey'].thread # "gone"
    BY <1>3, <1>4, <2>1, EnableSound
  <2>3. PreferenceSurvives'
    BY <1>1, <1>3, <1>5 DEF PreferenceSurvives
  <2> QED  BY <1>1, <1>2, <1>3, <2>2, <2>3, Reassemble
<1>6. CASE ~p.hotkey_enabled
  <2>1. hotkey_wanted' = FALSE /\ UNCHANGED <<hotkey, svc, owner>>
    BY <1>1, <1>6 DEF regVars
  <2>2. Sound(Live)' /\ PreferenceSurvives'
    BY <1>4, <2>1 DEF Sound, Live, PreferenceSurvives
  <2> QED  BY <1>1, <1>2, <1>3, <1>4, <2>1, <2>2, Reassemble
<1> QED  BY <1>5, <1>6

(* Whatever the end of a process leaves in the file.                           *)
LEMMA GoneInv ==
  ASSUME IInv, Exit \/ CrashInSave
  PROVE  IInv'
<1>1. Gone
  BY DEF Exit, CrashInSave
<1>2. file' \in Contents({"unset", "saved"}) /\ intact' \in BOOLEAN
  <2>1. Unset \in Contents({"unset", "saved"})
    BY HotkeyAssumption DEF Contents, Unset
  <2>2. CASE Exit
    BY <2>2 DEF Exit, fileVars, IInv, Typed
  <2>3. CASE CrashInSave
    BY <2>1, <2>3 DEF CrashInSave
  <2> QED  BY <2>2, <2>3
<1>3. NoService \in Service
  BY HotkeyAssumption DEF NoService, Service
<1>4. /\ svc' \in [Services -> Service] /\ hotkey' = 0 /\ ~up'
      /\ owner' \in [Keys -> {"free", "us", "other"}] /\ \A k \in Keys : owner'[k] # "us"
  BY <1>1, <1>3 DEF Gone, IInv, Typed
<1>5. Sound(Live)'
  BY <1>4 DEF Sound, Live
<1>6. events' \in Seq([key : Keys, service : Services])
  BY <1>1 DEF Gone
<1>7. /\ up' \in BOOLEAN /\ hotkey_wanted' \in BOOLEAN
      /\ transport' \in Transports /\ hotkey_key' \in Keys
  BY <1>1, HotkeyAssumption DEF Gone
<1>8. Typed'
  BY <1>2, <1>4, <1>6, <1>7 DEF Typed
<1> QED  BY <1>4, <1>5, <1>8 DEF IInv, LiveInv, PreferenceSurvives

(* The outside world.                                                          *)
LEMMA WorldInv ==
  ASSUME IInv, NEW k \in Keys, Press(k) \/ OtherProgram(k)
  PROVE  IInv'
<1>1. CASE Press(k)
  <2>1. /\ UNCHANGED <<up, transport, hotkey_wanted, hotkey_key, hotkey, svc, owner, file, intact>>
        /\ events' = Append(events, [key |-> k, service |-> hotkey]) /\ owner[k] = "us"
    BY <1>1 DEF Press, appVars, regVars, fileVars
  <2>2. hotkey \in Services
    BY <2>1 DEF IInv, Typed, Sound, Live
  <2>3. events' \in Seq([key : Keys, service : Services])
    BY <2>1, <2>2 DEF IInv, Typed
  <2> QED  BY <2>1, <2>3 DEF IInv, Typed, Sound, Live, LiveInv, PreferenceSurvives
<1>2. CASE OtherProgram(k)
  <2>1. /\ UNCHANGED <<up, transport, hotkey_wanted, hotkey_key, hotkey, svc, events, file, intact>>
        /\ owner[k] # "us"
        /\ \E w \in {"free", "other"} : owner' = [owner EXCEPT ![k] = w]
    BY <1>2 DEF OtherProgram, appVars, fileVars
  <2>2. /\ owner' \in [Keys -> {"free", "us", "other"}]
        /\ \A j \in Keys : owner'[j] = "us" <=> owner[j] = "us"
    BY <2>1 DEF IInv, Typed
  <2>3. Sound(Live)'
    BY <2>1, <2>2 DEF IInv, Sound, Live
  <2> QED  BY <2>1, <2>2, <2>3 DEF IInv, Typed, LiveInv, PreferenceSurvives
<1> QED  BY <1>1, <1>2

(* The status line takes an outcome.                                           *)
LEMMA PollHotkeyInv ==
  ASSUME IInv, PollHotkey
  PROVE  IInv'
<1> DEFINE r == [svc[hotkey] EXCEPT !.outcomes = FALSE]
<1>1. /\ hotkey \in Services /\ svc[hotkey] \in Service /\ svc[hotkey].thread # "gone"
      /\ UNCHANGED <<threadUnchanged, events>>
      /\ svc' = [svc EXCEPT ![hotkey] = r]
      /\ events \in Seq([key : Keys, service : Services])
  BY DEF PollHotkey, threadUnchanged, IInv, Typed, LiveInv
<1>2. /\ r \in Service /\ r.key = svc[hotkey].key /\ r.stop = svc[hotkey].stop
      /\ r.transport = svc[hotkey].transport /\ r.thread = svc[hotkey].thread
  BY <1>1 DEF Service
<1> HIDE DEF r
<1>3. events' \in Seq([key : Keys, service : Services])
  BY <1>1
<1> QED  BY <1>1, <1>2, <1>3, ThreadSound

(* A thread that goes on leaves everything of its service but the outcome.     *)
LEMMA ThreadGoesOn ==
  ASSUME IInv, UNCHANGED threadUnchanged, NEW s \in Services,
         NEW at \in {"top", "recv", "read", "type"}, NEW b \in BOOLEAN,
         \/ svc' = [svc EXCEPT ![s].thread = at]
         \/ svc' = [svc EXCEPT ![s].thread = at, ![s].outcomes = b],
         events' \in Seq([key : Keys, service : Services])
  PROVE  IInv'
<1>1. svc[s] \in Service
  BY DEF IInv, Typed
<1>2. PICK r \in {[svc[s] EXCEPT !.thread = at], [svc[s] EXCEPT !.thread = at, !.outcomes = b]} :
        svc' = [svc EXCEPT ![s] = r]
  <2>1. CASE svc' = [svc EXCEPT ![s].thread = at]
    BY <2>1
  <2>2. CASE svc' = [svc EXCEPT ![s].thread = at, ![s].outcomes = b]
    <3>1. svc \in [Services -> Service]
      BY DEF IInv, Typed
    <3>2. svc' = [svc EXCEPT ![s] = [svc[s] EXCEPT !.thread = at, !.outcomes = b]]
      BY <2>2, <3>1, <1>1 DEF Service
    <3> QED  BY <3>2
  <2> QED  BY <2>1, <2>2
<1>3. /\ r \in Service /\ r.key = svc[s].key /\ r.stop = svc[s].stop
      /\ r.transport = svc[s].transport /\ r.thread # "gone"
  BY <1>1, <1>2 DEF Service
<1> QED  BY <1>2, <1>3, ThreadSound

LEMMA LoopTopInv ==
  ASSUME IInv, NEW s \in Services, LoopTop(s)
  PROVE  IInv'
<1>1. /\ UNCHANGED threadUnchanged
      /\ events' \in Seq([key : Keys, service : Services])
  BY DEF LoopTop, IInv, Typed
<1>2. CASE ~svc[s].stop /\ Thread(s, "top", "recv")
  <2>1. svc' = [svc EXCEPT ![s].thread = "recv"]
    BY <1>2 DEF Thread
  <2> QED  BY <1>1, <2>1, ThreadGoesOn
<1>3. CASE svc[s].stop /\ svc' = [svc EXCEPT ![s] = NoService]
  <2>1. s # hotkey
    BY <1>3, ServiceIds DEF IInv, Sound, Live
  <2>2. NoService \in Service
    BY HotkeyAssumption DEF NoService, Service
  <2> QED  BY <1>1, <1>3, <2>1, <2>2, ThreadSound
<1> QED  BY <1>2, <1>3 DEF LoopTop

LEMMA PollThreadInv ==
  ASSUME IInv, NEW s \in Services, PollThread(s)
  PROVE  IInv'
<1>1. /\ UNCHANGED threadUnchanged
      /\ events' = events \/ (events # <<>> /\ events' = Tail(events))
  BY DEF PollThread, LoopTop, RecvTimeout, RecvEvent, ReadCode, TypeCode
<1>2. events' \in Seq([key : Keys, service : Services])
  BY <1>1 DEF IInv, Typed
<1>3. CASE LoopTop(s)
  BY <1>3, LoopTopInv
<1>4. CASE RecvTimeout(s)
  <2>1. svc' = [svc EXCEPT ![s].thread = "top"]
    BY <1>4 DEF RecvTimeout, Thread
  <2> QED  BY <1>1, <1>2, <2>1, ThreadGoesOn
<1>5. CASE RecvEvent(s)
  <2>1. \/ svc' = [svc EXCEPT ![s].thread = "read"]
        \/ svc' = [svc EXCEPT ![s].thread = "top"]
    BY <1>5 DEF RecvEvent
  <2> QED  BY <1>1, <1>2, <2>1, ThreadGoesOn
<1>6. CASE ReadCode(s) \/ TypeCode(s)
  <2>1. \/ svc' = [svc EXCEPT ![s].thread = "type"]
        \/ svc' = [svc EXCEPT ![s].thread = "top", ![s].outcomes = (s = hotkey)]
    BY <1>6 DEF ReadCode, TypeCode, Reported
  <2> QED  BY <1>1, <1>2, <2>1, ThreadGoesOn
<1> QED  BY <1>3, <1>4, <1>5, <1>6 DEF PollThread

LEMMA NextInv == IInv /\ [Next]_vars => IInv'
<1> SUFFICES ASSUME IInv, [Next]_vars PROVE IInv'
  OBVIOUS
<1>1. CASE Window
  BY <1>1, SelectTransportInv, ToggleInv, PreferenceSteps, ApplyInv, DisableInSettingsInv,
     PollHotkeyInv DEF Window
<1>2. CASE Start
  BY <1>2, StartInv
<1>3. CASE Exit \/ CrashInSave
  BY <1>3, GoneInv
<1>4. CASE \E s \in Services : PollThread(s)
  BY <1>4, PollThreadInv
<1>5. CASE \E k \in Keys : Press(k) \/ OtherProgram(k)
  BY <1>5, WorldInv
<1>6. CASE UNCHANGED vars
  BY <1>6 DEF vars, appVars, regVars, fileVars, IInv, Typed, Sound, Live, LiveInv,
              PreferenceSurvives
<1> QED  BY <1>1, <1>2, <1>3, <1>4, <1>5, <1>6 DEF Next

-----------------------------------------------------------------------------
(* The inductive invariant holds in every behaviour of the program, its poll    *)
(* threads, the other programs and the file.                                   *)
THEOREM IndInv == Spec => []IInv
BY InitIInv, NextInv, PTL DEF Spec

(* The program, its services and the file stay within their types.             *)
THEOREM TypeCorrect == Spec => []TypeOK
<1>1. IInv => TypeOK
  BY DEF IInv, Typed, TypeOK
<1> QED  BY <1>1, IndInv, PTL

(* enable_hotkey, disable_hotkey and HotkeyService's new and drop leave no       *)
(* combination registered but that of the service in force, which is wanted.   *)
THEOREM RegistrationMatches == Spec => []RegistrationMatchesIntent
<1>1. IInv => RegistrationMatchesIntent
  BY DEF IInv, Sound, Live, LiveInv, RegistrationMatchesIntent
<1> QED  BY <1>1, IndInv, PTL

(* A failed registration, a change of letter and any number of restarts leave   *)
(* hotkey_enabled in the file while the hotkey is wanted and saving works.     *)
THEOREM PreferenceKept == Spec => []PreferenceSurvives
<1>1. IInv => PreferenceSurvives
  BY DEF IInv
<1> QED  BY <1>1, IndInv, PTL

(* set_transport keeps the service in force on the transport selected.         *)
THEOREM TransportFollows == Spec => []TransportInForce
<1>1. IInv => TransportInForce
  BY DEF IInv, LiveInv, TransportInForce
<1> QED  BY <1>1, IndInv, PTL

(* The settings dialog's Apply frees the old combination first: unless the      *)
(* letter shown is held by another program, or by a service that could not     *)
(* unregister it, there is a new service for it afterwards.                    *)
THEOREM ApplyWorks == Spec => ApplySucceeds
<1>1. IInv /\ [Next]_vars =>
        [ApplySettings /\ owner'[hotkey_key] # "other" =>
           hotkey' \notin {0, hotkey} /\ svc'[hotkey'].key = hotkey_key]_vars
  BY ApplyLemma
<1> QED  BY <1>1, IndInv, PTL DEF Spec, ApplySucceeds
=============================================================================
