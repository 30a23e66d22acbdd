----------------------------- MODULE HostConfig -----------------------------
(***************************************************************************)
(* The host's configuration: the file it is loaded from, the live copy the *)
(* settings requests change, the copy the running host was launched with,  *)
(* the provider keys in their own file, and the pause switch.              *)
(*                                                                         *)
(* The request loop serves one request at a time, so a handler is one      *)
(* step; a save or a put that fails, or a crash in the middle of one, is a *)
(* step of its own.  A file that a cut-off write or a person has left so   *)
(* that it does not parse is "broken".                                     *)
(***************************************************************************)
EXTENDS Integers, FiniteSets

CONSTANTS
  ProviderIds,   \* the provider ids users type
  BlankId,       \* an id of blanks, which users can type too
  TypedKinds,    \* the provider kinds users type
  TypedLevels,   \* the retention levels users type
  Cadences,      \* follow-up settings: [catchUp : BOOLEAN, tick : Nat]
  None,
  MaxRequests,   \* bound: requests that write or act
  MaxLaunches,   \* bound: launches
  MaxEdits       \* bound: times a person edits or damages a file

ASSUME ConstantsAssumption ==
  /\ MaxRequests \in Nat /\ MaxLaunches \in Nat /\ MaxEdits \in Nat
  /\ \A c \in Cadences : c.catchUp \in BOOLEAN /\ c.tick \in Nat
  /\ [catchUp |-> TRUE, tick |-> 0] \in Cadences
  /\ None \notin ProviderIds \cup {BlankId}

VARIABLES
  file,      \* the configuration file
  host,      \* what the host process is doing
  live,      \* AdminSuite.config: what the settings requests read and write
  running,   \* App.config: what the host was launched with
  keys,      \* the secret file
  applied,   \* flips whenever the actions of a new mail are applied
  drained,   \* flips whenever the due follow-ups are drained
  spent,     \* what the bounds have left room for
  \* History: the pause the user was last told of, the configuration last
  \* answered as saved, the keys answered as stored, what the user was last
  \* told of each key, and whether the user has reason to expect that the
  \* host will not start again.
  pause, saved, stored, shown, warned

history == <<pause, saved, stored, shown, warned>>
vars == <<file, host, live, running, keys, applied, drained, spent, history>>

-----------------------------------------------------------------------------
(* The configuration *)

KnownKinds == {"ollama", "openai_compatible", "lm_studio", "llama_cpp", "mock"}

RetentionLevels == {"metadata", "bodies", "summaries"}

Ids == ProviderIds \cup {BlankId}

\* providers is the list as a function: an id has a kind, or None.
Config ==
  [retention : RetentionLevels, cadence : Cadences,
   providers : [Ids -> TypedKinds \cup KnownKinds \cup {None}],
   default : Ids \cup {None}, paused : BOOLEAN]

DefaultConfig ==
  [retention |-> "metadata", cadence |-> [catchUp |-> TRUE, tick |-> 0],
   providers |-> [p \in Ids |-> None], default |-> None, paused |-> FALSE]

\* AppConfig::validate.
Valid(c) ==
  /\ c.providers[BlankId] = None
  /\ \A p \in Ids : c.providers[p] \in KnownKinds \cup {None}
  /\ c.default # None => c.providers[c.default] # None

FileStates == {"absent", "whole", "broken"}

\* MAILMATE_CONFIG names a file; otherwise nothing is ever loaded or saved.
FromFile == file.state # "absent"

\* AppConfig::load, and resolve_config without a file.
Loadable == FromFile => file.state = "whole" /\ Valid(file.config)

Init ==
  /\ file \in [state : {"absent", "whole"}, config : {DefaultConfig}]
  /\ host = "down"
  /\ live = DefaultConfig /\ running = DefaultConfig
  /\ keys = [state |-> "absent", held |-> {}]
  /\ applied = FALSE /\ drained = FALSE
  /\ spent = [requests |-> 0, launches |-> 0, edits |-> 0]
  /\ pause = [on |-> FALSE, durable |-> FromFile]
  /\ saved = [known |-> FALSE, config |-> DefaultConfig]
  /\ stored = {} /\ shown = [p \in ProviderIds |-> "unread"]
  /\ warned = FALSE

Spend(what, max) == spent[what] < max /\ spent' = [spent EXCEPT ![what] = @ + 1]

Request == host = "serving" /\ Spend("requests", MaxRequests)

-----------------------------------------------------------------------------
(* Saving *)

\* Mutant: the pause switch is not written.
ToTomlUnpaused(c) == [c EXCEPT !.paused = FALSE]

\* AppConfig::to_toml: every field is written.
ToToml(c) == c

Outcomes == IF FromFile THEN {"saved", "unopened", "cut"} ELSE {"in_memory"}

\* AppConfig::save.  fs::write empties the file before it fills it: a write
\* that fails after the file was opened leaves it broken.  A failure is
\* answered as persist_error; a settings write that is answered as saved tells
\* the user that all is well, the pause switch says nothing of the settings.
Save(c, outcome, settings) ==
  /\ outcome \in Outcomes
  /\ file' = CASE outcome = "saved" -> [state |-> "whole", config |-> ToToml(c)]
               [] outcome = "cut"   -> [file EXCEPT !.state = "broken"]
               [] OTHER             -> file
  /\ saved' = [known |-> outcome = "saved", config |-> c]
  /\ warned' = CASE outcome = "saved"     -> warned /\ ~settings
                 [] outcome = "in_memory" -> warned
                 [] OTHER                 -> TRUE

\* The process dies inside fs::write: nobody is answered.
CrashInSave ==
  /\ Request
  /\ Save(live, "cut", TRUE)
  /\ host' = "down"
  /\ UNCHANGED <<live, running, keys, applied, drained, pause, stored, shown>>

-----------------------------------------------------------------------------
(* The settings requests *)

\* Mutant: the write is saved without a look at the configuration.
RespondSettingsWriteUnchecked(c) ==
  /\ live' = c
  /\ \E outcome \in Outcomes : Save(c, outcome, TRUE)

\* Mutant: what is saved is the copy without the change.
RespondSettingsWriteStale(c) ==
  /\ live' = c
  /\ file' = [file EXCEPT !.config = live]
  /\ saved' = [known |-> FromFile, config |-> c]
  /\ UNCHANGED warned

\* The end of set_settings and set_provider.  The live copy has the change
\* already when validate looks at it: a refused one stays there.
RespondSettingsWrite(c) ==
  /\ live' = c
  /\ IF Valid(c) THEN \E outcome \in Outcomes : Save(c, outcome, TRUE)
                 ELSE warned' = TRUE /\ UNCHANGED <<file, saved>>

\* Mutant: the scalar fields cannot make a configuration invalid, so that
\* they are saved without a look at the rest of it.
SetSettingsUnchecked(level, cadence) ==
  /\ Request
  /\ level \in RetentionLevels \cup {None}
  /\ RespondSettingsWriteUnchecked(
       [live EXCEPT !.retention = IF level = None THEN @ ELSE level, !.cadence = cadence])
  /\ UNCHANGED <<host, running, keys, applied, drained, pause, stored, shown>>

\* handle_set_settings: any of the three fields.  An unknown level is refused
\* before the others are looked at.
SetSettings(level, cadence) ==
  /\ Request
  /\ IF level \in RetentionLevels \cup {None}
     THEN RespondSettingsWrite(
            [live EXCEPT !.retention = IF level = None THEN @ ELSE level,
                         !.cadence = cadence])
     ELSE UNCHANGED <<file, live, saved, warned>>
  /\ UNCHANGED <<host, running, keys, applied, drained, pause, stored, shown>>

Removed(c, p) ==
  [c EXCEPT !.providers[p] = None, !.default = IF @ = p THEN None ELSE @]

\* A kind that is not given stays, and is "openai_compatible" for a new one.
Updated(c, p, kind, makeDefault) ==
  LET old == c.providers[p]
      new == CASE kind # None -> kind
               [] kind = None /\ old # None -> old
               [] OTHER -> "openai_compatible"
  IN  [c EXCEPT !.providers[p] = new, !.default = IF makeDefault THEN p ELSE @]

\* handle_set_provider.
SetProvider(p, kind, makeDefault) ==
  /\ Request
  /\ RespondSettingsWrite(Updated(live, p, kind, makeDefault))
  /\ UNCHANGED <<host, running, keys, applied, drained, pause, stored, shown>>

RemoveProvider(p) ==
  /\ Request
  /\ RespondSettingsWrite(Removed(live, p))
  /\ UNCHANGED <<host, running, keys, applied, drained, pause, stored, shown>>

\* handle_set_pause saves what the live copy is, without validate.
SetPause(on) ==
  /\ Request
  /\ live' = [live EXCEPT !.paused = on]
  /\ \E outcome \in Outcomes :
       /\ Save([live EXCEPT !.paused = on], outcome, FALSE)
       /\ pause' = [on |-> on, durable |-> outcome = "saved"]
  /\ UNCHANGED <<host, running, keys, applied, drained, stored, shown>>

-----------------------------------------------------------------------------
(* The secret file *)

\* FileSecretStore::read_all: no file, no keys; a broken one is an error.
KeysReadable == keys.state # "broken"

\* FileSecretStore::put.  write_all stages the map beside the file and renames
\* it, so a put that fails or is cut off leaves the file as it was.
PutKey(p) ==
  /\ KeysReadable
  /\ keys' = [state |-> "whole",
              held |-> (IF keys.state = "whole" THEN keys.held ELSE {}) \cup {p}]

\* handle_set_secret.
SetSecret(p) ==
  /\ Request
  /\ \/ /\ PutKey(p)
        /\ stored' = stored \cup {p}
        /\ shown' = [shown EXCEPT ![p] = "set"]
     \/ UNCHANGED <<keys, stored, shown>>
  /\ UNCHANGED <<file, host, live, running, applied, drained, pause, saved, warned>>

\* AdminSuite::secret_is_set: present, absent, or not known.
SecretIsSet(p) ==
  IF ~KeysReadable THEN "unknown"
  ELSE IF keys.state = "whole" /\ p \in keys.held THEN "set" ELSE "unset"

\* handle_get_settings stamps each configured provider.
GetSettings ==
  /\ host = "serving"
  /\ shown' = [p \in ProviderIds |->
                 IF live.providers[p] = None THEN "unread" ELSE SecretIsSet(p)]
  /\ UNCHANGED <<file, host, live, running, keys, applied, drained, spent,
                 pause, saved, stored, warned>>

-----------------------------------------------------------------------------
(* Launch, work, end *)

\* resolve_config and build_router: the live copy starts as the loaded one.
Launch ==
  /\ host = "down" /\ Spend("launches", MaxLaunches)
  /\ Loadable
  /\ LET c == IF FromFile THEN file.config ELSE DefaultConfig
     IN  /\ live' = c /\ running' = c
         /\ host' = IF c.cadence.catchUp THEN "launching" ELSE "serving"
  /\ pause' = [pause EXCEPT !.on = @ /\ pause.durable]
  /\ warned' = FALSE
  /\ UNCHANGED <<file, keys, applied, drained, saved, stored, shown>>

\* main prints the error of load and ends.
LaunchFails ==
  /\ host = "down" /\ ~Loadable /\ Spend("launches", MaxLaunches)
  /\ host' = "refused"
  /\ UNCHANGED <<file, live, running, keys, applied, drained, history>>

\* drain_followups does not look at the pause switch.
DrainFollowups ==
  /\ drained' = ~drained
  /\ UNCHANGED <<file, live, running, keys, applied, spent, history>>

\* serve drains before it reads its first request.
CatchUp ==
  /\ host = "launching" /\ host' = "serving"
  /\ DrainFollowups

\* The worker runs as the host was launched, whatever set_settings says.
Tick ==
  /\ host = "serving" /\ running.cadence.tick > 0
  /\ DrainFollowups
  /\ UNCHANGED host

\* handle_new_mail: while paused, the plan is only reported.
NewMail ==
  /\ Request
  /\ ~live.paused
  /\ applied' = ~applied
  /\ UNCHANGED <<file, host, live, running, keys, drained, history>>

\* The end of the input, or a crash.
End ==
  /\ host \in {"launching", "serving", "refused"}
  /\ host' = "down"
  /\ UNCHANGED <<file, live, running, keys, applied, drained, spent, history>>

-----------------------------------------------------------------------------
(* What people do to the files *)

EditFile(c) ==
  /\ FromFile /\ Spend("edits", MaxEdits)
  /\ file' = [state |-> "whole", config |-> c]
  /\ pause' = [pause EXCEPT !.on = FALSE]
  /\ saved' = [saved EXCEPT !.known = FALSE]
  /\ warned' = (warned \/ ~Valid(c))
  /\ UNCHANGED <<host, live, running, keys, applied, drained, stored, shown>>

\* The secret file is damaged, or repaired to what it was.
DamageKeys ==
  /\ keys.state = "whole" /\ Spend("edits", MaxEdits)
  /\ keys' = [keys EXCEPT !.state = "broken"]
  /\ UNCHANGED <<file, host, live, running, applied, drained, history>>

RepairKeys ==
  /\ keys.state = "broken"
  /\ keys' = [keys EXCEPT !.state = "whole"]
  /\ UNCHANGED <<file, host, live, running, applied, drained, spent, history>>

Settings ==
  \/ \E level \in TypedLevels \cup {None}, cadence \in Cadences : SetSettings(level, cadence)
  \/ \E p \in Ids, kind \in TypedKinds \cup {None}, d \in BOOLEAN : SetProvider(p, kind, d)
  \/ \E p \in Ids : RemoveProvider(p)
  \/ \E on \in BOOLEAN : SetPause(on)
  \/ \E p \in ProviderIds : SetSecret(p)
  \/ GetSettings

Next ==
  \/ Settings
  \/ CrashInSave
  \/ Launch \/ LaunchFails \/ CatchUp \/ Tick \/ NewMail \/ End
  \/ EditFile(DefaultConfig)
  \/ DamageKeys \/ RepairKeys

Spec == Init /\ [][Next]_vars

-----------------------------------------------------------------------------
(* Properties *)

TypeOK ==
  /\ file \in [state : FileStates, config : Config]
  /\ host \in {"down", "launching", "serving", "refused"}
  /\ live \in Config /\ running \in Config
  /\ keys \in [state : FileStates, held : SUBSET Ids]
  /\ applied \in BOOLEAN /\ drained \in BOOLEAN /\ warned \in BOOLEAN
  /\ spent \in [requests : Nat, launches : Nat, edits : Nat]
  /\ pause \in [on : BOOLEAN, durable : BOOLEAN]
  /\ saved \in [known : BOOLEAN, config : Config]
  /\ stored \subseteq ProviderIds
  /\ shown \in [ProviderIds -> {"unread", "set", "unset", "unknown"}]

\* The pause switch "survives reloads": once the user was told that the host
\* is paused, no action is applied until the user resumes, through every
\* settings write, failed save, crash and launch.  Only a pause answered as
\* not saved may be lost with the process.
NoApplyWhilePaused == [][applied' # applied => ~pause.on]_vars

\* A configuration answered as saved is the one the next launch works with,
\* unless a later write failed or a person edited the file.
RestartTakesEffect ==
  [][host = "down" /\ host' \in {"launching", "serving"} /\ saved.known
       => running' = saved.config /\ live' = saved.config]_vars

\* A host that cannot be started again is no surprise: when its file does not
\* load, the user was told of a refused or a failed write since the last launch
\* and since the last settings write that was answered as saved, or the host
\* died in a write, or a person wrote the file.  A refused value stays live
\* and the pause switch saves it, so each write must look at all of the live
\* configuration, not at what it changes.
UnstartableIsForetold == ~Loadable => warned

\* handle_set_provider "validates the provider kind + default-consistency
\* host-side before persisting": what the host has saved, it can load.
ValidatedBeforePersisting ==
  file.state = "whole" => Valid(file.config)

\* AppConfig.paused: "when true, the host stops auto-applying actions and
\* firing follow-up drains".
PausedHostIsQuiet == [][drained' # drained => ~live.paused]_vars


=============================================================================
