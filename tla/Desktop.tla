------------------------------ MODULE Desktop -------------------------------
(***************************************************************************)
(* The two plugins that drive the desktop through its own tools. system    *)
(* reads and sets volume, brightness and power profile, reads the battery  *)
(* and locks the session; clipboard reads and writes the clipboard. Each   *)
(* serves one request after the other, and a request is a series of        *)
(* commands, property reads and file accesses between which the desktop    *)
(* may change. A command that system gives up waiting for runs on, and the *)
(* power profile is read from zbus's cache, which follows the daemon by    *)
(* its PropertiesChanged signals.                                          *)
(***************************************************************************)
EXTENDS Integers, Sequences, SequencesExt, FiniteSets

CONSTANTS
  Desktops,          \* tools, services and devices a host may have, with their first state
  SysRequests,       \* requests of system: action and argument
  ClipRequests,      \* requests of clipboard: action and text
  ClipMax,           \* CLIPBOARD_PLUGIN_MAX_BYTES
  MaxDeskReplies,    \* bound: requests
  MaxKnobs,          \* bound: changes made by the user
  MaxToolFaults      \* bound: commands that fail or are given up

SysActions ==
  {"sys_volume", "sys_volume_set", "sys_volume_mute", "sys_brightness", "sys_brightness_set",
   "sys_battery", "sys_power_profile", "sys_power_profile_set", "sys_lock"}
ClipActions == {"clipboard_read", "clipboard_write", "clipboard_providers"}
DeviceFields == {"volume", "muted", "raw", "profile", "known", "coming", "locked", "charge", "battery", "board"}

\* What the plugins have a handler for; the first panel with both control
\* files is the one they use.
ASSUME DesktopAssumption ==
  /\ \A r \in SysRequests : r.action \in SysActions
  /\ \A r \in ClipRequests : /\ r.action \in ClipActions
                             /\ r.action = "clipboard_write" => r.text.size \in Nat
  /\ ClipMax \in Nat
  /\ \A d \in Desktops :
       /\ d.first = [f \in DeviceFields |-> d.first[f]] /\ d.first.raw \in Nat /\ d.first.muted \in BOOLEAN
       /\ d.first.board.size \in Nat
       /\ d.first.known = d.first.profile /\ d.first.coming = <<>>
       /\ \A p, q \in d.panel : p = q
       /\ \A p \in d.panel : p.max \in Nat /\ p.max > 0 /\ p.writable \in BOOLEAN

VARIABLES
  desktop,      \* the host: what it has
  device,       \* what its devices and its clipboard are set to; the profile zbus has
                \* cached (known) and the changes it has not been told yet (coming)
  sysWork,      \* the request system serves: what is left to do, what it has seen
  givenUp,      \* commands system gave up waiting for and that still run
  clipWork,     \* the request clipboard serves
  deskReplies,  \* history: each request with its reply
  knobs,        \* history: changes the plugins' requests did not ask for
  toolFaults    \* commands that failed or were given up

desktopVars == <<desktop, device, sysWork, givenUp, clipWork, deskReplies, knobs, toolFaults>>

NoTool == "(no tool)"
NoDeskWork == [r |-> [action |-> "none"], alone |-> TRUE]
SysIdle == sysWork = NoDeskWork
ClipIdle == clipWork = NoDeskWork
EmptyText == [size |-> 0, utf8 |-> TRUE]

-----------------------------------------------------------------------------
(* The daemon of the power profile tells every change; system's proxy has  *)
(* cached the profile since it was connected, and hears of a change later. *)
DaemonSets(profile) ==
  IF profile = device.profile THEN device
  ELSE [device EXCEPT !.profile = profile, !.coming = Append(@, profile)]

(* Detection. A tool is there when starting it does not say "not found",   *)
(* whether or not it works.                                                *)
VolumeTool == CASE "wpctl" \in desktop.tools -> "wpctl"
                [] "pactl" \in desktop.tools -> "pactl"
                [] OTHER -> NoTool
Supports(action) ==
  CASE action \in {"sys_volume", "sys_volume_set", "sys_volume_mute"} -> VolumeTool # NoTool
    [] action \in {"sys_brightness", "sys_brightness_set"} -> desktop.panel # {}
    [] action = "sys_battery" -> "upower" \in desktop.services
    [] action = "sys_lock" -> "bus" \in desktop.services
    [] OTHER -> "ppd" \in desktop.services

\* The panel of the host: the range of its raw values, and whether the sysfs
\* node may be written.
Panel == CHOOSE p \in desktop.panel : TRUE

\* Raw value for a percentage, never 0; percentage of a raw value, rounded.
\* Mutant: nothing keeps the raw value above 0.
TargetRaw_Unclamped(percent) == (Panel.max * percent) \div 100
TargetRaw(percent) == LET raw == (Panel.max * percent) \div 100 IN IF raw = 0 THEN 1 ELSE raw
CalcPercent(raw) == LET p == (200 * raw + Panel.max) \div (2 * Panel.max) IN IF p > 255 THEN 255 ELSE p

-----------------------------------------------------------------------------
(* system: what a request does, as a series of steps.                      *)
ValidArgument(r) ==
  CASE r.action \in {"sys_volume_set", "sys_brightness_set"} -> r.arg \in 0..100
    [] r.action = "sys_volume_mute" -> r.arg \in {"on", "off", "toggle"}
    [] r.action = "sys_power_profile_set" -> r.arg \in {"performance", "balanced", "power-saver"}
    [] OTHER -> r.arg = "none"

ReadVolume == IF VolumeTool = "wpctl" THEN <<"get-volume">> ELSE <<"get-sink-volume", "get-sink-mute">>
ReadBrightness == <<"brightness", "max_brightness">>
ReadProfile == <<"profile", "profiles">>
\* A setter reads back what it set.
\* Mutant: what is reported was read before.
Setting_ReadsFirst(set, read) == read \o set
Setting(set, read) == set \o read
StepsOf(r) ==
  CASE r.action = "sys_volume" -> ReadVolume
    [] r.action = "sys_volume_set" -> Setting(<<"set-volume">>, ReadVolume)
    [] r.action = "sys_volume_mute" -> Setting(<<"set-mute">>, ReadVolume)
    [] r.action = "sys_brightness" -> ReadBrightness
    [] r.action = "sys_brightness_set" -> Setting(<<"max_brightness", "write brightness">>, ReadBrightness)
    [] r.action = "sys_battery" -> <<"percentage", "state", "time_to_empty", "time_to_full">>
    [] r.action = "sys_power_profile" -> ReadProfile
    [] r.action = "sys_power_profile_set" -> Setting(<<"set_profile">>, ReadProfile)
    [] r.action = "sys_lock" -> <<"ScreenSaver.Lock">>

\* The steps that start a command, and among them those that change something.
Spawned == {"get-volume", "set-volume", "get-sink-volume", "get-sink-mute", "set-mute", "brightnessctl", "loginctl"}
Setters == {"set-volume", "set-mute", "brightnessctl", "loginctl"}

\* What a step changes, and what it sees.
Effect(step, arg) ==
  CASE step = "set-volume" -> [device EXCEPT !.volume = arg]
    [] step = "set-mute" -> [device EXCEPT !.muted = CASE arg = "on" -> TRUE [] arg = "off" -> FALSE [] OTHER -> ~@]
    [] step = "write brightness" -> [device EXCEPT !.raw = TargetRaw(arg)]
    [] step = "brightnessctl" -> [device EXCEPT !.raw = (Panel.max * arg) \div 100]
    [] step = "set_profile" -> DaemonSets(arg)
    [] step \in {"ScreenSaver.Lock", "loginctl"} -> [device EXCEPT !.locked = TRUE]
    [] OTHER -> device
Sight(step) ==
  CASE step = "get-sink-volume" -> [volume |-> device.volume]
    [] step = "get-sink-mute" -> [muted |-> device.muted]
    [] step = "brightness" -> [raw |-> device.raw]
    [] step = "profile" -> [known |-> device.known]
    [] step = "percentage" -> [charge |-> device.charge]
    [] step = "state" -> [battery |-> device.battery]
    [] OTHER -> <<>>
\* wpctl prints both in one line.
Seen(step) ==
  IF step = "get-volume" THEN [volume |-> device.volume, muted |-> device.muted] ELSE Sight(step)

\* map_state: pending states count as their direction.
BatteryState(raw) == CASE raw \in {1, 5} -> "charging" [] raw \in {2, 6} -> "discharging"
                       [] raw = 3 -> "empty" [] raw = 4 -> "full" [] OTHER -> "unknown"

\* An error, and the error that names the timeout of a command.
DeskRefused == [ok |-> FALSE]
DeskGivenUp == [ok |-> FALSE, late |-> TRUE]
\* The reply from what the steps saw; a sink above 100 % is not parsed.
SysReply(r, seen) ==
  CASE r.action \in {"sys_volume", "sys_volume_set", "sys_volume_mute"} ->
         IF seen.volume > 100 THEN DeskRefused ELSE [ok |-> TRUE, volume |-> seen.volume, muted |-> seen.muted]
    [] r.action \in {"sys_brightness", "sys_brightness_set"} -> [ok |-> TRUE, percent |-> CalcPercent(seen.raw)]
    [] r.action = "sys_battery" -> [ok |-> TRUE, charge |-> seen.charge, battery |-> BatteryState(seen.battery)]
    [] r.action = "sys_lock" -> [ok |-> TRUE]
    [] OTHER -> [ok |-> TRUE, profile |-> seen.known]

DesktopInit ==
  /\ desktop \in Desktops /\ device = desktop.first
  /\ sysWork = NoDeskWork /\ clipWork = NoDeskWork /\ givenUp = {}
  /\ deskReplies = <<>> /\ knobs = 0 /\ toolFaults = 0

MayAsk == Len(deskReplies) + Cardinality({w \in {"sys", "clip"} :
            IF w = "sys" THEN ~SysIdle ELSE ~ClipIdle}) < MaxDeskReplies
DeskTold(work, reply) ==
  deskReplies' = Append(deskReplies, [r |-> work.r, reply |-> reply, alone |-> work.alone,
                                      before |-> IF "before" \in DOMAIN work THEN work.before ELSE device,
                                      after |-> device'])
Fault == toolFaults < MaxToolFaults /\ toolFaults' = toolFaults + 1

SysAsk(r) ==
  /\ SysIdle /\ MayAsk
  /\ IF ValidArgument(r) /\ Supports(r.action)
     THEN /\ sysWork' = [r |-> r, todo |-> StepsOf(r), seen |-> <<>>,
                         before |-> device, alone |-> TRUE]
          /\ UNCHANGED <<device, deskReplies>>
     ELSE UNCHANGED <<device, sysWork>> /\ DeskTold([r |-> r, alone |-> TRUE], DeskRefused)
  /\ UNCHANGED <<desktop, givenUp, clipWork, knobs, toolFaults>>

SysNext == Head(sysWork.todo)
SysEnds(reply) == DeskTold(sysWork, reply) /\ sysWork' = NoDeskWork

\* The sysfs node is not writable: brightnessctl is given the percentage.
Delegated == SysNext = "write brightness" /\ ~Panel.writable

SysDelegates ==
  /\ ~SysIdle /\ Delegated
  /\ sysWork' = [sysWork EXCEPT !.todo = <<"brightnessctl">> \o Tail(@)]
  /\ UNCHANGED <<desktop, device, givenUp, clipWork, deskReplies, knobs, toolFaults>>

SysStep ==
  LET new == Seen(SysNext) old == sysWork.seen
      seen == [f \in DOMAIN new \cup DOMAIN old |-> IF f \in DOMAIN new THEN new[f] ELSE old[f]] IN
  /\ ~SysIdle /\ ~Delegated
  /\ device' = Effect(SysNext, sysWork.r.arg)
  /\ IF Len(sysWork.todo) = 1
     THEN SysEnds(SysReply(sysWork.r, seen))
     ELSE /\ sysWork' = [sysWork EXCEPT !.todo = Tail(@), !.seen = seen]
          /\ UNCHANGED deskReplies
  /\ UNCHANGED <<desktop, givenUp, clipWork, knobs, toolFaults>>

\* A step fails, with or without its effect: the screen saver's lock is
\* retried with loginctl, everything else ends the request.
SysFails ==
  /\ ~SysIdle /\ ~Delegated /\ Fault
  /\ device' \in {device, Effect(SysNext, sysWork.r.arg)}
  /\ IF SysNext = "ScreenSaver.Lock"
     THEN sysWork' = [sysWork EXCEPT !.todo = <<"loginctl">>] /\ UNCHANGED deskReplies
     ELSE SysEnds(DeskRefused)
  /\ UNCHANGED <<desktop, givenUp, clipWork, knobs>>

\* RUN_TIMEOUT: an error, and the command runs on; by is the request whose
\* command it is.
Abandoned == [step |-> SysNext, arg |-> sysWork.r.arg, by |-> Len(deskReplies) + 1]
LeftRunning == IF SysNext \in Setters THEN givenUp \cup {Abandoned} ELSE givenUp
\* Mutant: a setter goes on as if its command had ended.
SysTimesOut_GoesOn ==
  /\ ~SysIdle /\ SysNext \in Spawned /\ Fault
  /\ givenUp' = LeftRunning /\ UNCHANGED device
  /\ IF SysNext \in {"set-volume", "set-mute", "brightnessctl"}
     THEN sysWork' = [sysWork EXCEPT !.todo = Tail(@)] /\ UNCHANGED deskReplies
     ELSE SysEnds(DeskGivenUp)
  /\ UNCHANGED <<desktop, clipWork, knobs>>
SysTimesOut ==
  /\ ~SysIdle /\ SysNext \in Spawned /\ Fault
  /\ givenUp' = LeftRunning /\ UNCHANGED device
  /\ SysEnds(DeskGivenUp)
  /\ UNCHANGED <<desktop, clipWork, knobs>>

\* A command that was given up has its effect after all, in any order.
AbandonedActs ==
  /\ \E c \in givenUp : device' = Effect(c.step, c.arg) /\ givenUp' = givenUp \ {c}
  /\ UNCHANGED <<desktop, sysWork, clipWork, deskReplies, knobs, toolFaults>>

\* zbus's task hears of the oldest change of the profile it was not told yet.
ProfileHeard ==
  /\ device.coming # <<>>
  /\ device' = [device EXCEPT !.known = Head(device.coming), !.coming = Tail(@)]
  /\ UNCHANGED <<desktop, sysWork, givenUp, clipWork, deskReplies, knobs, toolFaults>>

\* The user changes a device, perhaps while the plugins are at work on it.
Disturbs(work) == IF work = NoDeskWork THEN work ELSE [work EXCEPT !.alone = FALSE]
Foreign == {[size |-> 2, utf8 |-> TRUE], [size |-> 1, utf8 |-> FALSE]}
UserActs ==
  /\ knobs < MaxKnobs /\ knobs' = knobs + 1
  /\ \/ device' = [device EXCEPT !.volume = 150, !.muted = ~@]
     \/ device' = DaemonSets("performance")
     \/ \E text \in Foreign : device' = [device EXCEPT !.board = text]
  /\ sysWork' = Disturbs(sysWork) /\ clipWork' = Disturbs(clipWork)
  /\ UNCHANGED <<desktop, givenUp, deskReplies, toolFaults>>

-----------------------------------------------------------------------------
(* clipboard: the tools of the session are tried in order until one is     *)
(* there; whatever that one does is the answer.                            *)

\* The operator's preference, else what the environment says.
Session == IF desktop.prefers # "auto" THEN desktop.prefers ELSE desktop.session
ToolChain(action) == CASE Session = "x11" -> <<"xclip", "xsel">>
                       [] action = "clipboard_read" -> <<"wl-paste">>
                       [] OTHER -> <<"wl-copy">>

ClipValid(r) ==
  /\ desktop.session # "none"
  /\ r.action = "clipboard_write" => r.text # EmptyText /\ r.text.size <= ClipMax

ClipAsk(r) ==
  /\ ClipIdle /\ MayAsk /\ UNCHANGED device
  /\ IF ClipValid(r) /\ r.action # "clipboard_providers"
     THEN /\ clipWork' = [r |-> r, tools |-> ToolChain(r.action), at |-> "try", fed |-> {},
                          out |-> EmptyText, alone |-> TRUE]
          /\ UNCHANGED deskReplies
     ELSE /\ UNCHANGED clipWork
          /\ DeskTold([r |-> r, alone |-> TRUE],
                  IF ClipValid(r) THEN [ok |-> TRUE, readers |-> ToolChain("clipboard_read")] ELSE DeskRefused)
  /\ UNCHANGED <<desktop, sysWork, givenUp, knobs, toolFaults>>

ClipAt(at) == ~ClipIdle /\ clipWork.at = at
ClipTool == Head(clipWork.tools)
ClipEnds(reply) == DeskTold(clipWork, reply) /\ clipWork' = NoDeskWork

\* Only a tool that is missing is followed by the next one.
ClipTry ==
  /\ ClipAt("try") /\ UNCHANGED device
  /\ CASE clipWork.tools = <<>> -> ClipEnds(DeskRefused)
       [] clipWork.tools # <<>> /\ ClipTool \notin desktop.tools ->
            clipWork' = [clipWork EXCEPT !.tools = Tail(@)] /\ UNCHANGED deskReplies
       [] OTHER -> clipWork' = [clipWork EXCEPT !.at = "running", !.fed = @ \cup {ClipTool}] /\ UNCHANGED deskReplies
  /\ UNCHANGED <<desktop, sysWork, givenUp, knobs, toolFaults>>

\* The tool takes the text, or prints what the clipboard holds.
ToolActs ==
  /\ ClipAt("running")
  /\ IF clipWork.r.action = "clipboard_write"
     THEN device' = [device EXCEPT !.board = clipWork.r.text] /\ clipWork' = [clipWork EXCEPT !.at = "ended"]
     ELSE UNCHANGED device /\ clipWork' = [clipWork EXCEPT !.at = "ended", !.out = device.board]
  /\ UNCHANGED <<desktop, sysWork, givenUp, deskReplies, knobs, toolFaults>>

\* The reply of a read: too large, not UTF-8, empty or the text.
\* Mutant: the size is not looked at.
ReadReply_AnySize(text) ==
  IF ~text.utf8 THEN DeskRefused ELSE [ok |-> TRUE, found |-> text # EmptyText, text |-> text]
ReadReply(text) ==
  IF text.size > ClipMax \/ ~text.utf8 THEN DeskRefused
  ELSE [ok |-> TRUE, found |-> text # EmptyText, text |-> text]

\* The tool has ended and closed its output. Nothing is answered before that:
\* the timeout starts when all of it has been awaited.
ClipDone ==
  /\ ClipAt("ended") /\ UNCHANGED device
  /\ ClipEnds(IF clipWork.r.action = "clipboard_write" THEN [ok |-> TRUE] ELSE ReadReply(clipWork.out))
  /\ UNCHANGED <<desktop, sysWork, givenUp, knobs, toolFaults>>

\* Starting or feeding the tool fails, or it ends with an error.
\* Mutant: the next tool is tried after any error.
ClipFails_TriesNext ==
  /\ (ClipAt("running") \/ ClipAt("ended")) /\ Fault /\ UNCHANGED device
  /\ clipWork' = [clipWork EXCEPT !.at = "try", !.tools = Tail(@)]
  /\ UNCHANGED <<desktop, sysWork, givenUp, deskReplies, knobs>>
ClipFails ==
  /\ (ClipAt("running") \/ ClipAt("ended")) /\ Fault /\ UNCHANGED device
  /\ ClipEnds(DeskRefused)
  /\ UNCHANGED <<desktop, sysWork, givenUp, knobs>>

DesktopNext ==
  \/ \E r \in SysRequests : SysAsk(r)
  \/ SysDelegates \/ SysStep \/ SysFails \/ SysTimesOut
  \/ UserActs \/ AbandonedActs \/ ProfileHeard
  \/ \E r \in ClipRequests : ClipAsk(r)
  \/ ClipTry \/ ToolActs \/ ClipDone \/ ClipFails
DesktopSpec == DesktopInit /\ [][DesktopNext]_desktopVars

-----------------------------------------------------------------------------
(* What the plugins promise.                                               *)

\* What the requests for an action asked for that were answered with a timeout
\* before reply i: their commands may still have their effect.
TimedOut(replies, i, action) ==
  {replies[j].r.arg : j \in {k \in DOMAIN replies :
     k < i /\ replies[k].r.action = action /\ replies[k].reply = DeskGivenUp}}

\* Within one raw step of a percentage.
Close(percent, arg) ==
  LET off == percent * Panel.max - arg * Panel.max IN
  2 * off <= 200 + Panel.max /\ -2 * off <= 200 + Panel.max

\* The profiles that may be shown for the daemon's: its own once every change
\* of it was heard, else the one known or any that is coming.
Showable(d) == IF d.coming = <<>> THEN {d.profile} ELSE {d.known} \cup Range(d.coming)

\* A setter that the user did not disturb reports the value it was asked for
\* (the brightness within one raw step), or one that an earlier request for the
\* same setting asked for and that was answered with a timeout; a toggled mute
\* is the opposite of what it was when the request began. The power profile may
\* also be one that was to be shown when the request began, so the one just
\* replaced, but never one that was known to be replaced then.
SettingsAreReported ==
  \A i \in DOMAIN deskReplies :
    LET m == deskReplies[i] late == TimedOut(deskReplies, i, m.r.action) IN
    m.reply.ok /\ m.alone =>
      CASE m.r.action = "sys_volume_set" -> m.reply.volume \in {m.r.arg} \cup late
        [] m.r.action = "sys_volume_mute" ->
             late = {} => m.reply.muted = (IF m.r.arg = "toggle" THEN ~m.before.muted ELSE m.r.arg = "on")
        [] m.r.action = "sys_brightness_set" -> \E arg \in {m.r.arg} \cup late : Close(m.reply.percent, arg)
        [] m.r.action = "sys_power_profile" -> m.reply.profile \in Showable(m.before)
        [] m.r.action = "sys_power_profile_set" -> m.reply.profile \in {m.r.arg} \cup Showable(m.before)
        [] OTHER -> TRUE

\* Where the plugin writes the panel's node itself, the panel never goes dark.
PanelStaysLit == \A panel \in desktop.panel : panel.writable /\ desktop.first.raw > 0 => device.raw > 0

\* A setting that was acknowledged stands until it is set again, by the user or
\* by a later request, or is replaced by what an earlier request for it asked
\* for that was answered with a timeout.
SettingOf(action) == CASE action = "sys_volume_set" -> "volume" [] action = "sys_volume_mute" -> "muted"
                       [] action = "sys_brightness_set" -> "raw" [] action = "sys_power_profile_set" -> "profile"
                       [] action = "sys_lock" -> "locked" [] action = "clipboard_write" -> "board"
                       [] OTHER -> "nothing"
\* What a command that was given up may bring its setting to.
Brings(action, arg) == CASE action = "sys_volume_set" -> {arg}
                         [] action = "sys_brightness_set" -> {(Panel.max * arg) \div 100}
                         [] OTHER -> BOOLEAN
BroughtLate(replies, i, action) == UNION {Brings(action, arg) : arg \in TimedOut(replies, i, action)}
SettingsStand ==
  knobs = 0 =>
    \A i \in DOMAIN deskReplies :
      LET action == deskReplies[i].r.action set == SettingOf(action) IN
      \/ ~deskReplies[i].reply.ok \/ set = "nothing"
      \/ \E j \in DOMAIN deskReplies : j > i /\ SettingOf(deskReplies[j].r.action) = set
      \/ \E work \in {sysWork, clipWork} : SettingOf(work.r.action) = set
      \/ device[set] \in {deskReplies[i].after[set]} \cup BroughtLate(deskReplies, i, action)

\* A request hands the text to one tool at most. A write that was acknowledged
\* put it on the clipboard, a read never returns more than the limit and, when
\* undisturbed, what the clipboard holds.
ClipboardIsTold ==
  /\ ~ClipIdle => Cardinality(clipWork.fed) <= 1
  /\ \A i \in DOMAIN deskReplies :
       LET m == deskReplies[i] IN
       m.reply.ok =>
         CASE m.r.action = "clipboard_write" -> m.alone => m.after.board = m.r.text
           [] m.r.action = "clipboard_read" ->
                /\ m.reply.text.size <= ClipMax /\ m.reply.found = (m.reply.text # EmptyText)
                /\ m.alone => m.reply.text = m.after.board
           [] OTHER -> TRUE

\* Settings are what the replies say, nobody is left in the dark, and the
\* clipboard has the text of its last writer.
DesktopTellsTheTruth == SettingsAreReported /\ PanelStaysLit /\ SettingsStand /\ ClipboardIsTold
=============================================================================
